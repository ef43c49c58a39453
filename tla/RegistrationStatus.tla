------------------------- MODULE RegistrationStatus -------------------------
(* The status of a registration and what AdminService.updateRegistrationStatus *)
(* makes of a row; and repository.save, by which its callers store rows.       *)

RegStatuses == {"pending", "shortlisted", "confirmed", "rejected", "attended"}

RegRow == [status : RegStatuses, acknowledged : BOOLEAN, expired : BOOLEAN,
           checkedIn : BOOLEAN, deleted : BOOLEAN]

(* A row as a registration leaves it. *)
NewReg == [status |-> "pending", acknowledged |-> FALSE, expired |-> FALSE,
           checkedIn |-> FALSE, deleted |-> FALSE]

(* AdminService.VALID_TRANSITIONS. *)
ValidTransitions ==
  [pending     |-> {"shortlisted", "confirmed", "rejected"},
   shortlisted |-> {"confirmed", "rejected"},
   confirmed   |-> {"attended", "shortlisted", "rejected"},
   rejected    |-> {"pending"},
   attended    |-> {}]

(* A deleted registration is not excluded. *)
MayBecome(row, s) == s \in ValidTransitions[row.status]

(* Shortlisting asks for a new acknowledgement, attending checks in. *)
WithStatus(row, s) ==
  [row EXCEPT !.status       = s,
              !.acknowledged = @ /\ s # "shortlisted",
              !.checkedIn    = @ \/ s = "attended"]

-----------------------------------------------------------------------------
(* repository.save(entity) of a loaded entity: a SELECT finds the columns in  *)
(* which the table now differs from the entity, an UPDATE then writes these.  *)
ChangedColumns(entity, row) == {f \in DOMAIN row : entity[f] # row[f]}

UpdateColumns(row, entity, columns) ==
  [f \in DOMAIN row |-> IF f \in columns THEN entity[f] ELSE row[f]]
=============================================================================
