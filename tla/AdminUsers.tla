----------------------------- MODULE AdminUsers -----------------------------
(***************************************************************************)
(* The accounts of the panel: the Users page of a browser, and createUser,  *)
(* updateUser and deleteUser of admin.service.ts behind it. An account is    *)
(* its id, which stands for its e-mail address too; of its columns only the  *)
(* role is kept, names and passwords being edits that leave it alone.        *)
(*                                                                          *)
(* The form sends the role along with every edit, as it was when the form    *)
(* was opened. A list the browser fetched earlier adds nothing to a form     *)
(* that was open for longer. The browsers are signed in with tokens that say *)
(* super_admin; a token keeps its role for its 24 hours, whatever becomes of *)
(* the account.                                                             *)
(***************************************************************************)
EXTENDS Naturals, FiniteSets

CONSTANTS
  Accounts,   \* ids of accounts
  Browsers,   \* browsers of signed-in super admins
  SignedIn    \* whose token a browser holds

AdminRoles == {"super_admin", "organizer"}   \* 'volunteer' is one more that is not super_admin

VARIABLES
  admins,     \* the table: the role of each account, "none" where there is no row
  userForm,   \* the dialog of each browser
  userReq     \* the request each browser waits for

usersVars == <<admins, userForm, userReq>>

NoForm == [open |-> FALSE]
NoUserReq == [pc |-> "idle"]
UserForms == [open : {TRUE}, id : Accounts \cup {"new"}, role : AdminRoles]
UserReqs ==
  [pc : {"load", "count", "save", "write", "insert", "delete", "done"},
   op : {"create", "update", "delete"}, id : Accounts, role : AdminRoles,
   ent : AdminRoles,      \* the role of the loaded entity
   wide : BOOLEAN,        \* the UPDATE writes the role too
   ok : BOOLEAN,          \* the answer
   stale : BOOLEAN]       \* history: another request wrote since this one loaded

UsersTypeOK ==
  /\ admins \in [Accounts -> AdminRoles \cup {"none"}]
  /\ userForm \in [Browsers -> UserForms \cup {NoForm}]
  /\ userReq \in [Browsers -> UserReqs \cup {NoUserReq}]

UsersInit ==
  /\ admins = [a \in Accounts |-> "super_admin"]
  /\ userForm = [b \in Browsers |-> NoForm]
  /\ userReq = [b \in Browsers |-> NoUserReq]

SuperAdmins == {a \in Accounts : admins[a] = "super_admin"}

-----------------------------------------------------------------------------
(* The page. *)

ShowForm(b, form) ==
  /\ userForm' = [userForm EXCEPT ![b] = form]
  /\ UNCHANGED <<admins, userReq>>

OpenEditUser(b, a) ==
  /\ admins[a] # "none"
  /\ ShowForm(b, [open |-> TRUE, id |-> a, role |-> admins[a]])

OpenCreateUser(b) == ShowForm(b, [open |-> TRUE, id |-> "new", role |-> "organizer"])

PickRole(b, role) == ShowForm(b, [userForm[b] EXCEPT !.role = role])

CloseUserForm(b) == ShowForm(b, NoForm)

SendUser(b, op, a, role) ==
  /\ userReq[b] = NoUserReq
  /\ userReq' = [userReq EXCEPT ![b] =
       [pc |-> "load", op |-> op, id |-> a, role |-> role, ent |-> role,
        wide |-> FALSE, ok |-> FALSE, stale |-> FALSE]]
  /\ UNCHANGED <<admins, userForm>>

(* The address typed for a new account may be one that is taken. *)
SubmitUser(b, a) ==
  /\ userForm[b].id \in {"new", a}
  /\ SendUser(b, IF userForm[b].id = "new" THEN "create" ELSE "update", a, userForm[b].role)

(* Answered with an error where somebody deletes their own account. *)
DeleteClicked(b, a) ==
  /\ admins[a] # "none" /\ a # SignedIn[b]
  /\ SendUser(b, "delete", a, "organizer")

(* "+ New user" and the buttons of each line; the dialog lies over them. *)
UsersTable(b) ==
  /\ ~userForm[b].open
  /\ OpenCreateUser(b) \/ \E a \in Accounts : OpenEditUser(b, a) \/ DeleteClicked(b, a)

UserDialog(b) ==
  /\ userForm[b].open
  /\ \/ \E role \in AdminRoles : PickRole(b, role)
     \/ \E a \in Accounts : SubmitUser(b, a)
     \/ CloseUserForm(b)

(* The answer: success closes the dialog that is open by now. *)
UserAnswer(b) ==
  /\ userReq[b].pc = "done"
  /\ userReq' = [userReq EXCEPT ![b] = NoUserReq]
  /\ userForm' = IF userReq[b].ok /\ userReq[b].op # "delete"
                 THEN [userForm EXCEPT ![b] = NoForm] ELSE userForm
  /\ UNCHANGED admins

-----------------------------------------------------------------------------
(* The handlers. *)

Proceed(b, q) ==
  /\ userReq' = [userReq EXCEPT ![b] = q]
  /\ UNCHANGED <<admins, userForm>>

(* What is left of a request once it is answered. *)
Answer(q, ok) ==
  [q EXCEPT !.pc = "done", !.ok = ok, !.role = "organizer", !.ent = "organizer",
            !.wide = FALSE, !.stale = FALSE]

(* A statement that changes the table: every other request is stale now. *)
WriteAdmins(b, table) ==
  /\ admins' = table
  /\ userReq' = [c \in Browsers |->
       IF c = b THEN Answer(userReq[b], TRUE)
       ELSE IF userReq[c].pc = "idle" \/ table = admins THEN userReq[c]
       ELSE [userReq[c] EXCEPT !.stale = TRUE]]
  /\ UNCHANGED userForm

(* The findOne each handler starts with. A role that stays needs no check, *)
(* and only a super admin is protected by one.                             *)
LoadUser(b) ==
  LET q == userReq[b]  role == admins[q.id]
      To(pc) == [q EXCEPT !.pc = pc, !.ent = IF role = "none" THEN @ ELSE role, !.stale = FALSE]
      refused == (q.op = "create") = (role # "none")      \* exists, or not found
      guarded == role = "super_admin" /\ (q.op = "delete" \/ q.role # role)
  IN /\ q.pc = "load"
     /\ \/ refused /\ Proceed(b, Answer(q, FALSE))
        \/ ~refused /\ q.op = "create" /\ Proceed(b, To("insert"))
        \/ ~refused /\ guarded /\ Proceed(b, To("count"))
        \/ ~refused /\ ~guarded /\ q.op = "delete" /\ Proceed(b, To("delete"))
        \/ ~refused /\ ~guarded /\ q.op = "update" /\ Proceed(b, [To("save") EXCEPT !.ent = q.role])

(* Mutant: whoever may demote is not asked how many there are. *)
MutCountSuperAdmins(b) ==
  LET q == userReq[b] IN
  /\ q.pc = "count"
  /\ Proceed(b, IF q.op = "delete" THEN [q EXCEPT !.pc = "delete"]
                ELSE [q EXCEPT !.pc = "save", !.ent = q.role])

(* assertNotLastSuperAdmin *)
CountSuperAdmins(b) ==
  LET q == userReq[b] IN
  /\ q.pc = "count"
  /\ Proceed(b, IF Cardinality(SuperAdmins) <= 1 THEN Answer(q, FALSE)
                ELSE IF q.op = "delete" THEN [q EXCEPT !.pc = "delete"]
                ELSE [q EXCEPT !.pc = "save", !.ent = q.role])

(* repository.save: a SELECT decides between INSERT and UPDATE, and which columns. *)
SaveUser(b) ==
  LET q == userReq[b] IN
  /\ q.pc = "save"
  /\ Proceed(b, IF admins[q.id] = "none" THEN [q EXCEPT !.pc = "insert"]
                ELSE [q EXCEPT !.pc = "write", !.wide = q.ent # admins[q.id]])

UpdateUser(b) ==
  LET q == userReq[b] IN
  /\ q.pc = "write"
  /\ WriteAdmins(b, IF q.wide /\ admins[q.id] # "none"
                    THEN [admins EXCEPT ![q.id] = q.ent] ELSE admins)

(* The keys are unique: a second row of the same account is refused. *)
InsertUser(b) ==
  LET q == userReq[b] IN
  /\ q.pc = "insert"
  /\ IF admins[q.id] = "none" THEN WriteAdmins(b, [admins EXCEPT ![q.id] = q.ent])
     ELSE Proceed(b, Answer(q, FALSE))

RemoveUser(b) ==
  /\ userReq[b].pc = "delete"
  /\ WriteAdmins(b, [admins EXCEPT ![userReq[b].id] = "none"])

UsersCrash(b) == userReq[b].pc \notin {"idle", "done"} /\ Proceed(b, Answer(userReq[b], FALSE))

UsersNext == \E b \in Browsers :
  \/ UsersTable(b) \/ UserDialog(b) \/ UserAnswer(b)
  \/ LoadUser(b) \/ CountSuperAdmins(b) \/ SaveUser(b) \/ UpdateUser(b) \/ InsertUser(b)
  \/ RemoveUser(b) \/ UsersCrash(b)

-----------------------------------------------------------------------------
(* The last super admin is demoted or deleted only by a request that acts on *)
(* what it read before another one wrote: the count and the change are two   *)
(* statements, and save() stores a role somebody else has changed. Requests  *)
(* that do not overlap always leave a super admin.                          *)
LastSuperAdminLostByOverlapOnly ==
  [][SuperAdmins # {} /\ SuperAdmins' = {} =>
       \E b \in Browsers : /\ userReq[b].pc \in {"write", "insert", "delete"}
                           /\ userReq'[b].pc = "done"
                           /\ userReq[b].stale]_usersVars
=============================================================================
