----------------------------- MODULE PanelProofs -----------------------------
(* Proofs about the admin panel and what it sends: accounts, e-mail          *)
(* templates, the reminder of an online event and the mailings to a list of  *)
(* registrations, for any number of browsers, servers and registrations.    *)
EXTENDS AdminUsers, EmailTemplates, OnlineReminder, AdminMailings, FiniteSetTheorems, TLAPS

-----------------------------------------------------------------------------
(* The accounts. *)

(* A super admin is left if this account is no longer one. *)
Spared(a) == admins[a] # "super_admin" \/ \E b \in Accounts \ {a} : admins[b] = "super_admin"

(* What a request that nobody has overtaken is about to do spares a super    *)
(* admin.                                                                    *)
Considered(q) ==
  q.pc # "idle" /\ ~q.stale =>
    /\ q.pc = "delete" => Spared(q.id)
    /\ q.pc \in {"save", "write"} => q.ent = "super_admin" \/ Spared(q.id)

UsersInv == UsersTypeOK /\ \A b \in Browsers : Considered(userReq[b])

LEMMA ActiveUserReq ==
  ASSUME UsersTypeOK, NEW b \in Browsers, userReq[b].pc # "idle"
  PROVE  userReq[b] \in UserReqs
  BY DEF UsersTypeOK, NoUserReq

LEMMA OpenUserForm ==
  ASSUME UsersTypeOK, NEW b \in Browsers, userForm[b].open
  PROVE  userForm[b] \in UserForms
  BY DEF UsersTypeOK, NoForm

LEMMA AnswerType ==
  ASSUME NEW q \in UserReqs, NEW ok \in BOOLEAN
  PROVE  Answer(q, ok) \in UserReqs /\ Answer(q, ok).pc = "done"
  BY DEF UserReqs, Answer, AdminRoles

(* Whoever is not the only super admin can be spared. *)
LEMMA CountSpares ==
  ASSUME NEW a \in Accounts, ~(Cardinality(SuperAdmins) <= 1)
  PROVE  Spared(a)
<1>1. CASE SuperAdmins = {a}
  <2>1. Cardinality(SuperAdmins) = 1  BY <1>1, FS_Singleton
  <2> QED  BY <2>1
<1>2. CASE SuperAdmins # {a} /\ admins[a] = "super_admin"
  <2>1. a \in SuperAdmins  BY <1>2 DEF SuperAdmins
  <2>2. PICK b \in SuperAdmins : b # a  BY <1>2, <2>1
  <2> QED  BY <2>2 DEF SuperAdmins, Spared
<1> QED  BY <1>1, <1>2 DEF Spared

(* A step of one request that leaves the table alone. *)
LEMMA ProceedKeeps ==
  ASSUME UsersInv, NEW b \in Browsers, NEW q \in UserReqs, Considered(q), Proceed(b, q)
  PROVE  UsersInv' /\ admins' = admins
<1>1. UsersTypeOK'  BY DEF UsersInv, UsersTypeOK, Proceed
<1>2. ASSUME NEW c \in Browsers PROVE Considered(userReq[c])'
  <2>1. Considered(userReq[c]) /\ Considered(q)  BY DEF UsersInv
  <2>2. userReq'[c] = IF c = b THEN q ELSE userReq[c]
    BY DEF UsersInv, UsersTypeOK, Proceed
  <2> QED  BY <2>1, <2>2 DEF Considered, Spared, Proceed
<1> QED  BY <1>1, <1>2 DEF UsersInv, Proceed

(* A statement that changes the table overtakes every other request. *)
LEMMA WriteKeeps ==
  ASSUME UsersInv, NEW b \in Browsers, userReq[b].pc # "idle",
         NEW table \in [Accounts -> AdminRoles \cup {"none"}], WriteAdmins(b, table)
  PROVE  UsersInv'
<1>1. userReq[b] \in UserReqs  BY ActiveUserReq DEF UsersInv
<1>2. Answer(userReq[b], TRUE) \in UserReqs /\ Answer(userReq[b], TRUE).pc = "done"
  BY <1>1, AnswerType
<1>3. ASSUME NEW c \in Browsers
      PROVE  userReq'[c] \in UserReqs \cup {NoUserReq} /\ Considered(userReq[c])'
  <2>1. userReq[c] \in UserReqs \cup {NoUserReq} /\ Considered(userReq[c])
    BY DEF UsersInv, UsersTypeOK
  <2>2. CASE c = b
    <3>1. userReq'[c] = Answer(userReq[b], TRUE)  BY <2>2 DEF WriteAdmins
    <3> QED  BY <1>2, <3>1 DEF Considered
  <2>3. CASE c # b /\ (userReq[c].pc = "idle" \/ table = admins)
    <3>1. userReq'[c] = userReq[c]  BY <2>3 DEF WriteAdmins
    <3> QED  BY <2>1, <2>3, <3>1 DEF Considered, Spared, WriteAdmins
  <2>4. CASE c # b /\ userReq[c].pc # "idle" /\ table # admins
    <3>1. userReq[c] \in UserReqs  BY <2>4, ActiveUserReq DEF UsersInv
    <3>2. userReq'[c] = [userReq[c] EXCEPT !.stale = TRUE]  BY <2>4 DEF WriteAdmins
    <3>3. userReq'[c] \in UserReqs /\ userReq'[c].stale  BY <3>1, <3>2 DEF UserReqs
    <3> QED  BY <3>3 DEF Considered
  <2> QED  BY <2>2, <2>3, <2>4
<1>4. UsersTypeOK'
  <2>1. userReq' \in [Browsers -> UserReqs \cup {NoUserReq}]
    <3>1. userReq' = [c \in Browsers |-> userReq'[c]]  BY DEF WriteAdmins
    <3> QED  BY <1>3, <3>1
  <2> QED  BY <2>1 DEF UsersInv, UsersTypeOK, WriteAdmins
<1> QED  BY <1>3, <1>4 DEF UsersInv

(* The page: what is shown and what is sent. *)
LEMMA ShowFormKeeps ==
  ASSUME UsersInv, NEW b \in Browsers, NEW form \in UserForms \cup {NoForm}, ShowForm(b, form)
  PROVE  UsersInv' /\ admins' = admins
BY DEF UsersInv, UsersTypeOK, ShowForm, Considered, Spared

LEMMA SendUserKeeps ==
  ASSUME UsersInv, NEW b \in Browsers, NEW op \in {"create", "update", "delete"},
         NEW a \in Accounts, NEW role \in AdminRoles, SendUser(b, op, a, role)
  PROVE  UsersInv' /\ admins' = admins
<1> DEFINE q == [pc |-> "load", op |-> op, id |-> a, role |-> role, ent |-> role,
                 wide |-> FALSE, ok |-> FALSE, stale |-> FALSE]
<1>1. q \in UserReqs  BY DEF UserReqs
<1>2. Considered(q)  BY DEF Considered
<1>3. Proceed(b, q)  BY DEF SendUser, Proceed
<1> QED  BY <1>1, <1>2, <1>3, ProceedKeeps

LEMMA PageKeeps ==
  ASSUME UsersInv, NEW b \in Browsers, UsersTable(b) \/ UserDialog(b) \/ UserAnswer(b)
  PROVE  UsersInv' /\ admins' = admins
<1>1. ASSUME UsersTable(b) PROVE UsersInv' /\ admins' = admins
  <2>1. CASE OpenCreateUser(b)
    <3>1. [open |-> TRUE, id |-> "new", role |-> "organizer"] \in UserForms
      BY DEF UserForms, AdminRoles
    <3> QED  BY <2>1, <3>1, ShowFormKeeps DEF OpenCreateUser
  <2>2. ASSUME NEW a \in Accounts, OpenEditUser(b, a) PROVE UsersInv' /\ admins' = admins
    <3>1. [open |-> TRUE, id |-> a, role |-> admins[a]] \in UserForms
      BY <2>2 DEF UserForms, OpenEditUser, UsersInv, UsersTypeOK
    <3> QED  BY <2>2, <3>1, ShowFormKeeps DEF OpenEditUser
  <2>3. ASSUME NEW a \in Accounts, DeleteClicked(b, a) PROVE UsersInv' /\ admins' = admins
    BY <2>3, SendUserKeeps DEF DeleteClicked, AdminRoles
  <2> QED  BY <1>1, <2>1, <2>2, <2>3 DEF UsersTable
<1>2. ASSUME UserDialog(b) PROVE UsersInv' /\ admins' = admins
  <2>1. userForm[b] \in UserForms  BY <1>2, OpenUserForm DEF UserDialog, UsersInv
  <2>2. ASSUME NEW role \in AdminRoles, PickRole(b, role) PROVE UsersInv' /\ admins' = admins
    <3>1. [userForm[b] EXCEPT !.role = role] \in UserForms  BY <2>1 DEF UserForms
    <3> QED  BY <2>2, <3>1, ShowFormKeeps DEF PickRole
  <2>3. ASSUME NEW a \in Accounts, SubmitUser(b, a) PROVE UsersInv' /\ admins' = admins
    <3>1. userForm[b].role \in AdminRoles  BY <2>1 DEF UserForms
    <3> QED  BY <2>3, <3>1, SendUserKeeps DEF SubmitUser
  <2>4. CASE CloseUserForm(b)  BY <2>4, ShowFormKeeps DEF CloseUserForm
  <2> QED  BY <1>2, <2>2, <2>3, <2>4 DEF UserDialog
<1>3. ASSUME UserAnswer(b) PROVE UsersInv' /\ admins' = admins
  <2>1. UsersTypeOK'  BY <1>3 DEF UsersInv, UsersTypeOK, UserAnswer
  <2>2. ASSUME NEW c \in Browsers PROVE Considered(userReq[c])'
    <3>1. userReq'[c] = userReq[c] \/ userReq'[c].pc = "idle"
      BY <1>3 DEF UserAnswer, UsersInv, UsersTypeOK, NoUserReq
    <3> QED  BY <1>3, <3>1 DEF UsersInv, Considered, Spared, UserAnswer
  <2> QED  BY <1>3, <2>1, <2>2 DEF UsersInv, UserAnswer
<1> QED  BY <1>1, <1>2, <1>3

(* The handlers up to their statement: what they go on to do is considered. *)
LEMMA LoadKeeps ==
  ASSUME UsersInv, NEW b \in Browsers, LoadUser(b)
  PROVE  UsersInv' /\ admins' = admins
<1> DEFINE q == userReq[b]
           role == admins[q.id]
           To(pc) == [q EXCEPT !.pc = pc, !.ent = IF role = "none" THEN @ ELSE role, !.stale = FALSE]
<1>1. q \in UserReqs  BY ActiveUserReq DEF LoadUser, UsersInv
<1>2. role \in AdminRoles \cup {"none"}  BY <1>1 DEF UsersInv, UsersTypeOK, UserReqs
<1>3. ASSUME NEW pc \in {"insert", "count", "delete", "save"}
      PROVE  /\ To(pc) \in UserReqs /\ To(pc).pc = pc /\ To(pc).id = q.id
             /\ To(pc).ent = IF role = "none" THEN q.ent ELSE role
  BY <1>1, <1>2 DEF UserReqs
<1>4. CASE Proceed(b, Answer(q, FALSE))
  <2>1. Answer(q, FALSE) \in UserReqs /\ Considered(Answer(q, FALSE))
    BY <1>1, AnswerType DEF Considered
  <2> QED  BY <1>4, <2>1, ProceedKeeps
<1>5. ASSUME NEW pc \in {"insert", "count"}, Proceed(b, To(pc)) PROVE UsersInv' /\ admins' = admins
  <2> HIDE DEF To
  <2>1. Considered(To(pc))  BY <1>3 DEF Considered
  <2> QED  BY <1>3, <1>5, <2>1, ProceedKeeps
<1>6. CASE role # "super_admin" /\ Proceed(b, To("delete"))
  <2>1. Spared(q.id)  BY <1>6 DEF Spared
  <2> HIDE DEF To
  <2>2. Considered(To("delete"))  BY <1>3, <2>1 DEF Considered
  <2> QED  BY <1>3, <1>6, <2>2, ProceedKeeps
<1>7. CASE /\ role # "super_admin" \/ q.role = role
           /\ Proceed(b, [To("save") EXCEPT !.ent = q.role])
  <2> DEFINE next == [To("save") EXCEPT !.ent = q.role]
  <2>1. q.role = "super_admin" \/ Spared(q.id)  BY <1>7 DEF Spared
  <2>2. q.role \in AdminRoles  BY <1>1 DEF UserReqs
  <2> HIDE DEF To
  <2>3. next \in UserReqs /\ next.pc = "save" /\ next.id = q.id /\ next.ent = q.role
    BY <1>3, <2>2 DEF UserReqs
  <2> HIDE DEF next
  <2>4. Considered(next)  BY <2>1, <2>3 DEF Considered
  <2> QED  BY <1>7, <2>3, <2>4, ProceedKeeps DEF next
<1>8. \/ Proceed(b, Answer(q, FALSE))
      \/ \E pc \in {"insert", "count"} : Proceed(b, To(pc))
      \/ role # "super_admin" /\ Proceed(b, To("delete"))
      \/ /\ role # "super_admin" \/ q.role = role
         /\ Proceed(b, [To("save") EXCEPT !.ent = q.role])
  <2> HIDE DEF To
  <2> QED  BY DEF LoadUser, To
<1> QED  BY <1>4, <1>5, <1>6, <1>7, <1>8

LEMMA CountKeeps ==
  ASSUME UsersInv, NEW b \in Browsers, CountSuperAdmins(b)
  PROVE  UsersInv' /\ admins' = admins
<1> DEFINE q == userReq[b]
<1>1. q \in UserReqs  BY ActiveUserReq DEF CountSuperAdmins, UsersInv
<1>2. CASE Cardinality(SuperAdmins) <= 1
  <2>1. Answer(q, FALSE) \in UserReqs /\ Considered(Answer(q, FALSE))
    BY <1>1, AnswerType DEF Considered
  <2> QED  BY <1>2, <2>1, ProceedKeeps DEF CountSuperAdmins
<1>3. CASE ~(Cardinality(SuperAdmins) <= 1)
  <2>1. Spared(q.id)  BY <1>1, <1>3, CountSpares DEF UserReqs
  <2>2. [q EXCEPT !.pc = "delete"] \in UserReqs /\ Considered([q EXCEPT !.pc = "delete"])
    BY <1>1, <2>1 DEF UserReqs, Considered
  <2>3. /\ [q EXCEPT !.pc = "save", !.ent = q.role] \in UserReqs
        /\ Considered([q EXCEPT !.pc = "save", !.ent = q.role])
    BY <1>1, <2>1 DEF UserReqs, Considered
  <2> QED  BY <1>3, <2>2, <2>3, ProceedKeeps DEF CountSuperAdmins
<1> QED  BY <1>2, <1>3

LEMMA SaveKeeps ==
  ASSUME UsersInv, NEW b \in Browsers, SaveUser(b)
  PROVE  UsersInv' /\ admins' = admins
<1> DEFINE q == userReq[b]
<1>1. q \in UserReqs /\ q.pc = "save"  BY ActiveUserReq DEF SaveUser, UsersInv
<1>2. Considered(q)  BY DEF UsersInv
<1>3. [q EXCEPT !.pc = "insert"] \in UserReqs /\ Considered([q EXCEPT !.pc = "insert"])
  BY <1>1 DEF UserReqs, Considered
<1>4. ASSUME NEW wide \in BOOLEAN
      PROVE  /\ [q EXCEPT !.pc = "write", !.wide = wide] \in UserReqs
             /\ Considered([q EXCEPT !.pc = "write", !.wide = wide])
  BY <1>1, <1>2 DEF UserReqs, Considered
<1>5. (q.ent # admins[q.id]) \in BOOLEAN  OBVIOUS
<1> QED  BY <1>3, <1>4, <1>5, ProceedKeeps DEF SaveUser

(* The statements, and what they leave of the super admins. *)
LEMMA InsertKeeps ==
  ASSUME UsersInv, NEW b \in Browsers, InsertUser(b)
  PROVE  UsersInv' /\ SuperAdmins \subseteq SuperAdmins'
<1> DEFINE q == userReq[b]
<1>1. q \in UserReqs /\ q.pc = "insert"  BY ActiveUserReq DEF InsertUser, UsersInv
<1>2. CASE admins[q.id] = "none"
  <2> DEFINE table == [admins EXCEPT ![q.id] = q.ent]
  <2>1. table \in [Accounts -> AdminRoles \cup {"none"}]
    BY <1>1 DEF UsersInv, UsersTypeOK, UserReqs
  <2>2. WriteAdmins(b, table)  BY <1>2 DEF InsertUser
  <2>3. SuperAdmins \subseteq SuperAdmins'
    BY <1>2, <2>2 DEF WriteAdmins, SuperAdmins, UsersInv, UsersTypeOK
  <2> QED  BY <1>1, <2>1, <2>2, <2>3, WriteKeeps
<1>3. CASE admins[q.id] # "none"
  <2>1. Answer(q, FALSE) \in UserReqs /\ Considered(Answer(q, FALSE))
    BY <1>1, AnswerType DEF Considered
  <2>2. Proceed(b, Answer(q, FALSE))  BY <1>3 DEF InsertUser
  <2>3. UsersInv' /\ admins' = admins  BY <2>1, <2>2, ProceedKeeps
  <2> QED  BY <2>3 DEF SuperAdmins
<1> QED  BY <1>2, <1>3

LEMMA ChangeKeeps ==
  ASSUME UsersInv, NEW b \in Browsers, UpdateUser(b) \/ RemoveUser(b)
  PROVE  /\ UsersInv'
         /\ userReq'[b].pc = "done" /\ userReq[b].pc \in {"write", "delete"}
         /\ ~userReq[b].stale /\ SuperAdmins # {} => SuperAdmins' # {}
<1> DEFINE q == userReq[b]
<1>1. q \in UserReqs /\ q.pc \in {"write", "delete"}
  BY ActiveUserReq DEF UpdateUser, RemoveUser, UsersInv
<1>2. PICK role \in AdminRoles \cup {"none"} :
        LET table == [admins EXCEPT ![q.id] = role] IN
        /\ WriteAdmins(b, table)
        /\ role \in {admins[q.id], q.ent} \/ q.pc = "delete"
  <2>1. CASE UpdateUser(b) /\ q.wide /\ admins[q.id] # "none"
    BY <1>1, <2>1 DEF UpdateUser, UserReqs
  <2>2. CASE UpdateUser(b) /\ ~(q.wide /\ admins[q.id] # "none")
    <3>1. admins = [admins EXCEPT ![q.id] = admins[q.id]]  BY DEF UsersInv, UsersTypeOK
    <3>2. admins[q.id] \in AdminRoles \cup {"none"}
      BY <1>1 DEF UsersInv, UsersTypeOK, UserReqs
    <3>3. WriteAdmins(b, admins)  BY <2>2 DEF UpdateUser
    <3> QED  BY <3>1, <3>2, <3>3
  <2>3. CASE RemoveUser(b)  BY <2>3 DEF RemoveUser
  <2> QED  BY <2>1, <2>2, <2>3
<1> DEFINE table == [admins EXCEPT ![q.id] = role]
<1>3. table \in [Accounts -> AdminRoles \cup {"none"}]
  BY <1>1 DEF UsersInv, UsersTypeOK, UserReqs
<1>4. UsersInv'  BY <1>1, <1>2, <1>3, WriteKeeps
<1>5. userReq'[b].pc = "done"
  <2>1. userReq'[b] = Answer(q, TRUE)  BY <1>2 DEF WriteAdmins
  <2> QED  BY <1>1, <2>1, AnswerType
<1>6. ASSUME ~q.stale, SuperAdmins # {} PROVE SuperAdmins' # {}
  <2>1. /\ q.pc = "delete" => Spared(q.id)
        /\ q.pc = "write" => q.ent = "super_admin" \/ Spared(q.id)
    BY <1>1, <1>6 DEF UsersInv, Considered
  <2>2. admins' = table /\ q.id \in Accounts  BY <1>1, <1>2 DEF WriteAdmins, UserReqs
  <2>3. ASSUME NEW a \in Accounts \ {q.id}, admins[a] = "super_admin" PROVE SuperAdmins' # {}
    BY <2>2, <2>3 DEF SuperAdmins, UsersInv, UsersTypeOK
  <2>4. CASE role = "super_admin"
    BY <2>2, <2>4 DEF SuperAdmins, UsersInv, UsersTypeOK
  <2>5. CASE Spared(q.id) /\ admins[q.id] = "super_admin"  BY <2>3, <2>5 DEF Spared
  <2>6. CASE admins[q.id] # "super_admin"
    <3>1. PICK a \in Accounts : admins[a] = "super_admin"  BY <1>6 DEF SuperAdmins
    <3> QED  BY <2>3, <2>6, <3>1
  <2> QED  BY <1>1, <1>2, <2>1, <2>4, <2>5, <2>6
<1> QED  BY <1>1, <1>4, <1>5, <1>6

LEMMA CrashKeeps ==
  ASSUME UsersInv, NEW b \in Browsers, UsersCrash(b)
  PROVE  UsersInv' /\ admins' = admins
<1>1. userReq[b] \in UserReqs  BY ActiveUserReq DEF UsersCrash, UsersInv
<1>2. /\ Answer(userReq[b], FALSE) \in UserReqs
      /\ Considered(Answer(userReq[b], FALSE))
  BY <1>1, AnswerType DEF Considered
<1> QED  BY <1>2, ProceedKeeps DEF UsersCrash

LEMMA UsersStart == UsersInit => UsersInv
BY DEF UsersInit, UsersInv, UsersTypeOK, Considered, NoUserReq, AdminRoles

(* A step keeps the invariant, and takes the last super admin away only as   *)
(* the property says.                                                       *)
LEMMA UsersStep ==
  ASSUME UsersInv, [UsersNext]_usersVars
  PROVE  /\ UsersInv'
         /\ SuperAdmins # {} /\ SuperAdmins' = {} =>
              \E b \in Browsers : /\ userReq[b].pc \in {"write", "insert", "delete"}
                                  /\ userReq'[b].pc = "done"
                                  /\ userReq[b].stale
<1> DEFINE Goal == /\ UsersInv'
                   /\ SuperAdmins # {} /\ SuperAdmins' = {} =>
                        \E b \in Browsers : /\ userReq[b].pc \in {"write", "insert", "delete"}
                                            /\ userReq'[b].pc = "done"
                                            /\ userReq[b].stale
<1>1. CASE UNCHANGED usersVars
  BY <1>1 DEF usersVars, UsersInv, UsersTypeOK, Considered, Spared, SuperAdmins
<1>2. ASSUME UsersInv' /\ admins' = admins PROVE Goal
  BY <1>2 DEF SuperAdmins
<1>3. ASSUME NEW b \in Browsers, UsersTable(b) \/ UserDialog(b) \/ UserAnswer(b) PROVE Goal
  BY <1>2, <1>3, PageKeeps
<1>4. ASSUME NEW b \in Browsers, LoadUser(b) PROVE Goal  BY <1>2, <1>4, LoadKeeps
<1>5. ASSUME NEW b \in Browsers, CountSuperAdmins(b) PROVE Goal  BY <1>2, <1>5, CountKeeps
<1>6. ASSUME NEW b \in Browsers, SaveUser(b) PROVE Goal  BY <1>2, <1>6, SaveKeeps
<1>7. ASSUME NEW b \in Browsers, InsertUser(b) PROVE Goal  BY <1>7, InsertKeeps
<1>8. ASSUME NEW b \in Browsers, UpdateUser(b) \/ RemoveUser(b) PROVE Goal
  BY <1>8, ChangeKeeps
<1>9. ASSUME NEW b \in Browsers, UsersCrash(b) PROVE Goal  BY <1>2, <1>9, CrashKeeps
<1> QED  BY <1>1, <1>3, <1>4, <1>5, <1>6, <1>7, <1>8, <1>9 DEF UsersNext

(* The Users page and its handlers (admin.service.ts, createUser, updateUser *)
(* and deleteUser) take the last super admin away only where a request acts  *)
(* on what it read before another one wrote, with any number of accounts and *)
(* of browsers.                                                             *)
THEOREM LastSuperAdmin ==
  UsersInit /\ [][UsersNext]_usersVars => []UsersTypeOK /\ LastSuperAdminLostByOverlapOnly
<1>1. UsersInv /\ [UsersNext]_usersVars =>
        /\ UsersInv'
        /\ SuperAdmins # {} /\ SuperAdmins' = {} =>
             \E b \in Browsers : /\ userReq[b].pc \in {"write", "insert", "delete"}
                                 /\ userReq'[b].pc = "done"
                                 /\ userReq[b].stale
  BY UsersStep
<1>2. UsersInv => UsersTypeOK  BY DEF UsersInv
<1> QED  BY <1>1, <1>2, UsersStart, PTL DEF LastSuperAdminLostByOverlapOnly

-----------------------------------------------------------------------------
(* The e-mail templates. *)

Fields == {"theme", "copy"}

(* An edit in flight has room for its text. *)
EditFits == tplEdit.pc = "write" => stored[tplEdit.field] < MaxEdits

(* No server has confirmed what is not stored. *)
StoredIsNewest == \A s \in Servers, field \in Fields : stored[field] >= answered[s][field]

(* What a load has read is as new as what its server has confirmed, unless   *)
(* an edit ended there meanwhile.                                            *)
LoadsReadNewest ==
  \A r \in Renders :
    render[r].pc = "read" /\ ~render[r].overlapped =>
      \A field \in Fields \ render[r].todo :
        render[r].config[field] >= answered[render[r].server][field]

TemplatesInv ==
  TemplatesTypeOK /\ EditFits /\ StoredIsNewest /\ LoadsReadNewest /\ ConfirmedEditsShow

LEMMA ActiveLoad ==
  ASSUME TemplatesTypeOK, NEW r \in Renders, render[r].pc = "read" \/ render[r] # NoLoad
  PROVE  render[r] \in Loads
  BY DEF TemplatesTypeOK, NoLoad

LEMMA ActiveEdit ==
  ASSUME TemplatesTypeOK, tplEdit.pc # "idle" \/ tplEdit # NoEdit
  PROVE  tplEdit \in Edits
  BY DEF TemplatesTypeOK, NoEdit

LEMMA KeptCache ==
  ASSUME TemplatesTypeOK, NEW s \in Servers, tplCache[s].kept
  PROVE  tplCache[s] \in Caches
  BY DEF TemplatesTypeOK, NoCache

LEMMA BuiltInWording == BuiltIn \in Wording
  BY TemplatesAssumption DEF BuiltIn, Wording, Texts

LEMMA TemplatesStart == TemplatesInit => TemplatesInv
<1> SUFFICES ASSUME TemplatesInit PROVE TemplatesInv  OBVIOUS
<1>1. TemplatesTypeOK
  BY BuiltInWording, TemplatesAssumption DEF TemplatesInit, TemplatesTypeOK, Texts
<1>2. StoredIsNewest  BY DEF TemplatesInit, StoredIsNewest, Fields, BuiltIn
<1>3. EditFits /\ LoadsReadNewest /\ ConfirmedEditsShow
  BY DEF TemplatesInit, EditFits, LoadsReadNewest, ConfirmedEditsShow, NoEdit, NoLoad, NoCache
<1> QED  BY <1>1, <1>2, <1>3 DEF TemplatesInv

LEMMA BeginLoadKeeps ==
  ASSUME TemplatesInv, NEW r \in Renders, NEW s \in Servers, BeginLoad(r, s)
  PROVE  TemplatesInv'
<1> USE DEF TemplatesInv, BeginLoad
<1>1. TemplatesTypeOK'  BY BuiltInWording DEF TemplatesTypeOK, Loads
<1>2. EditFits' /\ StoredIsNewest' /\ ConfirmedEditsShow'
  BY DEF EditFits, StoredIsNewest, ConfirmedEditsShow
<1>3. LoadsReadNewest'  BY DEF LoadsReadNewest, TemplatesTypeOK, Fields
<1> QED  BY <1>1, <1>2, <1>3

LEMMA ReadFieldKeeps ==
  ASSUME TemplatesInv, NEW r \in Renders, NEW field \in Fields, ReadField(r, field)
  PROVE  TemplatesInv'
<1> USE DEF TemplatesInv
<1>1. render[r] \in Loads  BY ActiveLoad DEF ReadField
<1>2. render' = [render EXCEPT ![r] =
                   [render[r] EXCEPT !.config = [render[r].config EXCEPT ![field] = stored[field]],
                                     !.todo = render[r].todo \ {field}]]
  BY <1>1 DEF ReadField, TemplatesTypeOK, Loads, Wording
<1>3. /\ render'[r] \in Loads /\ render'[r].todo = render[r].todo \ {field}
      /\ render'[r].server = render[r].server /\ render'[r].overlapped = render[r].overlapped
      /\ \A f \in Fields : render'[r].config[f] = IF f = field THEN stored[f] ELSE render[r].config[f]
  BY <1>1, <1>2 DEF TemplatesTypeOK, Loads, Wording, Fields
<1>4. UNCHANGED <<stored, tplCache, tplEdit, editor, answered>>  BY DEF ReadField
<1>5. TemplatesTypeOK'  BY <1>2, <1>3, <1>4 DEF TemplatesTypeOK
<1>6. EditFits' /\ StoredIsNewest' /\ ConfirmedEditsShow'
  BY <1>4 DEF EditFits, StoredIsNewest, ConfirmedEditsShow
<1>7. ASSUME NEW x \in Renders, (render[x].pc = "read" /\ ~render[x].overlapped)',
             NEW f \in Fields \ render'[x].todo
      PROVE  render'[x].config[f] >= answered'[render'[x].server][f]
  <2>1. CASE x = r /\ f = field
    BY <1>1, <1>3, <1>4, <2>1 DEF StoredIsNewest, Loads
  <2>2. CASE x = r /\ f # field
    BY <1>1, <1>3, <1>4, <1>7, <2>2 DEF LoadsReadNewest, Loads
  <2>3. CASE x # r
    <3>1. render'[x] = render[x]  BY <1>2, <2>3
    <3> QED  BY <1>4, <1>7, <3>1 DEF LoadsReadNewest
  <2> QED  BY <2>1, <2>2, <2>3
<1>8. LoadsReadNewest'  BY <1>7 DEF LoadsReadNewest
<1> QED  BY <1>5, <1>6, <1>8

LEMMA StoreCacheKeeps ==
  ASSUME TemplatesInv, NEW r \in Renders, render[r] \in Loads,
         NEW config \in Wording, NEW failed \in BOOLEAN, StoreCache(r, config, failed),
         \/ failed \/ render[r].overlapped
         \/ \A field \in Fields : config[field] >= answered[render[r].server][field]
  PROVE  TemplatesInv'
<1> USE DEF TemplatesInv, StoreCache
<1>1. TemplatesTypeOK'  BY DEF TemplatesTypeOK, Loads, Caches
<1>2. EditFits' /\ StoredIsNewest'  BY DEF EditFits, StoredIsNewest
<1>3. LoadsReadNewest'  BY DEF LoadsReadNewest, TemplatesTypeOK, NoLoad
<1>4. ConfirmedEditsShow'  BY DEF ConfirmedEditsShow, TemplatesTypeOK, Loads, Fields
<1> QED  BY <1>1, <1>2, <1>3, <1>4

LEMMA EndsKeep ==
  ASSUME TemplatesInv, NEW r \in Renders, EndLoad(r) \/ FailLoad(r)
  PROVE  TemplatesInv'
<1>1. render[r] \in Loads  BY ActiveLoad DEF EndLoad, FailLoad, TemplatesInv
<1>2. CASE EndLoad(r)
  BY <1>1, <1>2, StoreCacheKeeps DEF EndLoad, Loads, TemplatesInv, LoadsReadNewest
<1>3. CASE FailLoad(r)  BY <1>1, <1>3, StoreCacheKeeps, BuiltInWording DEF FailLoad
<1> QED  BY <1>2, <1>3

LEMMA CacheAgesKeeps ==
  ASSUME TemplatesInv, NEW s \in Servers, CacheAges(s)
  PROVE  TemplatesInv'
<1> USE DEF TemplatesInv, CacheAges
<1>1. tplCache[s] \in Caches  BY KeptCache
<1>2. TemplatesTypeOK'  BY <1>1 DEF TemplatesTypeOK, Caches
<1>3. EditFits' /\ StoredIsNewest' /\ LoadsReadNewest'
  BY DEF EditFits, StoredIsNewest, LoadsReadNewest
<1>4. ConfirmedEditsShow'  BY <1>1 DEF ConfirmedEditsShow, TemplatesTypeOK, Caches
<1> QED  BY <1>2, <1>3, <1>4

LEMMA RestartKeeps ==
  ASSUME TemplatesInv, NEW s \in Servers, Restart(s)
  PROVE  TemplatesInv'
<1> USE DEF TemplatesInv, Restart
<1>1. TemplatesTypeOK'  BY DEF TemplatesTypeOK
<1>2. EditFits' /\ StoredIsNewest'  BY DEF EditFits, StoredIsNewest, NoEdit
<1>3. LoadsReadNewest'  BY DEF LoadsReadNewest, NoLoad
<1>4. ConfirmedEditsShow'  BY DEF ConfirmedEditsShow, TemplatesTypeOK, NoCache
<1> QED  BY <1>1, <1>2, <1>3, <1>4

LEMMA WriteEditKeeps ==
  ASSUME TemplatesInv, WriteEdit
  PROVE  TemplatesInv'
<1> USE DEF TemplatesInv, WriteEdit
<1>1. tplEdit \in Edits /\ tplEdit.field \in Fields  BY ActiveEdit DEF Edits, Fields
<1>2. stored \in Wording /\ stored[tplEdit.field] \in 0..MaxEdits /\ stored[tplEdit.field] < MaxEdits
  BY <1>1 DEF TemplatesTypeOK, EditFits, Wording, Texts, Fields
<1>3. stored' \in Wording /\ \A field \in Fields : stored'[field] >= stored[field]
  BY <1>1, <1>2, TemplatesAssumption DEF Wording, Texts, Fields
<1>4. TemplatesTypeOK'  BY <1>1, <1>3 DEF TemplatesTypeOK, Edits
<1>5. EditFits' /\ LoadsReadNewest' /\ ConfirmedEditsShow'
  BY <1>1 DEF EditFits, LoadsReadNewest, ConfirmedEditsShow, Edits
<1>6. StoredIsNewest'
  <2> SUFFICES ASSUME NEW s \in Servers, NEW field \in Fields
               PROVE  stored'[field] >= answered'[s][field]
    BY DEF StoredIsNewest
  <2>1. /\ stored[field] \in Nat /\ stored'[field] \in Nat /\ answered[s][field] \in Nat
        /\ stored[field] >= answered[s][field] /\ stored'[field] >= stored[field]
    BY <1>3, TemplatesAssumption DEF TemplatesTypeOK, StoredIsNewest, Wording, Texts, Fields
  <2> QED  BY <2>1
<1> QED  BY <1>4, <1>5, <1>6

LEMMA ForgetKeeps ==
  ASSUME TemplatesInv, Forget
  PROVE  TemplatesInv'
<1> DEFINE s == tplEdit.server
           f == tplEdit.field
<1> USE DEF TemplatesInv
<1>1. tplEdit \in Edits /\ f \in Fields /\ s \in Servers  BY ActiveEdit DEF Forget, Edits, Fields
<1>2. answered' = [answered EXCEPT ![s] = [answered[s] EXCEPT ![f] = stored[f]]]
  BY <1>1 DEF Forget, TemplatesTypeOK
<1>3. \A t \in Servers : t # s => answered'[t] = answered[t]
  BY <1>1, <1>2 DEF TemplatesTypeOK
<1>4. \A x \in Renders : IF render[x] # NoLoad /\ render[x].server = s
                        THEN render[x] \in Loads /\ render'[x] = [render[x] EXCEPT !.overlapped = TRUE]
                        ELSE render'[x] = render[x]
  BY <1>1, ActiveLoad DEF Forget
<1>5. tplCache'[s] = NoCache /\ \A t \in Servers : t # s => tplCache'[t] = tplCache[t]
  BY <1>1 DEF Forget, TemplatesTypeOK
<1>6. TemplatesTypeOK'
  <2>1. render' \in [Renders -> Loads \cup {NoLoad}]
    <3>1. render' = [x \in Renders |-> render'[x]]  BY DEF Forget
    <3>2. ASSUME NEW x \in Renders PROVE render'[x] \in Loads \cup {NoLoad}
      BY <1>4 DEF TemplatesTypeOK, Loads
    <3> QED  BY <3>1, <3>2
  <2>2. answered' \in [Servers -> Wording]
    <3>1. [answered[s] EXCEPT ![f] = stored[f]] \in Wording
      BY <1>1 DEF TemplatesTypeOK, Wording, Fields
    <3> QED  BY <1>2, <3>1 DEF TemplatesTypeOK
  <2>3. tplCache' \in [Servers -> Caches \cup {NoCache}]  BY DEF Forget, TemplatesTypeOK
  <2>4. tplEdit' \in Edits  BY <1>1 DEF Forget, Edits
  <2> QED  BY <2>1, <2>2, <2>3, <2>4 DEF Forget, TemplatesTypeOK
<1>7. EditFits'  BY <1>1 DEF EditFits, Forget, Edits
<1>8. StoredIsNewest'
  <2> SUFFICES ASSUME NEW t \in Servers, NEW g \in Fields
               PROVE  stored'[g] >= answered'[t][g]
    BY DEF StoredIsNewest
  <2>1. stored[g] >= answered[t][g] /\ stored[g] \in Nat
    BY TemplatesAssumption DEF StoredIsNewest, TemplatesTypeOK, Wording, Texts, Fields
  <2>2. answered'[t][g] = answered[t][g] \/ answered'[t][g] = stored[g]
    BY <1>1, <1>2 DEF TemplatesTypeOK, Wording, Fields
  <2> QED  BY <2>1, <2>2 DEF Forget
<1>9. LoadsReadNewest'
  <2> SUFFICES ASSUME NEW x \in Renders, (render[x].pc = "read" /\ ~render[x].overlapped)',
                      NEW g \in Fields \ render'[x].todo
               PROVE  render'[x].config[g] >= answered'[render'[x].server][g]
    BY DEF LoadsReadNewest
  <2>1. ~(render[x] # NoLoad /\ render[x].server = s)  BY <1>4 DEF Loads
  <2>2. render'[x] = render[x] /\ render[x] \in Loads  BY <1>4, <2>1, ActiveLoad
  <2>3. render[x].server \in Servers \ {s}  BY <2>1, <2>2 DEF Loads, NoLoad
  <2> QED  BY <1>3, <2>2, <2>3 DEF LoadsReadNewest
<1>10. ConfirmedEditsShow'  BY <1>3, <1>5 DEF ConfirmedEditsShow, NoCache
<1> QED  BY <1>6, <1>7, <1>8, <1>9, <1>10

LEMMA PageOfTemplatesKeeps ==
  ASSUME TemplatesInv,
         \/ \E s \in Servers : \/ Editor(s) \/ ThemeCard(s)
         \/ Listed
  PROVE  TemplatesInv'
<1> USE DEF TemplatesInv
<1>1. ASSUME NEW s \in Servers, NEW field \in Fields, SendEdit(s, field) PROVE TemplatesInv'
  <2>1. TemplatesTypeOK'  BY <1>1 DEF SendEdit, TemplatesTypeOK, Edits, Fields
  <2>2. EditFits'  BY <1>1 DEF SendEdit, EditFits
  <2>3. StoredIsNewest' /\ LoadsReadNewest' /\ ConfirmedEditsShow'
    BY <1>1 DEF SendEdit, StoredIsNewest, LoadsReadNewest, ConfirmedEditsShow
  <2> QED  BY <2>1, <2>2, <2>3
<1>2. CASE TypeCopy \/ DiscardCopy
  BY <1>2 DEF TypeCopy, DiscardCopy, TemplatesTypeOK, EditFits, StoredIsNewest, LoadsReadNewest,
    ConfirmedEditsShow
<1>3. CASE Listed
  <2>1. TemplatesTypeOK'  BY <1>3 DEF Listed, TemplatesTypeOK, Wording
  <2>2. EditFits'  BY <1>3 DEF Listed, EditFits, NoEdit
  <2>3. StoredIsNewest' /\ LoadsReadNewest' /\ ConfirmedEditsShow'
    BY <1>3 DEF Listed, StoredIsNewest, LoadsReadNewest, ConfirmedEditsShow
  <2> QED  BY <2>1, <2>2, <2>3
<1> QED  BY <1>1, <1>2, <1>3 DEF Editor, SaveClicked, ResetClicked, ThemeCard, Fields

(* A server never renders from its cache an older text than the newest edit  *)
(* it has confirmed, but for the two exceptions of the property              *)
(* (email-templates.service.ts), with any number of servers, of loads at the *)
(* same time and of edits.                                                  *)
THEOREM EditsShow ==
  TemplatesInit /\ [][TemplatesNext]_templatesVars => []TemplatesTypeOK /\ []ConfirmedEditsShow
<1>1. TemplatesInv /\ [TemplatesNext]_templatesVars => TemplatesInv'
  <2> SUFFICES ASSUME TemplatesInv, [TemplatesNext]_templatesVars PROVE TemplatesInv'  OBVIOUS
  <2>1. CASE UNCHANGED templatesVars
    BY <2>1 DEF templatesVars, TemplatesInv, TemplatesTypeOK, EditFits, StoredIsNewest,
      LoadsReadNewest, ConfirmedEditsShow
  <2>2. CASE TemplatesNext
    BY <2>2, BeginLoadKeeps, ReadFieldKeeps, EndsKeep, CacheAgesKeeps, RestartKeeps,
      WriteEditKeeps, ForgetKeeps, PageOfTemplatesKeeps
      DEF TemplatesNext, Fields
  <2> QED  BY <2>1, <2>2
<1>2. TemplatesInv => TemplatesTypeOK /\ ConfirmedEditsShow  BY DEF TemplatesInv
<1> QED  BY <1>1, <1>2, TemplatesStart, PTL

-----------------------------------------------------------------------------
(* The reminder of an online event. *)

(* The senders that have claimed the reminder and may still mail g. *)
Claimants(g) ==
  {s \in Senders : \/ sender[s].pc = "list"
                   \/ sender[s].pc = "mail" /\ g \in sender[s].todo}

Claimed == IF eventRow.sent THEN 1 ELSE 0

(* The claims so far: that of the row, those taken back, the forced ones. *)
Claims == undone + resent + Claimed

(* Each mail had a claim of its own, and so has each that may still come. *)
ClaimsCount == \A g \in Guests : mailed[g] + Cardinality(Claimants(g)) <= Claims

(* A sender counts at most those who are not waiting for their mail. *)
SendersFit ==
  \A s \in Senders :
    /\ sender[s].pc \in {"idle", "claim", "list"} => sender[s].todo = {} /\ sender[s].sent = 0
    /\ sender[s].sent + Cardinality(sender[s].todo) <= Cardinality(Guests)

SaverFits == saver.pc # "idle" => undone < MaxSaves

OnlineInv == OnlineTypeOK /\ SendersFit /\ SaverFits /\ ClaimsCount

LEMMA ClaimantsFinite ==
  ASSUME NEW g \in Guests
  PROVE  IsFiniteSet(Claimants(g)) /\ Cardinality(Claimants(g)) \in Nat
<1>1. IsFiniteSet(Senders)  BY OnlineAssumption, FS_AddElement DEF Senders
<1>2. IsFiniteSet(Claimants(g))  BY <1>1, FS_Subset DEF Claimants
<1> QED  BY <1>2, FS_CardinalityType

LEMMA FewerClaimants ==
  ASSUME NEW g \in Guests, NEW S, S \subseteq Claimants(g)
  PROVE  IsFiniteSet(S) /\ Cardinality(S) \in Nat /\ Cardinality(S) <= Cardinality(Claimants(g))
<1>1. IsFiniteSet(S) /\ Cardinality(S) <= Cardinality(Claimants(g))
  BY ClaimantsFinite, FS_Subset
<1> QED  BY <1>1, FS_CardinalityType

(* The counts at hand, typed. *)
LEMMA CountsTyped ==
  ASSUME OnlineTypeOK, NEW g \in Guests
  PROVE  mailed[g] \in Nat /\ Claims \in Nat
<1>1. /\ mailed[g] \in 0..MaxMails /\ undone \in 0..MaxSaves /\ resent \in 0..MaxResent
      /\ MaxMails \in Nat /\ MaxSaves \in Nat /\ MaxResent \in Nat
  BY OnlineAssumption DEF OnlineTypeOK
<1> QED  BY <1>1 DEF Claims, Claimed

LEMMA CheckinStateType == CheckinState \in CheckinStates
BY DEF CheckinState, CheckinStates

(* No mail more, nobody more who may mail, and no claim forgotten. *)
LEMMA ClaimsKept ==
  ASSUME OnlineTypeOK, ClaimsCount, OnlineTypeOK', mailed' = mailed,
         Claims <= Claims',
         \A g \in Guests : Claimants(g)' \subseteq Claimants(g)
  PROVE  ClaimsCount'
<1> SUFFICES ASSUME NEW g \in Guests
             PROVE  mailed'[g] + Cardinality(Claimants(g)') <= Claims'
  BY DEF ClaimsCount
<1>1. Cardinality(Claimants(g)') \in Nat /\ Cardinality(Claimants(g)') <= Cardinality(Claimants(g))
  BY FewerClaimants
<1>2. mailed[g] + Cardinality(Claimants(g)) <= Claims  BY DEF ClaimsCount
<1>3. mailed[g] \in Nat /\ Claims \in Nat  BY CountsTyped
<1>4. Claims' \in Nat
  <2>1. undone' \in Nat /\ resent' \in Nat
    <3>1. undone' \in 0..MaxSaves /\ resent' \in 0..MaxResent  BY DEF OnlineTypeOK
    <3> QED  BY <3>1, OnlineAssumption
  <2>2. \E k \in {0, 1} : Claims' = undone' + resent' + k  BY DEF Claims, Claimed
  <2>3. \A u, r \in Nat : \A k \in {0, 1} : u + r + k \in Nat  OBVIOUS
  <2> QED  BY <2>1, <2>2, <2>3
<1>5. Cardinality(Claimants(g)) \in Nat  BY ClaimantsFinite
<1>6. Claims <= Claims' /\ mailed'[g] = mailed[g]  OBVIOUS
<1>7. \A m, c, d, u, v \in Nat : m + c <= u /\ d <= c /\ u <= v => m + d <= v
  OBVIOUS
<1> QED  BY <1>1, <1>2, <1>3, <1>4, <1>5, <1>6, <1>7

LEMMA OnlineStart == OnlineInit => OnlineInv
<1> SUFFICES ASSUME OnlineInit PROVE OnlineInv  OBVIOUS
<1>1. Cardinality(Guests) \in Nat  BY OnlineAssumption, FS_CardinalityType
<1>2. Cardinality({}) = 0  BY FS_EmptySet
<1>3. OnlineTypeOK
  BY <1>1, OnlineAssumption, CheckinStateType
    DEF OnlineInit, OnlineTypeOK, Times, IdleSender, IdleSaver
<1>4. SendersFit
  <2>1. ASSUME NEW s \in Senders
        PROVE  /\ sender[s].todo = {} /\ sender[s].sent = 0
               /\ sender[s].sent + Cardinality(sender[s].todo) <= Cardinality(Guests)
    <3>1. sender[s].todo = {} /\ sender[s].sent = 0  BY DEF OnlineInit, IdleSender
    <3> QED  BY <1>1, <1>2, <3>1
  <2> QED  BY <2>1 DEF SendersFit
<1>5. SaverFits  BY DEF OnlineInit, SaverFits, IdleSaver
<1>6. ASSUME NEW g \in Guests PROVE mailed[g] + Cardinality(Claimants(g)) <= Claims
  <2>1. Claimants(g) = {}  BY DEF Claimants, OnlineInit, IdleSender, Senders
  <2> QED  BY <1>2, <1>6, <2>1 DEF OnlineInit, Claims, Claimed
<1>7. ClaimsCount  BY <1>6 DEF ClaimsCount
<1> QED  BY <1>3, <1>4, <1>5, <1>7 DEF OnlineInv

(* A sender goes on to q, which fits. *)
LEMMA ContinueKeeps ==
  ASSUME OnlineInv, NEW s \in Senders, NEW q, Continue(s, q),
         q \in [pc : {"idle", "claim", "list", "mail", "count"},
                todo : SUBSET Guests, sent : 0..Cardinality(Guests)],
         q.pc \in {"idle", "claim", "list"} => q.todo = {} /\ q.sent = 0,
         q.sent + Cardinality(q.todo) <= Cardinality(Guests),
         eventRow' \in [enabled : BOOLEAN, sent : BOOLEAN, count : 0..Cardinality(Guests)],
         mailed' \in [Guests -> 0..MaxMails], resent' \in 0..MaxResent
  PROVE  OnlineTypeOK' /\ SendersFit' /\ SaverFits'
<1> USE DEF OnlineInv, Continue
<1>1. OnlineTypeOK'  BY DEF OnlineTypeOK, Times
<1>2. SendersFit'  BY DEF OnlineTypeOK, SendersFit
<1>3. SaverFits'  BY DEF SaverFits
<1> QED  BY <1>1, <1>2, <1>3

(* The senders, but for one that claims or mails. *)
LEMMA IdleSenderFits ==
  ASSUME NEW pc \in {"idle", "claim", "list"}
  PROVE  LET q == [IdleSender EXCEPT !.pc = pc] IN
         /\ q \in [pc : {"idle", "claim", "list", "mail", "count"},
                   todo : SUBSET Guests, sent : 0..Cardinality(Guests)]
         /\ q.pc = pc /\ q.todo = {} /\ q.sent = 0
         /\ q.sent + Cardinality(q.todo) <= Cardinality(Guests)
<1>1. Cardinality(Guests) \in Nat  BY OnlineAssumption, FS_CardinalityType
<1>2. Cardinality({}) = 0  BY FS_EmptySet
<1> QED  BY <1>1, <1>2 DEF IdleSender

LEMMA ClaimStays ==
  ASSUME OnlineTypeOK, UNCHANGED <<undone, resent>>, eventRow.sent => eventRow'.sent
  PROVE  Claims <= Claims'
<1>1. undone \in Nat /\ resent \in Nat  BY OnlineAssumption DEF OnlineTypeOK
<1> QED  BY <1>1 DEF Claims, Claimed

(* A step of a sender that leaves the mails alone and claims nothing. *)
LEMMA NoClaimKeeps ==
  ASSUME OnlineInv, NEW s \in Senders, NEW q, Continue(s, q),
         q \in [pc : {"idle", "claim", "list", "mail", "count"},
                todo : SUBSET Guests, sent : 0..Cardinality(Guests)],
         q.pc \in {"idle", "claim", "list"} => q.todo = {} /\ q.sent = 0,
         q.sent + Cardinality(q.todo) <= Cardinality(Guests),
         eventRow' \in [enabled : BOOLEAN, sent : BOOLEAN, count : 0..Cardinality(Guests)],
         eventRow.sent => eventRow'.sent, UNCHANGED <<mailed, resent>>,
         q.pc \in {"idle", "claim", "count"} \/ sender[s].pc = "list"
  PROVE  OnlineInv'
<1>1. mailed' \in [Guests -> 0..MaxMails] /\ resent' \in 0..MaxResent
  BY DEF OnlineInv, OnlineTypeOK
<1>2. OnlineTypeOK' /\ SendersFit' /\ SaverFits'  BY <1>1, ContinueKeeps
<1>3. ASSUME NEW g \in Guests PROVE Claimants(g)' \subseteq Claimants(g)
  <2> SUFFICES ASSUME NEW t \in Claimants(g)' PROVE t \in Claimants(g)  OBVIOUS
  <2>1. t \in Senders /\ (t # s => sender'[t] = sender[t]) /\ sender'[s] = q
    BY DEF Claimants, Continue, OnlineInv, OnlineTypeOK
  <2>2. CASE t # s  BY <2>1, <2>2 DEF Claimants
  <2>3. CASE t = s
    <3>1. q.pc \in {"list", "mail"}  BY <2>1, <2>3 DEF Claimants
    <3>2. sender[s].pc = "list"  BY <3>1
    <3> QED  BY <2>3, <3>2 DEF Claimants
  <2> QED  BY <2>2, <2>3
<1>4. Claims <= Claims'  BY ClaimStays DEF OnlineInv, Continue
<1>5. ClaimsCount'  BY <1>1, <1>2, <1>3, <1>4, ClaimsKept DEF OnlineInv
<1> QED  BY <1>2, <1>5 DEF OnlineInv

LEMMA ListKeeps ==
  ASSUME OnlineInv, NEW s \in Senders, ListRecipients(s)
  PROVE  OnlineInv'
<1> DEFINE q == [sender[s] EXCEPT !.todo = Recipients,
                                  !.pc = IF Recipients = {} THEN "count" ELSE "mail"]
<1>1. /\ sender[s] \in [pc : {"idle", "claim", "list", "mail", "count"},
                        todo : SUBSET Guests, sent : 0..Cardinality(Guests)]
      /\ sender[s].sent = 0
  BY DEF ListRecipients, OnlineInv, OnlineTypeOK, SendersFit
<1>2. /\ q \in [pc : {"idle", "claim", "list", "mail", "count"},
                todo : SUBSET Guests, sent : 0..Cardinality(Guests)]
      /\ q.pc \in {"mail", "count"} /\ q.todo = Recipients /\ q.sent = 0
  BY <1>1 DEF Recipients
<1>3. Cardinality(Recipients) \in Nat /\ Cardinality(Recipients) <= Cardinality(Guests)
  <2>1. Recipients \in SUBSET Guests  BY DEF Recipients
  <2> QED  BY <2>1, OnlineAssumption, FS_Subset, FS_CardinalityType
<1>4. q.sent + Cardinality(q.todo) <= Cardinality(Guests)
  <2> HIDE DEF q
  <2>1. Cardinality(q.todo) = Cardinality(Recipients)  BY <1>2
  <2>2. Cardinality(Guests) \in Nat  BY OnlineAssumption, FS_CardinalityType
  <2> QED  BY <1>2, <1>3, <2>1, <2>2
<1>5. /\ Continue(s, q) /\ sender[s].pc = "list"
      /\ UNCHANGED <<eventRow, mailed, resent>>
      /\ eventRow' \in [enabled : BOOLEAN, sent : BOOLEAN, count : 0..Cardinality(Guests)]
  BY DEF ListRecipients, OnlineInv, OnlineTypeOK
<1> HIDE DEF q
<1> QED  BY <1>2, <1>4, <1>5, NoClaimKeeps

LEMMA CountSentKeeps ==
  ASSUME OnlineInv, NEW s \in Senders, CountSent(s)
  PROVE  OnlineInv'
<1>1. IdleSender = [IdleSender EXCEPT !.pc = "idle"]  BY DEF IdleSender
<1>2. /\ IdleSender \in [pc : {"idle", "claim", "list", "mail", "count"},
                         todo : SUBSET Guests, sent : 0..Cardinality(Guests)]
      /\ IdleSender.pc = "idle" /\ IdleSender.todo = {} /\ IdleSender.sent = 0
      /\ IdleSender.sent + Cardinality(IdleSender.todo) <= Cardinality(Guests)
  BY <1>1, IdleSenderFits
<1>3. eventRow' \in [enabled : BOOLEAN, sent : BOOLEAN, count : 0..Cardinality(Guests)]
  BY DEF CountSent, OnlineInv, OnlineTypeOK
<1>4. eventRow.sent => eventRow'.sent  BY DEF CountSent, OnlineInv, OnlineTypeOK
<1>5. Continue(s, IdleSender) /\ UNCHANGED <<mailed, resent>>  BY DEF CountSent
<1> QED  BY <1>2, <1>3, <1>4, <1>5, NoClaimKeeps

(* Whoever starts or gives up. *)
LEMMA StartsKeep ==
  ASSUME OnlineInv,
         \/ SendNow
         \/ \E s \in Senders : ReminderTick(s)
  PROVE  OnlineInv'
<1>1. PICK s \in Senders : /\ sender[s] = IdleSender
                          /\ Continue(s, [sender[s] EXCEPT !.pc = "claim"])
                          /\ UNCHANGED <<eventRow, mailed, resent>>
  BY DEF SendNow, ReminderTick, Senders
<1>2. /\ eventRow' \in [enabled : BOOLEAN, sent : BOOLEAN, count : 0..Cardinality(Guests)]
      /\ eventRow.sent => eventRow'.sent
  BY <1>1 DEF OnlineInv, OnlineTypeOK
<1> DEFINE q == [IdleSender EXCEPT !.pc = "claim"]
<1>3. Continue(s, q)  BY <1>1
<1>4. /\ q \in [pc : {"idle", "claim", "list", "mail", "count"},
                todo : SUBSET Guests, sent : 0..Cardinality(Guests)]
      /\ q.pc = "claim" /\ q.todo = {} /\ q.sent = 0
      /\ q.sent + Cardinality(q.todo) <= Cardinality(Guests)
  BY IdleSenderFits
<1> HIDE DEF q
<1> QED  BY <1>1, <1>2, <1>3, <1>4, NoClaimKeeps

LEMMA ReminderCrashKeeps ==
  ASSUME OnlineInv, NEW s \in Senders, ReminderCrash(s)
  PROVE  OnlineInv'
<1>1. IdleSender = [IdleSender EXCEPT !.pc = "idle"]  BY DEF IdleSender
<1>2. /\ IdleSender \in [pc : {"idle", "claim", "list", "mail", "count"},
                         todo : SUBSET Guests, sent : 0..Cardinality(Guests)]
      /\ IdleSender.pc = "idle" /\ IdleSender.todo = {} /\ IdleSender.sent = 0
      /\ IdleSender.sent + Cardinality(IdleSender.todo) <= Cardinality(Guests)
  BY <1>1, IdleSenderFits
<1>3. losses' \in 0..MaxReminderCrashes
  BY OnlineAssumption DEF ReminderCrash, OnlineInv, OnlineTypeOK
<1>4. OnlineTypeOK'  BY <1>2, <1>3 DEF ReminderCrash, OnlineInv, OnlineTypeOK, Times
<1>5. SendersFit' /\ SaverFits'
  BY <1>2 DEF ReminderCrash, OnlineInv, OnlineTypeOK, SendersFit, SaverFits
<1>6. ASSUME NEW g \in Guests PROVE Claimants(g)' \subseteq Claimants(g)
  BY <1>2 DEF Claimants, ReminderCrash, OnlineInv, OnlineTypeOK
<1>7. Claims <= Claims'  BY ClaimStays DEF ReminderCrash, OnlineInv
<1>8. ClaimsCount'  BY <1>4, <1>6, <1>7, ClaimsKept DEF OnlineInv, ReminderCrash
<1> QED  BY <1>4, <1>5, <1>8 DEF OnlineInv

(* Whoever claims takes the claim the row still had to give, or forces one. *)
LEMMA ClaimKeeps ==
  ASSUME OnlineInv, NEW s \in Senders, ClaimReminder(s)
  PROVE  OnlineInv'
<1> DEFINE q == [sender[s] EXCEPT !.pc = "list"]
<1>1. /\ sender[s] \in [pc : {"idle", "claim", "list", "mail", "count"},
                        todo : SUBSET Guests, sent : 0..Cardinality(Guests)]
      /\ sender[s].pc = "claim" /\ sender[s].todo = {} /\ sender[s].sent = 0
      /\ sender[s].sent + Cardinality(sender[s].todo) <= Cardinality(Guests)
  BY DEF ClaimReminder, OnlineInv, OnlineTypeOK, SendersFit
<1>2. /\ q \in [pc : {"idle", "claim", "list", "mail", "count"},
                todo : SUBSET Guests, sent : 0..Cardinality(Guests)]
      /\ q.pc = "list" /\ q.todo = {} /\ q.sent = 0
      /\ q.sent + Cardinality(q.todo) <= Cardinality(Guests)
  BY <1>1
<1>3. /\ eventRow' \in [enabled : BOOLEAN, sent : BOOLEAN, count : 0..Cardinality(Guests)]
      /\ eventRow.sent => eventRow'.sent
      /\ mailed' = mailed
      /\ resent \in 0..MaxResent /\ MaxResent \in Nat
  BY OnlineAssumption DEF ClaimReminder, OnlineInv, OnlineTypeOK
<1>4. CASE eventRow.sent /\ s # "now"
  <2>1. IdleSender = [IdleSender EXCEPT !.pc = "idle"]  BY DEF IdleSender
  <2>2. /\ IdleSender \in [pc : {"idle", "claim", "list", "mail", "count"},
                           todo : SUBSET Guests, sent : 0..Cardinality(Guests)]
        /\ IdleSender.pc = "idle" /\ IdleSender.todo = {} /\ IdleSender.sent = 0
        /\ IdleSender.sent + Cardinality(IdleSender.todo) <= Cardinality(Guests)
    BY <2>1, IdleSenderFits
  <2>3. Continue(s, IdleSender) /\ resent' = resent  BY <1>4 DEF ClaimReminder
  <2> QED  BY <1>3, <2>2, <2>3, NoClaimKeeps
<1>5. CASE ~(eventRow.sent /\ s # "now")
  <2>1. /\ Continue(s, q) /\ eventRow' = [eventRow EXCEPT !.sent = TRUE]
        /\ resent' = IF eventRow.sent THEN resent + 1 ELSE resent
        /\ resent' <= MaxResent
    BY <1>5 DEF ClaimReminder
  <2> HIDE DEF q
  <2>2. mailed' \in [Guests -> 0..MaxMails] /\ resent' \in 0..MaxResent
    BY <1>3, <2>1 DEF OnlineInv, OnlineTypeOK
  <2>3. OnlineTypeOK' /\ SendersFit' /\ SaverFits'
    BY <1>2, <1>3, <2>1, <2>2, ContinueKeeps
  <2>4. Claims' = Claims + 1
    <3>1. undone \in Nat /\ undone' = undone /\ resent \in Nat
      BY <2>1, OnlineAssumption DEF OnlineInv, OnlineTypeOK, Continue
    <3>2. eventRow'.sent  BY <2>1 DEF OnlineInv, OnlineTypeOK
    <3>3. CASE eventRow.sent  BY <2>1, <3>1, <3>2, <3>3 DEF Claims, Claimed
    <3>4. CASE ~eventRow.sent  BY <2>1, <3>1, <3>2, <3>4 DEF Claims, Claimed
    <3> QED  BY <3>3, <3>4
  <2>5. ASSUME NEW g \in Guests
        PROVE  mailed'[g] + Cardinality(Claimants(g)') <= Claims'
    <3>1. Claimants(g)' \subseteq Claimants(g) \cup {s}
      BY <2>1 DEF Claimants, Continue, OnlineInv, OnlineTypeOK
    <3>2. /\ IsFiniteSet(Claimants(g) \cup {s})
          /\ Cardinality(Claimants(g) \cup {s}) <= Cardinality(Claimants(g)) + 1
      <4>1. /\ IsFiniteSet(Claimants(g) \cup {s})
            /\ Cardinality(Claimants(g) \cup {s}) =
                 IF s \in Claimants(g) THEN Cardinality(Claimants(g)) ELSE Cardinality(Claimants(g)) + 1
        BY ClaimantsFinite, FS_AddElement
      <4> QED  BY <4>1, ClaimantsFinite
    <3>3. /\ Cardinality(Claimants(g)') \in Nat /\ Cardinality(Claimants(g) \cup {s}) \in Nat
          /\ Cardinality(Claimants(g)') <= Cardinality(Claimants(g) \cup {s})
      BY <3>1, <3>2, FS_Subset, FS_CardinalityType
    <3>4. mailed[g] + Cardinality(Claimants(g)) <= Claims  BY DEF OnlineInv, ClaimsCount
    <3>5. mailed[g] \in Nat /\ Claims \in Nat /\ Cardinality(Claimants(g)) \in Nat
      BY CountsTyped, ClaimantsFinite DEF OnlineInv
    <3>6. mailed'[g] = mailed[g]  BY <1>3
    <3>7. \A m, c, d, e, u \in Nat : m + c <= u /\ d <= e /\ e <= c + 1 => m + d <= u + 1
      OBVIOUS
    <3> QED  BY <2>4, <3>2, <3>3, <3>4, <3>5, <3>6, <3>7
  <2> QED  BY <2>3, <2>5 DEF OnlineInv, ClaimsCount
<1> QED  BY <1>4, <1>5

(* Whoever mails somebody is one sender less who may. *)
LEMMA ChunkKeeps ==
  ASSUME OnlineInv, NEW s \in Senders, NEW g \in Guests, NEW taken \in BOOLEAN,
         NEW told \in BOOLEAN, SendChunk(s, g, taken, told)
  PROVE  OnlineInv'
<1> DEFINE todo == sender[s].todo \ {g}
           sent == sender[s].sent + IF told THEN 1 ELSE 0
           q == [pc |-> IF sender[s].todo = {g} THEN "count" ELSE "mail",
                 todo |-> todo, sent |-> sent]
<1>1. /\ sender[s].todo \in SUBSET Guests /\ sender[s].sent \in Nat
      /\ sender[s].sent + Cardinality(sender[s].todo) <= Cardinality(Guests)
      /\ g \in sender[s].todo /\ sender[s].pc = "mail"
  BY DEF SendChunk, OnlineInv, OnlineTypeOK, SendersFit
<1>2. /\ Cardinality(todo) = Cardinality(sender[s].todo) - 1
      /\ Cardinality(todo) \in Nat /\ Cardinality(sender[s].todo) \in Nat
      /\ Cardinality(Guests) \in Nat
  BY <1>1, OnlineAssumption, FS_Subset, FS_RemoveElement, FS_CardinalityType
<1>3. sent \in Nat /\ sent + Cardinality(todo) <= Cardinality(Guests)
  <2> HIDE DEF todo
  <2> QED  BY <1>1, <1>2
<1>4. /\ q \in [pc : {"idle", "claim", "list", "mail", "count"},
                todo : SUBSET Guests, sent : 0..Cardinality(Guests)]
      /\ q.pc \in {"mail", "count"} /\ q.todo = todo /\ q.sent = sent
  <2> HIDE DEF sent
  <2>1. sent \in 0..Cardinality(Guests)  BY <1>2, <1>3
  <2> QED  BY <1>1, <2>1
<1>5. q.sent + Cardinality(q.todo) <= Cardinality(Guests)
  <2> HIDE DEF q, todo, sent
  <2> QED  BY <1>3, <1>4
<1>6. Continue(s, q) /\ eventRow' = eventRow /\ resent' = resent  BY DEF SendChunk
<1>7. /\ mailed' \in [Guests -> 0..MaxMails]
      /\ mailed' = mailed \/ mailed' = [mailed EXCEPT ![g] = mailed[g] + 1]
  <2>1. mailed \in [Guests -> 0..MaxMails]  BY DEF OnlineInv, OnlineTypeOK
  <2>2. mailed[g] + 1 \in 0..MaxMails  BY <2>1, OnlineAssumption DEF SendChunk
  <2>3. mailed' = mailed \/ mailed' = [mailed EXCEPT ![g] = mailed[g] + 1]
    BY DEF SendChunk
  <2>4. [mailed EXCEPT ![g] = mailed[g] + 1] \in [Guests -> 0..MaxMails]
    <3> DEFINE n == mailed[g] + 1
    <3>1. n \in 0..MaxMails  BY <2>2
    <3> HIDE DEF n
    <3>2. [mailed EXCEPT ![g] = n] \in [Guests -> 0..MaxMails]  BY <2>1, <3>1
    <3> QED  BY <3>2 DEF n
  <2> QED  BY <2>1, <2>3, <2>4
<1> HIDE DEF q, sent
<1>8. OnlineTypeOK' /\ SendersFit' /\ SaverFits'
  <2>1. eventRow' \in [enabled : BOOLEAN, sent : BOOLEAN, count : 0..Cardinality(Guests)]
    BY <1>6 DEF OnlineInv, OnlineTypeOK
  <2>2. resent' \in 0..MaxResent  BY <1>6 DEF OnlineInv, OnlineTypeOK
  <2> QED  BY <1>4, <1>5, <1>6, <1>7, <2>1, <2>2, ContinueKeeps
<1>9. ASSUME NEW x \in Guests
      PROVE  mailed'[x] + Cardinality(Claimants(x)') <= Claims'
  <2>1. Claimants(x)' \subseteq Claimants(x)
    BY <1>1, <1>4, <1>6 DEF Claimants, Continue, OnlineInv, OnlineTypeOK
  <2>2. /\ mailed[x] + Cardinality(Claimants(x)) <= Claims
        /\ mailed[x] \in Nat /\ Claims \in Nat /\ Cardinality(Claimants(x)) \in Nat
    BY CountsTyped, ClaimantsFinite DEF OnlineInv, ClaimsCount
  <2>3. Cardinality(Claimants(x)') \in Nat /\ Cardinality(Claimants(x)') <= Cardinality(Claimants(x))
    BY <2>1, FewerClaimants
  <2>4. Claims' = Claims  BY <1>6 DEF Continue, Claims, Claimed
  <2>5. CASE mailed'[x] = mailed[x]
    <3>1. \A m, c, d, u \in Nat : m + c <= u /\ d <= c => m + d <= u  OBVIOUS
    <3> QED  BY <2>2, <2>3, <2>4, <2>5, <3>1
  <2>6. CASE mailed'[x] # mailed[x]
    <3>1. x = g /\ mailed'[x] = mailed[x] + 1
      BY <1>7, <2>6 DEF OnlineInv, OnlineTypeOK
    <3>2. s \in Claimants(x)  BY <1>1, <3>1 DEF Claimants
    <3>3. s \notin Claimants(x)'
      BY <1>4, <1>6, <3>1 DEF Claimants, Continue, OnlineInv, OnlineTypeOK
    <3>4. Claimants(x)' \subseteq Claimants(x) \ {s}  BY <2>1, <3>3
    <3>5. /\ IsFiniteSet(Claimants(x) \ {s})
          /\ Cardinality(Claimants(x) \ {s}) = Cardinality(Claimants(x)) - 1
      BY <3>2, ClaimantsFinite, FS_RemoveElement
    <3>6. Cardinality(Claimants(x)') <= Cardinality(Claimants(x) \ {s})
      BY <3>4, <3>5, FS_Subset
    <3>7. \A m, c, d, u \in Nat : m + c <= u /\ d <= c - 1 => m + 1 + d <= u  OBVIOUS
    <3>8. Cardinality(Claimants(x)') <= Cardinality(Claimants(x)) - 1  BY <3>5, <3>6
    <3> QED  BY <2>2, <2>3, <2>4, <3>1, <3>7, <3>8
  <2> QED  BY <2>5, <2>6
<1> QED  BY <1>8, <1>9 DEF OnlineInv, ClaimsCount

(* The row of the event: a claim that is taken back is counted. *)
LEMMA EventRowKeeps ==
  ASSUME OnlineInv, EditReminder \/ LoadOnlineEvent \/ SelectOnlineEvent \/ WriteOnlineEvent
  PROVE  OnlineInv'
<1>1. /\ undone \in Nat /\ MaxSaves \in Nat /\ undone <= MaxSaves
      /\ resent \in Nat /\ resent' = resent
  BY OnlineAssumption DEF OnlineInv, OnlineTypeOK, EditReminder, LoadOnlineEvent,
    SelectOnlineEvent, WriteOnlineEvent
<1>2. /\ undone' \in Nat /\ undone' <= MaxSaves /\ SaverFits'
      /\ Claims <= Claims'
  <2>1. CASE WriteOnlineEvent
    <3>1. saver.pc = "write" /\ undone < MaxSaves
      BY <2>1 DEF WriteOnlineEvent, OnlineInv, SaverFits
    <3>2. SaverFits'  BY <2>1 DEF WriteOnlineEvent, SaverFits, IdleSaver
    <3>3. undone' = IF eventRow.sent /\ ~eventRow'.sent THEN undone + 1 ELSE undone
      BY <2>1 DEF WriteOnlineEvent
    <3>4. CASE eventRow.sent /\ ~eventRow'.sent
      <4>1. Claimed = 1 /\ Claimed' = 0  BY <3>4 DEF Claimed
      <4> QED  BY <1>1, <3>1, <3>2, <3>3, <3>4, <4>1 DEF Claims
    <3>5. CASE ~(eventRow.sent /\ ~eventRow'.sent)
      <4>1. Claimed \in {0, 1} /\ Claimed' \in {0, 1} /\ (Claimed = 1 => Claimed' = 1)
        BY <3>5 DEF Claimed
      <4>2. undone' = undone  BY <3>3, <3>5
      <4>3. Claims <= Claims'
        <5>1. \A u, r, l, k \in Nat : l <= k => u + r + l <= u + r + k  OBVIOUS
        <5>2. Claimed \in Nat /\ Claimed' \in Nat /\ Claimed <= Claimed'  BY <4>1
        <5> QED  BY <1>1, <4>2, <5>1, <5>2 DEF Claims
      <4> QED  BY <1>1, <3>2, <4>2, <4>3
    <3> QED  BY <3>4, <3>5
  <2>2. CASE EditReminder \/ LoadOnlineEvent \/ SelectOnlineEvent
    <3>1. Claimed' = Claimed /\ undone' = undone /\ Claimed \in {0, 1}
      BY <2>2 DEF EditReminder, LoadOnlineEvent, SelectOnlineEvent, Claimed, OnlineInv, OnlineTypeOK
    <3>2. SaverFits'
      BY <1>1, <2>2 DEF EditReminder, LoadOnlineEvent, SelectOnlineEvent, SaverFits, OnlineInv,
        OnlineTypeOK
    <3> QED  BY <1>1, <3>1, <3>2 DEF Claims
  <2> QED  BY <2>1, <2>2
<1>3. UNCHANGED <<clock, guest, sender, joinPage, mailed, resent, losses>>
  BY DEF EditReminder, LoadOnlineEvent, SelectOnlineEvent, WriteOnlineEvent
<1>4. /\ eventRow' \in [enabled : BOOLEAN, sent : BOOLEAN, count : 0..Cardinality(Guests)]
      /\ saver' \in [pc : {"idle", "save", "write"}, sent : BOOLEAN, wide : BOOLEAN]
  <2> USE DEF OnlineInv, OnlineTypeOK, IdleSaver
  <2>1. CASE EditReminder  BY <2>1 DEF EditReminder
  <2>2. CASE LoadOnlineEvent  BY <2>2 DEF LoadOnlineEvent
  <2>3. CASE SelectOnlineEvent  BY <2>3 DEF SelectOnlineEvent
  <2>4. CASE WriteOnlineEvent  BY <2>4 DEF WriteOnlineEvent
  <2> QED  BY <2>1, <2>2, <2>3, <2>4
<1>5. OnlineTypeOK'
  <2>1. undone' \in 0..MaxSaves  BY <1>1, <1>2
  <2> QED  BY <1>3, <1>4, <2>1 DEF OnlineInv, OnlineTypeOK, Times
<1>6. SendersFit'  BY <1>3 DEF OnlineInv, SendersFit
<1>7. ASSUME NEW g \in Guests PROVE Claimants(g)' \subseteq Claimants(g)
  BY <1>3 DEF Claimants
<1>8. ClaimsCount'  BY <1>2, <1>3, <1>5, <1>7, ClaimsKept DEF OnlineInv
<1> QED  BY <1>2, <1>5, <1>6, <1>8 DEF OnlineInv

(* The clock and the attendees. *)
LEMMA AttendeesKeep ==
  ASSUME OnlineInv,
         \/ OnlineClock
         \/ \E g \in Guests :
              \/ SeatDecided(g) \/ RefreshJoin(g) \/ OnlineJoin(g) \/ CheckinLoads(g)
              \/ \E seated, ok \in BOOLEAN : CheckinUpdates(g, seated, ok)
  PROVE  OnlineInv'
<1> DEFINE pages == [Guests -> [state : CheckinStates, seated : BOOLEAN, checked : BOOLEAN,
                                pc : {"idle", "load", "update"}]]
           tables == [Guests -> [seated : BOOLEAN, checked : BOOLEAN]]
<1>1. UNCHANGED <<eventRow, sender, saver, mailed, undone, resent, losses>>
  BY DEF OnlineClock, SeatDecided, RefreshJoin, OnlineJoin, CheckinClicked, CheckinLoads,
    CheckinUpdates, Page
<1>2. clock' \in Times /\ guest' \in tables /\ joinPage' \in pages
  <2>1. clock \in Times /\ guest \in tables /\ joinPage \in pages  BY DEF OnlineInv, OnlineTypeOK
  <2>2. CASE OnlineClock  BY <2>1, <2>2, OnlineAssumption DEF OnlineClock, Times
  <2>3. ASSUME NEW g \in Guests, SeatDecided(g) PROVE clock' \in Times /\ guest' \in tables /\ joinPage' \in pages
    BY <2>1, <2>3 DEF SeatDecided
  <2>4. ASSUME NEW g \in Guests, RefreshJoin(g) PROVE clock' \in Times /\ guest' \in tables /\ joinPage' \in pages
    BY <2>1, <2>4, CheckinStateType DEF RefreshJoin, Page, View
  <2>5. ASSUME NEW g \in Guests, OnlineJoin(g) \/ CheckinLoads(g)
        PROVE  clock' \in Times /\ guest' \in tables /\ joinPage' \in pages
    BY <2>1, <2>5 DEF OnlineJoin, CheckinClicked, CheckinLoads, Page
  <2>6. ASSUME NEW g \in Guests, NEW seated \in BOOLEAN, NEW ok \in BOOLEAN,
               CheckinUpdates(g, seated, ok)
        PROVE  clock' \in Times /\ guest' \in tables /\ joinPage' \in pages
    BY <2>1, <2>6, CheckinStateType DEF CheckinUpdates, Page, View
  <2> QED  BY <2>2, <2>3, <2>4, <2>5, <2>6
<1>3. OnlineTypeOK'  BY <1>1, <1>2 DEF OnlineInv, OnlineTypeOK
<1>4. SendersFit' /\ SaverFits'  BY <1>1 DEF OnlineInv, SendersFit, SaverFits
<1>5. ASSUME NEW g \in Guests PROVE Claimants(g)' \subseteq Claimants(g)
  BY <1>1 DEF Claimants
<1>6. Claims <= Claims'  BY <1>1, ClaimStays DEF OnlineInv
<1>7. ClaimsCount'  BY <1>1, <1>3, <1>5, <1>6, ClaimsKept DEF OnlineInv
<1> QED  BY <1>3, <1>4, <1>7 DEF OnlineInv

(* "... so two instances, or the scheduler and an admin, never both send it": *)
(* the claim of sendReminder (online.service.ts:125) makes it so with any     *)
(* number of instances, of attendees and of crashes, but for the saves of the *)
(* event row that take a claim back and for the sends an admin forces once    *)
(* the reminder has gone out.                                               *)
THEOREM ReminderClaimed ==
  OnlineInit /\ [][OnlineNext]_onlineVars => []OnlineTypeOK /\ []RemindedOnce
<1>1. OnlineInv /\ [OnlineNext]_onlineVars => OnlineInv'
  <2> SUFFICES ASSUME OnlineInv, [OnlineNext]_onlineVars PROVE OnlineInv'  OBVIOUS
  <2>1. CASE UNCHANGED onlineVars
    BY <2>1 DEF onlineVars, OnlineInv, OnlineTypeOK, SendersFit, SaverFits, ClaimsCount, Claims,
      Claimed, Claimants, Times
  <2>2. CASE OnlineNext
    BY <2>2, StartsKeep, ClaimKeeps, ListKeeps, CountSentKeeps, ReminderCrashKeeps, ChunkKeeps,
      EventRowKeeps, AttendeesKeep
      DEF OnlineNext
  <2> QED  BY <2>1, <2>2
<1>2. OnlineInv => OnlineTypeOK /\ RemindedOnce
  <2> SUFFICES ASSUME OnlineInv, NEW g \in Guests PROVE mailed[g] <= 1 + undone + resent
    BY DEF OnlineInv, RemindedOnce
  <2>1. /\ mailed[g] + Cardinality(Claimants(g)) <= Claims
        /\ mailed[g] \in Nat /\ Claims \in Nat /\ Cardinality(Claimants(g)) \in Nat
    BY CountsTyped, ClaimantsFinite DEF OnlineInv, ClaimsCount
  <2>2. Claims <= 1 + undone + resent
    <3>1. undone \in Nat /\ resent \in Nat  BY OnlineAssumption DEF OnlineInv, OnlineTypeOK
    <3> QED  BY <3>1 DEF Claims, Claimed
  <2>3. 1 + undone + resent \in Nat  BY OnlineAssumption DEF OnlineInv, OnlineTypeOK
  <2>4. \A m, c, u, l \in Nat : m + c <= u /\ u <= l => m <= l  OBVIOUS
  <2> QED  BY <2>1, <2>2, <2>3, <2>4
<1> QED  BY <1>1, <1>2, OnlineStart, PTL

-----------------------------------------------------------------------------
(* The mailings. *)

(* Whoever was set to expired stays so. *)
MarkedExpired == \A r \in marked : invited[r].expired

(* A row that is being saved never takes an expiry back, and a save for the  *)
(* "window has closed" mail sets it, by the columns the UPDATE writes or     *)
(* because the row has it already.                                           *)
SavesExpiry ==
  mailing.pc \in {"save", "write"} =>
    /\ invited[mailing.cur].expired => mailing.ent.expired
    /\ mailing.op = "expired" => mailing.ent.expired
    /\ mailing.pc = "write" /\ "expired" \notin mailing.cols =>
         invited[mailing.cur].expired = mailing.ent.expired

MailingsInv == MailingsTypeOK /\ MarkedExpired /\ SavesExpiry

LEMMA ActiveMailing ==
  ASSUME MailingsTypeOK, mailing.pc # "idle"
  PROVE  mailing \in MailingRequests
BY DEF MailingsTypeOK, NoMailing

LEMMA RowColumns == \A row \in RegRow :
  DOMAIN row = {"status", "acknowledged", "expired", "checkedIn", "deleted"}
BY DEF RegRow

LEMMA WrittenRow ==
  ASSUME NEW row \in RegRow, NEW ent \in RegRow, NEW cols
  PROVE  /\ UpdateColumns(row, ent, cols) \in RegRow
         /\ UpdateColumns(row, ent, cols).expired =
              IF "expired" \in cols THEN ent.expired ELSE row.expired
BY DEF UpdateColumns, RegRow

LEMMA MailingsStart == MailingsInit => MailingsInv
<1>1. [NewReg EXCEPT !.status = "shortlisted"] \in RegRow  BY DEF NewReg, RegRow, RegStatuses
<1> QED
  BY <1>1 DEF MailingsInit, MailingsInv, MailingsTypeOK, MarkedExpired, SavesExpiry, NoMailing

(* A step of the request that leaves the rows and the marks alone. *)
LEMMA RequestKeeps ==
  ASSUME MailingsInv, mailing' \in MailingRequests \cup {NoMailing},
         mailing'.pc \notin {"save", "write"}, invited' = invited, marked' = marked,
         informed' \subseteq Invited
  PROVE  MailingsInv'
BY DEF MailingsInv, MailingsTypeOK, MarkedExpired, SavesExpiry

LEMMA AskKeeps ==
  ASSUME MailingsInv, NEW op \in MailOps, NEW reject \in BOOLEAN, NEW ids \in SUBSET Invited,
         AskMailing(op, reject, ids)
  PROVE  MailingsInv'
<1>1. NewReg \in RegRow  BY DEF NewReg, RegRow, RegStatuses
<1>2. mailing' \in MailingRequests /\ mailing'.pc = "rows"
  BY <1>1 DEF AskMailing, MailingRequests
<1> QED  BY <1>2, RequestKeeps DEF AskMailing, MailingsInv, MailingsTypeOK

(* What a handler makes of a row is a row, with the expiry it had or a new one. *)
LEMMA HandledRow ==
  ASSUME NEW row \in RegRow, NEW noQr \in BOOLEAN, mailing \in MailingRequests
  PROVE  LET does == Handled(row, noQr) IN
         does.saves => /\ does.as \in RegRow
                       /\ row.expired => does.as.expired
                       /\ mailing.op = "expired" => does.as.expired
<1>1. mailing.op \in MailOps  BY DEF MailingRequests
<1>2. CASE mailing.op = "reminder"  BY <1>2 DEF Handled, sendReminder
<1>3. CASE mailing.op = "whatsapp"  BY <1>3 DEF Handled, sendWhatsappGroup
<1>4. CASE mailing.op = "expired"
  <2> DEFINE status == IF mailing.reject /\ row.status = "shortlisted" THEN "rejected" ELSE row.status
             as == [row EXCEPT !.expired = TRUE, !.status = status]
  <2>1. Handled(row, noQr).as = as
    BY <1>4 DEF Handled, sendAcknowledgementExpired, RegRow
  <2>2. status \in RegStatuses  BY DEF RegRow, RegStatuses
  <2> HIDE DEF status
  <2>3. as \in RegRow /\ as.expired  BY <2>2 DEF RegRow
  <2> QED  BY <2>1, <2>3
<1>5. CASE mailing.op = "rejection"
  <2>1. Handled(row, noQr) = sendRejection(row, mailing.reject)
    BY <1>5 DEF Handled
  <2> QED  BY <1>5, <2>1 DEF sendRejection, RegRow, RegStatuses
<1> QED  BY <1>1, <1>2, <1>3, <1>4, <1>5 DEF MailOps

LEMMA LoadInvitedKeeps ==
  ASSUME MailingsInv, NEW r \in Invited, NEW noQr \in BOOLEAN, LoadInvited(r, noQr)
  PROVE  MailingsInv'
<1> DEFINE does == Handled(invited[r], noQr)
           rest == [mailing EXCEPT !.todo = @ \ {r}]
<1>1. mailing \in MailingRequests /\ mailing.pc = "rows"
  BY ActiveMailing DEF LoadInvited, MailingsInv
<1>2. invited[r] \in RegRow  BY DEF MailingsInv, MailingsTypeOK
<1>3. does.saves => /\ does.as \in RegRow
                    /\ invited[r].expired => does.as.expired
                    /\ mailing.op = "expired" => does.as.expired
  BY <1>1, <1>2, HandledRow
<1>4. rest \in MailingRequests /\ rest.pc = "rows"  BY <1>1 DEF MailingRequests
<1>5. /\ UNCHANGED <<invited, marked, informed>>
      /\ mailing' = IF ~does.mails THEN [rest EXCEPT !.failed = @ \cup {r}]
                    ELSE IF does.saves THEN [rest EXCEPT !.pc = "save", !.cur = r, !.ent = does.as]
                    ELSE [rest EXCEPT !.eligible = @ \cup {r}]
  BY DEF LoadInvited
<1> HIDE DEF does
<1>6. CASE does.mails /\ does.saves
  <2>1. rest.op = mailing.op  BY <1>1 DEF MailingRequests
  <2> HIDE DEF rest
  <2>2. mailing' = [rest EXCEPT !.pc = "save", !.cur = r, !.ent = does.as]  BY <1>5, <1>6
  <2>3. /\ mailing' \in MailingRequests /\ mailing'.pc = "save"
        /\ mailing'.cur = r /\ mailing'.ent = does.as /\ mailing'.op = mailing.op
    BY <1>3, <1>4, <1>6, <2>1, <2>2 DEF MailingRequests
  <2> QED  BY <1>3, <1>5, <1>6, <2>3 DEF MailingsInv, MailingsTypeOK, MarkedExpired, SavesExpiry
<1>7. CASE ~(does.mails /\ does.saves)
  <2> HIDE DEF rest
  <2>1. \/ mailing' = [rest EXCEPT !.failed = rest.failed \cup {r}]
        \/ mailing' = [rest EXCEPT !.eligible = rest.eligible \cup {r}]
    BY <1>5, <1>7
  <2>2. mailing' \in MailingRequests /\ mailing'.pc = "rows"  BY <1>4, <2>1 DEF MailingRequests
  <2> QED  BY <1>5, <2>2, RequestKeeps DEF MailingsInv, MailingsTypeOK
<1> QED  BY <1>6, <1>7

LEMMA SelectKeeps ==
  ASSUME MailingsInv, SelectInvited
  PROVE  MailingsInv'
<1>1. mailing \in MailingRequests /\ mailing.pc = "save"
  BY ActiveMailing DEF SelectInvited, MailingsInv
<1>2. invited[mailing.cur] \in RegRow /\ mailing.ent \in RegRow
  BY <1>1 DEF MailingsInv, MailingsTypeOK, MailingRequests
<1> DEFINE cols == ChangedColumns(mailing.ent, invited[mailing.cur])
<1>3. /\ cols \in SUBSET DOMAIN NewReg
      /\ "expired" \notin cols => invited[mailing.cur].expired = mailing.ent.expired
  <2>1. DOMAIN NewReg = DOMAIN invited[mailing.cur] /\ "expired" \in DOMAIN NewReg
    BY <1>2, RowColumns DEF NewReg
  <2> QED  BY <1>2, <2>1 DEF ChangedColumns
<1>4. mailing' = [mailing EXCEPT !.pc = "write", !.cols = cols]  BY DEF SelectInvited
<1> HIDE DEF cols
<1>5. /\ mailing' \in MailingRequests /\ mailing'.pc = "write" /\ mailing'.cols = cols
      /\ mailing'.cur = mailing.cur /\ mailing'.ent = mailing.ent /\ mailing'.op = mailing.op
  BY <1>1, <1>3, <1>4 DEF MailingRequests
<1> QED
  BY <1>1, <1>3, <1>5
    DEF SelectInvited, MailingsInv, MailingsTypeOK, MarkedExpired, SavesExpiry

LEMMA WriteInvitedKeeps ==
  ASSUME MailingsInv, WriteInvited
  PROVE  MailingsInv'
<1> DEFINE r == mailing.cur
           row == UpdateColumns(invited[r], mailing.ent, mailing.cols)
<1>1. mailing \in MailingRequests /\ mailing.pc = "write"
  BY ActiveMailing DEF WriteInvited, MailingsInv
<1>2. invited[r] \in RegRow /\ mailing.ent \in RegRow /\ r \in Invited
  BY <1>1 DEF MailingsInv, MailingsTypeOK, MailingRequests
<1>3. row \in RegRow /\ row.expired = IF "expired" \in mailing.cols THEN mailing.ent.expired
                                      ELSE invited[r].expired
  BY <1>2, WrittenRow
<1>4. /\ invited' = [invited EXCEPT ![r] = row]
      /\ marked' = IF mailing.op = "expired" THEN marked \cup {r} ELSE marked
      /\ mailing' = [mailing EXCEPT !.pc = "rows", !.eligible = @ \cup {r}]
      /\ informed' = informed
  BY DEF WriteInvited
<1>5. mailing' \in MailingRequests /\ mailing'.pc = "rows"
  BY <1>1, <1>2, <1>4 DEF MailingRequests
<1>6. /\ invited[r].expired => row.expired
      /\ mailing.op = "expired" => row.expired
  BY <1>1, <1>3 DEF MailingsInv, SavesExpiry
<1> HIDE DEF row
<1>7. MailingsTypeOK'  BY <1>2, <1>3, <1>4, <1>5 DEF MailingsInv, MailingsTypeOK
<1>8. MarkedExpired'
  <2> SUFFICES ASSUME NEW x \in marked' PROVE invited'[x].expired  BY DEF MarkedExpired
  <2>1. x \in Invited  BY <1>7 DEF MailingsTypeOK
  <2>2. CASE x = r
    <3>1. invited'[x] = row  BY <1>2, <1>4, <2>2 DEF MailingsInv, MailingsTypeOK
    <3> QED  BY <1>4, <1>6, <2>2, <3>1 DEF MailingsInv, MarkedExpired
  <2>3. CASE x # r
    <3>1. invited'[x] = invited[x] /\ x \in marked
      BY <1>4, <2>1, <2>3 DEF MailingsInv, MailingsTypeOK
    <3> QED  BY <3>1 DEF MailingsInv, MarkedExpired
  <2> QED  BY <2>2, <2>3
<1> QED  BY <1>5, <1>7, <1>8 DEF MailingsInv, SavesExpiry

LEMMA MailsKeep ==
  ASSUME MailingsInv,
         \/ StartMails \/ MailingStops
         \/ \E taken \in BOOLEAN : \/ SendRejections(taken)
                                   \/ \E r \in Invited : SendOne(r, taken)
  PROVE  MailingsInv'
<1>1. CASE StartMails
  <2>1. mailing \in MailingRequests  BY <1>1, ActiveMailing DEF StartMails, MailingsInv
  <2>2. mailing' \in MailingRequests /\ mailing'.pc \in {"done", "mail"}
    BY <1>1, <2>1 DEF StartMails, MailingRequests
  <2> QED  BY <1>1, <2>2, RequestKeeps DEF StartMails, MailingsInv, MailingsTypeOK
<1>2. CASE MailingStops
  BY <1>2, RequestKeeps DEF MailingStops, MailingsInv, MailingsTypeOK, NoMailing
<1>3. ASSUME NEW batch \in SUBSET Invited, NEW taken \in BOOLEAN, mailing.pc = "mail",
             Deliver(batch, taken)
      PROVE  MailingsInv'
  <2>1. mailing \in MailingRequests  BY <1>3, ActiveMailing DEF MailingsInv
  <2>2. FailedEmails(batch) \in SUBSET Invited  BY DEF FailedEmails
  <2>3. mailing' \in MailingRequests /\ mailing'.pc \in {"done", "mail"}
    BY <1>3, <2>1, <2>2 DEF Deliver, MailingRequests
  <2> QED  BY <1>3, <2>3, RequestKeeps DEF Deliver, MailingsInv, MailingsTypeOK
<1>4. ASSUME NEW taken \in BOOLEAN, SendRejections(taken) PROVE MailingsInv'
  <2>1. mailing.eligible \in SUBSET Invited
    BY <1>4, ActiveMailing DEF SendRejections, MailingsInv, MailingRequests
  <2> QED  BY <1>3, <1>4, <2>1 DEF SendRejections
<1>5. ASSUME NEW taken \in BOOLEAN, NEW r \in Invited, SendOne(r, taken) PROVE MailingsInv'
  BY <1>3, <1>5 DEF SendOne
<1> QED  BY <1>1, <1>2, <1>4, <1>5

(* What others do to a row never takes its expiry back. *)
LEMMA RowChangesKeep ==
  ASSUME MailingsInv, NEW r \in Invited,
         \/ MailedAcknowledges(r) \/ MailedDeleted(r)
         \/ \E s \in RegStatuses : MailedStatus(r, s)
  PROVE  MailingsInv'
<1>1. invited[r] \in RegRow  BY DEF MailingsInv, MailingsTypeOK
<1>2. PICK row \in RegRow : RowChanges(r, row) /\ row.expired = invited[r].expired
  <2>1. CASE MailedAcknowledges(r)
    <3> DEFINE row == [invited[r] EXCEPT !.acknowledged = TRUE]
    <3>1. row \in RegRow /\ row.expired = invited[r].expired  BY <1>1 DEF RegRow
    <3> QED  BY <2>1, <3>1 DEF MailedAcknowledges
  <2>2. CASE MailedDeleted(r)
    <3> DEFINE row == [invited[r] EXCEPT !.deleted = ~invited[r].deleted]
    <3>1. row \in RegRow /\ row.expired = invited[r].expired  BY <1>1 DEF RegRow
    <3> QED  BY <2>2, <3>1 DEF MailedDeleted
  <2>3. ASSUME NEW s \in RegStatuses, MailedStatus(r, s)
        PROVE  \E row \in RegRow : RowChanges(r, row) /\ row.expired = invited[r].expired
    <3>1. WithStatus(invited[r], s) \in RegRow /\ WithStatus(invited[r], s).expired = invited[r].expired
      BY <1>1 DEF WithStatus, RegRow
    <3> QED  BY <2>3, <3>1 DEF MailedStatus
  <2> QED  BY <2>1, <2>2, <2>3
<1>3. \A x \in Invited : invited'[x].expired = invited[x].expired
  BY <1>2 DEF RowChanges, MailingsInv, MailingsTypeOK
<1>4. MailingsTypeOK'  BY <1>2 DEF RowChanges, MailingsInv, MailingsTypeOK
<1>5. MarkedExpired'  BY <1>2, <1>3 DEF RowChanges, MailingsInv, MailingsTypeOK, MarkedExpired
<1>6. SavesExpiry'
  <2>1. mailing' = mailing  BY <1>2 DEF RowChanges
  <2>2. mailing.pc \in {"save", "write"} => mailing.cur \in Invited
    BY ActiveMailing DEF MailingsInv, MailingRequests
  <2> QED  BY <1>3, <2>1, <2>2 DEF MailingsInv, SavesExpiry
<1> QED  BY <1>4, <1>5, <1>6 DEF MailingsInv

(* "makes this re-runnable" (admin.service.ts:570): whoever a request has set *)
(* to expired and no mail has reached stays eligible for the next request,   *)
(* whatever failed or crashed and whatever became of the status meanwhile.   *)
THEOREM ExpiredCanBeMailed ==
  MailingsInit /\ [][MailingsNext]_mailingVars => []MailingsTypeOK /\ []FailedMailsCanBeRetried
<1>1. MailingsInv /\ [MailingsNext]_mailingVars => MailingsInv'
  <2> SUFFICES ASSUME MailingsInv, [MailingsNext]_mailingVars PROVE MailingsInv'  OBVIOUS
  <2>1. CASE UNCHANGED mailingVars
    BY <2>1 DEF mailingVars, MailingsInv, MailingsTypeOK, MarkedExpired, SavesExpiry
  <2>2. CASE MailingsNext
    BY <2>2, AskKeeps, LoadInvitedKeeps, SelectKeeps, WriteInvitedKeeps, MailsKeep, RowChangesKeep
      DEF MailingsNext
  <2> QED  BY <2>1, <2>2
<1>2. MailingsInv => MailingsTypeOK /\ FailedMailsCanBeRetried
  BY DEF MailingsInv, MailingsTypeOK, MarkedExpired, FailedMailsCanBeRetried,
    sendAcknowledgementExpired, MayExpire
<1> QED  BY <1>1, <1>2, MailingsStart, PTL
=============================================================================
