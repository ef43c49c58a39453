----------------------------- MODULE MCConsole -----------------------------
(* The pages and handlers around the registrations, for TLC: seven components  *)
(* that share no variable with each other. A behaviour is one of `part`, the *)
(* others keep their initial states, so that the states add up instead of    *)
(* multiplying.                                                             *)
EXTENDS AdminUsers, EmailTemplates, OnlineReminder, AdminMailings, RegistrationsViewer, CheckinDesk,
  RegistrationForms

CONSTANTS a1, a2, b1, b2, s1, r1, r2, i1, i2, g1, p1, p2

VARIABLE part

(* What is offered: a hackathon of teams up to two or three, online or not, or *)
(* of size 0, a workshop, and a community lounge that has tracks, or none.   *)
Hackathon(isOnline, size) ==
  [kind |-> "hackathon", open |-> TRUE, online |-> isOnline, exceptions |-> TRUE,
   teams |-> TRUE, max |-> size, tracks |-> {}]
Workshop == [Hackathon(FALSE, 2) EXCEPT !.kind = "workshop", !.teams = FALSE]
Lounge == [Workshop EXCEPT !.kind = "community-lounge", !.tracks = {"t1", "t2"}, !.exceptions = FALSE]
Offered ==
  {Hackathon(FALSE, 3), Hackathon(TRUE, 2), Hackathon(FALSE, 0), Workshop, [Workshop EXCEPT !.online = TRUE],
   Lounge, [Lounge EXCEPT !.tracks = {}], [Lounge EXCEPT !.open = FALSE]}

Whole(address) == [key |-> 0, email |-> address, cnic |-> "ok", choice |-> "set", text |-> "padded",
                   skills |-> <<"s1">>, primary |-> "s1"]
Typed ==
  {Whole("m1"), Whole("m2"), [Whole("m3") EXCEPT !.text = "long"], [Whole("odd") EXCEPT !.primary = ""]}

Tokens == b1 :> a1 @@ b2 :> a2
EventOf == <<"e1", "e1", "e1">>
TeamOf == <<1, 1, 2>>

(* Browsers are exchanged with their accounts; mails and schedulers with them, *)
(* since only one part moves.                                                 *)
Exchange == a1 :> a2 @@ a2 :> a1 @@ b1 :> b2 @@ b2 :> b1 @@ r1 :> r2 @@ r2 :> r1 @@ i1 :> i2 @@ i2 :> i1
Symmetry == {p \in Permutations(DOMAIN Exchange) : p = Exchange \/ \A v \in DOMAIN p : p[v] = v}

consoleVars == <<part, usersVars, templatesVars, onlineVars, mailingVars, viewerVars, deskVars, formVars>>

Init ==
  /\ part \in {"users", "templates", "online", "mailings", "viewer", "desk", "forms"}
  /\ UsersInit /\ TemplatesInit /\ OnlineInit /\ MailingsInit /\ ViewerInit /\ DeskInit /\ FormInit
  /\ part # "desk" => ~hackathon
  /\ part # "forms" => event = Hackathon(FALSE, 3)

KeepUsers == UNCHANGED usersVars
KeepTemplates == UNCHANGED templatesVars
KeepOnline == UNCHANGED onlineVars
KeepMailings == UNCHANGED mailingVars
KeepViewer == UNCHANGED viewerVars
KeepDesk == UNCHANGED deskVars
KeepForms == UNCHANGED formVars

Next ==
  /\ UNCHANGED part
  /\ \/ /\ part = "users" /\ UsersNext
        /\ KeepTemplates /\ KeepOnline /\ KeepMailings /\ KeepViewer /\ KeepDesk /\ KeepForms
     \/ /\ part = "templates" /\ TemplatesNext
        /\ KeepUsers /\ KeepOnline /\ KeepMailings /\ KeepViewer /\ KeepDesk /\ KeepForms
     \/ /\ part = "online" /\ OnlineNext
        /\ KeepUsers /\ KeepTemplates /\ KeepMailings /\ KeepViewer /\ KeepDesk /\ KeepForms
     \/ /\ part = "mailings" /\ MailingsNext
        /\ KeepUsers /\ KeepTemplates /\ KeepOnline /\ KeepViewer /\ KeepDesk /\ KeepForms
     \/ /\ part = "viewer" /\ ViewerNext
        /\ KeepUsers /\ KeepTemplates /\ KeepOnline /\ KeepMailings /\ KeepDesk /\ KeepForms
     \/ /\ part = "desk" /\ DeskNext
        /\ KeepUsers /\ KeepTemplates /\ KeepOnline /\ KeepMailings /\ KeepViewer /\ KeepForms
     \/ /\ part = "forms" /\ FormsNext
        /\ KeepUsers /\ KeepTemplates /\ KeepOnline /\ KeepMailings /\ KeepViewer /\ KeepDesk

Spec == Init /\ [][Next]_consoleVars

(* TLC tells states apart by the component that moves: the others are as they *)
(* were in the initial state of their part.                                  *)
Moving ==
  <<part, CASE part = "users"     -> usersVars
            [] part = "templates" -> templatesVars
            [] part = "online"    -> onlineVars
            [] part = "mailings"  -> mailingVars
            [] part = "viewer"    -> viewerVars
            [] part = "desk"      -> deskVars
            [] part = "forms"     -> formVars>>

-----------------------------------------------------------------------------
(* The state of each of the seven components is well typed. *)
TypeOK == UsersTypeOK /\ TemplatesTypeOK /\ OnlineTypeOK /\ MailingsTypeOK /\ ViewerTypeOK /\ DeskTypeOK
          /\ FormTypeOK
=============================================================================
