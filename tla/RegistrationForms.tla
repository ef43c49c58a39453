------------------------- MODULE RegistrationForms -------------------------
(***************************************************************************)
(* The public registration page in one browser: the form of somebody alone   *)
(* and the captain's form for a team, the rules the page checks before it    *)
(* sends, and the rules the backend checks again. The event is fetched, and  *)
(* may be edited while the form is being filled in.                         *)
(*                                                                          *)
(* One person's answers are a card. Its email stands for all that identifies *)
(* a person, "" while some of it is missing; "odd" is an address that the    *)
(* page takes for one and the backend does not ("a@b.c"). Its choice stands  *)
(* for the lists to choose from and the best project; its text is the        *)
(* motivation, where "padded" is too long only with the blanks around it.    *)
(* Who is registered already and the capacity belong to RegistrationSeats:    *)
(* here the backend may refuse for them at any time.                         *)
(***************************************************************************)
EXTENDS Naturals, SequencesExt

CONSTANTS
  Offers,         \* what the event is and can be edited to, of FormEvent
  Emails,         \* sound addresses
  Skills,         \* SKILL_OPTIONS
  MaxSkills,      \* MAX_SKILLS
  MinSize,        \* min_team_size
  UnsetSize,      \* the page's limit of a team where max_team_size is 0: 4
  TypedCards      \* bound: what is typed into the cards of a team, a whole card at a time

Tracks == UNION {o.tracks : o \in Offers}
Lengths == {"", "ok", "padded", "long"}
FormEvent == [kind : {"hackathon", "workshop", "community-lounge"}, open : BOOLEAN, online : BOOLEAN,
              exceptions : BOOLEAN, teams : BOOLEAN, max : Nat, tracks : SUBSET Tracks]

(* The members a page adds; only the panel, not updateConfig, compares the sizes. *)
SizeShown(e) ==
  LET size == IF e.max = 0 THEN UnsetSize ELSE e.max IN IF size < MinSize THEN MinSize ELSE size
MaxCards == CHOOSE n \in {SizeShown(o) : o \in Offers} : \A o \in Offers : SizeShown(o) <= n
Keys == 1..2 * MaxCards

VARIABLES
  event,      \* the event as it is stored
  page,       \* as the browser has it
  mode,       \* "" (not chosen), "individual", "team"; "sent" once the browser has moved on
  already,    \* alreadyRegistered
  form,       \* formData
  members,    \* the cards of the team form, <<>> while it is not shown
  team,       \* its questions about the team
  errors      \* errors.members: for each position the key of the card that was wrong, or 0

formVars == <<event, page, mode, already, form, members, team, errors>>

EmptyCard(key) == [key |-> key, email |-> "", cnic |-> "", choice |-> "", text |-> "",
                   skills |-> <<>>, primary |-> ""]
EmptyTeam == [hasIdea |-> "", idea |-> ""]

PrimaryTicked(c) == c.primary = "" \/ c.primary \in ToSet(c.skills)
CardTypeOK(c) ==
  /\ c.email \in {"", "odd"} \cup Emails /\ c.cnic \in {"", "half", "ok"}
  /\ c.choice \in {"", "set"} \cup Tracks /\ c.text \in Lengths
  /\ c.skills \in Seq(Skills) /\ IsInjective(c.skills) /\ Len(c.skills) <= MaxSkills
  /\ PrimaryTicked(c)

ASSUME FormsAssumption ==
  /\ MinSize \in Nat \ {0} /\ UnsetSize \in Nat /\ MaxSkills \in Nat
  /\ Offers \subseteq FormEvent /\ \E o \in Offers : \A p \in Offers : SizeShown(p) <= SizeShown(o)
  /\ \A c \in TypedCards : DOMAIN c = DOMAIN EmptyCard(0) /\ CardTypeOK(c)

FormTypeOK ==
  /\ event \in Offers /\ page \in Offers
  /\ mode \in {"", "individual", "team", "sent"} /\ already \in BOOLEAN
  /\ CardTypeOK(form) /\ Len(members) <= MaxCards
  /\ \A i \in DOMAIN members : CardTypeOK(members[i]) /\ members[i].key \in Keys
  /\ team \in [hasIdea : {"", "yes", "no"}, idea : Lengths]
  /\ \A i \in DOMAIN errors : errors[i] \in {0} \cup Keys

FormInit ==
  /\ event \in Offers /\ page = event
  /\ mode = "" /\ already = FALSE
  /\ form = EmptyCard(0) /\ members = <<>> /\ team = EmptyTeam /\ errors = <<>>

-----------------------------------------------------------------------------
(* What the page checks: nothing is wrong with ... *)

ValidSkills(c) == c.skills # <<>> /\ Len(c.skills) <= MaxSkills
ValidPrimary(c) == c.primary # "" /\ c.primary \in ToSet(c.skills)
ValidText(c) == c.text \notin {"", "long"}

ValidateForm(c, e) ==
  /\ c.email # "" /\ (e.online \/ c.cnic = "ok")
  /\ CASE e.kind = "hackathon" -> c.choice = "set" /\ ValidSkills(c) /\ ValidPrimary(c) /\ ValidText(c)
       [] e.kind = "community-lounge" -> c.choice # "" /\ (e.tracks # {} => c.choice \in e.tracks)
       [] OTHER -> c.choice = "set" /\ ValidText(c)

(* As for a hackathon that is not known to be online; of the others than the *)
(* captain only the skills are asked.                                       *)
ValidateMember(c, captain) ==
  /\ c.email # "" /\ c.cnic = "ok" /\ ValidSkills(c) /\ ValidPrimary(c)
  /\ captain => c.choice = "set" /\ ValidText(c)

(* The later one of two cards with one address is flagged. *)
Flagged(i) ==
  \/ ~ValidateMember(members[i], i = 1)
  \/ members[i].email # "" /\ \E j \in 1..i - 1 : members[j].email = members[i].email

(* A size of 0 is none to the page, and no team at all to the backend. *)
ValidateTeam ==
  /\ team.hasIdea # "" /\ (team.hasIdea = "yes" => team.idea \notin {"", "long"})
  /\ Len(members) >= MinSize /\ (page.max # 0 => Len(members) <= page.max)

-----------------------------------------------------------------------------
(* What is sent: the texts of a captain without the blanks around them, those *)
(* of somebody alone as they are.                                            *)
Trimmed(text) == IF text = "padded" THEN "ok" ELSE text

(* Mutant: the captain's text is sent as it is. *)
MutMemberPayload(c) == c

MemberPayload(c) == [c EXCEPT !.text = Trimmed(@)]
TeamPayload ==
  [team |-> [team EXCEPT !.idea = IF team.hasIdea = "yes" THEN Trimmed(@) ELSE ""],
   members |-> [i \in DOMAIN members |-> MemberPayload(members[i])]]

-----------------------------------------------------------------------------
(* What the backend checks. *)

(* CreateRegistrationDto, TeamMemberDto *)
ValidDto(c) == c.email \in Emails /\ c.cnic # "half"

(* assertSkills, resolvePrimarySkill *)
SkillsTaken(c) ==
  /\ c.skills # <<>> /\ Len(c.skills) <= MaxSkills
  /\ IF c.primary = "" THEN Len(c.skills) = 1 ELSE c.primary \in ToSet(c.skills)

(* assertShortlistingAnswers: the length is that of the whole text. *)
AnswersTaken(c) == c.choice = "set" /\ c.text = "ok"

RegisterTakes(c) ==
  /\ ValidDto(c) /\ event.open /\ (event.online \/ c.cnic = "ok")
  /\ CASE event.kind = "hackathon" -> SkillsTaken(c) /\ AnswersTaken(c)
       [] event.kind = "community-lounge" -> c.choice \in event.tracks
       [] OTHER -> c.choice = "set" /\ c.text # ""

RegisterTeamTakes(p) ==
  /\ event.kind = "hackathon" /\ event.open /\ event.teams
  /\ Len(p.members) \in MinSize..event.max
  /\ \A i \in DOMAIN p.members : /\ ValidDto(p.members[i]) /\ p.members[i].cnic = "ok"
                                 /\ SkillsTaken(p.members[i])
  /\ \A i, j \in DOMAIN p.members : p.members[i].email = p.members[j].email => i = j
  /\ p.team.hasIdea = "yes" => p.team.idea = "ok"
  /\ AnswersTaken(p.members[1])

-----------------------------------------------------------------------------
(* Which form is shown; the team form forgets everything when it is not. *)

AllowsTeams(e) == e.kind = "hackathon" /\ e.teams
TeamShown(e, m) == AllowsTeams(e) /\ e.open /\ m = "team"
FormHidden == already /\ page.exceptions
ChoiceShown == page.open /\ AllowsTeams(page) /\ mode = "" /\ ~FormHidden
FormShown ==
  /\ page.open /\ mode # "sent" /\ ~FormHidden
  /\ ~TeamShown(page, mode) /\ (AllowsTeams(page) => mode # "")

Render(e, m) ==
  /\ page' = e /\ mode' = m
  /\ IF TeamShown(e, m) = TeamShown(page, mode) THEN UNCHANGED <<members, team, errors>>
     ELSE /\ members' = IF TeamShown(e, m) THEN [i \in 1..MinSize |-> EmptyCard(i)] ELSE <<>>
          /\ team' = EmptyTeam /\ errors' = <<>>

(* An organiser edits the event, or the largest size of its teams; its type and *)
(* min_team_size stay.                                                        *)
EditEvent(e) ==
  /\ e.kind = event.kind /\ event' = e
  /\ UNCHANGED <<page, mode, already, form, members, team, errors>>

RefetchEvent == mode # "sent" /\ Render(event, mode) /\ UNCHANGED <<event, already, form>>

(* Bound: what was typed into the form of one person is not taken to that of a team. *)
ChooseMode(m) ==
  /\ m = "team" => form = EmptyCard(0)
  /\ Render(page, m) /\ UNCHANGED <<event, already, form>>

-----------------------------------------------------------------------------
(* The form of one person. *)

Fill(c) == form' = c /\ UNCHANGED <<event, page, mode, already, members, team, errors>>

AttendeeFields ==
  \/ \E email \in {"", "odd"} \cup Emails : Fill([form EXCEPT !.email = email])
  \/ ~page.online /\ \E cnic \in {"", "half", "ok"} : Fill([form EXCEPT !.cnic = cnic])

ChoiceFields ==
  \E choice \in {""} \cup IF page.kind = "community-lounge" THEN page.tracks ELSE {"set"} :
    Fill([form EXCEPT !.choice = choice])

MotivationField == page.kind # "community-lounge" /\ \E text \in Lengths : Fill([form EXCEPT !.text = text])

(* A skill is ticked once: filtering it out takes one place away. *)
Unticked(skills, s) == RemoveAt(skills, CHOOSE i \in DOMAIN skills : skills[i] = s)

(* Mutant: the skill that was just unticked stays the primary one. *)
MutToggleSkill(c, s) ==
  IF s \in ToSet(c.skills) THEN [c EXCEPT !.skills = Unticked(@, s)]
  ELSE IF Len(c.skills) >= MaxSkills THEN c
  ELSE [c EXCEPT !.skills = Append(@, s), !.primary = IF @ = "" THEN s ELSE @]

(* The first pick is adopted, also when the primary one is unticked. *)
ToggleSkill(c, s) ==
  LET next == IF s \in ToSet(c.skills) THEN Unticked(c.skills, s) ELSE Append(c.skills, s)
  IN IF s \notin ToSet(c.skills) /\ Len(c.skills) >= MaxSkills THEN c
     ELSE [c EXCEPT !.skills = next,
                    !.primary = CASE @ \in ToSet(next) -> @
                                  [] next = <<>> -> ""
                                  [] OTHER -> Head(next)]

ExperienceFields ==
  /\ page.kind = "hackathon"
  /\ \/ \E s \in Skills : Fill(ToggleSkill(form, s))
     \/ \E s \in {""} \cup ToSet(form.skills) : form.skills # <<>> /\ Fill([form EXCEPT !.primary = s])

(* The page moves on, or says that the address is registered, which hides the *)
(* form where exceptions are accepted, or says that it has failed.            *)
Registered(taken) ==
  \/ /\ taken /\ mode' = "sent" /\ form' = EmptyCard(0) /\ members' = <<>> /\ team' = EmptyTeam /\ errors' = <<>>
     /\ UNCHANGED <<event, page, already>>
  \/ UNCHANGED formVars

SubmitForm ==
  /\ ValidateForm(form, page)
  /\ \/ Registered(RegisterTakes(form))
     \/ RegisterTakes(form) /\ already' = TRUE /\ UNCHANGED <<event, page, mode, form, members, team, errors>>

-----------------------------------------------------------------------------
(* The form of a team. *)

Retype(ms, es) == members' = ms /\ errors' = es /\ UNCHANGED <<event, page, mode, already, form, team>>

TeamDetails ==
  /\ \E t \in [hasIdea : {team.hasIdea, "yes", "no"}, idea : Lengths] :
       /\ t.idea # team.idea => team.hasIdea = "yes" /\ t.hasIdea = "yes"
       /\ team' = t
  /\ UNCHANGED <<event, page, mode, already, form, members, errors>>

MemberCard(i) == \E c \in TypedCards :
  Retype([members EXCEPT ![i] = [c EXCEPT !.key = members[i].key]], errors)

FreshKey == CHOOSE k \in Keys : k \notin {members[i].key : i \in DOMAIN members} \cup ToSet(errors)
AddMember == Len(members) < SizeShown(page) /\ Retype(Append(members, EmptyCard(FreshKey)), errors)

(* Mutant: the errors stay where they were. *)
MutRemoveMember(i) == Len(members) > MinSize /\ Retype(RemoveAt(members, i), errors)

RemoveMember(i) ==
  /\ Len(members) > MinSize
  /\ Retype(RemoveAt(members, i), IF i \in DOMAIN errors THEN RemoveAt(errors, i) ELSE errors)

SubmitTeam ==
  LET flags == [i \in DOMAIN members |-> IF Flagged(i) THEN members[i].key ELSE 0] IN
  IF ValidateTeam /\ ToSet(flags) = {0}
  THEN \/ Registered(RegisterTeamTakes(TeamPayload))
       \/ Retype(members, flags)
  ELSE Retype(members, flags)

TeamForm ==
  \/ ChooseMode("")
  \/ TeamDetails \/ AddMember \/ SubmitTeam
  \/ \E i \in DOMAIN members : MemberCard(i) \/ (i > 1 /\ RemoveMember(i))

Form ==
  \/ AllowsTeams(page) /\ ChooseMode("")
  \/ AttendeeFields \/ ChoiceFields \/ MotivationField \/ ExperienceFields \/ SubmitForm

FormsNext ==
  \/ \E e \in Offers : EditEvent(e)
  \/ RefetchEvent
  \/ ChoiceShown /\ \E m \in {"individual", "team"} : ChooseMode(m)
  \/ FormShown /\ Form
  \/ TeamShown(page, mode) /\ TeamForm

-----------------------------------------------------------------------------
(* What the page lets through, the backend takes, as far as the answers go    *)
(* and while the page has the event as it is: the two sets of rules agree but *)
(* for odd addresses, blanks around a lone attendee's text, the half of a     *)
(* CNIC under a field that went away, a track of a lounge that has none any    *)
(* more, and teams of an event whose largest size is 0.                      *)
LetThroughIsTaken ==
  page = event =>
    /\ (FormShown /\ ValidateForm(form, page)) =>
         \/ RegisterTakes(form)
         \/ form.email = "odd" \/ form.text = "padded" \/ (page.online /\ form.cnic = "half")
         \/ page.kind = "community-lounge" /\ page.tracks = {}
    /\ (TeamShown(page, mode) /\ ValidateTeam /\ \A i \in DOMAIN members : ~Flagged(i)) =>
         \/ RegisterTeamTakes(TeamPayload)
         \/ page.max = 0 \/ \E i \in DOMAIN members : members[i].email = "odd"

(* An issue is shown on the card it was found on, through every removal and   *)
(* addition of members since (team-registration-form.jsx:89).                 *)
ErrorsAtTheirMember ==
  \A i \in DOMAIN errors : i \in DOMAIN members => errors[i] \in {0, members[i].key}
=============================================================================
