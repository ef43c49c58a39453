----------------------------- MODULE SeatRaces ------------------------------
(***************************************************************************)
(* RegistrationSeats with a history variable: what other requests took of   *)
(* what a request in flight is about: the seats of its event, a seat of its  *)
(* people, the grant of its exception request.  The behaviours are those of  *)
(* RegistrationSeats; the variable tells a wrong answer given on reads that *)
(* had become stale from one that a check should have prevented.            *)
(***************************************************************************)
EXTENDS RegistrationSeats

VARIABLE overtaken   \* history: what others took since the request began

followed == <<vars, overtaken>>

Nothing == [events |-> {}, people |-> {}, excs |-> {}]

(* The registrations an exception request gave. *)
Via(x) == {r \in Rows : reg[r].via = x}

(* A step leaves less room in the event: one more seat is taken, or there    *)
(* are fewer seats.                                                         *)
Tightens(e) == ~(Live(e)' \subseteq Live(e)) \/ capacity'[e] < capacity[e]

(* A step gives the person a seat. *)
GivesSeat(p) == \E e \in Events : ~(Seats(p, e)' \subseteq Seats(p, e))

(* A step registers the attendee of the exception request. *)
Grants(x) == ~(Via(x)' \subseteq Via(x))

(* The step is one of this request. *)
Moves(c) == req[c] # NoReq /\ req'[c] # req[c]

(* What a request relies on: room in the event it counted, no seat of the    *)
(* people it checked, no grant of the exception request it loaded.           *)
Room(c)  == {e \in {req[c].event} : req[c].op \in {"register", "team", "restore", "capacity"}}
Alone(c) == {p \in req[c].who : req[c].op \in {"register", "team"}}
Loaded(c) == {x \in Excs : req[c].op = "approve" /\ x = req[c].row}

Follow ==
  overtaken' = [c \in Clients |->
    IF req[c] = NoReq \/ req'[c] = NoReq THEN Nothing
    ELSE IF Moves(c) THEN overtaken[c]
    ELSE [events |-> overtaken[c].events \cup {e \in Room(c) : Tightens(e)},
          people |-> overtaken[c].people \cup {p \in Alone(c) : GivesSeat(p)},
          excs   |-> overtaken[c].excs \cup {x \in Loaded(c) : Grants(x)}]]

FollowedInit == Init /\ overtaken = [c \in Clients |-> Nothing]
FollowedNext == Next /\ Follow
FollowedSpec == FollowedInit /\ [][FollowedNext]_followed

-----------------------------------------------------------------------------
(* Properties: whatever requests arrive, and in whatever order their        *)
(* statements run.                                                          *)

(* The capacity checks of register(), registerTeam(), restoreRegistration() *)
(* and EventsService.update(): a step that takes a seat, or takes seats     *)
(* away, leaves the event within its capacity, unless an organiser approved *)
(* the seat, locking the acknowledgements wrote back an old capacity, or    *)
(* another request took a seat or lowered the capacity while this one was   *)
(* in flight.  A cancellation or a raised capacity meanwhile, a crash, or a *)
(* seat oversold earlier is no excuse.                                      *)
OversoldWhenOvertakenOnly ==
  [][\A e \in Events :
       Tightens(e) =>
         \/ Cardinality(Live(e)') <= capacity'[e]
         \/ \E c \in Clients :
              /\ Moves(c)
              /\ req[c].op \in {"approve", "ackLock"} \/ e \in overtaken[c].events]_followed

(* assertNotAlreadyRegisteredForType() and the UNIQUE address: a person who *)
(* is given a second seat (in the event, or among the events of a type that *)
(* allows one) has it from an approved exception, from a restored           *)
(* registration (restoreRegistration() does not ask), or from a request     *)
(* during which another one gave the same person a seat.                    *)
SecondSeatWhenOvertakenOnly ==
  [][\A p \in People, e, f \in Events : e = f \/ OnePerType =>
       \A r \in Seats(p, e)' \ Seats(p, e), s \in Seats(p, f)' :
         r = s \/ \E c \in Clients :
                    /\ Moves(c)
                    /\ req[c].op \in {"approve", "restore"} \/ p \in overtaken[c].people]_followed

(* approve()'s "Already processed": an exception request registers its      *)
(* attendee a second time only when two approvals of it overlap; an         *)
(* approval that crashed between its two writes is never repeated.          *)
GrantedTwiceWhenOvertakenOnly ==
  [][\A x \in Excs : \A r \in Via(x)' \ Via(x), s \in Via(x)' :
       r = s \/ \E c \in Clients : Moves(c) /\ x \in overtaken[c].excs]_followed
=============================================================================
