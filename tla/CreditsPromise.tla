--------------------------- MODULE CreditsPromise ---------------------------
(***************************************************************************)
(* What the credits queue promises, without rows, workers or requests.      *)
(* Each registration goes through generations of one e-mail.  A generation  *)
(* is opened only when the previous one is settled; a mail is delivered at  *)
(* most once per generation, and only of a generation that was opened; a    *)
(* generation is settled as sent only after its mail was delivered.  A mail *)
(* whose answer was lost may still be delivered after the generation failed.*)
(***************************************************************************)
EXTENDS Naturals

CONSTANT Regs

VARIABLES
  phase,       \* "quiet" until the first generation is opened
  generation,  \* the latest generation
  delivered    \* <<registration, generation>> of every mail delivered

promiseVars == <<phase, generation, delivered>>

Init ==
  /\ phase = [r \in Regs |-> "quiet"]
  /\ generation = [r \in Regs |-> 1]
  /\ delivered = {}

Open(r) ==
  /\ phase[r] # "open"
  /\ phase' = [phase EXCEPT ![r] = "open"]
  /\ generation' =
       [generation EXCEPT ![r] = IF phase[r] = "quiet" THEN @ ELSE @ + 1]
  /\ UNCHANGED delivered

Deliver(r, g) ==
  /\ phase[r] # "quiet" /\ g \in 1..generation[r]
  /\ <<r, g>> \notin delivered
  /\ delivered' = delivered \cup {<<r, g>>}
  /\ UNCHANGED <<phase, generation>>

Settle(r, outcome) ==
  /\ phase[r] = "open"
  /\ outcome = "sent" => <<r, generation[r]>> \in delivered
  /\ phase' = [phase EXCEPT ![r] = outcome]
  /\ UNCHANGED <<generation, delivered>>

Next ==
  \E r \in Regs :
    \/ Open(r)
    \/ \E g \in 1..generation[r] : Deliver(r, g)
    \/ \E outcome \in {"sent", "failed"} : Settle(r, outcome)

Spec == Init /\ [][Next]_promiseVars
=============================================================================
