------------------------------- MODULE Floor -------------------------------
(***************************************************************************)
(* What a conversation promises about its floor, without rows, leases,     *)
(* slots or restarts: turns wait, at most one of them speaks, a turn is    *)
(* tried a bounded number of times, and a turn that is over stays over.    *)
(* The promises are those of the docstrings of services/agent_turns.py and *)
(* models/agent_turn.py; AgentTurns implements this module.                *)
(***************************************************************************)
EXTENDS Naturals

CONSTANTS
  Turns,        \* the turns of the conversation
  MaxTries      \* how often one turn may be tried

VARIABLES
  phase,        \* absent, waiting, speaking or over
  tries         \* tries a turn has used; a hand-back at a restart is not one

Phases == {"absent", "waiting", "speaking", "over"}

Init ==
  /\ phase = [t \in Turns |-> "absent"]
  /\ tries = [t \in Turns |-> 0]

Goes(t, from, to) == phase[t] \in from /\ phase'[t] = to
Costs(t, n)       == tries'[t] = tries[t] + n

Stay(t)  == phase'[t] = phase[t] /\ Costs(t, 0)
Admit(t) == Goes(t, {"absent"}, "waiting") /\ Costs(t, 0)

(* A turn takes the floor when nobody has it.                              *)
Speak(t) ==
  /\ Goes(t, {"absent", "waiting"}, "speaking")
  /\ \A u \in Turns : phase[u] # "speaking"
  /\ Costs(t, 1)

(* It lost the floor and has a try left.                                   *)
Lapse(t) ==
  /\ Goes(t, {"speaking"}, "waiting")
  /\ tries[t] < MaxTries
  /\ Costs(t, 0)

(* A restart took the floor from it: the try does not count.               *)
HandBack(t) == Goes(t, {"speaking"}, "waiting") /\ tries'[t] + 1 = tries[t]

End(t) ==
  /\ Goes(t, {"waiting", "speaking"}, "over")
  /\ Costs(t, 0) \/ (phase[t] = "waiting" /\ Costs(t, 1))

Move(t) == Stay(t) \/ Admit(t) \/ Speak(t) \/ Lapse(t) \/ HandBack(t) \/ End(t)

(* One step may end many turns (Stop, a new message) and admit others, but *)
(* it gives the floor to one.                                              *)
Next ==
  /\ phase' \in [Turns -> Phases]
  /\ tries' \in [Turns -> 0..MaxTries]
  /\ \A t \in Turns : Move(t)
  /\ \A t, u \in Turns : phase'[t] = "speaking" /\ phase'[u] = "speaking" => t = u

vars == <<phase, tries>>

Spec == Init /\ [][Next]_vars
=============================================================================
