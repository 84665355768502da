----------------------------- MODULE MCServices -----------------------------
(***************************************************************************)
(* The services beside the turns, for model checking.  They share no       *)
(* state, so a behaviour is one of one part: busy says of which, and the   *)
(* states of a run are the sum of those of its parts, not their product.   *)
(***************************************************************************)
EXTENDS Webhooks, ThreadLog, Subagents, AgentTasks, Triggers, Decisions, Outbound, TLC

CONSTANTS
  Parts,           \* the parts of this run
  e1, e2           \* endpoints

VARIABLE busy

services == <<hookVars, logVars, subVars, taskVars, trigVars, cardVars, outVars, busy>>

MCHookRows == (e1 :> 2) @@ (e2 :> 1)
MCHookFew  == (e1 :> 1) @@ (e2 :> 1)

Init ==
  /\ busy \in Parts
  /\ HookInit /\ LogInit /\ SubInit /\ TaskInit /\ TrigInit /\ CardInit /\ OutInit
  /\ busy # "triggers" => trigRule.kind = "once"

NotHook == <<logVars, subVars, taskVars, trigVars, cardVars, outVars, busy>>
NotLog  == <<hookVars, subVars, taskVars, trigVars, cardVars, outVars, busy>>
NotSub  == <<hookVars, logVars, taskVars, trigVars, cardVars, outVars, busy>>
NotTask == <<hookVars, logVars, subVars, trigVars, cardVars, outVars, busy>>
NotTrig == <<hookVars, logVars, subVars, taskVars, cardVars, outVars, busy>>
NotCard == <<hookVars, logVars, subVars, taskVars, trigVars, outVars, busy>>
NotOut  == <<hookVars, logVars, subVars, taskVars, trigVars, cardVars, busy>>

Next ==
  \/ busy = "webhooks"  /\ HookNext /\ UNCHANGED NotHook
  \/ busy = "log"       /\ LogNext  /\ UNCHANGED NotLog
  \/ busy = "subagents" /\ SubNext  /\ UNCHANGED NotSub
  \/ busy = "tasks"     /\ TaskNext /\ UNCHANGED NotTask
  \/ busy = "triggers"  /\ TrigNext /\ UNCHANGED NotTrig
  \/ busy = "decisions" /\ CardNext /\ UNCHANGED NotCard
  \/ busy = "outbound"  /\ OutNext  /\ UNCHANGED NotOut

(* What a part does by itself while its process lives.                     *)
Run ==
  \/ busy = "webhooks"  /\ HookRun /\ UNCHANGED NotHook
  \/ busy = "log"       /\ LogRun  /\ UNCHANGED NotLog
  \/ busy = "subagents" /\ SubRun  /\ UNCHANGED NotSub
  \/ busy = "tasks"     /\ TaskRun /\ UNCHANGED NotTask
  \/ busy = "triggers"  /\ TrigRun /\ UNCHANGED NotTrig
  \/ busy = "outbound"  /\ OutRun  /\ UNCHANGED NotOut

Spec     == Init /\ [][Next]_services
FairSpec == Spec /\ WF_services(Run)
=============================================================================
