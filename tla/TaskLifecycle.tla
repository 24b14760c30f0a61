--------------------------- MODULE TaskLifecycle ----------------------------
(***************************************************************************)
(* What backend/open_webui/tasks.py promises its callers, with no word of  *)
(* instances, Redis or messages: a task is filed under one item, runs, and *)
(* ends once; it is cancelled only after a request that named the task or  *)
(* its item; a request may be lost, and may come too late.                 *)
(***************************************************************************)
CONSTANTS Task, Item, None

VARIABLES
  phase,    \* phase[t]: idle, active, stopping or ended
  filed,    \* filed[t]: the item t is filed under
  asked     \* the tasks with a stop request under way

lifecycleVars == <<phase, filed, asked>>

Init ==
  /\ phase = [t \in Task |-> "idle"]
  /\ filed = [t \in Task |-> None]
  /\ asked = {}

Begin(t, x) ==
  /\ phase[t] = "idle"
  /\ phase' = [phase EXCEPT ![t] = "active"]
  /\ filed' = [filed EXCEPT ![t] = x]
  /\ UNCHANGED asked

Ask(t) ==
  /\ phase[t] # "idle"
  /\ asked' = asked \cup {t}
  /\ UNCHANGED <<phase, filed>>

\* A request by item reaches tasks filed under that item and no others.
AskItem(x) ==
  /\ \E S \in SUBSET {t \in Task : filed[t] = x} : asked' = asked \cup S
  /\ UNCHANGED <<phase, filed>>

\* Acting on a request; a copy of the request may still be under way.
Cancel(t) ==
  /\ t \in asked
  /\ phase[t] = "active"
  /\ phase' = [phase EXCEPT ![t] = "stopping"]
  /\ asked' \in {asked, asked \ {t}}
  /\ UNCHANGED filed

\* Tasks end, by themselves or with the process that runs them, and requests
\* are forgotten.
EndOrForget ==
  /\ \E S \in SUBSET {t \in Task : phase[t] \in {"active", "stopping"}} :
       phase' = [t \in Task |-> IF t \in S THEN "ended" ELSE phase[t]]
  /\ asked' \in SUBSET asked
  /\ UNCHANGED filed

Next ==
  \/ \E t \in Task, x \in Item : Begin(t, x)
  \/ \E t \in Task : Ask(t) \/ Cancel(t)
  \/ \E x \in Item : AskItem(x)
  \/ EndOrForget

Spec == Init /\ [][Next]_lifecycleVars

=============================================================================
