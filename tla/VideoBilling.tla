---------------------------- MODULE VideoBilling ----------------------------
(***************************************************************************)
(* What the gateway promises about the points of a video task: they are    *)
(* charged after the task has finished with a usage, and once.             *)
(***************************************************************************)
EXTENDS Naturals

CONSTANT Tasks

VARIABLES
  finished,  \* tasks the upstream has finished with a usage
  charges    \* per task, how many times it was charged

BillingInit ==
  /\ finished = {}
  /\ charges = [t \in Tasks |-> 0]

Finish(t) ==
  /\ t \notin finished
  /\ finished' = finished \cup {t}
  /\ UNCHANGED charges

ChargeTask(t) ==
  /\ t \in finished
  /\ charges[t] = 0
  /\ charges' = [charges EXCEPT ![t] = 1]
  /\ UNCHANGED finished

BillingNext == \E t \in Tasks : Finish(t) \/ ChargeTask(t)

BillingSpec == BillingInit /\ [][BillingNext]_<<finished, charges>>
=============================================================================
