----------------------------- MODULE VideoTasks -----------------------------
(***************************************************************************)
(* Asynchronous video tasks (gateway/video.go).  Creation returns a task   *)
(* id at once; the points are charged when some later query, a client's or *)
(* the compensating sweep's, observes that the upstream has finished.      *)
(* Every query fetches the upstream's answer first and applies it to the   *)
(* row afterwards, so answers are applied out of order, and several        *)
(* instances observe the same task.                                        *)
(***************************************************************************)
EXTENDS Naturals, FiniteSets

CONSTANTS
  Tasks,       \* tasks the upstream accepts
  Sweepers,    \* instances, each with a sweep loop
  Clients,     \* client queries that may be in progress at once
  BatchLimit   \* rows a sweep takes: LIMIT 100

ASSUME VideoConstants ==
  /\ IsFiniteSet(Tasks) /\ "none" \notin Tasks
  /\ Sweepers \cap Clients = {}
  /\ BatchLimit \in Nat \ {0}

VARIABLES
  created,   \* per task, its place in the order of created_at; 0 without a row
  status,    \* the status column: last observed
  billed,    \* the billed column
  charges,   \* settlements booked for the task
  old,       \* tasks created more than 24 hours ago
  upstream,  \* what the upstream would answer
  batch,     \* per instance, rows its sweep has still to look at
  seen       \* per query, the task and the answer it holds

videoVars == <<created, status, billed, charges, old, upstream, batch, seen>>

Observers == Sweepers \cup Clients

(* "silent" is success without a usage *)
Finals == {"succeeded", "silent", "failed"}

Answers == Finals \cup {"running"}

Statuses == {"", "running", "succeeded", "failed"}

Nothing == [task |-> "none", answer |-> "none"]

VideoInit ==
  /\ created = [t \in Tasks |-> 0]
  /\ status = [t \in Tasks |-> ""]
  /\ billed = [t \in Tasks |-> FALSE]
  /\ charges = [t \in Tasks |-> 0]
  /\ old = {}
  /\ upstream = [t \in Tasks |-> "running"]
  /\ batch = [n \in Sweepers |-> {}]
  /\ seen = [o \in Observers |-> Nothing]

Registered == {t \in Tasks : created[t] > 0}

NoQuery == UNCHANGED <<batch, seen>>

NoAccount == UNCHANGED <<billed, charges>>

(* captureVideoTask: a task whose row cannot be written, or whose instance *)
(* stops first, is never registered                                        *)
CaptureVideoTask(t) ==
  /\ t \notin Registered
  /\ created' = [created EXCEPT ![t] = Cardinality(Registered) + 1]
  /\ UNCHANGED <<status, old, upstream>> /\ NoQuery /\ NoAccount

(* The upstream ends the task *)
UpstreamEnds(t) ==
  /\ upstream[t] = "running"
  /\ \E a \in Finals : upstream' = [upstream EXCEPT ![t] = a]
  /\ UNCHANGED <<created, status, old>> /\ NoQuery /\ NoAccount

DayPasses(t) ==
  /\ t \in Registered \ old
  /\ old' = old \cup {t}
  /\ UNCHANGED <<created, status, upstream>> /\ NoQuery /\ NoAccount

(* VideoTaskQuery, up to the answer of the upstream *)
ClientFetches(c, t) ==
  /\ seen[c] = Nothing
  /\ t \in Registered
  /\ seen' = [seen EXCEPT ![c] = [task |-> t, answer |-> upstream[t]]]
  /\ UNCHANGED <<created, status, old, upstream, batch>> /\ NoAccount

(* Mutation of Waiting: only rows nobody has observed yet. *)
MutWaiting(t) == ~billed[t] /\ status[t] = "" /\ t \notin old

(* The rows a sweep looks for: not billed, not failed, not too old *)
Waiting(t) ==
  /\ ~billed[t]
  /\ status[t] # "failed"
  /\ t \notin old

Due == {t \in Registered : Waiting(t)}

(* ORDER BY created_at *)
Older(t, S) == {u \in S : created[u] < created[t]}

Batch == {t \in Due : Cardinality(Older(t, Due)) < BatchLimit}

(* VideoTaskSweepOnce: the query for unsettled rows *)
SweepOnce(n) ==
  /\ batch[n] = {} /\ Batch # {}
  /\ seen[n] = Nothing
  /\ batch' = [batch EXCEPT ![n] = Batch]
  /\ UNCHANGED <<created, status, old, upstream, seen>> /\ NoAccount

(* The loop takes up the oldest row that is left *)
TakeUp(n, t) ==
  /\ t \in batch[n] /\ Older(t, batch[n]) = {}
  /\ seen[n] = Nothing
  /\ batch' = [batch EXCEPT ![n] = @ \ {t}]

SweepFetches(n, t) ==
  /\ TakeUp(n, t)
  /\ seen' = [seen EXCEPT ![n] = [task |-> t, answer |-> upstream[t]]]
  /\ UNCHANGED <<created, status, old, upstream>> /\ NoAccount

(* fetchUpstreamTask fails, or its answer has no status: the next row *)
SweepSkips(n, t) ==
  /\ TakeUp(n, t)
  /\ UNCHANGED <<created, status, old, upstream, seen>> /\ NoAccount

(* The condition of the update: the loser of the race finds no row *)
Unbilled(t) == ~billed[t]

(* settleVideoTask: one transaction *)
SettleVideoTask(t) ==
  IF Unbilled(t)
    THEN /\ billed' = [billed EXCEPT ![t] = TRUE]
         /\ charges' = [charges EXCEPT ![t] = @ + 1]
         /\ status' = [status EXCEPT ![t] = "succeeded"]
    ELSE UNCHANGED <<billed, charges, status>>

(* Mutation of Settles: any success is settled. *)
MutSettles(a) == a \in {"succeeded", "silent"}

(* Only a success that states its usage can be charged *)
Settles(a) == a = "succeeded"

(* observeVideoTask *)
Observe(t, a) ==
  \/ /\ Settles(a)
     /\ SettleVideoTask(t)
  \/ /\ a = "silent" /\ ~Settles(a)
     /\ status' = [status EXCEPT ![t] = "succeeded"]
     /\ NoAccount
  \/ /\ a = "failed"
     /\ status' = IF billed[t] THEN status ELSE [status EXCEPT ![t] = "failed"]
     /\ NoAccount
  \/ /\ a = "running"
     /\ status' = [status EXCEPT ![t] = "running"]
     /\ NoAccount

Done(o) == seen' = [seen EXCEPT ![o] = Nothing]

Apply(o) ==
  /\ seen[o] # Nothing
  /\ Observe(seen[o].task, seen[o].answer)
  /\ Done(o)
  /\ UNCHANGED <<created, old, upstream, batch>>

(* The transaction fails, or the statement does: logged, nothing written *)
ApplyFails(o) ==
  /\ seen[o] # Nothing
  /\ Done(o)
  /\ UNCHANGED <<created, status, old, upstream, batch>> /\ NoAccount

(* An instance stops in the middle of a sweep *)
Restart(n) ==
  /\ batch[n] # {} \/ seen[n] # Nothing
  /\ batch' = [batch EXCEPT ![n] = {}]
  /\ seen' = [seen EXCEPT ![n] = Nothing]
  /\ UNCHANGED <<created, status, old, upstream>> /\ NoAccount

VideoNext ==
  \/ \E t \in Tasks : CaptureVideoTask(t) \/ UpstreamEnds(t) \/ DayPasses(t)
  \/ \E c \in Clients, t \in Tasks : ClientFetches(c, t)
  \/ \E n \in Sweepers : SweepOnce(n) \/ Restart(n)
  \/ \E n \in Sweepers, t \in Tasks : SweepFetches(n, t) \/ SweepSkips(n, t)
  \/ \E o \in Observers : Apply(o) \/ ApplyFails(o)

VideoSpec == VideoInit /\ [][VideoNext]_videoVars

(* One instance keeps sweeping and reaches a task it tries often enough:   *)
(* the ticker fires for ever, and a channel that answers and a database    *)
(* that commits now and then are all the sweep asks for.                   *)
SweepFairness(n) ==
  /\ WF_videoVars(SweepOnce(n))
  /\ WF_videoVars(\E t \in Tasks : SweepFetches(n, t) \/ SweepSkips(n, t))
  /\ \A t \in Tasks : SF_videoVars(SweepFetches(n, t))
  /\ WF_videoVars(Apply(n) \/ ApplyFails(n))
  /\ \A t \in Tasks :
       SF_videoVars(Apply(n) /\ seen[n] = [task |-> t, answer |-> "succeeded"])

FairVideoSpec == VideoSpec /\ \E n \in Sweepers : SweepFairness(n)

-----------------------------------------------------------------------------
VideoTypeOK ==
  /\ created \in [Tasks -> Nat]
  /\ status \in [Tasks -> Statuses]
  /\ billed \in [Tasks -> BOOLEAN]
  /\ charges \in [Tasks -> Nat]
  /\ old \subseteq Tasks
  /\ upstream \in [Tasks -> Answers]
  /\ batch \in [Sweepers -> SUBSET Tasks]
  /\ seen \in [Observers -> [task : Tasks, answer : Answers] \cup {Nothing}]

(* The mark on the row and the entry in the account agree, whoever         *)
(* observed the task in whatever order.                                    *)
BilledIsCharged ==
  \A t \in Tasks : charges[t] = IF billed[t] THEN 1 ELSE 0

(* The rows implement the promise: charged once, and only for what the     *)
(* upstream has finished with a usage.                                     *)
Promise == INSTANCE VideoBilling WITH
             finished <- {t \in Tasks : upstream[t] = "succeeded"}

ImplementsBilling == Promise!BillingSpec

(* A registered task that finished is charged although no client asks for  *)
(* it, unless it grows too old or a whole batch of older rows keeps        *)
(* waiting: such rows are what the limit of a sweep lets starve it.        *)
CompensationSettles ==
  \A t \in Tasks :
    (t \in Registered /\ upstream[t] = "succeeded")
      ~> (billed[t] \/ t \in old \/ Cardinality(Older(t, Due)) >= BatchLimit)
=============================================================================
