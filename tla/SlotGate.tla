------------------------------ MODULE SlotGate ------------------------------
(***************************************************************************)
(* The concurrency gate of one channel on Redis (coord/redis.go): a sorted *)
(* set of leases that every gateway instance shares.  A request polls for  *)
(* a lease, renews it from a heartbeat goroutine while it is served, and   *)
(* removes it at the end; a request whose process dies leaves its lease to *)
(* expire.                                                                 *)
(*                                                                         *)
(* Time is kept as time left; a tick of the clock is at most a third of a  *)
(* lease, the interval of the heartbeat.                                   *)
(***************************************************************************)
EXTENDS Integers, FiniteSets

CONSTANTS
  Reqs,        \* requests; each acquires at most once (a fresh uuid)
  MaxSlots,    \* gateway.max_concurrency
  Lease,       \* ticks a lease lasts without renewal
  MaxHold,     \* longest a request is served that a run looks at
  RedisFails   \* whether Redis commands may fail

ASSUME GateConstants ==
  /\ IsFiniteSet(Reqs)
  /\ MaxSlots \in Nat \ {0}
  /\ Lease \in Nat \ {0} /\ Lease % 3 = 0
  /\ MaxHold \in Nat \ {0}
  /\ RedisFails \in BOOLEAN

VARIABLES
  zset,      \* members of tg:slot:{scope}
  score,     \* per member, time until its lease expires
  ttl,       \* time until the key itself expires
  pc,        \* where each request is
  beat,      \* time until its next heartbeat
  renewing,  \* a renewal is on its way to Redis
  held       \* time since it was admitted or died

slotVars == <<zset, score, ttl, pc, beat, renewing, held>>

ZsetTTL == 4 * Lease

States == {"idle", "waiting",
           "leased",      \* admitted, heartbeat running
           "missed",      \* admitted, a renewal timed out, heartbeat goes on
           "lapsed",     \* admitted, heartbeat given up after an error
           "open",        \* admitted without a lease (fail-open)
           "released", "unreleased",  \* done; removal of the lease worked, failed
           "gone",        \* gave up waiting, or was served without a lease
           "crashed"}     \* its process died while it held a lease

GateInit ==
  /\ zset = {}
  /\ score = [r \in Reqs |-> 0]
  /\ ttl = 0
  /\ pc = [r \in Reqs |-> "idle"]
  /\ beat = [r \in Reqs |-> 0]
  /\ renewing = [r \in Reqs |-> FALSE]
  /\ held = [r \in Reqs |-> 0]

Serving == {"leased", "missed", "lapsed"}

Beating == {"leased", "missed"}

Goto(r, s) == pc' = [pc EXCEPT ![r] = s]

NoRedis == UNCHANGED <<zset, score, ttl>>

NoBeat == UNCHANGED <<beat, renewing>>

Arrive(r) ==
  /\ pc[r] = "idle"
  /\ Goto(r, "waiting")
  /\ NoRedis /\ NoBeat /\ UNCHANGED held

(* ZREMRANGEBYSCORE: members whose lease has expired are dropped. *)
Unexpired == {m \in zset : score[m] > 0}

(* Mutation of LeaseTime: the two durations passed to the script swapped. *)
MutLeaseTime == ZsetTTL

LeaseTime == Lease

(* Mutation of HasRoom: the comparison lets one more in. *)
MutHasRoom == Cardinality(Unexpired) <= MaxSlots

HasRoom == Cardinality(Unexpired) < MaxSlots

(* acquireLua succeeds *)
TakeLease(r) ==
  /\ HasRoom
  /\ zset' = Unexpired \cup {r}
  /\ score' = [score EXCEPT ![r] = LeaseTime]
  /\ ttl' = ZsetTTL

TryAcquire(r) ==
  /\ pc[r] = "waiting"
  /\ TakeLease(r)
  /\ Goto(r, "leased")
  /\ beat' = [beat EXCEPT ![r] = Lease \div 3]
  /\ held' = [held EXCEPT ![r] = 0]
  /\ UNCHANGED renewing

(* The gate is full: the expired members are gone, the caller polls on *)
FindFull(r) ==
  /\ pc[r] = "waiting"
  /\ ~HasRoom
  /\ zset' = Unexpired
  /\ UNCHANGED <<score, ttl, pc, held>> /\ NoBeat

(* The script's reply is an error, and the caller goes on without a lease, *)
(* whether or not the script ran.  Redis failing is one reason; the queue  *)
(* timeout striking during the call, rather than between two polls, is     *)
(* another, because the context's error is an error of the call.           *)
AcquireError(r) ==
  /\ pc[r] = "waiting"
  /\ Goto(r, "open")
  /\ held' = [held EXCEPT ![r] = 0]
  /\ NoRedis \/ (RedisFails /\ TakeLease(r))
  /\ NoBeat

(* The queue timeout strikes between two polls *)
QueueTimeout(r) ==
  /\ pc[r] = "waiting"
  /\ Goto(r, "gone")
  /\ NoRedis /\ NoBeat /\ UNCHANGED held

(* heartbeat: the ticker fires and the renewal is sent *)
HeartbeatFires(r) ==
  /\ pc[r] \in Beating /\ beat[r] = 0 /\ ~renewing[r]
  /\ renewing' = [renewing EXCEPT ![r] = TRUE]
  /\ UNCHANGED <<pc, beat, held>> /\ NoRedis

(* Mutation of RenewLua: ZADD without XX adds the member back. *)
MutRenewLua(r) ==
  /\ zset' = zset \cup {r}
  /\ score' = [score EXCEPT ![r] = Lease]
  /\ UNCHANGED ttl

(* renewLua: ZADD XX changes the score of a member that is still there *)
RenewLua(r) ==
  /\ score' = IF r \in zset THEN [score EXCEPT ![r] = Lease] ELSE score
  /\ UNCHANGED <<zset, ttl>>

NextBeat(r) ==
  beat' = IF pc[r] \in Beating THEN [beat EXCEPT ![r] = Lease \div 3] ELSE beat

(* The renewal reaches Redis; the request may have been released meanwhile *)
Renew(r) ==
  /\ renewing[r]
  /\ RenewLua(r)
  /\ renewing' = [renewing EXCEPT ![r] = FALSE]
  /\ NextBeat(r)
  /\ UNCHANGED <<pc, held>>

(* A renewal that exceeds its three seconds is not an error to the         *)
(* heartbeat, which goes on with the next one                              *)
RenewTimeout(r) ==
  /\ RedisFails
  /\ renewing[r]
  /\ renewing' = [renewing EXCEPT ![r] = FALSE]
  /\ NextBeat(r)
  /\ IF pc[r] = "leased" THEN Goto(r, "missed") ELSE UNCHANGED pc
  /\ NoRedis \/ RenewLua(r)
  /\ UNCHANGED held

(* On any other error the heartbeat ends for good *)
RenewError(r) ==
  /\ RedisFails
  /\ renewing[r]
  /\ renewing' = [renewing EXCEPT ![r] = FALSE]
  /\ IF pc[r] \in Beating THEN Goto(r, "lapsed") /\ beat' = [beat EXCEPT ![r] = 0]
                          ELSE UNCHANGED <<pc, beat>>
  /\ NoRedis \/ RenewLua(r)
  /\ UNCHANGED held

(* The timers of a request that is over. *)
Stop(r) ==
  /\ beat' = [beat EXCEPT ![r] = 0]
  /\ held' = [held EXCEPT ![r] = 0]

(* releaseLua: ZREM; the score of a name that is not a member is kept at 0 *)
RemoveLease(r) ==
  /\ zset' = zset \ {r}
  /\ score' = [score EXCEPT ![r] = 0]
  /\ UNCHANGED ttl

(* release: the heartbeat is told to stop and the member removed *)
Release(r) ==
  /\ pc[r] \in Serving
  /\ RemoveLease(r)
  /\ Goto(r, "released")
  /\ Stop(r)
  /\ UNCHANGED renewing

(* The error of the removal is ignored *)
ReleaseError(r) ==
  /\ RedisFails
  /\ pc[r] \in Serving
  /\ Goto(r, "unreleased")
  /\ Stop(r)
  /\ NoRedis \/ RemoveLease(r)
  /\ UNCHANGED renewing

(* A request without a lease has nothing to remove *)
EndOpen(r) ==
  /\ pc[r] = "open"
  /\ Goto(r, "gone")
  /\ NoRedis /\ NoBeat /\ UNCHANGED held

Crash(r) ==
  /\ pc[r] \in Serving
  /\ Goto(r, "crashed")
  /\ renewing' = [renewing EXCEPT ![r] = FALSE]
  /\ Stop(r)
  /\ NoRedis

Dec(n) == IF n > 0 THEN n - 1 ELSE 0

(* Heartbeats run on time: a tick waits for those that are due.  A request *)
(* is served for at most MaxHold.                                          *)
Tick ==
  /\ \A r \in Reqs : pc[r] \in Beating => beat[r] > 0 /\ ~renewing[r]
  /\ \A r \in Reqs : pc[r] \in Serving => held[r] < MaxHold
  /\ ttl' = Dec(ttl)
  /\ zset' = IF ttl' = 0 THEN {} ELSE zset
  /\ score' = [r \in Reqs |-> IF ttl' = 0 THEN 0 ELSE Dec(score[r])]
  /\ beat' = [r \in Reqs |-> Dec(beat[r])]
  /\ held' = [r \in Reqs |->
                IF pc[r] \in Serving \/ (pc[r] = "crashed" /\ held[r] < Lease)
                  THEN held[r] + 1 ELSE held[r]]
  /\ UNCHANGED <<pc, renewing>>

GateStep(r) ==
  \/ Arrive(r)
  \/ TryAcquire(r)
  \/ FindFull(r)
  \/ AcquireError(r)
  \/ QueueTimeout(r)
  \/ HeartbeatFires(r)
  \/ Renew(r)
  \/ RenewTimeout(r)
  \/ RenewError(r)
  \/ Release(r)
  \/ ReleaseError(r)
  \/ EndOpen(r)
  \/ Crash(r)

GateNext == Tick \/ \E r \in Reqs : GateStep(r)

GateSpec == GateInit /\ [][GateNext]_slotVars

-----------------------------------------------------------------------------
GateTypeOK ==
  /\ zset \subseteq Reqs
  /\ score \in [Reqs -> 0 .. Lease]
  /\ ttl \in 0 .. ZsetTTL
  /\ pc \in [Reqs -> States]
  /\ beat \in [Reqs -> 0 .. Lease \div 3]
  /\ renewing \in [Reqs -> BOOLEAN]
  /\ held \in [Reqs -> Nat]

Leased == {r \in Reqs : pc[r] = "leased"}

(* At most MaxSlots renewed leases count at a time, however many instances *)
(* poll, crash, and purge each other's leases; and a lease that is renewed *)
(* counts at least as long as the key lives that its acquisition renewed.  *)
ConcurrencyBound ==
  /\ Cardinality(Leased \cap Unexpired) <= MaxSlots
  /\ \A r \in Leased : r \notin Unexpired => held[r] >= ZsetTTL

(* At most MaxSlots requests are served on a lease they keep renewing,     *)
(* however long they take: "the length of a stream is unbounded, renewal   *)
(* keeps its slot" (redis.go:246).                                         *)
SlotLimit == Cardinality(Leased) <= MaxSlots

(* A lease that has been removed does not come back, although a renewal    *)
(* may have been on its way.                                               *)
ReleasedStaysFree == \A r \in Reqs : pc[r] = "released" => r \notin zset

(* The slot of a process that died is free again after at most one lease   *)
(* ("the latest after lease, 45 s", design document and comments).         *)
CrashFreesSlot ==
  \A r \in Reqs : pc[r] = "crashed" /\ held[r] = Lease => r \notin Unexpired

=============================================================================
