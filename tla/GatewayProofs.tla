--------------------------- MODULE GatewayProofs ----------------------------
(***************************************************************************)
(* What the gateway keeps beside its relay, for every value of the         *)
(* constants.                                                              *)
(*                                                                         *)
(* The gate: nothing in the code counts the requests that are being        *)
(* served; the script counts members whose score lies ahead.  The argument *)
(* is therefore about the clocks of one request: as long as every renewal  *)
(* succeeds its lease outlives the next heartbeat, and the key lives for   *)
(* ZsetTTL after the request was admitted, at least.                       *)
(*                                                                         *)
(* Video tasks, which share no state with it: the mark and the account     *)
(* agree, and no query holds an answer "succeeded" the upstream has not    *)
(* given, which it never takes back.                                       *)
(***************************************************************************)
EXTENDS SlotGate, VideoTasks, FiniteSetTheorems, TLAPS

(* The lease of a request that renews it is ahead of its next heartbeat,   *)
(* unless the key has expired; and the key has not lost more of its life   *)
(* than the request has been served.                                       *)
LeaseKept ==
  \A r \in Leased :
    /\ r \in zset => score[r] > beat[r]
    /\ r \notin zset => held[r] >= ZsetTTL
    /\ ttl >= ZsetTTL - held[r]

(* The lease of a request that died runs out from then on.                 *)
LeaseRunsOut ==
  \A r \in Reqs : pc[r] = "crashed" =>
    /\ ~renewing[r]
    /\ held[r] <= Lease
    /\ score[r] <= Lease - held[r]

LEMMA GateArithmetic ==
  /\ Lease \in Nat /\ Lease > 0
  /\ Lease \div 3 \in Nat /\ Lease \div 3 < Lease
  /\ ZsetTTL \in Nat /\ Lease <= ZsetTTL
<1>1. Lease \in Nat /\ Lease > 0 /\ Lease % 3 = 0
  BY GateConstants
<1>2. Lease \div 3 \in Nat /\ Lease \div 3 < Lease
  BY <1>1, SMT
<1> QED
  BY <1>1, <1>2, SMT DEF ZsetTTL

LEMMA DecFacts ==
  \A n \in Nat : /\ Dec(n) \in Nat /\ Dec(n) <= n
                 /\ n > 0 => Dec(n) = n - 1
BY SMT DEF Dec

LEMMA TypeStep == GateTypeOK /\ [GateNext]_slotVars => GateTypeOK'
<1> SUFFICES ASSUME GateTypeOK, [GateNext]_slotVars PROVE GateTypeOK'
  OBVIOUS
<1> USE GateArithmetic DEF GateTypeOK
<1>1. CASE UNCHANGED slotVars
  BY <1>1 DEF slotVars
<1>2. CASE Tick
  <2>1. /\ score' \in [Reqs -> 0 .. Lease]
        /\ ttl' \in 0 .. ZsetTTL
        /\ beat' \in [Reqs -> 0 .. Lease \div 3]
        /\ held' \in [Reqs -> Nat]
    <3>1. ttl' \in 0 .. ZsetTTL
      BY <1>2, DecFacts, SMT DEF Tick
    <3>2. score' \in [Reqs -> 0 .. Lease]
      BY <1>2, DecFacts, SMT DEF Tick
    <3>3. beat' \in [Reqs -> 0 .. Lease \div 3]
      BY <1>2, DecFacts, SMT DEF Tick
    <3>4. held' \in [Reqs -> Nat]
      BY <1>2, SMT DEF Tick
    <3> QED
      BY <3>1, <3>2, <3>3, <3>4
  <2>2. zset' \subseteq Reqs /\ UNCHANGED <<pc, renewing>>
    BY <1>2 DEF Tick
  <2> QED
    BY <2>1, <2>2
<1>3. ASSUME NEW r \in Reqs, GateStep(r) PROVE GateTypeOK'
  <2>1. ASSUME NEW s \in States, Goto(r, s) PROVE pc' \in [Reqs -> States]
    BY <2>1 DEF Goto
  <2>2. ASSUME TakeLease(r)
        PROVE  /\ zset' \subseteq Reqs /\ score' \in [Reqs -> 0 .. Lease]
               /\ ttl' \in 0 .. ZsetTTL
    BY <2>2 DEF TakeLease, Unexpired, LeaseTime
  <2>3. ASSUME RenewLua(r) \/ RemoveLease(r) \/ NoRedis
        PROVE  /\ zset' \subseteq Reqs /\ score' \in [Reqs -> 0 .. Lease]
               /\ ttl' \in 0 .. ZsetTTL
    BY <2>3 DEF RenewLua, RemoveLease, NoRedis
  <2>4. ASSUME NextBeat(r) \/ Stop(r)
        PROVE  beat' \in [Reqs -> 0 .. Lease \div 3]
    BY <2>4 DEF NextBeat, Stop
  <2>5. CASE Arrive(r)
    BY <2>5, <2>1, <2>3 DEF Arrive, NoBeat, States
  <2>6. CASE TryAcquire(r)
    <3>1. pc' \in [Reqs -> States]
      BY <2>6, <2>1 DEF TryAcquire, States
    <3>2. Lease \div 3 \in 0 .. Lease \div 3 /\ 0 \in Nat
      BY SMT
    <3>3. beat' \in [Reqs -> 0 .. Lease \div 3] /\ held' \in [Reqs -> Nat]
      BY <2>6, <3>2 DEF TryAcquire
    <3> QED
      BY <2>6, <2>2, <3>1, <3>3 DEF TryAcquire
  <2>7. CASE FindFull(r)
    BY <2>7 DEF FindFull, Unexpired, NoBeat
  <2>8. CASE AcquireError(r)
    BY <2>8, <2>1, <2>2, <2>3 DEF AcquireError, NoBeat, States
  <2>9. CASE QueueTimeout(r)
    BY <2>9, <2>1, <2>3 DEF QueueTimeout, NoBeat, States
  <2>10. CASE HeartbeatFires(r)
    BY <2>10, <2>3 DEF HeartbeatFires
  <2>11. CASE Renew(r)
    BY <2>11, <2>3, <2>4 DEF Renew
  <2>12. CASE RenewTimeout(r)
    BY <2>12, <2>1, <2>3, <2>4 DEF RenewTimeout, States
  <2>13. CASE RenewError(r)
    BY <2>13, <2>1, <2>3 DEF RenewError, States
  <2>14. CASE Release(r)
    BY <2>14, <2>1, <2>3, <2>4 DEF Release, Stop, States
  <2>15. CASE ReleaseError(r)
    BY <2>15, <2>1, <2>3, <2>4 DEF ReleaseError, Stop, States
  <2>16. CASE EndOpen(r)
    BY <2>16, <2>1, <2>3 DEF EndOpen, NoBeat, States
  <2>17. CASE Crash(r)
    BY <2>17, <2>1, <2>3, <2>4 DEF Crash, Stop, States
  <2> QED
    BY <1>3, <2>5, <2>6, <2>7, <2>8, <2>9, <2>10, <2>11, <2>12, <2>13, <2>14,
       <2>15, <2>16, <2>17 DEF GateStep
<1> QED
  BY <1>1, <1>2, <1>3 DEF GateNext

LEMMA TypeInit == GateInit => GateTypeOK
BY GateArithmetic DEF GateInit, GateTypeOK, States

(* Types: scores, the key's life and the timers stay within the durations  *)
(* the code passes to Redis and to the ticker.                             *)
THEOREM GateTypesCorrect == GateSpec => []GateTypeOK
BY TypeInit, TypeStep, PTL DEF GateSpec

-----------------------------------------------------------------------------
(* A step of one request leaves the lease of another as it is, purging     *)
(* included: only what has expired is purged.                              *)
LEMMA OthersKept ==
  ASSUME GateTypeOK, LeaseKept, NEW r \in Reqs, GateStep(r),
         NEW q \in Leased, q # r
  PROVE  /\ q \in zset' <=> q \in zset
         /\ score'[q] = score[q] /\ beat'[q] = beat[q] /\ held'[q] = held[q]
         /\ ttl' \in {ttl, ZsetTTL}
<1> USE DEF GateTypeOK
<1>1. q \in Reqs /\ (q \in Unexpired <=> q \in zset)
  BY GateArithmetic DEF LeaseKept, Unexpired, Leased
<1>2. beat'[q] = beat[q] /\ held'[q] = held[q]
  <2>1. /\ \/ NoBeat \/ NextBeat(r) \/ Stop(r) \/ UNCHANGED beat
           \/ beat' = [beat EXCEPT ![r] = 0]
           \/ beat' = [beat EXCEPT ![r] = Lease \div 3]
        /\ UNCHANGED held \/ Stop(r) \/ held' = [held EXCEPT ![r] = 0]
    BY DEF GateStep, Arrive, TryAcquire, FindFull, AcquireError, QueueTimeout,
       HeartbeatFires, Renew, RenewTimeout, RenewError, Release, ReleaseError,
       EndOpen, Crash, NoBeat
  <2> QED
    BY <1>1, <2>1 DEF NextBeat, Stop, NoBeat
<1>3. CASE TakeLease(r)
  BY <1>1, <1>2, <1>3 DEF TakeLease
<1>4. CASE RenewLua(r) \/ RemoveLease(r) \/ NoRedis
  BY <1>1, <1>2, <1>4 DEF RenewLua, RemoveLease, NoRedis
<1>5. CASE FindFull(r)
  BY <1>1, <1>2, <1>5 DEF FindFull
<1> QED
  BY <1>3, <1>4, <1>5 DEF GateStep, Arrive, TryAcquire, AcquireError,
     QueueTimeout, HeartbeatFires, Renew, RenewTimeout, RenewError, Release,
     ReleaseError, EndOpen, Crash

(* The only step that admits a request on a lease.                         *)
LEMMA LeasedStep ==
  ASSUME GateTypeOK, NEW r \in Reqs, GateStep(r)
  PROVE  /\ Leased' \subseteq Leased \cup {r}
         /\ ~TryAcquire(r) => Leased' \subseteq Leased
<1> USE DEF GateTypeOK
<1>1. \A q \in Reqs : q # r => pc'[q] = pc[q]
  BY DEF GateStep, Arrive, TryAcquire, FindFull, AcquireError, QueueTimeout,
         HeartbeatFires, Renew, RenewTimeout, RenewError, Release,
         ReleaseError, EndOpen, Crash, Goto
<1>2. ASSUME ~TryAcquire(r) PROVE pc'[r] = "leased" => pc[r] = "leased"
  BY <1>2 DEF GateStep, Arrive, FindFull, AcquireError, QueueTimeout,
         HeartbeatFires, Renew, RenewTimeout, RenewError, Release,
         ReleaseError, EndOpen, Crash, Goto
<1> QED
  BY <1>1, <1>2 DEF Leased

LEMMA LeaseKeptStep ==
  ASSUME GateTypeOK, LeaseKept, [GateNext]_slotVars
  PROVE  LeaseKept'
<1> USE GateConstants, GateArithmetic DEF GateTypeOK
<1>1. CASE UNCHANGED slotVars
  BY <1>1 DEF slotVars, LeaseKept, Leased
<1>2. CASE Tick
  <2> SUFFICES ASSUME NEW q \in Leased'
               PROVE  /\ q \in zset' => score'[q] > beat'[q]
                      /\ q \notin zset' => held'[q] >= ZsetTTL
                      /\ ttl' >= ZsetTTL - held'[q]
    BY DEF LeaseKept
  <2>1. q \in Leased /\ q \in Reqs /\ pc[q] = "leased"
    BY <1>2 DEF Tick, Leased
  <2>2. /\ q \in zset => score[q] > beat[q]
        /\ q \notin zset => held[q] >= ZsetTTL
        /\ ttl >= ZsetTTL - held[q] /\ beat[q] > 0
    BY <1>2, <2>1 DEF Tick, LeaseKept, Beating
  <2>3. held'[q] = held[q] + 1 /\ ttl' = Dec(ttl) /\ beat'[q] = Dec(beat[q])
    BY <1>2, <2>1 DEF Tick, Serving
  <2>4. ttl' >= ttl - 1
    BY <2>3, DecFacts, SMT
  <2>5. CASE ttl' = 0
    <3>1. q \notin zset'
      BY <1>2, <2>5 DEF Tick
    <3> QED
      BY <2>1, <2>2, <2>3, <2>4, <2>5, <3>1, SMT
  <2>6. CASE ttl' # 0
    <3>1. zset' = zset /\ score'[q] = Dec(score[q])
      BY <1>2, <2>1, <2>6 DEF Tick
    <3>2. beat'[q] = beat[q] - 1
      BY <2>1, <2>2, <2>3, DecFacts, SMT
    <3>3. q \in zset => score'[q] = score[q] - 1
      BY <2>1, <2>2, <3>1, DecFacts, SMT
    <3>4. /\ score[q] \in Int /\ beat[q] \in Int /\ held[q] \in Int
          /\ ttl \in Int /\ ttl' \in Int
      BY <2>1, <2>3, DecFacts
    <3>5. q \in zset' => score'[q] > beat'[q]
      BY <2>2, <3>1, <3>2, <3>3, <3>4, SMT
    <3>6. ttl' >= ZsetTTL - held'[q] /\ (q \notin zset' => held'[q] >= ZsetTTL)
      BY <2>2, <2>3, <2>4, <3>1, <3>4, SMT
    <3> QED
      BY <3>5, <3>6
  <2> QED
    BY <2>5, <2>6
<1>3. ASSUME NEW r \in Reqs, GateStep(r) PROVE LeaseKept'
  <2> SUFFICES ASSUME NEW q \in Leased'
               PROVE  /\ q \in zset' => score'[q] > beat'[q]
                      /\ q \notin zset' => held'[q] >= ZsetTTL
                      /\ ttl' >= ZsetTTL - held'[q]
    BY DEF LeaseKept
  <2>1. CASE q # r
    <3>1. q \in Leased
      BY <1>3, <2>1, LeasedStep
    <3>2. /\ q \in zset' <=> q \in zset
          /\ score'[q] = score[q] /\ beat'[q] = beat[q]
          /\ held'[q] = held[q] /\ ttl' \in {ttl, ZsetTTL}
      BY <1>3, <2>1, <3>1, OthersKept
    <3>3. /\ q \in zset => score[q] > beat[q]
          /\ q \notin zset => held[q] >= ZsetTTL
          /\ ttl >= ZsetTTL - held[q] /\ held[q] \in Nat
      BY <3>1 DEF LeaseKept, Leased
    <3> QED
      BY <3>2, <3>3, SMT
  <2>2. CASE q = r /\ TryAcquire(r)
    <3>1. /\ score'[r] = Lease /\ beat'[r] = Lease \div 3 /\ held'[r] = 0
          /\ ttl' = ZsetTTL /\ r \in zset'
      BY <2>2 DEF TryAcquire, TakeLease, LeaseTime
    <3> QED
      BY <2>2, <3>1, SMT
  <2>3. CASE q = r /\ ~TryAcquire(r)
    <3>1. q \in Leased /\ pc[r] = "leased" /\ pc'[r] = "leased"
      BY <1>3, <2>3, LeasedStep DEF Leased
    <3>2. /\ r \in zset => score[r] > beat[r]
          /\ r \notin zset => held[r] >= ZsetTTL
          /\ ttl >= ZsetTTL - held[r]
      BY <2>3, <3>1 DEF LeaseKept
    <3>3. FindFull(r) \/ HeartbeatFires(r) \/ Renew(r)
      BY <1>3, <2>3, <3>1 DEF GateStep, Arrive, AcquireError, QueueTimeout,
         RenewTimeout, RenewError, Release, ReleaseError, EndOpen, Crash,
         Goto, Beating
    <3>4. CASE FindFull(r)
      BY <3>1, <3>4 DEF FindFull
    <3>5. CASE HeartbeatFires(r)
      BY <2>3, <3>2, <3>5 DEF HeartbeatFires, NoRedis
    <3>6. CASE Renew(r)
      <4>1. /\ UNCHANGED <<zset, ttl, held>> /\ beat'[r] = Lease \div 3
            /\ r \in zset => score'[r] = Lease
        BY <3>1, <3>6 DEF Renew, RenewLua, NextBeat, Beating
      <4> QED
        BY <2>3, <3>2, <4>1, SMT
    <3> QED
      BY <3>3, <3>4, <3>5, <3>6
  <2> QED
    BY <2>1, <2>2, <2>3
<1> QED
  BY <1>1, <1>2, <1>3 DEF GateNext

-----------------------------------------------------------------------------
(* The renewed leases that count against the limit.                        *)
Counted == Leased \cap Unexpired

CountBound == Cardinality(Counted) <= MaxSlots

LEMMA CountedAre ==
  ASSUME GateTypeOK, LeaseKept
  PROVE  Counted = Leased \cap zset
BY GateArithmetic DEF Counted, LeaseKept, Unexpired, Leased, GateTypeOK

(* Only an acquisition adds to them.                                       *)
LEMMA CountedStep ==
  ASSUME GateTypeOK, GateTypeOK', LeaseKept, LeaseKept', NEW r \in Reqs, GateStep(r)
  PROVE  /\ Counted' \subseteq Counted \cup {r}
         /\ ~TryAcquire(r) => Counted' \subseteq Counted
<1>1. Counted = Leased \cap zset
  BY CountedAre
<1>2. Counted' \subseteq Leased' \cap zset'
  BY DEF Counted, Unexpired
<1>3. zset' \subseteq zset \cup {r}
  BY DEF GateStep, Arrive, TryAcquire, FindFull, AcquireError, QueueTimeout,
     HeartbeatFires, Renew, RenewTimeout, RenewError, Release, ReleaseError,
     EndOpen, Crash, TakeLease, RenewLua, RemoveLease, NoRedis, Unexpired
<1>4. ASSUME ~TryAcquire(r), r \in Leased' PROVE zset' \subseteq zset
  <2>1. pc'[r] = "leased"
    BY <1>4 DEF Leased
  <2>2. ~AcquireError(r)
    BY <2>1 DEF AcquireError, Goto, GateTypeOK
  <2> QED
    BY <1>4, <2>2 DEF GateStep, Arrive, FindFull, QueueTimeout,
       HeartbeatFires, Renew, RenewTimeout, RenewError, Release, ReleaseError,
       EndOpen, Crash, RenewLua, RemoveLease, NoRedis, Unexpired
<1> QED
  BY <1>1, <1>2, <1>3, <1>4, LeasedStep

LEMMA BoundStep ==
  ASSUME GateTypeOK, LeaseKept, CountBound, [GateNext]_slotVars
  PROVE  CountBound'
<1> USE GateConstants
<1>0. GateTypeOK' /\ LeaseKept'
  BY TypeStep, LeaseKeptStep
<1>1. IsFiniteSet(Counted) /\ IsFiniteSet(Counted') /\ IsFiniteSet(Unexpired)
  <2>1. Counted \subseteq Reqs /\ Counted' \subseteq Reqs /\ Unexpired \subseteq Reqs
    BY DEF Counted, Leased, Unexpired, GateTypeOK
  <2> QED
    BY <2>1, FS_Subset
<1>2. CASE Counted' \subseteq Counted
  <2>1. Cardinality(Counted') <= Cardinality(Counted)
    BY <1>1, <1>2, FS_Subset
  <2>2. Cardinality(Counted') \in Nat /\ Cardinality(Counted) \in Nat
    BY <1>1, FS_CardinalityType
  <2> QED
    BY <2>1, <2>2, SMT DEF CountBound
<1>3. ASSUME NEW r \in Reqs, TryAcquire(r) PROVE CountBound'
  <2>1. Counted \subseteq Unexpired
    BY DEF Counted
  <2>2. Cardinality(Counted) <= Cardinality(Unexpired)
    BY <1>1, <2>1, FS_Subset
  <2>3. Cardinality(Unexpired) < MaxSlots
    BY <1>3 DEF TryAcquire, TakeLease, HasRoom
  <2>4. Counted' \subseteq Counted \cup {r}
    BY <1>0, <1>3, CountedStep DEF GateStep
  <2>5. /\ IsFiniteSet(Counted \cup {r})
        /\ Cardinality(Counted \cup {r}) \in
             {Cardinality(Counted), Cardinality(Counted) + 1}
    BY <1>1, FS_AddElement
  <2>6. Cardinality(Counted') <= Cardinality(Counted \cup {r})
    BY <2>4, <2>5, FS_Subset
  <2>7. /\ Cardinality(Counted) \in Nat /\ Cardinality(Unexpired) \in Nat
        /\ Cardinality(Counted') \in Nat
    BY <1>1, FS_CardinalityType
  <2> QED
    BY <2>2, <2>3, <2>5, <2>6, <2>7, SMT DEF CountBound
<1>4. CASE UNCHANGED slotVars \/ Tick
  <2>1. Leased' = Leased /\ zset' \subseteq zset
    BY <1>4 DEF slotVars, Tick, Leased
  <2>2. Counted' \subseteq Counted
    BY <1>0, <2>1, CountedAre DEF Counted, Unexpired
  <2> QED
    BY <1>2, <2>2
<1>5. ASSUME NEW r \in Reqs, GateStep(r) PROVE CountBound'
  BY <1>0, <1>2, <1>3, <1>5, CountedStep
<1> QED
  BY <1>4, <1>5 DEF GateNext

LEMMA GateStarts == GateInit => LeaseKept /\ LeaseRunsOut /\ CountBound
<1> SUFFICES ASSUME GateInit PROVE LeaseKept /\ LeaseRunsOut /\ CountBound
  OBVIOUS
<1>1. Leased = {} /\ Counted = {}
  BY DEF GateInit, Leased, Counted
<1>2. Cardinality(Counted) = 0
  BY <1>1, FS_EmptySet
<1> QED
  BY <1>1, <1>2, GateConstants DEF GateInit, LeaseKept, LeaseRunsOut, CountBound

(* Over all instances and however long requests are served, the renewed    *)
(* leases that count keep to the limit, and one stops counting only after  *)
(* the key's whole life: PEXPIRE runs when a lease is taken, never when    *)
(* one is renewed.                                                         *)
THEOREM GateHolds == GateSpec => []ConcurrencyBound
<1>1. GateInit => GateTypeOK /\ LeaseKept /\ CountBound
  BY TypeInit, GateStarts
<1>2. GateTypeOK /\ LeaseKept /\ CountBound /\ [GateNext]_slotVars
      => (GateTypeOK /\ LeaseKept /\ CountBound)'
  BY TypeStep, LeaseKeptStep, BoundStep
<1>3. GateTypeOK /\ LeaseKept /\ CountBound => ConcurrencyBound
  <2> SUFFICES ASSUME GateTypeOK, LeaseKept, CountBound PROVE ConcurrencyBound
    OBVIOUS
  <2>1. ASSUME NEW r \in Leased, r \notin Unexpired PROVE held[r] >= ZsetTTL
    <3>1. r \notin zset
      BY <2>1, CountedAre DEF Counted
    <3> QED
      BY <3>1 DEF LeaseKept
  <2> QED
    BY <2>1 DEF CountBound, Counted, ConcurrencyBound
<1> QED
  BY <1>1, <1>2, <1>3, PTL DEF GateSpec

-----------------------------------------------------------------------------
LEMMA RunsOutStep ==
  ASSUME GateTypeOK, LeaseRunsOut, [GateNext]_slotVars
  PROVE  LeaseRunsOut'
<1> USE GateArithmetic DEF GateTypeOK
<1>1. CASE UNCHANGED slotVars
  BY <1>1 DEF slotVars, LeaseRunsOut
<1>2. ASSUME Tick, NEW q \in Reqs, pc'[q] = "crashed"
      PROVE  ~renewing'[q] /\ held'[q] <= Lease /\ score'[q] <= Lease - held'[q]
  <2>1. pc[q] = "crashed" /\ renewing'[q] = renewing[q]
    BY <1>2 DEF Tick
  <2>2. /\ ~renewing[q] /\ held[q] <= Lease /\ score[q] <= Lease - held[q]
        /\ held[q] \in Nat /\ score[q] \in Nat
    BY <2>1 DEF LeaseRunsOut
  <2>3. held'[q] = IF held[q] < Lease THEN held[q] + 1 ELSE held[q]
    BY <1>2, <2>1 DEF Tick, Serving
  <2>4. score'[q] \in {0, Dec(score[q])}
    BY <1>2 DEF Tick
  <2>5. score'[q] = 0 \/ score'[q] = score[q] - 1
    BY <2>2, <2>4, SMT DEF Dec
  <2> QED
    BY <2>1, <2>2, <2>3, <2>5, SMT
<1>3. ASSUME NEW r \in Reqs, GateStep(r), NEW q \in Reqs, pc'[q] = "crashed"
      PROVE  ~renewing'[q] /\ held'[q] <= Lease /\ score'[q] <= Lease - held'[q]
  <2>1. CASE Crash(r) /\ q = r
    BY <2>1 DEF Crash, Stop, NoRedis
  <2>2. CASE ~(Crash(r) /\ q = r)
    <3>1. pc[q] = "crashed"
      BY <1>3, <2>2 DEF GateStep, Arrive, TryAcquire, FindFull, AcquireError,
         QueueTimeout, HeartbeatFires, Renew, RenewTimeout, RenewError,
         Release, ReleaseError, EndOpen, Crash, Goto
    <3>2. ~renewing[q] /\ held[q] <= Lease /\ score[q] <= Lease - held[q]
      BY <3>1 DEF LeaseRunsOut
    <3>3. held'[q] = held[q] /\ renewing'[q] = renewing[q]
      BY <1>3, <2>2, <3>1, <3>2 DEF GateStep, Arrive, TryAcquire, FindFull,
         AcquireError, QueueTimeout, HeartbeatFires, Renew, RenewTimeout,
         RenewError, Release, ReleaseError, EndOpen, Crash, Stop, NoBeat,
         Beating, Serving
    <3>4. score'[q] = score[q] \/ score'[q] = 0
      BY <1>3, <3>1, <3>2 DEF GateStep, Arrive, TryAcquire, FindFull,
         AcquireError, QueueTimeout, HeartbeatFires, Renew, RenewTimeout,
         RenewError, Release, ReleaseError, EndOpen, Crash, Stop, NoRedis,
         TakeLease, RenewLua, RemoveLease, Serving
    <3> QED
      BY <3>2, <3>3, <3>4, SMT
  <2> QED
    BY <2>1, <2>2
<1> QED
  BY <1>1, <1>2, <1>3 DEF GateNext, LeaseRunsOut

(* The slot of a process that died is counted by no one once a lease has   *)
(* passed.                                                                 *)
THEOREM CrashedSlotsReturn == GateSpec => []CrashFreesSlot
<1>1. GateInit => GateTypeOK /\ LeaseRunsOut
  BY TypeInit, GateStarts
<1>2. GateTypeOK /\ LeaseRunsOut /\ [GateNext]_slotVars
      => (GateTypeOK /\ LeaseRunsOut)'
  BY TypeStep, RunsOutStep
<1>3. GateTypeOK /\ LeaseRunsOut => CrashFreesSlot
  <2> SUFFICES ASSUME GateTypeOK, LeaseRunsOut, NEW r \in Reqs,
                      pc[r] = "crashed", held[r] = Lease
               PROVE  r \notin Unexpired
    BY DEF CrashFreesSlot
  <2>1. score[r] <= Lease - held[r] /\ score[r] \in Nat
    BY DEF LeaseRunsOut, GateTypeOK
  <2>2. ~(score[r] > 0)
    BY <2>1, GateArithmetic, SMT
  <2> QED
    BY <2>2 DEF Unexpired
<1> QED
  BY <1>1, <1>2, <1>3, PTL DEF GateSpec

LEMMA ReleasedStep ==
  ASSUME GateTypeOK, ReleasedStaysFree, [GateNext]_slotVars
  PROVE  ReleasedStaysFree'
<1> USE DEF GateTypeOK
<1>1. CASE UNCHANGED slotVars \/ Tick
  BY <1>1 DEF slotVars, Tick, ReleasedStaysFree
<1>2. ASSUME NEW r \in Reqs, GateStep(r), NEW q \in Reqs, pc'[q] = "released"
      PROVE  q \notin zset'
  <2>1. CASE q = r /\ Release(r)
    BY <2>1 DEF Release, RemoveLease
  <2>2. CASE ~(q = r /\ Release(r))
    <3>1. pc[q] = "released"
      BY <1>2, <2>2 DEF GateStep, Arrive, TryAcquire, FindFull, AcquireError,
         QueueTimeout, HeartbeatFires, Renew, RenewTimeout, RenewError,
         Release, ReleaseError, EndOpen, Crash, Goto
    <3>2. q \notin zset
      BY <3>1 DEF ReleasedStaysFree
    <3> QED
      BY <1>2, <3>1, <3>2 DEF GateStep, Arrive, TryAcquire, FindFull,
         AcquireError, QueueTimeout, HeartbeatFires, Renew, RenewTimeout,
         RenewError, Release, ReleaseError, EndOpen, Crash, NoRedis,
         TakeLease, RenewLua, RemoveLease, Unexpired
  <2> QED
    BY <2>1, <2>2
<1> QED
  BY <1>1, <1>2 DEF GateNext, ReleasedStaysFree

(* A renewal that overtakes a release does not occupy the slot again.      *)
THEOREM RemovedStaysRemoved == GateSpec => []ReleasedStaysFree
<1>1. GateInit => GateTypeOK /\ ReleasedStaysFree
  BY TypeInit DEF GateInit, ReleasedStaysFree
<1>2. GateTypeOK /\ ReleasedStaysFree /\ [GateNext]_slotVars
      => (GateTypeOK /\ ReleasedStaysFree)'
  BY TypeStep, ReleasedStep
<1> QED
  BY <1>1, <1>2, PTL DEF GateSpec

-----------------------------------------------------------------------------
(* Video tasks *)

(* The tables are empty when the gateway is installed. *)
LEMMA VideoTypeInit == VideoInit => VideoTypeOK
<1> SUFFICES ASSUME VideoInit PROVE VideoTypeOK
  OBVIOUS
<1>1. /\ created \in [Tasks -> Nat] /\ charges \in [Tasks -> Nat]
      /\ billed \in [Tasks -> BOOLEAN] /\ old \subseteq Tasks
  BY DEF VideoInit
<1>2. status \in [Tasks -> Statuses]
  BY DEF VideoInit, Statuses
<1>3. upstream \in [Tasks -> Answers]
  BY DEF VideoInit, Answers
<1>4. batch \in [Sweepers -> SUBSET Tasks]
  BY DEF VideoInit
<1>5. seen \in [Observers -> [task : Tasks, answer : Answers] \cup {Nothing}]
  BY DEF VideoInit
<1> QED
  BY <1>1, <1>2, <1>3, <1>4, <1>5 DEF VideoTypeOK

LEMMA VideoTypeStep == VideoTypeOK /\ [VideoNext]_videoVars => VideoTypeOK'
<1> SUFFICES ASSUME VideoTypeOK, [VideoNext]_videoVars PROVE VideoTypeOK'
  OBVIOUS
<1> USE VideoConstants DEF VideoTypeOK, Observers
<1>1. CASE UNCHANGED videoVars
  BY <1>1 DEF videoVars
<1>2. ASSUME NEW t \in Tasks, CaptureVideoTask(t) PROVE VideoTypeOK'
  <2>1. Cardinality(Registered) \in Nat
    BY FS_Subset, FS_CardinalityType DEF Registered
  <2>2. created' \in [Tasks -> Nat]
    BY <1>2, <2>1, SMT DEF CaptureVideoTask
  <2> QED
    BY <1>2, <2>2 DEF CaptureVideoTask, NoQuery, NoAccount
<1>3. ASSUME NEW t \in Tasks, UpstreamEnds(t) PROVE VideoTypeOK'
  BY <1>3 DEF UpstreamEnds, NoQuery, NoAccount, Answers
<1>4. ASSUME NEW t \in Tasks, DayPasses(t) PROVE VideoTypeOK'
  BY <1>4 DEF DayPasses, NoQuery, NoAccount
<1>5. ASSUME NEW c \in Clients, NEW t \in Tasks, ClientFetches(c, t)
      PROVE  VideoTypeOK'
  BY <1>5 DEF ClientFetches, NoAccount
<1>6. ASSUME NEW n \in Sweepers, SweepOnce(n) PROVE VideoTypeOK'
  BY <1>6 DEF SweepOnce, Batch, Due, Registered, NoAccount
<1>7. ASSUME NEW n \in Sweepers, NEW t \in Tasks, SweepFetches(n, t)
      PROVE  VideoTypeOK'
  BY <1>7 DEF SweepFetches, TakeUp, NoAccount
<1>8. ASSUME NEW n \in Sweepers, NEW t \in Tasks, SweepSkips(n, t)
      PROVE  VideoTypeOK'
  BY <1>8 DEF SweepSkips, TakeUp, NoAccount
<1>9. ASSUME NEW n \in Sweepers, Restart(n) PROVE VideoTypeOK'
  BY <1>9 DEF Restart, NoAccount
<1>10. ASSUME NEW o \in Observers, Apply(o) PROVE VideoTypeOK'
  <2>1. seen[o].task \in Tasks /\ seen[o].answer \in Answers
    BY <1>10 DEF Apply
  <2>2. /\ status' \in [Tasks -> Statuses]
        /\ billed' \in [Tasks -> BOOLEAN]
        /\ charges' \in [Tasks -> Nat]
    <3> DEFINE t == seen[o].task
               a == seen[o].answer
    <3>1. t \in Tasks /\ Observe(t, a)
      BY <1>10, <2>1 DEF Apply
    <3> HIDE DEF t, a
    <3>2. CASE SettleVideoTask(t)
      <4>1. status' \in [Tasks -> Statuses] /\ billed' \in [Tasks -> BOOLEAN]
        BY <3>1, <3>2 DEF SettleVideoTask, Statuses
      <4>2. charges' = charges \/ charges' = [charges EXCEPT ![t] = charges[t] + 1]
        BY <3>2 DEF SettleVideoTask
      <4>3. charges[t] \in Nat
        BY <3>1
      <4>4. charges' \in [Tasks -> Nat]
        BY <4>2, <4>3, SMT
      <4> QED
        BY <4>1, <4>4
    <3>3. CASE ~SettleVideoTask(t)
      <4>1. NoAccount /\ \E s \in Statuses :
              status' = status \/ status' = [status EXCEPT ![t] = s]
        BY <3>1, <3>3 DEF Observe, Statuses
      <4> QED
        BY <3>1, <4>1 DEF NoAccount
    <3> QED
      BY <3>2, <3>3
  <2> QED
    BY <1>10, <2>2 DEF Apply, Done
<1>11. ASSUME NEW o \in Observers, ApplyFails(o) PROVE VideoTypeOK'
  BY <1>11 DEF ApplyFails, Done, NoAccount
<1> QED
  BY <1>1, <1>2, <1>3, <1>4, <1>5, <1>6, <1>7, <1>8, <1>9, <1>10, <1>11
     DEF VideoNext

(* Types: a query holds nothing, or a task with an answer of the upstream. *)
THEOREM VideoTypesCorrect == VideoSpec => []VideoTypeOK
BY VideoTypeInit, VideoTypeStep, PTL DEF VideoSpec

-----------------------------------------------------------------------------
(* What is held as a success is one. *)
HeldIsTrue ==
  \A o \in Observers :
    seen[o].answer = "succeeded" => upstream[seen[o].task] = "succeeded"

VideoInv == VideoTypeOK /\ BilledIsCharged /\ HeldIsTrue

LEMMA VideoInvInit == VideoInit => VideoInv
<1> SUFFICES ASSUME VideoInit PROVE BilledIsCharged /\ HeldIsTrue
  BY VideoTypeInit DEF VideoInv
<1>1. BilledIsCharged
  BY DEF VideoInit, BilledIsCharged
<1>2. \A o \in Observers : seen[o].answer = "none"
  BY DEF VideoInit, Nothing
<1> QED
  BY <1>1, <1>2 DEF HeldIsTrue

(* The only step that charges anything applies a success to an unbilled    *)
(* row, and marks the row.                                                 *)
LEMMA ChargeStep ==
  ASSUME VideoInv, VideoNext
  PROVE  \/ /\ UNCHANGED <<billed, charges>>
         \/ \E t \in Tasks :
              /\ upstream[t] = "succeeded" /\ ~billed[t]
              /\ billed' = [billed EXCEPT ![t] = TRUE]
              /\ charges' = [charges EXCEPT ![t] = @ + 1]
              /\ UNCHANGED upstream
<1> USE DEF VideoInv, VideoTypeOK
<1>1. ASSUME NEW o \in Observers, Apply(o), ~UNCHANGED <<billed, charges>>
      PROVE  \E t \in Tasks :
               /\ upstream[t] = "succeeded" /\ ~billed[t]
               /\ billed' = [billed EXCEPT ![t] = TRUE]
               /\ charges' = [charges EXCEPT ![t] = @ + 1]
               /\ UNCHANGED upstream
  <2> DEFINE t == seen[o].task
  <2>1. t \in Tasks
    BY <1>1 DEF Apply
  <2>2. seen[o].answer = "succeeded" /\ SettleVideoTask(t)
    BY <1>1 DEF Apply, Observe, Settles, NoAccount
  <2>3. upstream[t] = "succeeded"
    BY <2>2 DEF HeldIsTrue
  <2>4. /\ ~billed[t] /\ billed' = [billed EXCEPT ![t] = TRUE]
        /\ charges' = [charges EXCEPT ![t] = @ + 1]
    BY <1>1, <2>2 DEF SettleVideoTask, Unbilled
  <2> QED
    BY <1>1, <2>1, <2>3, <2>4 DEF Apply
<1>2. ASSUME ~(\E o \in Observers : Apply(o)) PROVE UNCHANGED <<billed, charges>>
  BY <1>2 DEF VideoNext, CaptureVideoTask, UpstreamEnds, DayPasses,
     ClientFetches, SweepOnce, SweepFetches, SweepSkips, Restart, ApplyFails,
     NoAccount
<1> QED
  BY <1>1, <1>2

LEMMA HeldStep == VideoInv /\ [VideoNext]_videoVars => HeldIsTrue'
<1> SUFFICES ASSUME VideoInv, [VideoNext]_videoVars, NEW o \in Observers,
                    seen'[o].answer = "succeeded"
             PROVE  upstream'[seen'[o].task] = "succeeded"
  BY DEF HeldIsTrue
<1> USE VideoConstants DEF VideoInv, VideoTypeOK, Observers
<1>1. \A t \in Tasks : upstream[t] = "succeeded" => upstream'[t] = "succeeded"
  BY DEF videoVars, VideoNext, CaptureVideoTask, UpstreamEnds, DayPasses,
     ClientFetches, SweepOnce, SweepFetches, SweepSkips, Restart, Apply,
     ApplyFails
<1>2. CASE seen'[o] = seen[o]
  <2>1. seen[o] # Nothing
    BY <1>2 DEF Nothing
  <2>2. seen[o].task \in Tasks /\ upstream[seen[o].task] = "succeeded"
    BY <1>2, <2>1 DEF HeldIsTrue
  <2> QED
    BY <1>1, <1>2, <2>2
<1>3. CASE seen'[o] # seen[o]
  <2>1. seen'[o] = Nothing
        \/ \E t \in Tasks : /\ seen'[o] = [task |-> t, answer |-> upstream[t]]
                            /\ UNCHANGED upstream
    BY <1>3 DEF videoVars, VideoNext, CaptureVideoTask, UpstreamEnds,
       DayPasses, ClientFetches, SweepOnce, SweepFetches, SweepSkips, TakeUp,
       Restart, Apply, ApplyFails, Done, NoQuery
  <2>2. seen'[o] # Nothing
    BY DEF Nothing
  <2>3. PICK t \in Tasks : /\ seen'[o] = [task |-> t, answer |-> upstream[t]]
                           /\ UNCHANGED upstream
    BY <2>1, <2>2
  <2>4. seen'[o].task = t /\ seen'[o].answer = upstream[t]
    BY <2>3
  <2> QED
    BY <2>3, <2>4
<1> QED
  BY <1>2, <1>3

LEMMA VideoInvStep == VideoInv /\ [VideoNext]_videoVars => VideoInv'
<1> SUFFICES ASSUME VideoInv, [VideoNext]_videoVars PROVE BilledIsCharged'
  BY VideoTypeStep, HeldStep DEF VideoInv
<1>1. CASE UNCHANGED <<billed, charges>>
  BY <1>1 DEF VideoInv, BilledIsCharged
<1>2. CASE ~UNCHANGED <<billed, charges>>
  <2>1. PICK t \in Tasks : /\ ~billed[t]
                           /\ billed' = [billed EXCEPT ![t] = TRUE]
                           /\ charges' = [charges EXCEPT ![t] = @ + 1]
    BY <1>2, ChargeStep DEF videoVars
  <2> QED
    BY <2>1 DEF VideoInv, VideoTypeOK, BilledIsCharged
<1> QED
  BY <1>1, <1>2

(* Double billing is impossible: the mark on the row decides the race.     *)
THEOREM ChargedOnce == VideoSpec => []BilledIsCharged
<1>1. VideoInv => BilledIsCharged
  BY DEF VideoInv
<1> QED
  BY <1>1, VideoInvInit, VideoInvStep, PTL DEF VideoSpec

(* The rows, queries and sweeps implement the promise of VideoBilling.     *)
THEOREM VideoImplementsBilling == VideoSpec => ImplementsBilling
<1> DEFINE Fin == {t \in Tasks : upstream[t] = "succeeded"}
<1>1. VideoInit => Promise!BillingInit
  BY DEF VideoInit, Promise!BillingInit
<1>2. VideoInv /\ [VideoNext]_videoVars
      => [Promise!BillingNext]_<<Fin, charges>>
  <2> SUFFICES ASSUME VideoInv, [VideoNext]_videoVars,
                      ~UNCHANGED <<Fin, charges>>
               PROVE  Promise!BillingNext
    OBVIOUS
  <2>1. CASE ~UNCHANGED <<billed, charges>>
    <3>1. PICK t \in Tasks : /\ upstream[t] = "succeeded" /\ ~billed[t]
                             /\ charges' = [charges EXCEPT ![t] = @ + 1]
                             /\ UNCHANGED upstream
      BY <2>1, ChargeStep DEF videoVars
    <3>2. charges[t] = 0
      BY <3>1 DEF VideoInv, BilledIsCharged
    <3> HIDE DEF Fin
    <3>3. charges' = [charges EXCEPT ![t] = charges[t] + 1]
      BY <3>1
    <3>4. charges' = [charges EXCEPT ![t] = 1]
      BY <3>2, <3>3, SMT
    <3> USE DEF Fin
    <3>5. Promise!ChargeTask(t)
      BY <3>1, <3>2, <3>4 DEF Promise!ChargeTask
    <3> QED
      BY <3>5 DEF Promise!BillingNext
  <2>2. CASE UNCHANGED <<billed, charges>>
    <3>1. upstream' # upstream
      BY <2>2
    <3>2. PICK t \in Tasks : UpstreamEnds(t)
      BY <3>1 DEF videoVars, VideoNext, CaptureVideoTask, DayPasses,
         ClientFetches, SweepOnce, SweepFetches, SweepSkips, Restart, Apply,
         ApplyFails
    <3>3. PICK a \in Finals : upstream' = [upstream EXCEPT ![t] = a]
      BY <3>2 DEF UpstreamEnds
    <3>4. a = "succeeded"
      BY <2>2, <3>2, <3>3 DEF UpstreamEnds, VideoInv, VideoTypeOK
    <3>5. Fin' = Fin \cup {t} /\ t \notin Fin
      BY <3>2, <3>3, <3>4 DEF UpstreamEnds, VideoInv, VideoTypeOK
    <3>6. Promise!Finish(t)
      BY <2>2, <3>5 DEF Promise!Finish
    <3> QED
      BY <3>6 DEF Promise!BillingNext
  <2> QED
    BY <2>1, <2>2
<1>3. VideoSpec => []VideoInv
  BY VideoInvInit, VideoInvStep, PTL DEF VideoSpec
<1> QED
  BY <1>1, <1>2, <1>3, PTL DEF VideoSpec, ImplementsBilling,
     Promise!BillingSpec
=============================================================================
