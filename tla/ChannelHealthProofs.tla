------------------------ MODULE ChannelHealthProofs ------------------------
(***************************************************************************)
(* What holds of channels and models however the writers of their status   *)
(* interleave, for any number of goroutines, channels, keys and models.    *)
(* A channel that is stopped for want of a key and has one, or a model     *)
(* whose status is wrong, has a goroutine on its way to align it.          *)
(***************************************************************************)
EXTENDS ChannelHealth, TLAPS

LEMMA NoChannelType == NoChannel \in ChannelRow
BY HealthConstants DEF NoChannel, ChannelRow, Status

LEMMA IdleType == Idle \in Worker /\ Sync \in Worker
BY DEF Idle, Sync, Worker, Steps

LEMMA HealthTypeInit == HealthInit => HealthTypeOK
<1> SUFFICES ASSUME HealthInit PROVE HealthTypeOK
  OBVIOUS
<1>1. chan \in [Channels -> ChannelRow]
  BY NoChannelType DEF HealthInit
<1>2. /\ vendor \in [Vendors -> Status] /\ key \in [Keys -> Status]
      /\ mod \in [Models -> ModelRow]
  BY DEF HealthInit, Status, ModelRow
<1>3. fails \in [Channels -> 0..Threshold] /\ tests \in [Channels -> 0..TestThreshold]
  BY HealthConstants DEF HealthInit
<1>4. work \in [Workers -> Worker]
  BY IdleType DEF HealthInit
<1>5. held \subseteq Channels /\ well \subseteq Channels
  BY DEF HealthInit
<1> QED
  BY <1>1, <1>2, <1>3, <1>4, <1>5 DEF HealthTypeOK, ChannelRow, ModelRow

(* A worker that is changed stays a worker.  *)
LEMMA WorkerMoves ==
  ASSUME HealthTypeOK, NEW w \in Workers, NEW at \in Steps, NEW seen \in SUBSET Channels
  PROVE  /\ [work EXCEPT ![w].at = at] \in [Workers -> Worker]
         /\ [work EXCEPT ![w].at = at, ![w].seen = seen] \in [Workers -> Worker]
         /\ [work EXCEPT ![w].seen = seen, ![w].at = at] \in [Workers -> Worker]
<1>1. work \in [Workers -> Worker] /\ work[w] \in Worker
  BY DEF HealthTypeOK
<1>2. /\ [work[w] EXCEPT !.at = at] \in Worker
      /\ [work[w] EXCEPT !.at = at, !.seen = seen] \in Worker
      /\ [work[w] EXCEPT !.seen = seen, !.at = at] \in Worker
  BY <1>1 DEF Worker
<1> QED
  BY <1>1, <1>2

LEMMA WorkerEnds ==
  ASSUME HealthTypeOK, NEW w \in Workers
  PROVE  /\ [work EXCEPT ![w] = Idle] \in [Workers -> Worker]
         /\ [work EXCEPT ![w] = Sync] \in [Workers -> Worker]
         /\ StartSync(w) => work' \in [Workers -> Worker]
BY IdleType DEF HealthTypeOK, StartSync

LEMMA RowChanges ==
  ASSUME NEW row \in ChannelRow, NEW st \in Status, NEW auto \in BOOLEAN,
         NEW nokey \in BOOLEAN
  PROVE  /\ [row EXCEPT !.st = st, !.auto = auto] \in ChannelRow
         /\ [row EXCEPT !.st = st, !.nokey = nokey] \in ChannelRow
         /\ [row EXCEPT !.st = st, !.auto = auto, !.nokey = nokey] \in ChannelRow
BY DEF ChannelRow

LEMMA ServesLess ==
  ASSUME NEW row \in ChannelRow, NEW serves \in SUBSET row.serves
  PROVE  [row EXCEPT !.serves = serves] \in ChannelRow
BY DEF ChannelRow

(* One channel is switched *)
LEMMA ChannelSwitched ==
  ASSUME HealthTypeOK, NEW c \in Channels, NEW st \in Status, NEW auto \in BOOLEAN,
         NEW nokey \in BOOLEAN
  PROVE  /\ [chan EXCEPT ![c].st = st, ![c].auto = auto] \in [Channels -> ChannelRow]
         /\ [chan EXCEPT ![c].st = st, ![c].auto = auto, ![c].nokey = nokey]
              \in [Channels -> ChannelRow]
<1>1. chan \in [Channels -> ChannelRow] /\ chan[c] \in ChannelRow
  BY DEF HealthTypeOK
<1>2. /\ [chan[c] EXCEPT !.st = st, !.auto = auto] \in ChannelRow
      /\ [chan[c] EXCEPT !.st = st, !.auto = auto, !.nokey = nokey] \in ChannelRow
  BY <1>1, RowChanges
<1> QED
  BY <1>1, <1>2

LEMMA HealthTypeSync ==
  ASSUME HealthTypeOK, NEW w \in Workers, SyncStep(w)
  PROVE  HealthTypeOK'
<1> USE DEF HealthTypeOK, Pools, Counters
<1>1. CASE SelectNoKey(w)
  BY <1>1, WorkerMoves DEF SelectNoKey, Select, Steps
<1>2. CASE disableNoKeyChannels(w)
  <2>1. chan' \in [Channels -> ChannelRow]
    <3>1. ASSUME NEW c \in Channels
          PROVE  [chan[c] EXCEPT !.st = "off", !.nokey = TRUE] \in ChannelRow
      BY RowChanges DEF Status
    <3> QED
      BY <1>2, <3>1 DEF disableNoKeyChannels
  <2> QED
    BY <1>2, <2>1, WorkerMoves DEF disableNoKeyChannels, Steps
<1>3. CASE SelectKeyed(w)
  BY <1>3, WorkerMoves DEF SelectKeyed, Select, Steps
<1>4. CASE recoverKeyedChannels(w)
  <2>1. chan' \in [Channels -> ChannelRow]
    <3>1. ASSUME NEW c \in Channels
          PROVE  [chan[c] EXCEPT !.st = "on", !.nokey = FALSE] \in ChannelRow
      BY RowChanges DEF Status
    <3> QED
      BY <1>4, <3>1 DEF recoverKeyedChannels
  <2> QED
    BY <1>4, <2>1, WorkerMoves DEF recoverKeyedChannels, Steps
<1>5. CASE SyncModelRoutableStatus(w)
  <2>1. mod' \in [Models -> ModelRow]
    BY <1>5 DEF SyncModelRoutableStatus, Aligned, ModelRow, Status
  <2>2. work' \in [Workers -> Worker]
    BY <1>5, WorkerMoves, IdleType DEF SyncModelRoutableStatus, Steps, Worker
  <2> QED
    BY <1>5, <2>1, <2>2 DEF SyncModelRoutableStatus, ModelRow
<1> QED
  BY <1>1, <1>2, <1>3, <1>4, <1>5 DEF SyncStep

LEMMA CappedType ==
  ASSUME NEW n \in Nat, NEW limit \in Nat
  PROVE  Capped(n, limit) \in 0..limit
BY DEF Capped

LEMMA AutoDisableType ==
  ASSUME HealthTypeOK, NEW w \in Workers, NEW c \in Channels, AutoDisable(w, c)
  PROVE  chan' \in [Channels -> ChannelRow] /\ work' \in [Workers -> Worker]
<1>1. chan' \in [Channels -> ChannelRow]
  BY ChannelSwitched DEF AutoDisable, HealthTypeOK, Status
<1>2. work' \in [Workers -> Worker]
  BY IdleType DEF AutoDisable, HealthTypeOK
<1> QED
  BY <1>1, <1>2

LEMMA HealthTypeProbe ==
  ASSUME HealthTypeOK, NEW w \in Workers, Probe(w)
  PROVE  HealthTypeOK'
<1> USE DEF HealthTypeOK, Pools, Counters
<1>1. ASSUME NEW job \in {"test", "recover"}, NEW c \in Channels, ProbeChannel(w, job, c)
      PROVE  HealthTypeOK'
  <2>1. PICK ks \in Tried(c) : work' = [work EXCEPT ![w] =
          [Idle EXCEPT !.at = "probing", !.job = job, !.ch = {c}, !.todo = ks]]
    BY <1>1 DEF ProbeChannel
  <2>2. ks \subseteq Keys
    BY <2>1 DEF Tried, Pool
  <2>3. work' \in [Workers -> Worker]
    BY <2>1, <2>2 DEF Idle, Worker, Steps
  <2> QED
    BY <1>1, <2>3 DEF ProbeChannel
<1>2. CASE ProbeRefused(w)
  <2>1. PICK c \in work[w].ch, k \in work[w].todo :
          /\ key' = IF key[k] = "on" THEN [key EXCEPT ![k] = "off"] ELSE key
          /\ work' = [work EXCEPT ![w].at = "nokey?", ![w].todo = @ \ {k}, ![w].dead = TRUE]
          /\ UNCHANGED <<chan, mod, held, vendor>> /\ Counters
    BY <1>2 DEF ProbeRefused
  <2>2. work' \in [Workers -> Worker]
    <3>1. [work[w] EXCEPT !.at = "nokey?", !.todo = @ \ {k}, !.dead = TRUE] \in Worker
      BY DEF Worker, Steps
    <3> QED
      BY <2>1, <3>1
  <2>3. key' \in [Keys -> Status]
    BY <2>1 DEF Status
  <2> QED
    BY <2>1, <2>2, <2>3
<1>3. CASE ProbeQuota(w)
  BY <1>3, WorkerEnds DEF ProbeQuota
<1>4. CASE ProbeOk(w)
  <2> DEFINE back(c) == work[w].job = "recover" /\ AutoOff(c)
  <2>1. PICK c \in work[w].ch :
          /\ chan' = IF back(c) THEN [chan EXCEPT ![c].st = "on", ![c].auto = FALSE] ELSE chan
          /\ fails' = IF back(c) THEN [fails EXCEPT ![c] = 0] ELSE fails
          /\ tests' = IF work[w].job = "test" THEN [tests EXCEPT ![c] = 0] ELSE tests
          /\ work' = [work EXCEPT ![w] = IF back(c) THEN Sync ELSE Idle]
          /\ UNCHANGED <<mod, held, well>> /\ Pools
    BY <1>4 DEF ProbeOk
  <2>2. c \in Channels
    BY DEF Worker
  <2>3. chan' \in [Channels -> ChannelRow]
    BY <2>1, <2>2, ChannelSwitched DEF Status
  <2>4. fails' \in [Channels -> 0..Threshold] /\ tests' \in [Channels -> 0..TestThreshold]
    BY <2>1, <2>2, HealthConstants
  <2>5. work' \in [Workers -> Worker]
    BY <2>1, IdleType
  <2> QED
    BY <2>1, <2>3, <2>4, <2>5
<1>5. CASE ProbeFails(w)
  <2> DEFINE n(c) == Capped(tests[c] + 1, TestThreshold)
  <2>1. PICK c \in work[w].ch :
          /\ IF work[w].job = "test" /\ n(c) = TestThreshold
             THEN /\ tests' = [tests EXCEPT ![c] = IF chan[c].st = "on" THEN 0 ELSE n(c)]
                  /\ AutoDisable(w, c)
             ELSE /\ tests' = IF work[w].job = "test" THEN [tests EXCEPT ![c] = n(c)] ELSE tests
                  /\ work' = [work EXCEPT ![w] = Idle] /\ UNCHANGED chan
          /\ UNCHANGED <<mod, held, fails, well>> /\ Pools
    BY <1>5 DEF ProbeFails
  <2>2. c \in Channels
    BY DEF Worker
  <2>3. n(c) \in 0..TestThreshold
    <3>1. tests[c] + 1 \in Nat /\ TestThreshold \in Nat
      BY <2>2, HealthConstants
    <3> QED
      BY <3>1, CappedType
  <2>4. tests' \in [Channels -> 0..TestThreshold]
    <3> HIDE DEF n
    <3> QED
      BY <2>1, <2>2, <2>3, HealthConstants
  <2>5. chan' \in [Channels -> ChannelRow] /\ work' \in [Workers -> Worker]
    BY <2>1, <2>2, AutoDisableType, WorkerEnds
  <2> QED
    BY <2>1, <2>4, <2>5
<1> QED
  BY <1>1, <1>2, <1>3, <1>4, <1>5 DEF Probe

(* SaveChannel with a row of the right type.  *)
LEMMA SaveType ==
  ASSUME HealthTypeOK, NEW w \in Workers, NEW c \in Channels, NEW row \in ChannelRow,
         NEW new \in SUBSET Keys, SaveChannel(w, c, row, new)
  PROVE  /\ chan' \in [Channels -> ChannelRow] /\ key' \in [Keys -> Status]
         /\ mod' \in [Models -> ModelRow] /\ work' \in [Workers -> Worker]
         /\ UNCHANGED vendor /\ Counters
<1>1. chan' \in [Channels -> ChannelRow]
  BY DEF SaveChannel, HealthTypeOK
<1>2. key' \in [Keys -> Status]
  BY DEF SaveChannel, HealthTypeOK, Status
<1>3. mod' \in [Models -> ModelRow]
  BY DEF SaveChannel, HealthTypeOK, Registered, ModelRow, Status
<1>4. work' \in [Workers -> Worker]
  BY WorkerEnds DEF SaveChannel
<1> QED
  BY <1>1, <1>2, <1>3, <1>4 DEF SaveChannel

LEMMA HealthTypeCall ==
  ASSUME HealthTypeOK, NEW w \in Workers, Call(w)
  PROVE  HealthTypeOK'
<1> USE DEF HealthTypeOK, Pools, Counters
<1>1. ASSUME NEW k \in Keys, DisablePoolKey(w, k) PROVE HealthTypeOK'
  BY <1>1, WorkerEnds DEF DisablePoolKey, Status
<1>2. ASSUME NEW k \in Keys, AddVendorKeys(w, k) PROVE HealthTypeOK'
  BY <1>2, WorkerEnds DEF AddVendorKeys, SetKey, Status
<1>3. ASSUME NEW k \in Keys, DeleteVendorKey(w, k) PROVE HealthTypeOK'
  <2>1. work' \in [Workers -> Worker]
    BY <1>3 DEF DeleteVendorKey, Idle, Worker, Steps
  <2> QED
    BY <1>3, <2>1 DEF DeleteVendorKey, SetKey, Status
<1>4. ASSUME NEW k \in Keys, NEW st \in Setting, UpdateVendorKeyStatus(w, k, st)
      PROVE  HealthTypeOK'
  BY <1>4, WorkerEnds DEF UpdateVendorKeyStatus, SetKey, Status, Setting
<1>5. CASE CountLeft(w)
  <2>1. [work EXCEPT ![w].at = "purge!"] \in [Workers -> Worker]
    BY WorkerMoves DEF Steps
  <2>2. work' \in [Workers -> Worker]
    BY <1>5, <2>1, WorkerEnds DEF CountLeft
  <2> QED
    BY <1>5, <2>2 DEF CountLeft
<1>6. CASE PurgeAbilities(w)
  <2>1. chan' \in [Channels -> ChannelRow]
    <3>1. ASSUME NEW c \in Channels PROVE [chan[c] EXCEPT !.serves = {}] \in ChannelRow
      BY ServesLess
    <3> QED
      BY <1>6, <3>1 DEF PurgeAbilities
  <2> QED
    BY <1>6, <2>1, WorkerEnds DEF PurgeAbilities
<1>7. CASE DisableChannel(w)
  <2>1. PICK c \in work[w].ch : AutoDisable(w, c) /\ UNCHANGED <<mod, held>> /\ Pools /\ Counters
    BY <1>7 DEF DisableChannel
  <2>2. c \in Channels
    BY DEF Worker
  <2> QED
    BY <2>1, <2>2, AutoDisableType
<1>8. ASSUME NEW v \in Vendors, NEW st \in Setting, UpdateVendor(w, v, st) PROVE HealthTypeOK'
  BY <1>8, WorkerEnds DEF UpdateVendor, Status, Setting
<1>9. ASSUME NEW c \in Channels, RelayFails(w, c) PROVE HealthTypeOK'
  <2> DEFINE n == Capped(fails[c] + 1, Threshold)
  <2>1. n \in 0..Threshold
    <3>1. fails[c] + 1 \in Nat /\ Threshold \in Nat
      BY HealthConstants
    <3> QED
      BY <3>1, CappedType
  <2> HIDE DEF n
  <2>2. fails' = [fails EXCEPT ![c] = n]
    BY <1>9 DEF RelayFails, n
  <2>3. work' = work \/ work' = [work EXCEPT ![w].at = "tripped", ![w].ch = {c}]
    BY <1>9 DEF RelayFails
  <2>4. work' \in [Workers -> Worker]
    <3>1. [work[w] EXCEPT !.at = "tripped", !.ch = {c}] \in Worker
      BY DEF Worker, Steps
    <3> QED
      BY <2>3, <3>1
  <2> QED
    BY <1>9, <2>1, <2>2, <2>4 DEF RelayFails
<1>10. ASSUME NEW c \in Channels, DeleteChannel(w, c) PROVE HealthTypeOK'
  <2>1. chan' \in [Channels -> ChannelRow]
    BY <1>10, NoChannelType DEF DeleteChannel
  <2> QED
    BY <1>10, <2>1, WorkerEnds DEF DeleteChannel
<1>11. ASSUME NEW c \in Channels, NEW st \in Setting, UpdateChannelStatus(w, c, st)
       PROVE  HealthTypeOK'
  <2>1. chan' \in [Channels -> ChannelRow]
    BY <1>11, ChannelSwitched DEF UpdateChannelStatus, Switched, Status, Setting
  <2>2. fails' \in [Channels -> 0..Threshold]
    BY <1>11, HealthConstants DEF UpdateChannelStatus
  <2> QED
    BY <1>11, <2>1, <2>2, WorkerEnds DEF UpdateChannelStatus
<1>12. ASSUME NEW c \in Channels, NEW v \in Vendors, CheckKeys(w, c, v) PROVE HealthTypeOK'
  <2>1. work' \in [Workers -> Worker]
    BY <1>12 DEF CheckKeys, Pool, Idle, Worker, Steps
  <2> QED
    BY <1>12, <2>1 DEF CheckKeys
<1>13. ASSUME NEW c \in Channels, NEW v \in Vendors, NEW st \in Setting,
              NEW ms \in SUBSET Models, NEW new \in SUBSET Keys,
              CreateChannel(w, c, v, st, ms, new)
       PROVE  HealthTypeOK'
  <2>1. [NoChannel EXCEPT !.st = st, !.home = v, !.serves = ms] \in ChannelRow
    BY NoChannelType DEF ChannelRow, Setting, Status
  <2> QED
    BY <1>13, <2>1, SaveType DEF CreateChannel
<1>14. ASSUME NEW c \in Channels, NEW v \in Vendors, NEW st \in Setting,
              NEW ms \in SUBSET Models, NEW new \in SUBSET Keys,
              UpdateChannel(w, c, v, st, ms, new)
       PROVE  HealthTypeOK'
  <2>1. [chan[c] EXCEPT !.st = st, !.home = v, !.serves = ms] \in ChannelRow
    BY DEF ChannelRow, Setting, Status
  <2> QED
    BY <1>14, <2>1, SaveType DEF UpdateChannel
<1> QED
  BY <1>1, <1>2, <1>3, <1>4, <1>5, <1>6, <1>7, <1>8, <1>9, <1>10, <1>11, <1>12, <1>13,
     <1>14 DEF Call

LEMMA HealthTypeStep == HealthTypeOK /\ [HealthNext]_hvars => HealthTypeOK'
<1> SUFFICES ASSUME HealthTypeOK, [HealthNext]_hvars PROVE HealthTypeOK'
  OBVIOUS
<1>1. CASE UNCHANGED hvars
  BY <1>1 DEF hvars, HealthTypeOK
<1>2. ASSUME NEW w \in Workers, SyncStep(w) \/ Call(w) \/ Probe(w) PROVE HealthTypeOK'
  BY <1>2, HealthTypeSync, HealthTypeCall, HealthTypeProbe
<1>3. ASSUME NEW w \in Workers, Restart(w) PROVE HealthTypeOK'
  BY <1>3, IdleType DEF Restart, HealthTypeOK, Pools, Counters
<1>4. ASSUME NEW v \in Vendors, DeleteVendor(v) PROVE HealthTypeOK'
  BY <1>4 DEF DeleteVendor, HealthTypeOK, Counters, Status
<1>5. ASSUME NEW v \in Vendors, NEW st \in Setting, CreateVendor(v, st) PROVE HealthTypeOK'
  BY <1>5 DEF CreateVendor, HealthTypeOK, Counters, Status, Setting
<1>6. ASSUME NEW m \in Models, DeleteModel(m) PROVE HealthTypeOK'
  <2>1. chan' \in [Channels -> ChannelRow]
    <3>1. ASSUME NEW c \in Channels
          PROVE  [chan[c] EXCEPT !.serves = @ \ {m}] \in ChannelRow
      BY ServesLess DEF HealthTypeOK
    <3> QED
      BY <1>6, <3>1 DEF DeleteModel, HealthTypeOK
  <2>2. mod' \in [Models -> ModelRow]
    BY <1>6 DEF DeleteModel, HealthTypeOK, ModelRow, Status
  <2> QED
    BY <1>6, <2>1, <2>2 DEF DeleteModel, Catalogue, HealthTypeOK, Pools, Counters
<1>7. ASSUME NEW m \in Models, NEW st \in Setting, CreateModel(m, st) \/ UpdateModel(m, st)
      PROVE  HealthTypeOK'
  <2>1. mod' \in [Models -> ModelRow]
    <3>1. mod \in [Models -> ModelRow] /\ st \in Status
      BY DEF HealthTypeOK, Setting, Status
    <3>2. [st |-> st, auto |-> FALSE, hand |-> TRUE] \in ModelRow
      BY <3>1 DEF ModelRow
    <3>3. [mod[m] EXCEPT !.st = st, !.hand = TRUE] \in ModelRow
      BY <3>1 DEF ModelRow
    <3> QED
      BY <1>7, <3>1, <3>2, <3>3 DEF CreateModel, UpdateModel
  <2> QED
    BY <1>7, <2>1 DEF CreateModel, UpdateModel, Catalogue, HealthTypeOK, Pools, Counters, ModelRow
<1>8. ASSUME NEW c \in Channels, RelayOk(c) \/ UpstreamTurns(c) PROVE HealthTypeOK'
  BY <1>8, HealthConstants DEF RelayOk, UpstreamTurns, HealthTypeOK, Pools
<1>9. CASE Crash
  <2>1. [Idle EXCEPT !.at = "down"] \in Worker
    BY IdleType DEF Worker, Steps
  <2> QED
    BY <1>9, <2>1, HealthConstants DEF Crash, HealthTypeOK, Pools
<1> QED
  BY <1>1, <1>2, <1>3, <1>4, <1>5, <1>6, <1>7, <1>8, <1>9 DEF HealthNext

(* The tables, the counters and what the goroutines are at keep their      *)
(* types (breaker.go, prober.go, modelroute.go).                           *)
THEOREM HealthTypesCorrect == HealthSpec => []HealthTypeOK
<1>1. HealthInit => HealthTypeOK
  BY HealthTypeInit
<1>2. HealthTypeOK /\ [HealthNext]_hvars => HealthTypeOK'
  BY HealthTypeStep
<1> QED
  BY <1>1, <1>2, PTL DEF HealthSpec

-----------------------------------------------------------------------------
(* A goroutine at one of these will still look at the key pools, or has    *)
(* seen that the channel is to be started; at one of those it will still   *)
(* look at the models.                                                     *)
Looking == {"down", "left?", "purge!", "nokey?", "nokey!", "keyed?"}
Aligning == Looking \cup {"keyed!", "models"}

WillStart(w, c) ==
  work[w].at \in Looking \/ (work[w].at = "keyed!" /\ c \in work[w].seen)

Starved(c) == NoKeyOff(c) /\ Usable(c)
Wrong(m) == ~mod[m].hand /\ ~(mod[m].st = "on" <=> Live(m))

HeldOff == \A c \in held : chan[c].st = "off" /\ ~chan[c].auto /\ ~chan[c].nokey
Homes == \A c \in Channels : chan[c].st # "absent" => vendor[chan[c].home] # "absent"
StarvedSeen == \A c \in Channels : Starved(c) => \E w \in Workers : WillStart(w, c)
AutoStatus == \A m \in Models :
  ~mod[m].hand => mod[m].st = "on" \/ (mod[m].st = "off" /\ mod[m].auto)
WrongSeen == \A m \in Models : Wrong(m) => \E w \in Workers : work[w].at \in Aligning

HealthInv == HealthTypeOK /\ HeldOff /\ Homes /\ StarvedSeen /\ AutoStatus /\ WrongSeen

LEMMA LookingSees ==
  ASSUME NEW w \in Workers, work'[w].at \in Looking
  PROVE  StarvedSeen' /\ WrongSeen'
BY DEF StarvedSeen, WrongSeen, WillStart, Aligning

(* Nothing is newly wrong, and who aligns goes on.  *)
LEMMA Steady ==
  ASSUME HealthInv,
         \A w \in Workers : work[w].at \in Aligning => work'[w] = work[w],
         \A c \in Channels : Starved(c)' => Starved(c),
         \A m \in Models : Wrong(m)' => Wrong(m)
  PROVE  StarvedSeen' /\ WrongSeen'
<1>1. StarvedSeen'
  BY DEF HealthInv, StarvedSeen, WillStart, Aligning, Looking
<1>2. WrongSeen'
  BY DEF HealthInv, WrongSeen
<1> QED
  BY <1>1, <1>2

LEMMA TablesSame ==
  ASSUME HealthInv, UNCHANGED <<chan, vendor, key, mod, held>>
  PROVE  /\ HeldOff' /\ Homes' /\ AutoStatus'
         /\ \A c \in Channels : Starved(c)' => Starved(c)
         /\ \A m \in Models : Wrong(m)' => Wrong(m)
<1>1. HeldOff' /\ Homes' /\ AutoStatus'
  BY DEF HealthInv, HeldOff, Homes, AutoStatus
<1>2. \A c \in Channels : Usable(c)' = Usable(c)
  BY DEF Usable, Pool
<1>3. \A m \in Models : Live(m)' = Live(m)
  BY <1>2 DEF Live
<1> QED
  BY <1>1, <1>2, <1>3 DEF Starved, NoKeyOff, Wrong

HealthRest == HeldOff /\ Homes /\ StarvedSeen /\ AutoStatus /\ WrongSeen

(* The steps of an alignment *)
LEMMA HealthSync ==
  ASSUME HealthInv, NEW w \in Workers, SyncStep(w)
  PROVE  HealthRest'
<1>0. work[w] \in Worker /\ work \in [Workers -> Worker]
  BY DEF HealthInv, HealthTypeOK
<1>1. CASE SelectNoKey(w)
  <2>1. work'[w].at \in Looking
    BY <1>0, <1>1 DEF SelectNoKey, Select, Looking, Worker
  <2> QED
    BY <1>1, <2>1, LookingSees, TablesSame
    DEF SelectNoKey, Select, Pools, HealthRest
<1>2. CASE disableNoKeyChannels(w)
  <2>1. work'[w].at \in Looking
    BY <1>0, <1>2 DEF disableNoKeyChannels, Looking, Worker
  <2>2. HeldOff' /\ Homes' /\ AutoStatus'
    BY <1>2 DEF disableNoKeyChannels, HealthInv, HealthTypeOK, HeldOff, Homes, AutoStatus, Pools, ChannelRow
  <2> QED
    BY <2>1, <2>2, LookingSees DEF HealthRest
<1>3. CASE SelectKeyed(w)
  <2> DEFINE found == {c \in Channels : Starved(c)}
  <2>1. /\ work[w].at = "keyed?"
        /\ work' = [work EXCEPT ![w].seen = found,
                                ![w].at = IF found = {} THEN "models" ELSE "keyed!"]
        /\ UNCHANGED <<chan, vendor, key, mod, held>>
    BY <1>3 DEF SelectKeyed, Select, Starved, Pools
  <2>2. work'[w].at \in Aligning
    BY <1>0, <2>1 DEF Worker, Aligning
  <2>3. \A c \in Channels : Starved(c)' => WillStart(w, c)'
    BY <1>0, <2>1, TablesSame DEF Worker, WillStart
  <2>4. StarvedSeen' /\ WrongSeen'
    BY <2>2, <2>3 DEF StarvedSeen, WrongSeen
  <2> QED
    BY <2>1, <2>4, TablesSame DEF HealthRest
<1>4. CASE recoverKeyedChannels(w)
  <2>1. /\ work[w].at = "keyed!"
        /\ chan' = [c \in Channels |-> IF Recoverable(w, c)
                     THEN [chan[c] EXCEPT !.st = "on", !.nokey = FALSE] ELSE chan[c]]
        /\ work' = [work EXCEPT ![w].at = "models", ![w].seen = {}]
        /\ UNCHANGED <<vendor, key, mod, held>>
    BY <1>4 DEF recoverKeyedChannels, Pools
  <2>2. HeldOff' /\ Homes' /\ AutoStatus'
    BY <2>1 DEF HealthInv, HealthTypeOK, HeldOff, Homes, AutoStatus, Recoverable, NoKeyOff, ChannelRow
  <2>3. WrongSeen'
    BY <1>0, <2>1 DEF WrongSeen, Aligning, Worker
  <2>4. ASSUME NEW c \in Channels, Starved(c)' PROVE \E u \in Workers : WillStart(u, c)'
    <3>1. ~Recoverable(w, c)
      BY <2>1, <2>4 DEF Starved, NoKeyOff, HealthInv, HealthTypeOK, ChannelRow
    <3>2. chan'[c] = chan[c]
      BY <2>1, <3>1
    <3>3. Starved(c)
      BY <2>1, <2>4, <3>2 DEF Starved, NoKeyOff, Usable, Pool
    <3>4. PICK u \in Workers : WillStart(u, c)
      BY <3>3 DEF HealthInv, StarvedSeen
    <3>5. u # w
      BY <2>1, <3>1, <3>3, <3>4 DEF WillStart, Looking, Recoverable, Starved
    <3> QED
      BY <1>0, <2>1, <3>4, <3>5 DEF WillStart
  <2> QED
    BY <2>2, <2>3, <2>4 DEF HealthRest, StarvedSeen
<1>5. CASE SyncModelRoutableStatus(w)
  <2>1. /\ work[w].at = "models"
        /\ mod' = [m \in Models |-> Aligned(m)]
        /\ \A u \in Workers \ {w} : work'[u] = work[u]
        /\ UNCHANGED <<chan, vendor, key, held>>
    BY <1>5 DEF SyncModelRoutableStatus, Pools
  <2>2. HeldOff' /\ Homes'
    BY <2>1 DEF HealthInv, HeldOff, Homes
  <2>3. \A c \in Channels : Usable(c)' = Usable(c)
    BY <2>1 DEF Usable, Pool
  <2>4. \A m \in Models : Live(m)' = Live(m)
    BY <2>1, <2>3 DEF Live
  <2>5. ASSUME NEW m \in Models
        PROVE  /\ ~Wrong(m)'
               /\ ~mod'[m].hand => mod'[m].st = "on" \/ (mod'[m].st = "off" /\ mod'[m].auto)
    <3>1. mod'[m] = Aligned(m)
      BY <2>1
    <3>2. /\ mod[m] \in ModelRow
          /\ ~mod[m].hand => mod[m].st = "on" \/ (mod[m].st = "off" /\ mod[m].auto)
      BY DEF HealthInv, HealthTypeOK, AutoStatus
    <3> QED
      BY <2>4, <3>1, <3>2 DEF Wrong, Aligned, ModelRow
  <2>6. AutoStatus' /\ WrongSeen'
    BY <2>5 DEF AutoStatus, WrongSeen
  <2>7. ASSUME NEW c \in Channels, Starved(c)' PROVE \E u \in Workers : WillStart(u, c)'
    <3>1. Starved(c)
      BY <2>1, <2>3, <2>7 DEF Starved, NoKeyOff
    <3>2. PICK u \in Workers : WillStart(u, c)
      BY <3>1 DEF HealthInv, StarvedSeen
    <3>3. u # w
      BY <2>1, <3>2 DEF WillStart, Looking
    <3> QED
      BY <2>1, <3>2, <3>3 DEF WillStart
  <2> QED
    BY <2>2, <2>6, <2>7 DEF HealthRest, StarvedSeen
<1> QED
  BY <1>1, <1>2, <1>3, <1>4, <1>5 DEF SyncStep

(* A goroutine that aligns nothing takes a step that leaves the tables *)
LEMMA OtherStep ==
  ASSUME HealthInv, NEW w \in Workers, work[w].at \notin Aligning,
         \A u \in Workers \ {w} : work'[u] = work[u],
         UNCHANGED <<chan, vendor, key, mod, held>>
  PROVE  HealthRest'
BY Steady, TablesSame DEF HealthRest

LEMMA OthersKept ==
  ASSUME HealthTypeOK, NEW w \in Workers
  PROVE  /\ \A x : work' = [work EXCEPT ![w] = x] =>
                     work'[w] = x /\ \A u \in Workers \ {w} : work'[u] = work[u]
         /\ work[w] \in Worker
BY DEF HealthTypeOK

LEMMA SyncLooks == Sync.at \in Looking
BY DEF Sync, Idle, Looking

(* The automatic stop *)
LEMMA HealthAutoDisable ==
  ASSUME HealthInv, NEW w \in Workers, NEW c \in Channels, AutoDisable(w, c),
         work[w].at \notin Aligning, UNCHANGED <<vendor, key, mod, held>>
  PROVE  HealthRest'
<1>0. HealthTypeOK
  BY DEF HealthInv
<1>1. CASE chan[c].st = "on"
  <2>1. work'[w].at \in Looking
    BY <1>0, <1>1, OthersKept, SyncLooks DEF AutoDisable
  <2>2. chan' = [chan EXCEPT ![c].st = "off", ![c].auto = TRUE]
    BY <1>1 DEF AutoDisable
  <2>3. HeldOff' /\ Homes' /\ AutoStatus'
    BY <1>0, <1>1, <2>2 DEF HealthInv, HealthTypeOK, HeldOff, Homes, AutoStatus, ChannelRow
  <2> QED
    BY <2>1, <2>3, LookingSees DEF HealthRest
<1>2. CASE chan[c].st # "on"
  BY <1>0, <1>2, OthersKept, OtherStep DEF AutoDisable
<1> QED
  BY <1>1, <1>2

LEMMA HealthProbe ==
  ASSUME HealthInv, NEW w \in Workers, Probe(w)
  PROVE  HealthRest'
<1>0. HealthTypeOK /\ work[w] \in Worker /\ work[w].ch \subseteq Channels
  BY DEF HealthInv, HealthTypeOK, Worker
<1>1. ASSUME NEW job \in {"test", "recover"}, NEW c \in Channels, ProbeChannel(w, job, c)
      PROVE  HealthRest'
  <2>1. work[w].at \notin Aligning
    BY <1>1 DEF ProbeChannel, Aligning, Looking
  <2>2. \A u \in Workers \ {w} : work'[u] = work[u]
    BY <1>0, <1>1 DEF ProbeChannel, HealthTypeOK
  <2> QED
    BY <1>1, <2>1, <2>2, OtherStep DEF ProbeChannel, Pools
<1>2. CASE ProbeRefused(w)
  <2>1. PICK k \in work[w].todo :
          /\ work' = [work EXCEPT ![w].at = "nokey?", ![w].todo = @ \ {k}, ![w].dead = TRUE]
          /\ UNCHANGED <<chan, mod, held, vendor>>
    BY <1>2 DEF ProbeRefused
  <2>2. work'[w].at \in Looking
    BY <1>0, <2>1 DEF HealthTypeOK, Worker, Looking
  <2>3. HeldOff' /\ Homes' /\ AutoStatus'
    BY <2>1 DEF HealthInv, HeldOff, Homes, AutoStatus
  <2> QED
    BY <2>2, <2>3, LookingSees DEF HealthRest
<1>3. CASE ProbeQuota(w)
  <2>1. /\ work[w].at = "probing" /\ work' = [work EXCEPT ![w] = Idle]
        /\ UNCHANGED <<chan, vendor, key, mod, held>>
    BY <1>3 DEF ProbeQuota, Pools
  <2>2. work[w].at \notin Aligning
    BY <2>1 DEF Aligning, Looking
  <2> QED
    BY <1>0, <2>1, <2>2, OthersKept, OtherStep
<1>4. CASE ProbeOk(w)
  <2> DEFINE back(c) == work[w].job = "recover" /\ AutoOff(c)
  <2>1. PICK c \in work[w].ch :
          /\ work[w].at = "probing"
          /\ chan' = IF back(c) THEN [chan EXCEPT ![c].st = "on", ![c].auto = FALSE] ELSE chan
          /\ work' = [work EXCEPT ![w] = IF back(c) THEN Sync ELSE Idle]
          /\ UNCHANGED <<mod, held, vendor, key>>
    BY <1>4 DEF ProbeOk, Pools
  <2>2. CASE back(c)
    <3>1. work'[w].at \in Looking
      BY <1>0, <2>1, <2>2, OthersKept, SyncLooks
    <3>2. HeldOff' /\ Homes' /\ AutoStatus'
      BY <1>0, <2>1, <2>2
      DEF HealthInv, HealthTypeOK, HeldOff, Homes, AutoStatus, AutoOff, ChannelRow
    <3> QED
      BY <3>1, <3>2, LookingSees DEF HealthRest
  <2>3. CASE ~back(c)
    <3>1. work[w].at \notin Aligning
      BY <2>1 DEF Aligning, Looking
    <3> QED
      BY <1>0, <2>1, <2>3, <3>1, OthersKept, OtherStep
  <2> QED
    BY <2>2, <2>3
<1>5. CASE ProbeFails(w)
  <2>1. PICK c \in work[w].ch :
          /\ work[w].at = "probing"
          /\ \/ AutoDisable(w, c)
             \/ work' = [work EXCEPT ![w] = Idle] /\ UNCHANGED chan
          /\ UNCHANGED <<mod, held, vendor, key>>
    BY <1>5 DEF ProbeFails, Pools
  <2>2. work[w].at \notin Aligning
    BY <2>1 DEF Aligning, Looking
  <2>3. CASE AutoDisable(w, c)
    BY <1>0, <2>1, <2>2, <2>3, HealthAutoDisable
  <2>4. CASE work' = [work EXCEPT ![w] = Idle] /\ UNCHANGED chan
    BY <1>0, <2>1, <2>2, <2>4, OthersKept, OtherStep
  <2> QED
    BY <2>1, <2>3, <2>4
<1> QED
  BY <1>1, <1>2, <1>3, <1>4, <1>5 DEF Probe

(* A step that ends in an alignment only has to keep the three facts that  *)
(* no goroutine makes good.                                                *)
LEMMA StartsLooking ==
  ASSUME HealthTypeOK, NEW w \in Workers, StartSync(w), HeldOff', Homes', AutoStatus'
  PROVE  HealthRest'
<1>1. work'[w].at \in Looking
  BY OthersKept, SyncLooks DEF StartSync
<1> QED
  BY <1>1, LookingSees DEF HealthRest

LEMMA PoolStep ==
  ASSUME HealthInv, NEW w \in Workers, NEW k \in Keys, NEW st \in Setting,
         \/ DisablePoolKey(w, k) \/ AddVendorKeys(w, k) \/ DeleteVendorKey(w, k)
         \/ UpdateVendorKeyStatus(w, k, st)
  PROVE  HealthRest'
<1>0. UNCHANGED <<chan, mod, held, vendor>>
  BY DEF DisablePoolKey, AddVendorKeys, DeleteVendorKey, UpdateVendorKeyStatus, SetKey
<1>1. HeldOff' /\ Homes' /\ AutoStatus'
  BY <1>0 DEF HealthInv, HeldOff, Homes, AutoStatus
<1>2. CASE DeleteVendorKey(w, k)
  <2>1. work'[w].at \in Looking
    BY <1>2 DEF DeleteVendorKey, HealthInv, HealthTypeOK, Looking, Idle
  <2> QED
    BY <1>1, <2>1, LookingSees DEF HealthRest
<1>3. CASE StartSync(w)
  BY <1>1, <1>3, StartsLooking DEF HealthInv
<1> QED
  BY <1>2, <1>3 DEF DisablePoolKey, AddVendorKeys, UpdateVendorKeyStatus

(* A row is saved: no channel is held unless its row was and stays off.  *)
LEMMA SaveStep ==
  ASSUME HealthInv, NEW w \in Workers, NEW c \in Channels, NEW row \in ChannelRow,
         NEW new \in SUBSET Keys, SaveChannel(w, c, row, new),
         held' \subseteq held,
         c \in held' => row.st = "off" /\ row.auto = chan[c].auto /\ row.nokey = chan[c].nokey
  PROVE  HealthRest'
<1>0. /\ chan' = [chan EXCEPT ![c] = row] /\ mod' = Registered(row.serves)
      /\ StartSync(w) /\ UNCHANGED vendor /\ vendor[row.home] # "absent"
  BY DEF SaveChannel
<1>1. HeldOff'
  BY <1>0 DEF HealthInv, HealthTypeOK, HeldOff
<1>2. Homes'
  BY <1>0 DEF HealthInv, HealthTypeOK, Homes
<1>3. AutoStatus'
  BY <1>0 DEF HealthInv, HealthTypeOK, AutoStatus, Registered, ModelRow
<1> QED
  BY <1>0, <1>1, <1>2, <1>3, StartsLooking DEF HealthInv

LEMMA HealthCall ==
  ASSUME HealthInv, NEW w \in Workers, Call(w)
  PROVE  HealthRest'
<1>0. HealthTypeOK /\ work[w] \in Worker
  BY DEF HealthInv, HealthTypeOK
<1>1. ASSUME NEW k \in Keys, DisablePoolKey(w, k) \/ AddVendorKeys(w, k) \/ DeleteVendorKey(w, k)
      PROVE  HealthRest'
  <2>1. "on" \in Setting
    BY DEF Setting
  <2> QED
    BY <1>1, <2>1, PoolStep
<1>2. ASSUME NEW k \in Keys, NEW st \in Setting, UpdateVendorKeyStatus(w, k, st)
      PROVE  HealthRest'
  BY <1>2, PoolStep
<1>3. CASE CountLeft(w)
  <2>1. work'[w].at \in Looking
    BY <1>0, <1>3, OthersKept, SyncLooks DEF CountLeft, HealthTypeOK, Worker, Looking
  <2> QED
    BY <1>3, <2>1, LookingSees, TablesSame DEF CountLeft, Pools, HealthRest
<1>4. CASE PurgeAbilities(w)
  <2>1. HeldOff' /\ Homes' /\ AutoStatus'
    BY <1>4
    DEF PurgeAbilities, HealthInv, HealthTypeOK, HeldOff, Homes, AutoStatus, Pools, ChannelRow
  <2> QED
    BY <1>0, <1>4, <2>1, StartsLooking DEF PurgeAbilities
<1>5. CASE DisableChannel(w)
  <2>1. PICK c \in work[w].ch :
          /\ work[w].at = "tripped" /\ AutoDisable(w, c)
          /\ UNCHANGED <<vendor, key, mod, held>>
    BY <1>5 DEF DisableChannel, Pools
  <2>2. c \in Channels /\ work[w].at \notin Aligning
    BY <1>0, <2>1 DEF Worker, Aligning, Looking
  <2> QED
    BY <2>1, <2>2, HealthAutoDisable
<1>6. ASSUME NEW v \in Vendors, NEW st \in Setting, UpdateVendor(w, v, st) PROVE HealthRest'
  <2>1. HeldOff' /\ Homes' /\ AutoStatus'
    BY <1>6 DEF UpdateVendor, HealthInv, HealthTypeOK, HeldOff, Homes, AutoStatus, Setting, ChannelRow
  <2> QED
    BY <1>0, <1>6, <2>1, StartsLooking DEF UpdateVendor
<1>7. ASSUME NEW c \in Channels, RelayFails(w, c) PROVE HealthRest'
  <2>1. /\ work[w].at = "idle"
        /\ UNCHANGED <<chan, vendor, key, mod, held>>
        /\ work' = work \/ work' = [work EXCEPT ![w].at = "tripped", ![w].ch = {c}]
    BY <1>7 DEF RelayFails, CanCall, Pools
  <2>2. \A u \in Workers \ {w} : work'[u] = work[u]
    BY <1>0, <2>1 DEF HealthTypeOK
  <2>3. work[w].at \notin Aligning
    BY <2>1 DEF Aligning, Looking
  <2> QED
    BY <2>1, <2>2, <2>3, OtherStep
<1>8. ASSUME NEW c \in Channels, DeleteChannel(w, c) PROVE HealthRest'
  <2>1. HeldOff' /\ Homes' /\ AutoStatus'
    BY <1>8, NoChannelType
    DEF DeleteChannel, HealthInv, HealthTypeOK, HeldOff, Homes, AutoStatus, Pools, NoChannel
  <2> QED
    BY <1>0, <1>8, <2>1, StartsLooking DEF DeleteChannel
<1>9. ASSUME NEW c \in Channels, NEW st \in Setting, UpdateChannelStatus(w, c, st)
      PROVE  HealthRest'
  <2>1. HeldOff' /\ Homes' /\ AutoStatus'
    BY <1>9 DEF UpdateChannelStatus, Switched, HealthInv, HealthTypeOK, HeldOff, Homes,
                AutoStatus, Pools, ChannelRow, Setting
  <2> QED
    BY <1>0, <1>9, <2>1, StartsLooking DEF UpdateChannelStatus
<1>10. ASSUME NEW c \in Channels, NEW v \in Vendors, CheckKeys(w, c, v) PROVE HealthRest'
  <2>1. /\ work[w].at = "idle" /\ \A u \in Workers \ {w} : work'[u] = work[u]
        /\ UNCHANGED <<chan, vendor, key, mod, held>>
    BY <1>0, <1>10 DEF CheckKeys, CanCall, Pools, HealthTypeOK
  <2>2. work[w].at \notin Aligning
    BY <2>1 DEF Aligning, Looking
  <2> QED
    BY <2>1, <2>2, OtherStep
<1>11. ASSUME NEW c \in Channels, NEW v \in Vendors, NEW st \in Setting,
              NEW ms \in SUBSET Models, NEW new \in SUBSET Keys,
              CreateChannel(w, c, v, st, ms, new)
       PROVE  HealthRest'
  <2> DEFINE row == [NoChannel EXCEPT !.st = st, !.home = v, !.serves = ms]
  <2>1. row \in ChannelRow
    BY NoChannelType DEF ChannelRow, Setting, Status
  <2>2. chan[c].st = "absent" /\ SaveChannel(w, c, row, new) /\ held' = held
    BY <1>11 DEF CreateChannel
  <2>3. c \notin held'
    BY <2>2 DEF HealthInv, HeldOff
  <2> HIDE DEF row
  <2> QED
    BY <2>1, <2>2, <2>3, SaveStep
<1>12. ASSUME NEW c \in Channels, NEW v \in Vendors, NEW st \in Setting,
              NEW ms \in SUBSET Models, NEW new \in SUBSET Keys,
              UpdateChannel(w, c, v, st, ms, new)
       PROVE  HealthRest'
  <2> DEFINE row == [chan[c] EXCEPT !.st = st, !.home = v, !.serves = ms]
  <2>1. /\ row \in ChannelRow /\ row.st = st
        /\ row.auto = chan[c].auto /\ row.nokey = chan[c].nokey
    BY <1>0 DEF HealthTypeOK, ChannelRow, Setting, Status
  <2>2. /\ SaveChannel(w, c, row, new)
        /\ held' = IF st = chan[c].st THEN held ELSE held \ {c}
    BY <1>12 DEF UpdateChannel
  <2> HIDE DEF row
  <2>3. c \in held' => row.st = "off"
    BY <2>1, <2>2 DEF HealthInv, HeldOff
  <2> QED
    BY <2>1, <2>2, <2>3, SaveStep
<1> QED
  BY <1>1, <1>2, <1>3, <1>4, <1>5, <1>6, <1>7, <1>8, <1>9, <1>10, <1>11, <1>12 DEF Call

LEMMA HealthInvInit == HealthInit => HealthInv
<1> SUFFICES ASSUME HealthInit PROVE HealthInv
  OBVIOUS
<1>1. HealthTypeOK
  BY HealthTypeInit
<1>2. HeldOff /\ Homes
  BY DEF HealthInit, HeldOff, Homes, NoChannel
<1>3. StarvedSeen
  BY DEF HealthInit, StarvedSeen, Starved, NoKeyOff, NoChannel
<1>4. AutoStatus /\ WrongSeen
  BY DEF HealthInit, AutoStatus, WrongSeen, Wrong
<1> QED
  BY <1>1, <1>2, <1>3, <1>4 DEF HealthInv

(* Vendors, models and the environment: no goroutine moves.  *)
LEMMA HealthCatalogue ==
  ASSUME HealthInv, UNCHANGED <<held, work>>,
         HeldOff', Homes', AutoStatus',
         \A c \in Channels : Starved(c)' => Starved(c),
         \A m \in Models : Wrong(m)' => Wrong(m)
  PROVE  HealthRest'
BY Steady DEF HealthRest

LEMMA VendorStep ==
  ASSUME HealthInv, NEW v \in Vendors, NEW st \in Setting,
         DeleteVendor(v) \/ CreateVendor(v, st)
  PROVE  HealthRest'
<1>0. /\ UNCHANGED <<chan, mod, held, key, work>>
      /\ \A u \in Vendors \ {v} : vendor'[u] = vendor[u]
  BY DEF DeleteVendor, CreateVendor, HealthInv, HealthTypeOK
<1>1. \A c \in Channels : chan[c].st # "absent" => chan[c].home # v
  BY DEF DeleteVendor, CreateVendor, HealthInv, Homes
<1>2. \A c \in Channels : chan[c].home \in Vendors
  BY DEF HealthInv, HealthTypeOK, ChannelRow
<1>3. \A c \in Channels : chan[c].st # "absent" =>
        vendor'[chan[c].home] = vendor[chan[c].home] /\ Usable(c)' = Usable(c)
  BY <1>0, <1>1, <1>2 DEF Usable, Pool
<1>4. HeldOff' /\ AutoStatus'
  BY <1>0 DEF HealthInv, HeldOff, AutoStatus
<1>5. Homes'
  BY <1>0, <1>3 DEF HealthInv, Homes
<1>6. \A c \in Channels : Starved(c)' => Starved(c)
  BY <1>0, <1>3 DEF Starved, NoKeyOff
<1>7. \A m \in Models : Live(m)' = Live(m)
  BY <1>0, <1>3 DEF Live
<1>8. \A m \in Models : Wrong(m)' => Wrong(m)
  BY <1>0, <1>7 DEF Wrong
<1> QED
  BY <1>0, <1>4, <1>5, <1>6, <1>8, HealthCatalogue

LEMMA ModelStep ==
  ASSUME HealthInv, NEW m \in Models, NEW st \in Setting,
         DeleteModel(m) \/ CreateModel(m, st) \/ UpdateModel(m, st)
  PROVE  HealthRest'
<1>0. /\ UNCHANGED <<held, work, vendor, key>>
      /\ mod'[m].hand
      /\ \A n \in Models \ {m} : mod'[n] = mod[n]
  BY DEF DeleteModel, CreateModel, UpdateModel, Catalogue, Pools, HealthInv, HealthTypeOK, ModelRow
<1>1. \A c \in Channels :
        /\ chan'[c].st = chan[c].st /\ chan'[c].auto = chan[c].auto
        /\ chan'[c].nokey = chan[c].nokey /\ chan'[c].home = chan[c].home
        /\ chan'[c].serves \ {m} = chan[c].serves \ {m}
  BY DEF DeleteModel, CreateModel, UpdateModel, HealthInv, HealthTypeOK, ChannelRow
<1>2. \A c \in Channels : Usable(c)' = Usable(c)
  BY <1>0, <1>1 DEF Usable, Pool
<1>3. HeldOff' /\ Homes'
  BY <1>0, <1>1 DEF HealthInv, HealthTypeOK, HeldOff, Homes
<1>4. AutoStatus'
  BY <1>0 DEF HealthInv, AutoStatus
<1>5. \A c \in Channels : Starved(c)' => Starved(c)
  BY <1>1, <1>2 DEF Starved, NoKeyOff
<1>6. \A n \in Models \ {m} : Live(n)' = Live(n)
  BY <1>1, <1>2 DEF Live
<1>7. \A n \in Models : Wrong(n)' => Wrong(n)
  BY <1>0, <1>6 DEF Wrong
<1> QED
  BY <1>0, <1>3, <1>4, <1>5, <1>7, HealthCatalogue

LEMMA HealthInvStep == HealthInv /\ [HealthNext]_hvars => HealthInv'
<1> SUFFICES ASSUME HealthInv, [HealthNext]_hvars PROVE HealthInv'
  OBVIOUS
<1>0. HealthTypeOK'
  BY HealthTypeStep DEF HealthInv
<1>1. CASE UNCHANGED hvars
  BY <1>1, TablesSame, HealthCatalogue DEF hvars, HealthRest, HealthInv, HealthTypeOK
<1>2. ASSUME NEW w \in Workers, SyncStep(w) \/ Call(w) \/ Probe(w) PROVE HealthRest'
  BY <1>2, HealthSync, HealthCall, HealthProbe
<1>3. ASSUME NEW w \in Workers, Restart(w) PROVE HealthRest'
  <2>1. work'[w].at \in Looking
    BY <1>3, SyncLooks DEF Restart
  <2> QED
    BY <1>3, <2>1, LookingSees, TablesSame DEF Restart, Pools, HealthRest
<1>4. ASSUME NEW v \in Vendors, DeleteVendor(v) PROVE HealthRest'
  BY <1>4, VendorStep DEF Setting
<1>5. ASSUME NEW v \in Vendors, NEW st \in Setting, CreateVendor(v, st) PROVE HealthRest'
  BY <1>5, VendorStep
<1>6. ASSUME NEW m \in Models, DeleteModel(m) PROVE HealthRest'
  BY <1>6, ModelStep DEF Setting
<1>7. ASSUME NEW m \in Models, NEW st \in Setting, CreateModel(m, st) \/ UpdateModel(m, st)
      PROVE  HealthRest'
  BY <1>7, ModelStep
<1>8. ASSUME NEW c \in Channels, RelayOk(c) \/ UpstreamTurns(c) PROVE HealthRest'
  BY <1>8, TablesSame, HealthCatalogue DEF RelayOk, UpstreamTurns, Pools
<1>9. ASSUME Crash PROVE HealthRest'
  <2>1. PICK w \in Workers : work'[w].at \in Looking
    BY <1>9 DEF Crash, Idle, Looking
  <2> QED
    <3>1. UNCHANGED <<chan, vendor, key, mod, held>>
      BY <1>9 DEF Crash, Pools
    <3>2. StarvedSeen' /\ WrongSeen'
      BY <2>1, LookingSees
    <3> QED
      BY <3>1, <3>2, TablesSame DEF HealthRest
<1> QED
  BY <1>0, <1>1, <1>2, <1>3, <1>4, <1>5, <1>6, <1>7, <1>8, <1>9 DEF HealthNext, HealthInv, HealthRest

LEMMA HealthInvariant == HealthSpec => []HealthInv
BY HealthInvInit, HealthInvStep, PTL DEF HealthSpec

(* No write of a breaker, a probe, a test or an alignment that was under   *)
(* way switches on what an administrator has switched off: a held channel  *)
(* carries no marker, and all of them look for one (breaker.go:46).        *)
THEOREM AdminSwitchHolds == HealthSpec => []SwitchedOffStays
<1>1. HealthInv => SwitchedOffStays
  BY DEF HealthInv, HeldOff, SwitchedOffStays
<1> QED
  BY <1>1, HealthInvariant, PTL

(* A channel stopped for want of a key that has one again is started by an *)
(* alignment that is under way (modelroute.go:180).                        *)
THEOREM NoneStarved == HealthSpec => []QuietChannels
<1>1. HealthInv => QuietChannels
  BY DEF HealthInv, StarvedSeen, Starved, WillStart, Looking, QuietChannels, Quiet
<1> QED
  BY <1>1, HealthInvariant, PTL

(* A model whose status does not say whether anything serves it was set by *)
(* an administrator last, or will be aligned (modelroute.go:134).          *)
THEOREM ModelsTellTruth == HealthSpec => []QuietModels
<1>1. HealthInv => QuietModels
  BY DEF HealthInv, WrongSeen, Wrong, Aligning, Looking, QuietModels, Quiet
<1> QED
  BY <1>1, HealthInvariant, PTL
=============================================================================
