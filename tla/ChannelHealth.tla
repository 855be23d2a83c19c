--------------------------- MODULE ChannelHealth ---------------------------
(***************************************************************************)
(* What switches channels and models on and off.  Four writers share the   *)
(* status column of a channel: the circuit breaker, the periodic test and  *)
(* the prober (marker auto_disabled_at), the alignment with the key pool   *)
(* (marker nokey_disabled_at), and administrators (no marker).  A model's   *)
(* status follows the channels that serve it.                              *)
(*                                                                         *)
(* Every write that may change what is usable is followed, in the same     *)
(* goroutine, by SyncModelsAndNotify: select, update, select, update, and  *)
(* a transaction over the models.  Between any two of these the other      *)
(* goroutines run; a goroutine is a `worker' below.  Transactions are      *)
(* SQLite's: there is one connection, so they are atomic.                  *)
(***************************************************************************)
EXTENDS Naturals, FiniteSets

CONSTANTS
  Channels, Vendors, Keys, Models,
  PoolOf,        \* vendor_keys.vendor_id
  Workers,       \* goroutines, and what each of them is for
  JobsOf,        \* a set of "call", "test", "recover" for each worker
  Retirable,     \* inputs: vendors, channels, models that may be deleted
  Threshold,     \* failed requests in a row that open the circuit
  TestThreshold  \* failed tests in a row that stop a channel

ASSUME HealthConstants ==
  /\ Threshold \in Nat \ {0} /\ TestThreshold \in Nat \ {0}
  /\ Vendors # {}
  /\ PoolOf \in [Keys -> Vendors]
  /\ JobsOf \in [Workers -> SUBSET {"call", "test", "recover"}]

VARIABLES
  chan,      \* the channels table with channel_abilities
  vendor,    \* vendors.status
  key,       \* vendor_keys.status
  mod,       \* the models table; hand: an admin wrote the status last
  fails,     \* Breaker.fails
  tests,     \* the failures map of ChannelTestLoop
  work,      \* where each worker is
  held,      \* channels switched off by an admin and not set since
  well       \* environment: the channels whose endpoint answers every key

hvars == <<chan, vendor, key, mod, fails, tests, work, held, well>>

Status == {"absent", "off", "on"}
Setting == {"off", "on"}
Steps == {"idle", "checked", "tripped", "probing", "left?", "purge!", "down",
          "nokey?", "nokey!", "keyed?", "keyed!", "models"}

Worker == [at : Steps, job : {"none", "test", "recover"},
           ch : SUBSET Channels,     \* the channel it works on, if any
           seen : SUBSET Channels,   \* what its last SELECT returned
           todo : SUBSET Keys,       \* keys found, left to probe, or deleted
           dead : BOOLEAN]           \* this probe has met a refused key

Idle == [at |-> "idle", job |-> "none", ch |-> {}, seen |-> {}, todo |-> {}, dead |-> FALSE]

ChannelRow == [st : Status, auto : BOOLEAN, nokey : BOOLEAN,
               home : Vendors, serves : SUBSET Models]
ModelRow == [st : Status, auto : BOOLEAN, hand : BOOLEAN]

NoChannel == [st |-> "absent", auto |-> FALSE, nokey |-> FALSE,
              home |-> CHOOSE v \in Vendors : TRUE, serves |-> {}]

Pool(v) == {k \in Keys : PoolOf[k] = v /\ key[k] = "on"}

(* channelHasUsableKey *)
Usable(c) == vendor[chan[c].home] = "on" /\ Pool(chan[c].home) # {}

(* ModelHasLiveUpstream *)
Live(m) == \E c \in Channels : chan[c].st = "on" /\ m \in chan[c].serves /\ Usable(c)

HealthInit ==
  /\ chan = [c \in Channels |-> NoChannel]
  /\ vendor = [v \in Vendors |-> "on"]
  /\ key = [k \in Keys |-> "absent"]
  /\ mod = [m \in Models |-> [st |-> "absent", auto |-> FALSE, hand |-> TRUE]]
  /\ fails = [c \in Channels |-> 0] /\ tests = [c \in Channels |-> 0]
  /\ work = [w \in Workers |-> Idle]
  /\ held = {}
  /\ well = Channels

-----------------------------------------------------------------------------
(* SyncModelsAndNotify.  A probe that called it goes on after it.          *)

Counters == UNCHANGED <<fails, tests, well>>
Pools == UNCHANGED <<vendor, key>>

Select(w, from, found, some, none) ==
  /\ work[w].at = from
  /\ work' = [work EXCEPT ![w].seen = found,
                          ![w].at = IF found = {} THEN none ELSE some]
  /\ UNCHANGED <<chan, mod, held>> /\ Pools /\ Counters

SelectNoKey(w) ==
  Select(w, "nokey?", {c \in Channels : chan[c].st = "on" /\ ~Usable(c)},
         "nokey!", "keyed?")

(* WHERE id IN selected AND status = 1 *)
disableNoKeyChannels(w) ==
  /\ work[w].at = "nokey!"
  /\ chan' = [c \in Channels |->
                IF c \in work[w].seen /\ chan[c].st = "on"
                THEN [chan[c] EXCEPT !.st = "off", !.nokey = TRUE] ELSE chan[c]]
  /\ work' = [work EXCEPT ![w].at = "keyed?", ![w].seen = {}]
  /\ UNCHANGED <<mod, held>> /\ Pools /\ Counters

NoKeyOff(c) == chan[c].st = "off" /\ chan[c].nokey
AutoOff(c) == chan[c].st = "off" /\ chan[c].auto

SelectKeyed(w) ==
  Select(w, "keyed?", {c \in Channels : NoKeyOff(c) /\ Usable(c)}, "keyed!", "models")

(* WHERE id IN selected AND status = 0 AND nokey_disabled_at > 0 *)
Recoverable(w, c) == c \in work[w].seen /\ NoKeyOff(c)

recoverKeyedChannels(w) ==
  /\ work[w].at = "keyed!"
  /\ chan' = [c \in Channels |->
                IF Recoverable(w, c)
                THEN [chan[c] EXCEPT !.st = "on", !.nokey = FALSE] ELSE chan[c]]
  /\ work' = [work EXCEPT ![w].at = "models", ![w].seen = {}]
  /\ UNCHANGED <<mod, held>> /\ Pools /\ Counters

Aligned(m) ==
  IF mod[m].st = "on" /\ ~Live(m)
  THEN [st |-> "off", auto |-> TRUE, hand |-> FALSE]
  ELSE IF mod[m].st = "off" /\ mod[m].auto /\ Live(m)
  THEN [st |-> "on", auto |-> FALSE, hand |-> FALSE]
  ELSE mod[m]

SyncModelRoutableStatus(w) ==
  /\ work[w].at = "models"
  /\ mod' = [m \in Models |-> Aligned(m)]
  /\ work' = [work EXCEPT ![w] = IF work[w].job = "none" THEN Idle
                                 ELSE [@ EXCEPT !.at = "probing"]]
  /\ UNCHANGED <<chan, held>> /\ Pools /\ Counters

SyncStep(w) ==
  \/ SelectNoKey(w) \/ disableNoKeyChannels(w)
  \/ SelectKeyed(w) \/ recoverKeyedChannels(w)
  \/ SyncModelRoutableStatus(w)

Sync == [Idle EXCEPT !.at = "nokey?"]
StartSync(w) == work' = [work EXCEPT ![w] = Sync]

CanCall(w) == work[w].at = "idle" /\ "call" \in JobsOf[w]

-----------------------------------------------------------------------------
(* The circuit breaker, fed by relayed requests.  A request may end long   *)
(* after its channel was switched off.                                     *)

RelayOk(c) ==
  /\ chan[c].st # "absent" /\ c \in well
  /\ fails' = [fails EXCEPT ![c] = 0]
  /\ UNCHANGED <<chan, mod, held, tests, well, work>> /\ Pools

(* Counts are only compared with the threshold *)
Capped(n, limit) == IF n > limit THEN limit ELSE n

(* RecordFailure; at the threshold `go DisableChannel' *)
RelayFails(w, c) ==
  /\ chan[c].st # "absent" /\ c \notin well
  /\ CanCall(w)
  /\ LET n == Capped(fails[c] + 1, Threshold)
     IN  /\ fails' = [fails EXCEPT ![c] = n]
         /\ work' = IF n < Threshold THEN work
                    ELSE [work EXCEPT ![w].at = "tripped", ![w].ch = {c}]
  /\ UNCHANGED <<chan, mod, held, tests, well>> /\ Pools

(* Mutation of AutoDisable: the models are not aligned afterwards. *)
MutAutoDisable(w, c) ==
  /\ chan' = IF chan[c].st = "on"
             THEN [chan EXCEPT ![c].st = "off", ![c].auto = TRUE] ELSE chan
  /\ work' = [work EXCEPT ![w] = Idle]

(* WHERE id = ? AND status = 1; alignment only if a row was changed *)
AutoDisable(w, c) ==
  /\ chan' = IF chan[c].st = "on"
             THEN [chan EXCEPT ![c].st = "off", ![c].auto = TRUE] ELSE chan
  /\ work' = [work EXCEPT ![w] = IF chan[c].st = "on" THEN Sync ELSE Idle]

DisableChannel(w) ==
  \E c \in work[w].ch :
    /\ work[w].at = "tripped"
    /\ AutoDisable(w, c)
    /\ UNCHANGED <<mod, held>> /\ Pools /\ Counters

(* A relayed request or a manual test meets a refused key *)
DisablePoolKey(w, k) ==
  /\ CanCall(w)
  /\ \E c \in Channels : chan[c].home = PoolOf[k] /\ c \notin well
  /\ key' = IF key[k] = "on" THEN [key EXCEPT ![k] = "off"] ELSE key
  /\ StartSync(w)
  /\ UNCHANGED <<chan, mod, held, vendor>> /\ Counters

-----------------------------------------------------------------------------
(* ChannelTestLoop and AutoProbeLoop: one channel of the list at a time.   *)

(* Mutation of Listed: the prober takes any channel the system stopped for  *)
(* want of a key instead.                                                  *)
MutListed(job, c) == IF job = "test" THEN chan[c].st = "on" ELSE NoKeyOff(c)

Listed(job, c) == IF job = "test" THEN chan[c].st = "on" ELSE AutoOff(c)

(* Which keys a probe tries: the enabled ones that do not cool, or the     *)
(* first; none if the channel has no model.  A key cools for as long as    *)
(* the vendor limits it.                                                   *)
Tried(c) ==
  LET pool == Pool(chan[c].home)
  IN  IF chan[c].serves = {} \/ pool = {} THEN {{}}
      ELSE IF c \in well THEN {pool} ELSE SUBSET pool \ {{}}

ProbeChannel(w, job, c) ==
  /\ work[w].at = "idle" /\ job \in JobsOf[w]
  /\ Listed(job, c)
  /\ \E ks \in Tried(c) :
       work' = [work EXCEPT ![w] = [Idle EXCEPT !.at = "probing", !.job = job,
                                                !.ch = {c}, !.todo = ks]]
  /\ UNCHANGED <<chan, mod, held>> /\ Pools /\ Counters

(* 401, 402, 403: the key is disabled, alignment runs, the next key is tried *)
ProbeRefused(w) == \E c \in work[w].ch, k \in work[w].todo :
  /\ work[w].at = "probing" /\ c \notin well
  /\ key' = IF key[k] = "on" THEN [key EXCEPT ![k] = "off"] ELSE key
  /\ work' = [work EXCEPT ![w].at = "nokey?", ![w].todo = @ \ {k}, ![w].dead = TRUE]
  /\ UNCHANGED <<chan, mod, held, vendor>> /\ Counters

(* Every key is out of quota: no fault of the channel *)
ProbeQuota(w) == \E c \in work[w].ch :
  /\ work[w].at = "probing" /\ c \notin well
  /\ ~work[w].dead /\ work[w].todo # {}
  /\ work' = [work EXCEPT ![w] = Idle]
  /\ UNCHANGED <<chan, mod, held>> /\ Pools /\ Counters

(* The prober's update looks at the marker again *)
ProbeOk(w) == \E c \in work[w].ch :
  /\ work[w].at = "probing" /\ c \in well
  /\ work[w].todo # {}
  /\ LET back == work[w].job = "recover" /\ AutoOff(c)
     IN  /\ chan' = IF back THEN [chan EXCEPT ![c].st = "on", ![c].auto = FALSE]
                    ELSE chan
         /\ fails' = IF back THEN [fails EXCEPT ![c] = 0] ELSE fails
         /\ tests' = IF work[w].job = "test" THEN [tests EXCEPT ![c] = 0] ELSE tests
         /\ work' = [work EXCEPT ![w] = IF back THEN Sync ELSE Idle]
  /\ UNCHANGED <<mod, held, well>> /\ Pools

(* The endpoint does not answer, no key is left, or some were refused and  *)
(* the rest is out of quota.                                               *)
(* A failed test counts, and disables the channel at the threshold; the    *)
(* count is kept if there was nothing left to disable.                     *)
ProbeFails(w) == \E c \in work[w].ch :
  /\ work[w].at = "probing" /\ (c \notin well \/ work[w].todo = {})
  /\ LET n == Capped(tests[c] + 1, TestThreshold)
     IN  IF work[w].job = "test" /\ n = TestThreshold
         THEN /\ tests' = [tests EXCEPT ![c] = IF chan[c].st = "on" THEN 0 ELSE n]
              /\ AutoDisable(w, c)
         ELSE /\ tests' = IF work[w].job = "test" THEN [tests EXCEPT ![c] = n] ELSE tests
              /\ work' = [work EXCEPT ![w] = Idle] /\ UNCHANGED chan
  /\ UNCHANGED <<mod, held, fails, well>> /\ Pools

-----------------------------------------------------------------------------
(* The key pool.                                                           *)

SetKey(w, k, from, to) ==
  /\ CanCall(w) /\ key[k] \in from /\ vendor[PoolOf[k]] # "absent"
  /\ key' = [key EXCEPT ![k] = to]
  /\ UNCHANGED <<chan, mod, held, vendor>> /\ Counters

(* Mutation of AddVendorKeys: nothing is aligned. *)
MutAddVendorKeys(w, k) == SetKey(w, k, {"absent"}, "on") /\ UNCHANGED work

AddVendorKeys(w, k) == SetKey(w, k, {"absent"}, "on") /\ StartSync(w)

UpdateVendorKeyStatus(w, k, st) == SetKey(w, k, Setting, st) /\ StartSync(w)

DeleteVendorKey(w, k) ==
  /\ SetKey(w, k, Setting, "absent")
  /\ work' = [work EXCEPT ![w] = [Idle EXCEPT !.at = "left?", !.todo = {k}]]

(* The channels of a pool that was deleted to the last key lose their models *)
CountLeft(w) == \E k \in work[w].todo :
  /\ work[w].at = "left?"
  /\ work' = [work EXCEPT ![w] =
                IF \E j \in Keys : PoolOf[j] = PoolOf[k] /\ key[j] # "absent"
                THEN Sync ELSE [@ EXCEPT !.at = "purge!"]]
  /\ UNCHANGED <<chan, mod, held>> /\ Pools /\ Counters

PurgeAbilities(w) == \E k \in work[w].todo :
  /\ work[w].at = "purge!"
  /\ chan' = [c \in Channels |-> IF chan[c].home = PoolOf[k]
                                 THEN [chan[c] EXCEPT !.serves = {}] ELSE chan[c]]
  /\ StartSync(w)
  /\ UNCHANGED <<mod, held>> /\ Pools /\ Counters

(* Counted references and the delete are taken as one step *)
CreateVendor(v, st) ==
  /\ vendor[v] = "absent"
  /\ vendor' = [vendor EXCEPT ![v] = st]
  /\ UNCHANGED <<chan, mod, held, key, work>> /\ Counters

UpdateVendor(w, v, st) ==
  /\ CanCall(w) /\ vendor[v] # "absent"
  /\ vendor' = [vendor EXCEPT ![v] = st]
  /\ StartSync(w)
  /\ UNCHANGED <<chan, mod, held, key>> /\ Counters

DeleteVendor(v) ==
  /\ v \in Retirable /\ vendor[v] # "absent"
  /\ \A c \in Channels : chan[c].st = "absent" \/ chan[c].home # v
  /\ \A k \in Keys : key[k] = "absent" \/ PoolOf[k] # v
  /\ vendor' = [vendor EXCEPT ![v] = "absent"]
  /\ UNCHANGED <<chan, mod, held, key, work>> /\ Counters

-----------------------------------------------------------------------------
(* Channels.  An active key is looked for before the write.                *)

CheckKeys(w, c, v) ==
  /\ CanCall(w)
  /\ Pool(v) # {}
  /\ work' = [work EXCEPT ![w] = [Idle EXCEPT !.at = "checked", !.ch = {c},
                                             !.todo = Pool(v)]]
  /\ UNCHANGED <<chan, mod, held>> /\ Pools /\ Counters

Registered(ms) == [m \in Models |->
  IF m \in ms /\ mod[m].st = "absent"
  THEN [st |-> "on", auto |-> FALSE, hand |-> TRUE] ELSE mod[m]]

(* Create and update: row, keys, abilities and missing models in one       *)
(* transaction.  The form's new keys make the check unnecessary.           *)
SaveChannel(w, c, row, new) ==
  /\ IF new # {} THEN CanCall(w)
     ELSE /\ work[w].at = "checked" /\ c \in work[w].ch
          /\ \E k \in work[w].todo : PoolOf[k] = row.home
  /\ \A k \in new : key[k] = "absent" /\ PoolOf[k] = row.home
  /\ vendor[row.home] # "absent" /\ row.serves # {}
  /\ chan' = [chan EXCEPT ![c] = row]
  /\ key' = [k \in Keys |-> IF k \in new THEN "on" ELSE key[k]]
  /\ mod' = Registered(row.serves)
  /\ StartSync(w)
  /\ UNCHANGED vendor /\ Counters

CreateChannel(w, c, v, st, ms, new) ==
  /\ chan[c].st = "absent"
  /\ SaveChannel(w, c, [NoChannel EXCEPT !.st = st, !.home = v, !.serves = ms], new)
  /\ UNCHANGED held

(* Neither marker is touched, though the form carries a status.  So `off'   *)
(* in the form is not the switch: it does not add to `held'.               *)
UpdateChannel(w, c, v, st, ms, new) ==
  /\ chan[c].st # "absent"
  /\ SaveChannel(w, c, [chan[c] EXCEPT !.st = st, !.home = v, !.serves = ms], new)
  /\ held' = IF st = chan[c].st THEN held ELSE held \ {c}

(* Mutation of Switched: the marker of the key pool stays. *)
MutSwitched(c, st) == [chan EXCEPT ![c].st = st, ![c].auto = FALSE]

Switched(c, st) == [chan EXCEPT ![c].st = st, ![c].auto = FALSE, ![c].nokey = FALSE]

(* Only enabling needs an active key, and clears the breaker's count *)
UpdateChannelStatus(w, c, st) ==
  /\ IF st = "on" THEN work[w].at = "checked" /\ c \in work[w].ch ELSE CanCall(w)
  /\ chan[c].st # "absent"
  /\ chan' = Switched(c, st)
  /\ fails' = IF st = "on" THEN [fails EXCEPT ![c] = 0] ELSE fails
  /\ held' = IF st = "on" THEN held \ {c} ELSE held \cup {c}
  /\ StartSync(w)
  /\ UNCHANGED <<mod, tests, well>> /\ Pools

DeleteChannel(w, c) ==
  /\ CanCall(w) /\ c \in Retirable /\ chan[c].st # "absent"
  /\ chan' = [chan EXCEPT ![c] = NoChannel]
  /\ held' = held \ {c}
  /\ StartSync(w)
  /\ UNCHANGED mod /\ Pools /\ Counters

-----------------------------------------------------------------------------
(* Models.  None of these aligns anything.                                 *)

Catalogue == UNCHANGED <<held, work>> /\ Pools /\ Counters

CreateModel(m, st) ==
  /\ mod[m].st = "absent"
  /\ mod' = [mod EXCEPT ![m] = [st |-> st, auto |-> FALSE, hand |-> TRUE]]
  /\ UNCHANGED chan /\ Catalogue

(* The marker of an automatic stop is not cleared *)
UpdateModel(m, st) ==
  /\ mod[m].st # "absent"
  /\ mod' = [mod EXCEPT ![m].st = st, ![m].hand = TRUE]
  /\ UNCHANGED chan /\ Catalogue

DeleteModel(m) ==
  /\ m \in Retirable /\ mod[m].st # "absent"
  /\ mod' = [mod EXCEPT ![m] = [st |-> "absent", auto |-> FALSE, hand |-> TRUE]]
  /\ chan' = [c \in Channels |-> [chan[c] EXCEPT !.serves = @ \ {m}]]
  /\ Catalogue

-----------------------------------------------------------------------------
(* The environment, and the process.                                       *)

UpstreamTurns(c) ==
  /\ well' = IF c \in well THEN well \ {c} ELSE well \cup {c}
  /\ UNCHANGED <<chan, mod, held, fails, tests, work>> /\ Pools

(* All goroutines die; a restart aligns before it serves *)
Crash ==
  /\ \E w \in Workers : work[w].at # "idle"
  /\ \A w \in Workers : work[w].at # "down"
  /\ work' = [w \in Workers |-> [Idle EXCEPT !.at = "down"]]
  /\ fails' = [c \in Channels |-> 0] /\ tests' = [c \in Channels |-> 0]
  /\ UNCHANGED <<chan, mod, held, well>> /\ Pools

Restart(w) ==
  /\ \A u \in Workers : work[u].at = "down"
  /\ work' = [u \in Workers |-> IF u = w THEN Sync ELSE Idle]
  /\ UNCHANGED <<chan, mod, held>> /\ Pools /\ Counters

Call(w) ==
  \/ \E k \in Keys : \/ DisablePoolKey(w, k) \/ AddVendorKeys(w, k) \/ DeleteVendorKey(w, k)
                     \/ \E st \in Setting : UpdateVendorKeyStatus(w, k, st)
  \/ CountLeft(w) \/ PurgeAbilities(w) \/ DisableChannel(w)
  \/ \E v \in Vendors, st \in Setting : UpdateVendor(w, v, st)
  \/ \E c \in Channels :
       \/ RelayFails(w, c) \/ DeleteChannel(w, c)
       \/ \E st \in Setting : UpdateChannelStatus(w, c, st)
       \/ \E v \in Vendors :
            \/ CheckKeys(w, c, v)
            \/ \E st \in Setting, ms \in SUBSET Models, new \in SUBSET Keys :
                 CreateChannel(w, c, v, st, ms, new) \/ UpdateChannel(w, c, v, st, ms, new)

Probe(w) ==
  \/ \E job \in {"test", "recover"}, c \in Channels : ProbeChannel(w, job, c)
  \/ ProbeRefused(w) \/ ProbeQuota(w) \/ ProbeOk(w) \/ ProbeFails(w)

HealthNext ==
  \/ \E w \in Workers : SyncStep(w) \/ Call(w) \/ Probe(w) \/ Restart(w)
  \/ \E v \in Vendors : DeleteVendor(v) \/ \E st \in Setting : CreateVendor(v, st)
  \/ \E m \in Models : DeleteModel(m)
       \/ \E st \in Setting : CreateModel(m, st) \/ UpdateModel(m, st)
  \/ \E c \in Channels : RelayOk(c) \/ UpstreamTurns(c)
  \/ Crash

(* A goroutine that has started goes on, each probe is answered, and a     *)
(* stopped process is started again ...                                    *)
GoesOn(w) ==
  \/ SyncStep(w) \/ Probe(w) \/ Restart(w)
  \/ CountLeft(w) \/ PurgeAbilities(w) \/ DisableChannel(w)

(* ... and the prober's rounds come to every channel it lists. *)
HealthFairness ==
  /\ \A w \in Workers : WF_hvars(GoesOn(w))
  /\ \A w \in {p \in Workers : "recover" \in JobsOf[p]}, c \in Channels :
       SF_hvars(ProbeChannel(w, "recover", c))

HealthSpec == HealthInit /\ [][HealthNext]_hvars /\ HealthFairness

-----------------------------------------------------------------------------
(* Every variable has its type. *)
HealthTypeOK ==
  /\ chan \in [Channels -> ChannelRow]
  /\ vendor \in [Vendors -> Status] /\ key \in [Keys -> Status]
  /\ mod \in [Models -> ModelRow]
  /\ fails \in [Channels -> 0..Threshold] /\ tests \in [Channels -> 0..TestThreshold]
  /\ work \in [Workers -> Worker]
  /\ held \subseteq Channels
  /\ well \subseteq Channels

(* A channel an administrator has switched off stays off until an          *)
(* administrator sets its status again, whatever a probe, a test, a tripped *)
(* breaker or an alignment that was already under way then writes           *)
(* (platform/handler.go:947, breaker.go:46).                                *)
SwitchedOffStays == \A c \in held : chan[c].st = "off"

Quiet == \A w \in Workers :
  work[w].at \in {"idle", "checked", "tripped", "probing"} /\ ~work[w].dead

(* Once no alignment is under way, no channel that was stopped for want of *)
(* a key is left stopped although there is one (modelroute.go:180).         *)
QuietChannels == Quiet => \A c \in Channels : ~(NoKeyOff(c) /\ Usable(c))

(* Once no alignment is under way, a model whose status was last set by an *)
(* alignment is on exactly if something serves it (modelroute.go:134).      *)
QuietModels == Quiet => \A m \in Models :
  ~mod[m].hand => (mod[m].st = "on" <=> Live(m))

Healthy(c) ==
  /\ \A w \in Workers : work[w].at # "down"
  /\ c \in well /\ chan[c].serves # {}
  /\ Pool(chan[c].home) # {}

(* A channel the system has switched off comes back once the process stays *)
(* up and the upstream answers one of the keys (prober.go:136).             *)
Recovers == \A c \in Channels :
  <>[]Healthy(c) => []<>(~AutoOff(c))
=============================================================================
