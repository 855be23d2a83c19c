------------------------------- MODULE Relay -------------------------------
(***************************************************************************)
(* One relayed request: candidates are selected, tried one after the other *)
(* behind the channel's concurrency gate, and the failures on the way      *)
(* decide the final status.  Requests share the cooldowns of the keys, the *)
(* key pool and the gates.  Whatever any number of further requests,       *)
(* probes and administrators do to these is the environment.               *)
(*                                                                         *)
(* The gate is the in-process one (coord/mem.go); SlotGate models the one  *)
(* in Redis.  Cooldowns are modelled for both coordinators, without their  *)
(* durations: a cooldown ends at any time.                                 *)
(***************************************************************************)
EXTENDS Naturals, FiniteSets, Sequences, SequencesExt

CONSTANTS
  Requests, Channels, Keys,
  VendorOf,        \* the vendor of a channel or key
  Priority,        \* of a channel
  Sealed,          \* keys whose ciphertext cannot be read
  Coordinators,    \* of these the deployment has one: "mem", "redis"
  CooldownScope,   \* "key" or "channel"
  MaxConcurrency,  \* slots of a channel
  MaxCandidates    \* attempts of one request, 0 for no limit

ASSUME RelayConstants ==
  /\ MaxConcurrency \in Nat \ {0} /\ MaxCandidates \in Nat
  /\ Coordinators \subseteq {"mem", "redis"} /\ CooldownScope \in {"key", "channel"}
  /\ Sealed \subseteq Keys
  /\ IsFiniteSet(Requests) /\ IsFiniteSet(Channels) /\ IsFiniteSet(Keys)

VARIABLES
  coordinator,     \* h.Coord
  keyOn, chanOn,   \* enabled keys and channels
  cooling,         \* keys that cool
  marked,          \* keys with the quota mark
  slots,           \* len of the gate's channel
  others,          \* of these, slots of further requests
  req,             \* the requests
  causes           \* history: why attempts failed

rvars == <<coordinator, keyOn, chanOn, cooling, marked, slots, others, req, causes>>
shared == <<coordinator, keyOn, chanOn, cooling, marked, slots, others>>

Flags == {"onlyRateLimited", "authOnly", "quotaOnly", "timeoutOnly"}
Waiting == {"queue", "calling", "marking", "reading"}

(* left: the candidates not yet passed; pool: the keys of all of them *)
NewRequest == [at |-> "new", left |-> <<>>, pool |-> {}, tried |-> 0, skipped |-> 0,
               skippedQuota |-> 0, flags |-> Flags, gone |-> FALSE, status |-> 0]

RelayInit ==
  /\ coordinator \in Coordinators
  /\ keyOn = Keys /\ chanOn = Channels
  /\ cooling = {} /\ marked = {}
  /\ slots = [c \in Channels |-> 0] /\ others = [c \in Channels |-> 0]
  /\ req = [r \in Requests |-> NewRequest]
  /\ causes = [r \in Requests |-> {}]

-----------------------------------------------------------------------------
(* SelectCandidates.  Rows, pools and cooldowns are read at one time.      *)

PoolOf(c) == {k \in keyOn : VendorOf[k] = VendorOf[c]}
Usable(c) == PoolOf(c) \ (cooling \cup Sealed)
Candidates == {p \in chanOn \X Keys : p[2] \in Usable(p[1])}

(* Channels by priority, each with all its keys in a row; random otherwise *)
Orders ==
  {s \in SetToSeqs(Candidates) :
     \A i, j \in DOMAIN s : i < j =>
       /\ Priority[s[i][1]] >= Priority[s[j][1]]
       /\ s[i][1] = s[j][1] => \A m \in i..j : s[m][1] = s[i][1]}

(* The counts are per channel, except for KeyedVendors *)
KeyedVendors == {VendorOf[c] : c \in {d \in chanOn : PoolOf(d) # {}}}
CoolingKeys == {p \in chanOn \X Keys : p[2] \in PoolOf(p[1]) \cap cooling}
QuotaCoolingKeys == {p \in CoolingKeys : p[2] \in marked}
DecryptFailed == {c \in chanOn : PoolOf(c) # {} /\ Usable(c) = {} /\ PoolOf(c) \cap cooling = {}}

NoCandidate ==
  IF chanOn = {} \/ KeyedVendors = {} THEN 503
  ELSE IF DecryptFailed # {} /\ Cardinality(DecryptFailed) = Cardinality(KeyedVendors) THEN 503
  ELSE IF QuotaCoolingKeys # {} /\ QuotaCoolingKeys = CoolingKeys THEN 402
  ELSE 429

SelectCandidates(r) ==
  /\ req[r].at = "new"
  /\ IF Candidates = {}
     THEN req' = [req EXCEPT ![r].at = "refused", ![r].status = NoCandidate]
     ELSE \E s \in Orders :
            req' = [req EXCEPT ![r].at = "loop", ![r].left = s,
                               ![r].pool = {s[i][2] : i \in DOMAIN s}]
  /\ UNCHANGED shared /\ UNCHANGED causes

-----------------------------------------------------------------------------
(* The loop over the candidates.                                           *)

Channel(r) == Head(req[r].left)[1]
Key(r) == Head(req[r].left)[2]

Loop(r) == req[r].at = "loop" /\ ~req[r].gone /\ req[r].left # <<>>

LoopEnds(r, status) ==
  /\ req[r].at = "loop"
  /\ req' = [req EXCEPT ![r].at = "done", ![r].status = status]
  /\ UNCHANGED shared /\ UNCHANGED causes

(* Asked before each candidate, not after the last *)
ClientGone(r) == req[r].gone /\ req[r].left # <<>> /\ LoopEnds(r, 499)

(* Mutation of SkipCooling: the loop does not move on. *)
MutSkipCooling(r, quota) == req' = req

SkipCooling(r, quota) ==
  req' = [req EXCEPT ![r].left = Tail(@), ![r].skipped = @ + 1,
                     ![r].skippedQuota = IF quota THEN @ + 1 ELSE @]

(* The mark is asked for after the cooldown and may be gone by then *)
Skip(r) ==
  /\ Loop(r) /\ Key(r) \in cooling
  /\ \E quota \in {FALSE, Key(r) \in marked} :
       /\ SkipCooling(r, quota)
       /\ causes' = [causes EXCEPT ![r] = @ \cup IF quota THEN {} ELSE {"cooling"}]
  /\ UNCHANGED shared

WithinBudget(r) == MaxCandidates = 0 \/ req[r].tried < MaxCandidates

Try(r) ==
  /\ Loop(r) /\ Key(r) \notin cooling /\ WithinBudget(r)
  /\ req' = [req EXCEPT ![r].at = "queue", ![r].tried = @ + 1]
  /\ UNCHANGED shared /\ UNCHANGED causes

(* The status when no candidate is left *)
FinalStatus(q) ==
  IF "quotaOnly" \in q.flags /\ q.skipped = q.skippedQuota /\ q.tried + q.skipped > 0 THEN 402
  ELSE IF "timeoutOnly" \in q.flags THEN 504
  ELSE IF "onlyRateLimited" \in q.flags THEN 429
  ELSE IF "authOnly" \in q.flags THEN 503
  ELSE 502

Exhausted(r) ==
  /\ \/ req[r].at = "loop" /\ req[r].left = <<>>
     \/ Loop(r) /\ Key(r) \notin cooling /\ ~WithinBudget(r)
  /\ LoopEnds(r, FinalStatus(req[r]))

-----------------------------------------------------------------------------
(* One attempt.  It gives its slot back however it ends.                   *)

(* Mutation of Release: the slot stays taken. *)
MutRelease(c) == slots' = slots

Release(c) == slots' = [slots EXCEPT ![c] = @ - 1]

(* What is left from the first candidate of another channel on *)
NextChannel(left) ==
  LET later == {i \in DOMAIN left : left[i][1] # left[1][1]}
  IN  IF later = {} THEN <<>> ELSE SubSeq(left, Min(later), Len(left))

(* Mutation of Kept: a refused key says nothing of timeouts. *)
MutKept(cause) ==
  CASE cause = "quota" -> {"onlyRateLimited", "quotaOnly"}
    [] cause = "limited" -> {"onlyRateLimited"}
    [] cause = "refused" -> {"authOnly", "timeoutOnly"}
    [] cause = "timeout" -> {"timeoutOnly"}
    [] OTHER -> {}

(* The flags a failure leaves standing *)
Kept(cause) ==
  CASE cause = "quota" -> {"onlyRateLimited", "quotaOnly"}
    [] cause = "limited" -> {"onlyRateLimited"}
    [] cause = "refused" -> {"authOnly"}
    [] cause = "timeout" -> {"timeoutOnly"}
    [] OTHER -> {}

Fails(r, cause, left) ==
  /\ req' = [req EXCEPT ![r].at = "loop", ![r].left = left,
                        ![r].flags = @ \cap Kept(cause)]
  /\ causes' = [causes EXCEPT ![r] = @ \cup {cause}]

FailsKey(r, cause) == Fails(r, cause, Tail(req[r].left))

(* The channel's other keys would meet the same fault *)
FailsChannel(r, cause) == Fails(r, cause, NextChannel(req[r].left))

Finishes(r, status) ==
  /\ req' = [req EXCEPT ![r].at = "done", ![r].status = status]
  /\ UNCHANGED causes

Pool == UNCHANGED <<coordinator, keyOn, chanOn, others>>
Cooldowns == UNCHANGED <<cooling, marked>>

AcquireSlot(r) ==
  /\ req[r].at = "queue" /\ slots[Channel(r)] < MaxConcurrency
  /\ slots' = [slots EXCEPT ![Channel(r)] = @ + 1]
  /\ req' = [req EXCEPT ![r].at = "calling"]
  /\ Pool /\ Cooldowns /\ UNCHANGED causes

(* The wait is over, or the client is gone *)
QueueTimeout(r) ==
  /\ req[r].at = "queue"
  /\ FailsChannel(r, "queue")
  /\ UNCHANGED slots /\ Pool /\ Cooldowns

(* The request cannot be built (an address that does not parse) *)
Unsendable(r) ==
  /\ req[r].at = "calling"
  /\ FailsKey(r, "broken")
  /\ Release(Channel(r)) /\ Pool /\ Cooldowns

(* client.Do fails: not the channel's fault if the client has left *)
CallFails(r, cause) ==
  /\ req[r].at = "calling"
  /\ IF req[r].gone THEN Finishes(r, 499) ELSE FailsChannel(r, cause)
  /\ Release(Channel(r)) /\ Pool /\ Cooldowns

(* 429 with a quota code: first the cooldown with its count of hits ... *)
QuotaBackoff(r) ==
  /\ req[r].at = "calling"
  /\ cooling' = cooling \cup {Key(r)}
  /\ req' = [req EXCEPT ![r].at = "marking"]
  /\ UNCHANGED <<marked, slots>> /\ Pool /\ UNCHANGED causes

(* ... then the mark.  In process it makes a cooldown that is over anew.   *)
Mark(k) ==
  /\ cooling' = IF coordinator = "mem" THEN cooling \cup {k} ELSE cooling
  /\ marked' = marked \cup {k}

MarkQuotaCooling(r) ==
  /\ req[r].at = "marking"
  /\ Mark(Key(r))
  /\ FailsKey(r, "quota")
  /\ Release(Channel(r)) /\ Pool

(* SetCooldown of some keys.  In process a longer one replaces the entry   *)
(* and its mark; Redis keeps the mark under a key of its own.              *)
SetCooldown(ks) ==
  /\ cooling' = cooling \cup ks
  /\ IF coordinator = "redis" THEN UNCHANGED marked
     ELSE \E longer \in SUBSET (ks \cap cooling) :
            marked' = marked \ (longer \cup (ks \ cooling))

CoolKeys(r) ==
  {Key(r)} \cup IF CooldownScope = "key" THEN {}
                ELSE {k \in req[r].pool : VendorOf[k] = VendorOf[Channel(r)]}

RateLimited(r) ==
  /\ req[r].at = "calling"
  /\ SetCooldown(CoolKeys(r))
  /\ FailsKey(r, "limited")
  /\ Release(Channel(r)) /\ Pool

(* 401, 402, 403: the key is disabled in the background (Settings) *)
KeyRefused(r) ==
  /\ req[r].at = "calling"
  /\ FailsKey(r, "refused")
  /\ Release(Channel(r)) /\ Pool /\ Cooldowns

ServerError(r) ==
  /\ req[r].at = "calling"
  /\ FailsChannel(r, "broken")
  /\ Release(Channel(r)) /\ Pool /\ Cooldowns

Answers(r) ==
  /\ req[r].at = "calling"
  /\ req' = [req EXCEPT ![r].at = "reading"]
  /\ UNCHANGED slots /\ Pool /\ Cooldowns /\ UNCHANGED causes

(* Read to the end, or a stream that breaks after its first bytes went     *)
(* out.  The body of an error is passed on to whoever may have left.       *)
AnswerEnds(r) ==
  /\ req[r].at = "reading"
  /\ \E status \in {IF req[r].gone THEN 499 ELSE 200, 400} : Finishes(r, status)
  /\ Release(Channel(r)) /\ Pool /\ Cooldowns

(* Nothing has been written yet: the body breaks or cannot be translated.  *)
(* If it breaks under a client that has left, nothing more is tried; the   *)
(* translation does not ask.                                               *)
BodyFails(r) == \E untranslated \in BOOLEAN :
  /\ req[r].at = "reading"
  /\ IF req[r].gone /\ ~untranslated THEN Finishes(r, 499)
     ELSE FailsChannel(r, "broken")
  /\ Release(Channel(r)) /\ Pool /\ Cooldowns

-----------------------------------------------------------------------------
(* Everyone else.                                                          *)

ClientLeaves(r) ==
  /\ req[r].at \notin {"refused", "done"} /\ ~req[r].gone
  /\ req' = [req EXCEPT ![r].gone = TRUE]
  /\ UNCHANGED shared /\ UNCHANGED causes

(* In process an entry goes with its mark; in Redis each expires by itself *)
CooldownEnds(k) ==
  /\ k \in cooling
  /\ cooling' = cooling \ {k}
  /\ marked' = IF coordinator = "mem" THEN marked \ {k} ELSE marked
  /\ UNCHANGED slots /\ Pool /\ UNCHANGED <<req, causes>>

MarkEnds(k) ==
  /\ coordinator = "redis" /\ k \in marked
  /\ marked' = marked \ {k}
  /\ UNCHANGED <<cooling, slots>> /\ Pool /\ UNCHANGED <<req, causes>>

(* A probe that succeeds, or an administrator *)
ClearCooldown(k) ==
  /\ k \in cooling \cup marked
  /\ cooling' = cooling \ {k} /\ marked' = marked \ {k}
  /\ UNCHANGED slots /\ Pool /\ UNCHANGED <<req, causes>>

(* Another request's 429: SetCooldown, Backoff or MarkQuotaCooling *)
OtherCools(k) ==
  /\ SetCooldown({k}) \/ Mark(k) \/ (cooling' = cooling \cup {k} /\ UNCHANGED marked)
  /\ UNCHANGED slots /\ Pool /\ UNCHANGED <<req, causes>>

OtherSlots(c) ==
  /\ \/ slots[c] < MaxConcurrency /\ slots' = [slots EXCEPT ![c] = @ + 1]
                                  /\ others' = [others EXCEPT ![c] = @ + 1]
     \/ others[c] > 0 /\ slots' = [slots EXCEPT ![c] = @ - 1]
                      /\ others' = [others EXCEPT ![c] = @ - 1]
  /\ UNCHANGED <<coordinator, keyOn, chanOn>> /\ Cooldowns /\ UNCHANGED <<req, causes>>

(* Selection is all that reads these *)
Settings ==
  /\ \E r \in Requests : req[r].at = "new"
  /\ \/ \E k \in Keys : UNCHANGED chanOn
          /\ keyOn' = IF k \in keyOn THEN keyOn \ {k} ELSE keyOn \cup {k}
     \/ \E c \in Channels : UNCHANGED keyOn
          /\ chanOn' = IF c \in chanOn THEN chanOn \ {c} ELSE chanOn \cup {c}
  /\ UNCHANGED <<coordinator, slots, others>> /\ Cooldowns /\ UNCHANGED <<req, causes>>

GoesOn(r) ==
  \/ SelectCandidates(r) \/ ClientGone(r) \/ Skip(r) \/ Try(r) \/ Exhausted(r)
  \/ AcquireSlot(r) \/ QueueTimeout(r) \/ Unsendable(r)
  \/ CallFails(r, "timeout") \/ CallFails(r, "broken")
  \/ QuotaBackoff(r) \/ MarkQuotaCooling(r) \/ RateLimited(r)
  \/ KeyRefused(r) \/ ServerError(r)
  \/ Answers(r) \/ AnswerEnds(r) \/ BodyFails(r)

Environment ==
  \/ \E k \in Keys : CooldownEnds(k) \/ MarkEnds(k) \/ ClearCooldown(k) \/ OtherCools(k)
  \/ \E c \in Channels : OtherSlots(c)
  \/ Settings

RelayNext == (\E r \in Requests : GoesOn(r) \/ ClientLeaves(r)) \/ Environment

(* The loop runs, a wait for a slot and a call end by their timeouts, and  *)
(* the upstream's answer by its end.                                       *)
RelaySpec ==
  RelayInit /\ [][RelayNext]_rvars /\ \A r \in Requests : WF_rvars(GoesOn(r))

-----------------------------------------------------------------------------
Causes == {"queue", "timeout", "broken", "quota", "limited", "refused", "cooling"}
Statuses == {0, 200, 400, 402, 429, 499, 502, 503, 504}
ReqRow == [at : {"new", "loop", "refused", "done"} \cup Waiting,
           left : Seq(Channels \X Keys), pool : SUBSET Keys,
           tried : Nat, skipped : Nat, skippedQuota : Nat,
           flags : SUBSET Flags, gone : BOOLEAN, status : Statuses]

RelayTypeOK ==
  /\ coordinator \in Coordinators
  /\ keyOn \subseteq Keys /\ chanOn \subseteq Channels
  /\ cooling \subseteq Keys /\ marked \subseteq Keys
  /\ slots \in [Channels -> Nat] /\ others \in [Channels -> Nat]
  /\ req \in [Requests -> ReqRow]
  /\ \A r \in Requests : req[r].at \in Waiting => req[r].left # <<>>
  /\ causes \in [Requests -> SUBSET Causes]

(* With cooldowns in process a quota mark never outlives its cooldown,     *)
(* although the two are set in two steps (mem.go:87, coord.go:30).         *)
MarksFollowCooldowns == coordinator = "mem" => marked \subseteq cooling

Holds(r, c) == req[r].at \in {"calling", "marking", "reading"} /\ Channel(r) = c

(* No slot is lost or given back twice on any of the ways an attempt ends, *)
(* and no channel serves more than its limit (handler.go:579).             *)
SlotsAccounted == \A c \in Channels :
  /\ slots[c] = others[c] + Cardinality({r \in Requests : Holds(r, c)})
  /\ slots[c] <= MaxConcurrency

(* What the failures of a request together mean to its client *)
Meaning(r) ==
  LET met == causes[r] \ {"cooling"}
  IN  IF met \subseteq {"quota"} /\ "cooling" \notin causes[r] THEN 402
      ELSE IF met = {"timeout"} THEN 504
      ELSE IF met \subseteq {"quota", "limited"} THEN 429
      ELSE IF met = {"refused"} THEN 503
      ELSE 502

(* The status tells what went wrong, in whatever order keys and channels   *)
(* failed: out of quota, timed out, limited, refused, or none of these     *)
(* alone (handler.go:886).  Not when every candidate began to cool before  *)
(* it was tried: that is answered 504 although nothing timed out.          *)
StatusTellsCause == \A r \in Requests :
  req[r].at = "done" /\ req[r].status \in {402, 429, 502, 503, 504} =>
    req[r].status = IF causes[r] = {"cooling"} THEN 504 ELSE Meaning(r)

(* Every request is answered: no wait, retry or skip goes on for ever      *)
(* (handler.go:563).                                                       *)
EveryRequestEnds == \A r \in Requests : <>(req[r].at \in {"refused", "done"})
=============================================================================
