----------------------------- MODULE RelayProofs -----------------------------
(***************************************************************************)
(* The relay, for any number of requests, channels, vendors and keys, any  *)
(* limit of attempts and either coordinator: slots are given back, marks   *)
(* follow cooldowns, and the status tells the cause.                       *)
(***************************************************************************)
EXTENDS Relay, SequenceTheorems, FiniteSetTheorems, NaturalsInduction,
        WellFoundedInduction, TLAPS

-----------------------------------------------------------------------------
(* The inductive invariant *)

Holders(c) == {r \in Requests : Holds(r, c)}

Met(r) == causes[r] \ {"cooling"}

(* The flags stand for the failures a request has met, its counts for the  *)
(* candidates it skipped; it goes on only if it has a candidate or has     *)
(* met something.                                                          *)
FlagsTell(r) ==
  /\ "onlyRateLimited" \in req[r].flags <=> Met(r) \subseteq {"quota", "limited"}
  /\ "authOnly" \in req[r].flags <=> Met(r) \subseteq {"refused"}
  /\ "quotaOnly" \in req[r].flags <=> Met(r) \subseteq {"quota"}
  /\ "timeoutOnly" \in req[r].flags <=> Met(r) \subseteq {"timeout"}
  /\ req[r].skippedQuota <= req[r].skipped
  /\ req[r].skippedQuota = req[r].skipped <=> "cooling" \notin causes[r]
  /\ req[r].at \in Waiting => req[r].tried > 0
  /\ req[r].at = "loop" /\ req[r].tried = 0 /\ req[r].skipped = 0 => req[r].left # <<>>

StatusTells(r) ==
  req[r].at = "done" /\ req[r].status \in {402, 429, 502, 503, 504} =>
    req[r].status = IF causes[r] = {"cooling"} THEN 504 ELSE Meaning(r)

RelayInv ==
  /\ RelayTypeOK /\ MarksFollowCooldowns /\ SlotsAccounted
  /\ \A r \in Requests : FlagsTell(r) /\ StatusTells(r)

-----------------------------------------------------------------------------
(* Sequences of candidates *)

Below == {p \in Nat \X Nat : p[1] < p[2]}

(* A set of numbers that is not empty has a smallest *)
LEMMA Smallest ==
  ASSUME NEW S \in SUBSET Nat, S # {}
  PROVE  \E x \in S : \A y \in S : x <= y
<1>1. IsWellFoundedOn(Below, Nat)
  BY NatLessThanWellFounded DEF OpToRel, Below
<1>2. PICK x \in S : \A y \in S : ~(<<y, x>> \in Below)
  BY <1>1, WFMin
<1>3. ASSUME NEW y \in S PROVE x <= y
  <2>1. x \in Nat /\ y \in Nat
    OBVIOUS
  <2>2. ~(y < x)
    BY <1>2, <2>1 DEF Below
  <2> QED
    BY <2>1, <2>2
<1> QED
  BY <1>3

Cands == Channels \X Keys

(* Leaving a channel leaves candidates *)
LEMMA NextChannelType ==
  ASSUME NEW left \in Seq(Cands)
  PROVE  NextChannel(left) \in Seq(Cands)
<1> DEFINE later == {i \in DOMAIN left : left[i][1] # left[1][1]}
<1>1. later \in SUBSET Nat /\ later \subseteq 1..Len(left)
  OBVIOUS
<1>2. CASE later = {}
  BY <1>2 DEF NextChannel
<1>3. CASE later # {}
  <2>1. \E x \in later : \A y \in later : x <= y
    <3> HIDE DEF later
    <3> QED
      BY <1>1, <1>3, Smallest
  <2>2. Min(later) \in later
    BY <2>1 DEF Min
  <2>3. NextChannel(left) = SubSeq(left, Min(later), Len(left))
    BY <1>3 DEF NextChannel
  <2> HIDE DEF later
  <2> DEFINE m == Min(later)
  <2>3a. m \in 1..Len(left)
    BY <1>1, <2>2
  <2> HIDE DEF m
  <2>4. m \in Int /\ Len(left) \in Int /\ m >= 1
    BY <2>3a
  <2>5. \A i \in m..Len(left) : left[i] \in Cands
    BY <2>4
  <2>6. SubSeq(left, m, Len(left)) \in Seq(Cands)
    BY <2>4, <2>5, SubSeqProperties
  <2> QED
    BY <2>3, <2>6 DEF m
<1> QED
  BY <1>2, <1>3

(* What is left of candidates are candidates *)
LEMMA TailType ==
  ASSUME NEW left \in Seq(Cands), left # <<>>
  PROVE  Tail(left) \in Seq(Cands) /\ Head(left) \in Cands
OBVIOUS

(* An order of the candidates lists candidates, and some if there are any *)
LEMMA OrderType ==
  ASSUME NEW s \in Orders, Candidates # {}, chanOn \subseteq Channels
  PROVE  /\ s \in Seq(Cands) /\ s # <<>>
         /\ {s[i][2] : i \in DOMAIN s} \subseteq Keys
<1>1. Candidates \in SUBSET Cands /\ IsFiniteSet(Cands)
  BY RelayConstants, FS_Product DEF Candidates, Cands, RelayConstants
<1>2. IsFiniteSet(Candidates)
  BY <1>1, FS_Subset
<1>3. Cardinality(Candidates) \in Nat /\ Cardinality(Candidates) # 0
  BY <1>2, FS_CardinalityType, FS_EmptySet
<1>4. s \in [1..Cardinality(Candidates) -> Candidates]
  BY DEF Orders, SetToSeqs
<1>5. s \in Seq(Cands) /\ Len(s) = Cardinality(Candidates)
  BY <1>1, <1>3, <1>4
<1>6. \A i \in DOMAIN s : s[i] \in Cands
  BY <1>1, <1>4
<1> QED
  BY <1>3, <1>5, <1>6 DEF Cands

-----------------------------------------------------------------------------
(* Types *)

(* A request's row, and what it is at *)
LEMMA RowType ==
  ASSUME RelayTypeOK, NEW r \in Requests
  PROVE  /\ req[r] \in ReqRow
         /\ req[r].left \in Seq(Cands)
         /\ req[r].left # <<>> => Key(r) \in Keys /\ Channel(r) \in Channels
                                  /\ Tail(req[r].left) \in Seq(Cands)
<1>1. req[r] \in ReqRow /\ req[r].left \in Seq(Cands)
  BY DEF RelayTypeOK, ReqRow, Cands
<1>2. req[r].left # <<>> => Head(req[r].left) \in Cands /\ Tail(req[r].left) \in Seq(Cands)
  BY <1>1, TailType
<1> QED
  BY <1>1, <1>2 DEF Key, Channel, Cands

(* What a step of request r does to its row keeps the types, if the new row *)
(* is one and a request that waits has a candidate.                         *)
LEMMA RowChanges ==
  ASSUME RelayTypeOK, NEW r \in Requests, NEW q \in ReqRow, req' = [req EXCEPT ![r] = q],
         q.at \in Waiting => q.left # <<>>
  PROVE  /\ req' \in [Requests -> ReqRow]
         /\ \A p \in Requests : req'[p].at \in Waiting => req'[p].left # <<>>
BY DEF RelayTypeOK

(* Refusals are statuses *)
LEMMA NoCandidateType == NoCandidate \in Statuses
BY DEF NoCandidate, Statuses

(* So are the ends of an exhausted request *)
LEMMA FinalStatusType == ASSUME NEW q PROVE FinalStatus(q) \in {402, 504, 429, 503, 502}
BY DEF FinalStatus

(* A failed attempt keeps the types *)
LEMMA FailsType ==
  ASSUME RelayTypeOK, NEW r \in Requests, NEW cause \in Causes, NEW left \in Seq(Cands),
         Fails(r, cause, left)
  PROVE  /\ req' \in [Requests -> ReqRow]
         /\ \A p \in Requests : req'[p].at \in Waiting => req'[p].left # <<>>
         /\ causes' \in [Requests -> SUBSET Causes]
<1> DEFINE q == [req[r] EXCEPT !.at = "loop", !.left = left, !.flags = @ \cap Kept(cause)]
<1>1. req[r] \in ReqRow
  BY DEF RelayTypeOK
<1>2. q \in ReqRow /\ q.at = "loop"
  BY <1>1 DEF ReqRow, Cands
<1>3. req' = [req EXCEPT ![r] = q]
  BY DEF Fails
<1>4. "loop" \notin Waiting
  BY DEF Waiting
<1> HIDE DEF q
<1>5. causes' \in [Requests -> SUBSET Causes]
  BY DEF Fails, RelayTypeOK
<1> QED
  BY <1>2, <1>3, <1>4, <1>5, RowChanges

(* So does an end, or a refusal *)
LEMMA FinishesType ==
  ASSUME RelayTypeOK, NEW r \in Requests, NEW status \in Statuses, NEW at \in {"refused", "done"},
         req' = [req EXCEPT ![r].at = at, ![r].status = status]
  PROVE  /\ req' \in [Requests -> ReqRow]
         /\ \A p \in Requests : req'[p].at \in Waiting => req'[p].left # <<>>
<1> DEFINE q == [req[r] EXCEPT !.at = at, !.status = status]
<1>1. req[r] \in ReqRow
  BY DEF RelayTypeOK
<1>2. q \in ReqRow /\ q.at = at
  BY <1>1 DEF ReqRow
<1>3. req' = [req EXCEPT ![r] = q]
  OBVIOUS
<1>4. at \notin Waiting
  BY DEF Waiting
<1> HIDE DEF q
<1> QED
  BY <1>2, <1>3, <1>4, RowChanges

(* An attempt that ends the request keeps the types *)
LEMMA EndsType ==
  ASSUME RelayTypeOK, NEW r \in Requests, NEW status \in Statuses, Finishes(r, status)
  PROVE  /\ req' \in [Requests -> ReqRow]
         /\ \A p \in Requests : req'[p].at \in Waiting => req'[p].left # <<>>
         /\ causes' \in [Requests -> SUBSET Causes]
<1>2. req' = [req EXCEPT ![r].at = "done", ![r].status = status] /\ causes' = causes
  BY DEF Finishes
<1>3. causes' \in [Requests -> SUBSET Causes]
  BY <1>2 DEF RelayTypeOK
<1> QED
  BY <1>2, <1>3, FinishesType

-----------------------------------------------------------------------------
(* The shapes of a step, as the requests see it *)

Moves(r) ==
  /\ req[r].at \in Waiting /\ causes' = causes
  /\ \E w \in Waiting : req' = [req EXCEPT ![r].at = w]

Falls(r) ==
  /\ req[r].at \in Waiting
  /\ \E cause \in Causes \ {"cooling"}, left \in Seq(Cands) : Fails(r, cause, left)

Ends(r) ==
  /\ req[r].at \in Waiting
  /\ \E status \in {200, 400, 499} : Finishes(r, status)

Shape(r) ==
  \/ SelectCandidates(r) \/ ClientGone(r) \/ Skip(r) \/ Try(r) \/ Exhausted(r) \/ ClientLeaves(r)
  \/ Moves(r) \/ Falls(r) \/ Ends(r)

(* An attempt that fails leaves candidates behind *)
LEMMA FailsFall ==
  ASSUME RelayTypeOK, NEW r \in Requests, req[r].at \in Waiting,
         NEW cause \in Causes \ {"cooling"}, FailsKey(r, cause) \/ FailsChannel(r, cause)
  PROVE  Falls(r)
<1>1. req[r].left # <<>>
  BY DEF RelayTypeOK
<1>2. Tail(req[r].left) \in Seq(Cands) /\ NextChannel(req[r].left) \in Seq(Cands)
  BY <1>1, RowType, NextChannelType
<1> QED
  BY <1>2 DEF Falls, FailsKey, FailsChannel

(* Every step has one of the shapes, for one request, or touches none *)
LEMMA StepShapes ==
  ASSUME RelayTypeOK, [RelayNext]_rvars
  PROVE  UNCHANGED <<req, causes>> \/ \E r \in Requests : Shape(r)
<1>0. {"timeout", "broken", "queue", "quota", "limited", "refused"} \subseteq Causes \ {"cooling"}
  BY DEF Causes
<1>1. ASSUME NEW r \in Requests, GoesOn(r) \/ ClientLeaves(r) PROVE Shape(r)
  <2>1. CASE \/ SelectCandidates(r) \/ ClientGone(r) \/ Skip(r) \/ Try(r) \/ Exhausted(r)
             \/ ClientLeaves(r)
    BY <2>1 DEF Shape
  <2>2. CASE AcquireSlot(r) \/ QuotaBackoff(r) \/ Answers(r)
    BY <2>2 DEF AcquireSlot, QuotaBackoff, Answers, Moves, Waiting, Shape
  <2>3. CASE QueueTimeout(r)
    BY <1>0, <2>3, FailsFall DEF QueueTimeout, Waiting, Shape
  <2>4. CASE Unsendable(r)
    BY <1>0, <2>4, FailsFall DEF Unsendable, Waiting, Shape
  <2>5. ASSUME NEW cause \in {"timeout", "broken"}, CallFails(r, cause) PROVE Shape(r)
    BY <1>0, <2>5, FailsFall DEF CallFails, Waiting, Shape, Ends
  <2>6. CASE MarkQuotaCooling(r)
    BY <1>0, <2>6, FailsFall DEF MarkQuotaCooling, Waiting, Shape
  <2>7. CASE RateLimited(r)
    BY <1>0, <2>7, FailsFall DEF RateLimited, Waiting, Shape
  <2>8. CASE KeyRefused(r)
    BY <1>0, <2>8, FailsFall DEF KeyRefused, Waiting, Shape
  <2>9. CASE ServerError(r)
    BY <1>0, <2>9, FailsFall DEF ServerError, Waiting, Shape
  <2>10. CASE AnswerEnds(r)
    BY <2>10 DEF AnswerEnds, Ends, Waiting, Shape
  <2>11. CASE BodyFails(r)
    BY <1>0, <2>11, FailsFall DEF BodyFails, Ends, Waiting, Shape
  <2> QED
    BY <1>1, <2>1, <2>2, <2>3, <2>4, <2>5, <2>6, <2>7, <2>8, <2>9, <2>10, <2>11 DEF GoesOn
<1>2. CASE Environment
  BY <1>2 DEF Environment, CooldownEnds, MarkEnds, ClearCooldown, OtherCools, OtherSlots, Settings
<1>3. CASE UNCHANGED rvars
  BY <1>3 DEF rvars
<1> QED
  BY <1>1, <1>2, <1>3 DEF RelayNext

(* Requests keep their types *)
LEMMA RequestTypes ==
  ASSUME RelayTypeOK, [RelayNext]_rvars
  PROVE  /\ req' \in [Requests -> ReqRow]
         /\ \A p \in Requests : req'[p].at \in Waiting => req'[p].left # <<>>
         /\ causes' \in [Requests -> SUBSET Causes]
<1> DEFINE Goal ==
         /\ req' \in [Requests -> ReqRow]
         /\ \A p \in Requests : req'[p].at \in Waiting => req'[p].left # <<>>
         /\ causes' \in [Requests -> SUBSET Causes]
<1> SUFFICES Goal
  OBVIOUS
<1>1. CASE UNCHANGED <<req, causes>>
  BY <1>1 DEF RelayTypeOK
<1>2. ASSUME NEW r \in Requests, Shape(r) PROVE Goal
  <2>0. req[r] \in ReqRow /\ causes \in [Requests -> SUBSET Causes]
        /\ req[r].left \in Seq(Cands) /\ chanOn \subseteq Channels
    BY RowType DEF RelayTypeOK
  <2>1. ASSUME SelectCandidates(r) PROVE Goal
    <3>1. CASE req' = [req EXCEPT ![r].at = "refused", ![r].status = NoCandidate]
      BY <2>0, <2>1, <3>1, NoCandidateType, FinishesType DEF SelectCandidates
    <3>2. ASSUME Candidates # {}, NEW s \in Orders,
                 req' = [req EXCEPT ![r].at = "loop", ![r].left = s,
                                    ![r].pool = {s[i][2] : i \in DOMAIN s}]
          PROVE  Goal
      <4> DEFINE pool == {s[i][2] : i \in DOMAIN s}
                 q == [req[r] EXCEPT !.at = "loop", !.left = s, !.pool = pool]
      <4>1. s \in Seq(Cands) /\ pool \subseteq Keys
        BY <2>0, <3>2, OrderType
      <4>2. req' = [req EXCEPT ![r] = q]
        BY <3>2
      <4> HIDE DEF pool
      <4>3. q \in ReqRow /\ q.at = "loop" /\ "loop" \notin Waiting
        BY <2>0, <4>1 DEF ReqRow, Cands, Waiting
      <4> HIDE DEF q
      <4> QED
        BY <2>0, <2>1, <4>2, <4>3, RowChanges DEF SelectCandidates
    <3> QED
      BY <2>1, <3>1, <3>2 DEF SelectCandidates
  <2>2. ASSUME ClientGone(r) PROVE Goal
    <3>1. 499 \in Statuses
      BY DEF Statuses
    <3> QED
      BY <2>0, <2>2, <3>1, FinishesType, ZenonT(30) DEF ClientGone, LoopEnds
  <2>3. ASSUME Skip(r) PROVE Goal
    <3>1. PICK quota \in {FALSE, Key(r) \in marked} :
            /\ SkipCooling(r, quota)
            /\ causes' = [causes EXCEPT ![r] = @ \cup IF quota THEN {} ELSE {"cooling"}]
      BY <2>3 DEF Skip
    <3> DEFINE left == Tail(req[r].left)
               n == req[r].skipped + 1
               k == IF quota THEN req[r].skippedQuota + 1 ELSE req[r].skippedQuota
               q == [req[r] EXCEPT !.left = left, !.skipped = n, !.skippedQuota = k]
    <3>2. Tail(req[r].left) \in Seq(Cands) /\ req[r].at = "loop" /\ "loop" \notin Waiting
      BY <2>0, <2>3, TailType DEF Skip, Loop, Waiting
    <3>4. req' = [req EXCEPT ![r] = q]
      BY <3>1 DEF SkipCooling
    <3>6. n \in Nat /\ k \in Nat /\ left \in Seq(Channels \X Keys)
      BY <2>0, <3>2 DEF ReqRow, Cands
    <3> HIDE DEF n, k, left
    <3>3. q \in ReqRow /\ q.at = "loop"
      BY <2>0, <3>2, <3>6 DEF ReqRow
    <3> HIDE DEF q
    <3>5. causes' \in [Requests -> SUBSET Causes]
      BY <2>0, <3>1 DEF Causes
    <3> QED
      BY <3>2, <3>3, <3>4, <3>5, RowChanges
  <2>4. ASSUME Try(r) PROVE Goal
    <3> DEFINE n == req[r].tried + 1
               q == [req[r] EXCEPT !.at = "queue", !.tried = n]
    <3>2. req' = [req EXCEPT ![r] = q]
      BY <2>4 DEF Try
    <3>3. n \in Nat /\ req[r].left # <<>> /\ "queue" \in Waiting
      BY <2>0, <2>4 DEF ReqRow, Try, Loop, Waiting
    <3> HIDE DEF n
    <3>1. q \in ReqRow /\ q.left = req[r].left /\ req[r].left # <<>>
      BY <2>0, <3>3 DEF ReqRow
    <3> HIDE DEF q
    <3> QED
      BY <2>0, <2>4, <3>1, <3>2, RowChanges DEF Try
  <2>5. ASSUME Exhausted(r) PROVE Goal
    <3>1. FinalStatus(req[r]) \in Statuses
      BY FinalStatusType DEF Statuses
    <3> QED
      BY <2>0, <2>5, <3>1, FinishesType DEF Exhausted, LoopEnds
  <2>6. ASSUME ClientLeaves(r) PROVE Goal
    <3> DEFINE q == [req[r] EXCEPT !.gone = TRUE]
    <3>1. q \in ReqRow /\ q.left = req[r].left /\ q.at = req[r].at
      BY <2>0 DEF ReqRow
    <3>2. req' = [req EXCEPT ![r] = q]
      BY <2>6 DEF ClientLeaves
    <3>3. q.at \in Waiting => q.left # <<>>
      BY <3>1 DEF RelayTypeOK
    <3> HIDE DEF q
    <3> QED
      BY <2>0, <2>6, <3>1, <3>2, <3>3, RowChanges DEF ClientLeaves
  <2>7. ASSUME Moves(r) PROVE Goal
    <3>1. PICK w \in Waiting : req' = [req EXCEPT ![r].at = w]
      BY <2>7 DEF Moves
    <3> DEFINE q == [req[r] EXCEPT !.at = w]
    <3>2. q \in ReqRow /\ q.left = req[r].left
      BY <2>0 DEF ReqRow
    <3>3. req' = [req EXCEPT ![r] = q]
      BY <3>1
    <3>4. q.left # <<>>
      BY <2>7, <3>2 DEF Moves, RelayTypeOK
    <3> HIDE DEF q
    <3> QED
      BY <2>0, <2>7, <3>2, <3>3, <3>4, RowChanges DEF Moves
  <2>8. ASSUME Falls(r) PROVE Goal
    BY <2>8, FailsType DEF Falls
  <2>9. ASSUME Ends(r) PROVE Goal
    <3>1. 200 \in Statuses /\ 400 \in Statuses /\ 499 \in Statuses
      BY DEF Statuses
    <3> QED
      BY <2>9, <3>1, EndsType DEF Ends
  <2> QED
    BY <1>2, <2>1, <2>2, <2>3, <2>4, <2>5, <2>6, <2>7, <2>8, <2>9 DEF Shape
<1> HIDE DEF Goal
<1> QED
  BY <1>1, <1>2, StepShapes

-----------------------------------------------------------------------------
(* Slots *)

Serves(r) == req[r].at \in {"calling", "marking", "reading"}

(* A channel serves finitely many requests *)
LEMMA HoldersFinite == ASSUME NEW c PROVE IsFiniteSet(Holders(c)) /\ Cardinality(Holders(c)) \in Nat
<1>1. Holders(c) \in SUBSET Requests
  BY DEF Holders
<1> QED
  BY <1>1, RelayConstants, FS_Subset, FS_CardinalityType DEF RelayConstants

(* Who holds no other slot than before leaves the account as it is *)
LEMMA SlotsKept ==
  ASSUME SlotsAccounted, UNCHANGED <<slots, others>>,
         \A q \in Requests, c \in Channels : Holds(q, c)' = Holds(q, c)
  PROVE  SlotsAccounted'
<1>1. ASSUME NEW c \in Channels
      PROVE  {q \in Requests : Holds(q, c)'} = {q \in Requests : Holds(q, c)}
  OBVIOUS
<1> QED
  BY <1>1 DEF SlotsAccounted

(* The changed request is the only one whose slot changes *)
LEMMA OthersHold ==
  ASSUME NEW q \in Requests, req'[q] = req[q], NEW c
  PROVE  Holds(q, c)' = Holds(q, c)
BY DEF Holds, Channel

(* A slot that is taken is accounted for *)
LEMMA SlotTaken ==
  ASSUME RelayTypeOK, SlotsAccounted, NEW r \in Requests, AcquireSlot(r)
  PROVE  SlotsAccounted' /\ slots' \in [Channels -> Nat]
<1> DEFINE d == Channel(r)
<1>1. req[r] \in ReqRow /\ slots \in [Channels -> Nat] /\ others \in [Channels -> Nat]
      /\ req \in [Requests -> ReqRow] /\ MaxConcurrency \in Nat
  BY RelayConstants DEF RelayTypeOK, RelayConstants
<1>2. /\ slots' = [slots EXCEPT ![d] = @ + 1] /\ slots[d] < MaxConcurrency /\ others' = others
      /\ req' = [req EXCEPT ![r].at = "calling"] /\ req[r].at = "queue"
  BY DEF AcquireSlot, Pool
<1>3. /\ req'[r].at = "calling" /\ req'[r].left = req[r].left
      /\ \A q \in Requests : q # r => req'[q] = req[q]
  BY <1>1, <1>2 DEF ReqRow
<1>4. \A c : Holds(r, c)' <=> c = d
  BY <1>3 DEF Holds, Channel
<1>5. \A c : ~Holds(r, c)
  BY <1>2 DEF Holds
<1>6. \A c : {q \in Requests : Holds(q, c)'} = IF c = d THEN Holders(c) \cup {r} ELSE Holders(c)
  BY <1>3, <1>4, <1>5, OthersHold DEF Holders
<1>7. \A c : r \notin Holders(c)
  BY <1>5 DEF Holders
<1>8. ASSUME NEW c \in Channels
      PROVE  /\ slots'[c] = others'[c] + Cardinality({q \in Requests : Holds(q, c)'})
             /\ slots'[c] <= MaxConcurrency /\ slots'[c] \in Nat
  <2>1. slots[c] = others[c] + Cardinality(Holders(c)) /\ slots[c] <= MaxConcurrency
    BY DEF SlotsAccounted, Holders
  <2>2. Cardinality(Holders(c) \cup {r}) = Cardinality(Holders(c)) + 1
    BY <1>7, HoldersFinite, FS_AddElement
  <2>3. Cardinality(Holders(c)) \in Nat
    BY HoldersFinite
  <2> HIDE DEF d
  <2>4. CASE c = d
    <3>1. slots'[c] = slots[c] + 1
      BY <1>1, <1>2, <2>4
    <3>2. slots[c] \in Nat /\ others[c] \in Nat /\ slots[c] < MaxConcurrency
      BY <1>1, <1>2, <2>4
    <3>3. slots'[c] = others[c] + Cardinality(Holders(c) \cup {r}) /\ slots'[c] <= MaxConcurrency
         /\ slots'[c] \in Nat
      BY <1>1, <2>1, <2>2, <2>3, <3>1, <3>2
    <3>4. {q \in Requests : Holds(q, c)'} = Holders(c) \cup {r}
      BY <1>6, <2>4
    <3> QED
      BY <1>2, <3>3, <3>4
  <2>5. CASE c # d
    <3>1. slots'[c] = slots[c]
      BY <1>1, <1>2, <2>5
    <3> QED
      BY <1>1, <1>2, <1>6, <2>1, <2>5, <3>1
  <2> QED
    BY <2>4, <2>5
<1>9. slots' \in [Channels -> Nat]
  <2> HIDE DEF d
  <2> QED
    BY <1>1, <1>2, <1>8
<1> QED
  BY <1>8, <1>9 DEF SlotsAccounted

(* So is one that is given back *)
LEMMA SlotGiven ==
  ASSUME RelayTypeOK, SlotsAccounted, NEW r \in Requests, Serves(r), ~Serves(r)',
         \A q \in Requests : q # r => req'[q] = req[q],
         Release(Channel(r)), others' = others
  PROVE  SlotsAccounted' /\ slots' \in [Channels -> Nat]
<1> DEFINE d == Channel(r)
<1>1. slots \in [Channels -> Nat] /\ others \in [Channels -> Nat] /\ MaxConcurrency \in Nat
  BY RelayConstants DEF RelayTypeOK, RelayConstants
<1>2. slots' = [slots EXCEPT ![d] = @ - 1]
  BY DEF Release
<1>3. \A c : Holds(r, c) <=> c = d
  BY DEF Holds, Serves
<1>4. \A c : ~Holds(r, c)'
  BY DEF Holds, Serves
<1>5. \A c : {q \in Requests : Holds(q, c)'} = IF c = d THEN Holders(c) \ {r} ELSE Holders(c)
  BY <1>3, <1>4, OthersHold DEF Holders
<1>6. r \in Holders(d)
  BY <1>3 DEF Holders
<1>7. ASSUME NEW c \in Channels
      PROVE  /\ slots'[c] = others'[c] + Cardinality({q \in Requests : Holds(q, c)'})
             /\ slots'[c] <= MaxConcurrency /\ slots'[c] \in Nat
  <2>1. slots[c] = others[c] + Cardinality(Holders(c)) /\ slots[c] <= MaxConcurrency
    BY DEF SlotsAccounted, Holders
  <2>2. Cardinality(Holders(d) \ {r}) = Cardinality(Holders(d)) - 1
    BY <1>6, HoldersFinite, FS_RemoveElement
  <2>3. Cardinality(Holders(c)) \in Nat /\ Cardinality(Holders(d) \ {r}) \in Nat
    BY HoldersFinite, FS_RemoveElement, FS_CardinalityType
  <2> HIDE DEF d
  <2>4. CASE c = d
    <3>1. slots'[c] = slots[c] - 1
      BY <1>1, <1>2, <2>4
    <3>2. slots'[c] = others'[c] + Cardinality(Holders(d) \ {r})
      BY <1>1, <2>1, <2>2, <2>3, <2>4, <3>1
    <3> QED
      BY <1>1, <1>5, <2>1, <2>3, <2>4, <3>1, <3>2
  <2>5. CASE c # d
    <3>1. slots'[c] = slots[c]
      BY <1>1, <1>2, <2>5
    <3> QED
      BY <1>1, <1>5, <2>1, <2>5, <3>1
  <2> QED
    BY <2>4, <2>5
<1>8. slots' \in [Channels -> Nat]
  BY <1>1, <1>2, <1>7
<1> QED
  BY <1>7, <1>8 DEF SlotsAccounted

(* Every step keeps the account of slots *)
LEMMA SlotStep ==
  ASSUME RelayTypeOK, SlotsAccounted, [RelayNext]_rvars
  PROVE  SlotsAccounted' /\ slots' \in [Channels -> Nat] /\ others' \in [Channels -> Nat]
<1> DEFINE Goal == SlotsAccounted' /\ slots' \in [Channels -> Nat] /\ others' \in [Channels -> Nat]
<1> SUFFICES Goal
  OBVIOUS
<1>0. /\ slots \in [Channels -> Nat] /\ others \in [Channels -> Nat]
      /\ req \in [Requests -> ReqRow] /\ MaxConcurrency \in Nat
  BY RelayConstants DEF RelayTypeOK, RelayConstants
<1>1. ASSUME UNCHANGED <<slots, others, req>> PROVE Goal
  <2>1. \A q \in Requests, c \in Channels : Holds(q, c)' = Holds(q, c)
    BY <1>1 DEF Holds, Channel
  <2> QED
    BY <1>0, <1>1, <2>1, SlotsKept
<1>2. ASSUME NEW r \in Requests, UNCHANGED <<slots, others>>,
             \A q \in Requests : q # r => req'[q] = req[q],
             \/ ~Serves(r) /\ ~Serves(r)'
             \/ Serves(r) /\ Serves(r)' /\ req'[r].left = req[r].left
      PROVE  Goal
  <2>1. \A c \in Channels : Holds(r, c)' = Holds(r, c)
    BY <1>2 DEF Holds, Serves, Channel
  <2>2. \A q \in Requests, c \in Channels : Holds(q, c)' = Holds(q, c)
    BY <1>2, <2>1, OthersHold
  <2> QED
    BY <1>0, <1>2, <2>2, SlotsKept
<1>3. ASSUME NEW r \in Requests, Serves(r), Release(Channel(r)), others' = others,
             NEW at \in {"loop", "done"}, req'[r].at = at,
             \A q \in Requests : q # r => req'[q] = req[q]
      PROVE  Goal
  <2>1. ~Serves(r)'
    BY <1>3 DEF Serves
  <2> QED
    BY <1>0, <1>3, <2>1, SlotGiven
<1>4. ASSUME NEW r \in Requests, NEW cause, NEW left, Fails(r, cause, left)
      PROVE  req'[r].at = "loop" /\ \A q \in Requests : q # r => req'[q] = req[q]
  BY <1>0, <1>4 DEF Fails, ReqRow
<1>5. ASSUME NEW r \in Requests, NEW status, Finishes(r, status)
      PROVE  req'[r].at = "done" /\ \A q \in Requests : q # r => req'[q] = req[q]
  BY <1>0, <1>5 DEF Finishes, ReqRow
<1>6. ASSUME NEW r \in Requests, GoesOn(r) \/ ClientLeaves(r) PROVE Goal
  <2>1. ASSUME SelectCandidates(r) PROVE Goal
    <3>1. req[r].at = "new" /\ UNCHANGED <<slots, others>>
      BY <2>1 DEF SelectCandidates, shared
    <3>2. CASE req' = [req EXCEPT ![r].at = "refused", ![r].status = NoCandidate]
      <4>1. req'[r].at = "refused" /\ \A q \in Requests : q # r => req'[q] = req[q]
        BY <1>0, <3>2 DEF ReqRow
      <4> QED
        BY <1>2, <3>1, <4>1 DEF Serves
    <3>3. ASSUME NEW s, NEW pool,
                 req' = [req EXCEPT ![r].at = "loop", ![r].left = s, ![r].pool = pool]
          PROVE  Goal
      <4>1. req'[r].at = "loop" /\ \A q \in Requests : q # r => req'[q] = req[q]
        BY <1>0, <3>3 DEF ReqRow
      <4> QED
        BY <1>2, <3>1, <4>1 DEF Serves
    <3> HIDE DEF Goal
    <3> QED
      BY <2>1, <3>2, <3>3 DEF SelectCandidates
  <2>2. ASSUME ClientGone(r) \/ Exhausted(r) PROVE Goal
    <3>1. /\ req[r].at = "loop" /\ UNCHANGED <<slots, others>>
          /\ req'[r].at = "done"
          /\ \A q \in Requests : q # r => req'[q] = req[q]
      BY <1>0, <2>2 DEF ClientGone, Exhausted, LoopEnds, shared, ReqRow
    <3> QED
      BY <1>2, <3>1 DEF Serves
  <2>3. ASSUME Skip(r) PROVE Goal
    <3>1. /\ req[r].at = "loop" /\ UNCHANGED <<slots, others>>
          /\ req'[r].at = "loop"
          /\ \A q \in Requests : q # r => req'[q] = req[q]
      BY <1>0, <2>3 DEF Skip, SkipCooling, Loop, shared, ReqRow
    <3> QED
      BY <1>2, <3>1 DEF Serves
  <2>4. ASSUME Try(r) PROVE Goal
    <3>1. /\ req[r].at = "loop" /\ UNCHANGED <<slots, others>>
          /\ req'[r].at = "queue"
          /\ \A q \in Requests : q # r => req'[q] = req[q]
      BY <1>0, <2>4 DEF Try, Loop, shared, ReqRow
    <3> QED
      BY <1>2, <3>1 DEF Serves
  <2>5. ASSUME AcquireSlot(r) PROVE Goal
    BY <1>0, <2>5, SlotTaken DEF AcquireSlot, Pool
  <2>6. ASSUME QueueTimeout(r) PROVE Goal
    <3>1. req[r].at = "queue" /\ UNCHANGED <<slots, others>> /\ FailsChannel(r, "queue")
      BY <2>6 DEF QueueTimeout, Pool
    <3>2. req'[r].at = "loop" /\ \A q \in Requests : q # r => req'[q] = req[q]
      BY <1>4, <3>1 DEF FailsChannel
    <3> QED
      BY <1>2, <3>1, <3>2 DEF Serves
  <2>7. ASSUME QuotaBackoff(r) \/ Answers(r) PROVE Goal
    <3>1. /\ req[r].at = "calling" /\ UNCHANGED <<slots, others>>
          /\ req'[r].at \in {"marking", "reading"} /\ req'[r].left = req[r].left
          /\ \A q \in Requests : q # r => req'[q] = req[q]
      BY <1>0, <2>7 DEF QuotaBackoff, Answers, Pool, ReqRow
    <3> QED
      BY <1>2, <3>1 DEF Serves
  <2>8. ASSUME \/ Unsendable(r) \/ CallFails(r, "timeout") \/ CallFails(r, "broken")
               \/ MarkQuotaCooling(r) \/ RateLimited(r) \/ KeyRefused(r) \/ ServerError(r)
               \/ AnswerEnds(r) \/ BodyFails(r)
        PROVE  Goal
    <3>1. Serves(r) /\ Release(Channel(r)) /\ others' = others
      BY <2>8 DEF Unsendable, CallFails, MarkQuotaCooling, RateLimited, KeyRefused,
         ServerError, AnswerEnds, BodyFails, Pool, Serves
    <3>2. \/ \E cause, left : Fails(r, cause, left)
          \/ \E status : Finishes(r, status)
      BY <2>8 DEF Unsendable, CallFails, MarkQuotaCooling, RateLimited, KeyRefused,
         ServerError, AnswerEnds, BodyFails, FailsKey, FailsChannel
    <3>3. \/ req'[r].at = "loop" /\ \A q \in Requests : q # r => req'[q] = req[q]
          \/ req'[r].at = "done" /\ \A q \in Requests : q # r => req'[q] = req[q]
      BY <1>4, <1>5, <3>2
    <3> QED
      BY <1>3, <3>1, <3>3
  <2>9. ASSUME ClientLeaves(r) PROVE Goal
    <3>1. /\ UNCHANGED <<slots, others>>
          /\ req'[r].at = req[r].at /\ req'[r].left = req[r].left
          /\ \A q \in Requests : q # r => req'[q] = req[q]
      BY <1>0, <2>9 DEF ClientLeaves, shared, ReqRow
    <3> QED
      BY <1>2, <3>1 DEF Serves
  <2> QED
    BY <1>6, <2>1, <2>2, <2>3, <2>4, <2>5, <2>6, <2>7, <2>8, <2>9 DEF GoesOn
<1>7. ASSUME NEW c \in Channels, OtherSlots(c) PROVE Goal
  <2>1. req' = req
    BY <1>7 DEF OtherSlots
  <2>2. \A d \in Channels : {q \in Requests : Holds(q, d)'} = Holders(d)
    BY <2>1 DEF Holders, Holds, Channel
  <2>3. \A d \in Channels : /\ slots[d] = others[d] + Cardinality(Holders(d))
                            /\ slots[d] <= MaxConcurrency /\ Cardinality(Holders(d)) \in Nat
    BY HoldersFinite DEF SlotsAccounted, Holders
  <2>4. \A d \in Channels : /\ slots'[d] = others'[d] + Cardinality(Holders(d))
                            /\ slots'[d] <= MaxConcurrency
                            /\ slots'[d] \in Nat /\ others'[d] \in Nat
    <3>1. CASE /\ slots[c] < MaxConcurrency /\ slots' = [slots EXCEPT ![c] = @ + 1]
               /\ others' = [others EXCEPT ![c] = @ + 1]
      BY <1>0, <2>3, <3>1
    <3>2. CASE /\ others[c] > 0 /\ slots' = [slots EXCEPT ![c] = @ - 1]
               /\ others' = [others EXCEPT ![c] = @ - 1]
      BY <1>0, <2>3, <3>2
    <3> QED
      BY <1>7, <3>1, <3>2 DEF OtherSlots
  <2>5. slots' \in [Channels -> Nat] /\ others' \in [Channels -> Nat]
    BY <1>0, <1>7, <2>4 DEF OtherSlots
  <2> QED
    BY <2>2, <2>4, <2>5 DEF SlotsAccounted
<1>8. ASSUME \/ \E k \in Keys : CooldownEnds(k) \/ MarkEnds(k) \/ ClearCooldown(k) \/ OtherCools(k)
             \/ Settings \/ UNCHANGED rvars
      PROVE  Goal
  BY <1>1, <1>8 DEF CooldownEnds, MarkEnds, ClearCooldown, OtherCools, Settings, Pool, rvars
<1> HIDE DEF Goal
<1> QED
  BY <1>6, <1>7, <1>8 DEF RelayNext, Environment

-----------------------------------------------------------------------------
(* Cooldowns *)

(* Pools, cooldowns and marks keep their types, and in process no mark      *)
(* outlives its cooldown: what begins to cool anew loses its old mark, and  *)
(* a mark makes its key cool.                                               *)
LEMMA CooldownStep ==
  ASSUME RelayTypeOK, MarksFollowCooldowns, [RelayNext]_rvars
  PROVE  /\ coordinator' = coordinator
         /\ keyOn' \subseteq Keys /\ chanOn' \subseteq Channels
         /\ cooling' \subseteq Keys /\ marked' \subseteq Keys
         /\ MarksFollowCooldowns'
<1> DEFINE Goal ==
         /\ coordinator' = coordinator
         /\ keyOn' \subseteq Keys /\ chanOn' \subseteq Channels
         /\ cooling' \subseteq Keys /\ marked' \subseteq Keys
         /\ MarksFollowCooldowns'
<1> SUFFICES Goal
  OBVIOUS
<1>0. /\ coordinator \in Coordinators /\ keyOn \subseteq Keys /\ chanOn \subseteq Channels
      /\ cooling \subseteq Keys /\ marked \subseteq Keys
      /\ (coordinator = "mem" => marked \subseteq cooling)
      /\ (coordinator = "mem" \/ coordinator = "redis")
  BY RelayConstants DEF RelayTypeOK, MarksFollowCooldowns, RelayConstants
<1>1. ASSUME UNCHANGED <<coordinator, keyOn, chanOn, cooling, marked>> PROVE Goal
  BY <1>0, <1>1 DEF MarksFollowCooldowns
<1>2. ASSUME UNCHANGED <<coordinator, keyOn, chanOn>>, NEW ks \in SUBSET Keys, SetCooldown(ks)
      PROVE  Goal
  <2>1. CASE coordinator = "redis"
    BY <1>0, <1>2, <2>1 DEF SetCooldown, MarksFollowCooldowns
  <2>2. CASE coordinator = "mem"
    <3>1. PICK longer \in SUBSET (ks \cap cooling) : marked' = marked \ (longer \cup (ks \ cooling))
      BY <1>2, <2>2 DEF SetCooldown
    <3>2. cooling' = cooling \cup ks
      BY <1>2 DEF SetCooldown
    <3> QED
      BY <1>0, <1>2, <2>2, <3>1, <3>2 DEF MarksFollowCooldowns
  <2> QED
    BY <1>0, <2>1, <2>2
<1>3. ASSUME UNCHANGED <<coordinator, keyOn, chanOn>>, NEW k \in Keys, Mark(k) PROVE Goal
  BY <1>0, <1>3 DEF Mark, MarksFollowCooldowns
<1>4. ASSUME UNCHANGED <<coordinator, keyOn, chanOn, marked>>, NEW k \in Keys,
             cooling' = cooling \cup {k}
      PROVE  Goal
  BY <1>0, <1>4 DEF MarksFollowCooldowns
<1>5. ASSUME NEW r \in Requests, GoesOn(r) \/ ClientLeaves(r) PROVE Goal
  <2>1. CASE \/ SelectCandidates(r) \/ ClientGone(r) \/ Skip(r) \/ Try(r) \/ Exhausted(r)
             \/ ClientLeaves(r)
    BY <1>1, <2>1 DEF SelectCandidates, ClientGone, Skip, Try, Exhausted, ClientLeaves,
       LoopEnds, shared
  <2>2. CASE \/ AcquireSlot(r) \/ QueueTimeout(r) \/ Unsendable(r)
             \/ CallFails(r, "timeout") \/ CallFails(r, "broken")
             \/ KeyRefused(r) \/ ServerError(r) \/ Answers(r) \/ AnswerEnds(r) \/ BodyFails(r)
    BY <1>1, <2>2 DEF AcquireSlot, QueueTimeout, Unsendable, CallFails, KeyRefused,
       ServerError, Answers, AnswerEnds, BodyFails, Pool, Cooldowns
  <2>3. req[r].at \in Waiting => Key(r) \in Keys
    BY RowType DEF RelayTypeOK
  <2>4. CASE QuotaBackoff(r)
    BY <1>4, <2>3, <2>4 DEF QuotaBackoff, Pool, Waiting
  <2>5. CASE MarkQuotaCooling(r)
    BY <1>3, <2>3, <2>5 DEF MarkQuotaCooling, Pool, Waiting
  <2>6. CASE RateLimited(r)
    <3>1. req[r].pool \subseteq Keys
      BY RowType DEF ReqRow
    <3>2. CoolKeys(r) \in SUBSET Keys
      BY <2>3, <2>6, <3>1 DEF RateLimited, Waiting, CoolKeys
    <3> QED
      BY <1>2, <2>6, <3>2 DEF RateLimited, Pool
  <2> QED
    BY <1>5, <2>1, <2>2, <2>4, <2>5, <2>6 DEF GoesOn
<1>6. ASSUME NEW k \in Keys, CooldownEnds(k) \/ MarkEnds(k) \/ ClearCooldown(k) PROVE Goal
  BY <1>0, <1>6 DEF CooldownEnds, MarkEnds, ClearCooldown, Pool, MarksFollowCooldowns
<1>7. ASSUME NEW k \in Keys, OtherCools(k) PROVE Goal
  <2>1. {k} \in SUBSET Keys
    OBVIOUS
  <2> QED
    BY <1>2, <1>3, <1>4, <1>7, <2>1 DEF OtherCools, Pool
<1>8. ASSUME (\E c \in Channels : OtherSlots(c)) \/ UNCHANGED rvars PROVE Goal
  BY <1>1, <1>8 DEF OtherSlots, Cooldowns, rvars
<1>9. ASSUME Settings PROVE Goal
  BY <1>0, <1>9 DEF Settings, Cooldowns, MarksFollowCooldowns
<1> HIDE DEF Goal
<1> QED
  BY <1>5, <1>6, <1>7, <1>8, <1>9 DEF RelayNext, Environment
-----------------------------------------------------------------------------
(* Flags and statuses *)

(* The flags a failure leaves standing are those that speak of it *)
LEMMA KeptTells ==
  ASSUME NEW cause \in Causes \ {"cooling"}
  PROVE  /\ "onlyRateLimited" \in Kept(cause) <=> cause \in {"quota", "limited"}
         /\ "authOnly" \in Kept(cause) <=> cause \in {"refused"}
         /\ "quotaOnly" \in Kept(cause) <=> cause \in {"quota"}
         /\ "timeoutOnly" \in Kept(cause) <=> cause \in {"timeout"}
BY DEF Kept, Causes

(* Who ends a request with the status of its flags ends it with the cause: *)
(* a request that met nothing and skipped nothing still has a candidate    *)
(* and may try it.                                                         *)
LEMMA FinalTells ==
  ASSUME RelayTypeOK, NEW r \in Requests, FlagsTell(r), req[r].at = "loop",
         req[r].left # <<>> => ~WithinBudget(r)
  PROVE  FinalStatus(req[r]) = IF causes[r] = {"cooling"} THEN 504 ELSE Meaning(r)
<1>1. /\ req[r].tried \in Nat /\ req[r].skipped \in Nat /\ req[r].skippedQuota \in Nat
      /\ MaxCandidates \in Nat
  BY RelayConstants DEF RelayTypeOK, ReqRow, RelayConstants
<1>2. req[r].tried + req[r].skipped > 0
  <2>1. SUFFICES ASSUME req[r].tried = 0, req[r].skipped = 0 PROVE FALSE
    BY <1>1
  <2>2. req[r].left # <<>>
    BY <2>1 DEF FlagsTell
  <2>3. WithinBudget(r)
    BY <1>1, <2>1 DEF WithinBudget
  <2> QED
    BY <2>2, <2>3
<1> DEFINE met == Met(r)
           cool == "cooling" \in causes[r]
<1>3. causes[r] = {"cooling"} <=> cool /\ met = {}
  BY DEF Met
<1>4. Meaning(r) = IF met \subseteq {"quota"} /\ ~cool THEN 402
                   ELSE IF met = {"timeout"} THEN 504
                   ELSE IF met \subseteq {"quota", "limited"} THEN 429
                   ELSE IF met = {"refused"} THEN 503
                   ELSE 502
  BY DEF Meaning, Met
<1>5. FinalStatus(req[r]) = IF met \subseteq {"quota"} /\ ~cool THEN 402
                            ELSE IF met \subseteq {"timeout"} THEN 504
                            ELSE IF met \subseteq {"quota", "limited"} THEN 429
                            ELSE IF met \subseteq {"refused"} THEN 503
                            ELSE 502
  BY <1>2 DEF FinalStatus, FlagsTell
<1>6. \A x : met \subseteq {x} <=> met = {} \/ met = {x}
  OBVIOUS
<1> HIDE DEF met, cool
<1>7. "timeout" # "quota" /\ "timeout" # "limited" /\ "refused" # "quota" /\ "refused" # "limited"
  OBVIOUS
<1>8. CASE met = {}
  <2>1. CASE cool
    BY <1>3, <1>5, <1>8, <2>1
  <2>2. CASE ~cool
    BY <1>3, <1>4, <1>5, <1>8, <2>2
  <2> QED
    BY <2>1, <2>2
<1>9. CASE met # {}
  BY <1>3, <1>4, <1>5, <1>6, <1>7, <1>9
<1> QED
  BY <1>8, <1>9

(* What a request's own step does to its flags *)
LEMMA TellsStep ==
  ASSUME RelayTypeOK, NEW r \in Requests, FlagsTell(r), StatusTells(r), Shape(r)
  PROVE  FlagsTell(r)' /\ StatusTells(r)'
<1> DEFINE Goal == FlagsTell(r)' /\ StatusTells(r)'
<1> SUFFICES Goal
  OBVIOUS
<1>0. /\ req \in [Requests -> ReqRow] /\ req[r] \in ReqRow
      /\ causes \in [Requests -> SUBSET Causes] /\ chanOn \subseteq Channels
      /\ req[r].tried \in Nat /\ req[r].skipped \in Nat /\ req[r].skippedQuota \in Nat
  BY DEF RelayTypeOK, ReqRow
(* A step that only moves the request, and not to its end *)
<1>1. ASSUME causes' = causes,
             req'[r].flags = req[r].flags, req'[r].tried = req[r].tried,
             req'[r].skipped = req[r].skipped, req'[r].skippedQuota = req[r].skippedQuota,
             req'[r].at \in Waiting => req[r].tried > 0,
             req'[r].at = "loop" /\ req[r].tried = 0 /\ req[r].skipped = 0 => req'[r].left # <<>>
      PROVE  FlagsTell(r)'
  BY <1>1 DEF FlagsTell, Met
<1>2. ASSUME req'[r].at # "done" PROVE StatusTells(r)'
  BY <1>2 DEF StatusTells
<1>3. ASSUME NEW status, causes' = causes,
             req' = [req EXCEPT ![r].at = "done", ![r].status = status],
             \/ status \in {200, 400, 499}
             \/ status = IF causes[r] = {"cooling"} THEN 504 ELSE Meaning(r)
      PROVE  Goal
  <2>1. /\ req'[r].at = "done" /\ req'[r].status = status
        /\ req'[r].flags = req[r].flags /\ req'[r].tried = req[r].tried
        /\ req'[r].skipped = req[r].skipped /\ req'[r].skippedQuota = req[r].skippedQuota
    BY <1>0, <1>3 DEF ReqRow
  <2>2. FlagsTell(r)'
    BY <1>1, <1>3, <2>1 DEF Waiting
  <2>3. Meaning(r)' = Meaning(r)
    BY <1>3 DEF Meaning
  <2>4. StatusTells(r)'
    BY <1>3, <2>1, <2>3 DEF StatusTells
  <2> QED
    BY <2>2, <2>4
<1>4. ASSUME SelectCandidates(r) PROVE Goal
  <2>0. req[r].at = "new" /\ causes' = causes
    BY <1>4 DEF SelectCandidates
  <2>1. CASE req' = [req EXCEPT ![r].at = "refused", ![r].status = NoCandidate]
    <3>1. /\ req'[r].at = "refused"
          /\ req'[r].flags = req[r].flags /\ req'[r].tried = req[r].tried
          /\ req'[r].skipped = req[r].skipped /\ req'[r].skippedQuota = req[r].skippedQuota
      BY <1>0, <2>1 DEF ReqRow
    <3>2. "refused" \notin Waiting
      BY DEF Waiting
    <3>3. FlagsTell(r)'
      BY <1>1, <2>0, <3>1, <3>2
    <3> QED
      BY <1>2, <3>1, <3>3
  <2>2. ASSUME Candidates # {}, NEW s \in Orders, NEW pool,
               req' = [req EXCEPT ![r].at = "loop", ![r].left = s, ![r].pool = pool]
        PROVE  Goal
    <3>1. /\ req'[r].at = "loop" /\ req'[r].left = s
          /\ req'[r].flags = req[r].flags /\ req'[r].tried = req[r].tried
          /\ req'[r].skipped = req[r].skipped /\ req'[r].skippedQuota = req[r].skippedQuota
      BY <1>0, <2>2 DEF ReqRow
    <3>2. "loop" \notin Waiting /\ s # <<>>
      BY <1>0, <2>2, OrderType DEF Waiting
    <3>3. FlagsTell(r)'
      BY <1>1, <2>0, <3>1, <3>2
    <3> QED
      BY <1>2, <3>1, <3>3
  <2> HIDE DEF Goal
  <2> QED
    BY <1>4, <2>1, <2>2 DEF SelectCandidates
<1>5. ASSUME ClientGone(r) PROVE Goal
  BY <1>3, <1>5, ZenonT(30) DEF ClientGone, LoopEnds
<1>6. ASSUME Exhausted(r) PROVE Goal
  <2>1. req[r].at = "loop" /\ (req[r].left # <<>> => ~WithinBudget(r))
    BY <1>6 DEF Exhausted, Loop
  <2>2. FinalStatus(req[r]) = IF causes[r] = {"cooling"} THEN 504 ELSE Meaning(r)
    BY <2>1, FinalTells
  <2> QED
    BY <1>3, <1>6, <2>2, ZenonT(30) DEF Exhausted, LoopEnds
<1>7. ASSUME Skip(r) PROVE Goal
  <2>0. PICK quota \in {FALSE, Key(r) \in marked} :
          /\ SkipCooling(r, quota)
          /\ causes' = [causes EXCEPT ![r] = @ \cup IF quota THEN {} ELSE {"cooling"}]
    BY <1>7 DEF Skip
  <2>1. req[r].at = "loop" /\ quota \in BOOLEAN
    <3>1. (Key(r) \in marked) \in BOOLEAN /\ FALSE \in BOOLEAN
      OBVIOUS
    <3>2. quota \in BOOLEAN
      BY <3>1, Zenon
    <3> QED
      BY <1>7, <3>2 DEF Skip, Loop
  <2>2. /\ req'[r].at = "loop" /\ req'[r].flags = req[r].flags
        /\ req'[r].skipped = req[r].skipped + 1
        /\ req'[r].skippedQuota = IF quota THEN req[r].skippedQuota + 1 ELSE req[r].skippedQuota
    BY <1>0, <2>0, <2>1 DEF SkipCooling, ReqRow
  <2>3. causes'[r] = causes[r] \cup IF quota THEN {} ELSE {"cooling"}
    BY <1>0, <2>0
  <2>4. Met(r)' = Met(r) /\ ("cooling" \in causes'[r] <=> "cooling" \in causes[r] \/ ~quota)
    BY <2>1, <2>3 DEF Met
  <2>5. /\ req'[r].skippedQuota <= req'[r].skipped /\ req'[r].skipped # 0
        /\ req'[r].skippedQuota = req'[r].skipped
             <=> req[r].skippedQuota = req[r].skipped /\ quota
    <3>1. req[r].skippedQuota <= req[r].skipped
      BY DEF FlagsTell
    <3>2. CASE quota
      BY <1>0, <2>2, <3>1, <3>2
    <3>3. CASE ~quota
      BY <1>0, <2>2, <3>1, <3>3
    <3> QED
      BY <2>1, <3>2, <3>3
  <2>6. FlagsTell(r)'
    BY <2>2, <2>4, <2>5 DEF FlagsTell, Waiting
  <2> QED
    BY <1>2, <2>2, <2>6
<1>8. ASSUME Try(r) PROVE Goal
  <2>1. /\ req'[r].at = "queue" /\ req'[r].tried = req[r].tried + 1
        /\ req'[r].flags = req[r].flags /\ causes' = causes
        /\ req'[r].skipped = req[r].skipped /\ req'[r].skippedQuota = req[r].skippedQuota
    BY <1>0, <1>8 DEF Try, ReqRow
  <2>2. req'[r].tried > 0
    BY <1>0, <2>1
  <2>3. FlagsTell(r)'
    BY <2>1, <2>2 DEF FlagsTell, Met
  <2> QED
    BY <1>2, <2>1, <2>3
<1>9. ASSUME ClientLeaves(r) PROVE Goal
  <2>1. /\ req'[r].at = req[r].at /\ req'[r].left = req[r].left
        /\ req'[r].tried = req[r].tried
        /\ req'[r].flags = req[r].flags /\ causes' = causes
        /\ req'[r].skipped = req[r].skipped /\ req'[r].skippedQuota = req[r].skippedQuota
        /\ req[r].at # "done"
    BY <1>0, <1>9 DEF ClientLeaves, ReqRow
  <2>2. FlagsTell(r)'
    BY <2>1 DEF FlagsTell, Met
  <2> QED
    BY <1>2, <2>1, <2>2
<1>10. ASSUME Moves(r) PROVE Goal
  <2>1. PICK w \in Waiting : req' = [req EXCEPT ![r].at = w]
    BY <1>10 DEF Moves
  <2>2. /\ req'[r].at = w /\ req'[r].left = req[r].left
        /\ req'[r].tried = req[r].tried
        /\ req'[r].flags = req[r].flags /\ causes' = causes
        /\ req'[r].skipped = req[r].skipped /\ req'[r].skippedQuota = req[r].skippedQuota
        /\ req[r].at \in Waiting
    BY <1>0, <1>10, <2>1 DEF Moves, ReqRow
  <2>3. req[r].tried > 0 /\ w # "done" /\ w # "loop"
    BY <2>2 DEF FlagsTell, Waiting
  <2>4. FlagsTell(r)'
    BY <1>1, <2>2, <2>3
  <2> QED
    BY <1>2, <2>2, <2>3, <2>4
<1>11. ASSUME Falls(r) PROVE Goal
  <2>1. PICK cause \in Causes \ {"cooling"}, left \in Seq(Cands) : Fails(r, cause, left)
    BY <1>11 DEF Falls
  <2>2. /\ req'[r].at = "loop" /\ req'[r].flags = req[r].flags \cap Kept(cause)
        /\ req'[r].tried = req[r].tried
        /\ req'[r].skipped = req[r].skipped /\ req'[r].skippedQuota = req[r].skippedQuota
        /\ causes'[r] = causes[r] \cup {cause}
    BY <1>0, <2>1 DEF Fails, ReqRow
  <2>3. /\ \A S : Met(r)' \subseteq S <=> Met(r) \subseteq S /\ cause \in S
        /\ "cooling" \in causes'[r] <=> "cooling" \in causes[r]
    BY <2>1, <2>2 DEF Met
  <2>4. req[r].tried > 0
    BY <1>11 DEF Falls, FlagsTell
  <2>5. req'[r].tried # 0
    BY <1>0, <2>2, <2>4
  <2>6. FlagsTell(r)'
    <3>1. \A f : f \in req'[r].flags <=> f \in req[r].flags /\ f \in Kept(cause)
      BY <2>2
    <3>2. "onlyRateLimited" \in req'[r].flags <=> Met(r)' \subseteq {"quota", "limited"}
      BY <2>1, <2>3, <3>1, KeptTells DEF FlagsTell
    <3>3. "authOnly" \in req'[r].flags <=> Met(r)' \subseteq {"refused"}
      BY <2>1, <2>3, <3>1, KeptTells DEF FlagsTell
    <3>4. "quotaOnly" \in req'[r].flags <=> Met(r)' \subseteq {"quota"}
      BY <2>1, <2>3, <3>1, KeptTells DEF FlagsTell
    <3>5. "timeoutOnly" \in req'[r].flags <=> Met(r)' \subseteq {"timeout"}
      BY <2>1, <2>3, <3>1, KeptTells DEF FlagsTell
    <3>6. /\ req'[r].skippedQuota <= req'[r].skipped
          /\ req'[r].skippedQuota = req'[r].skipped <=> "cooling" \notin causes'[r]
          /\ req'[r].at \notin Waiting
      BY <2>2, <2>3 DEF FlagsTell, Waiting
    <3> QED
      BY <2>5, <3>2, <3>3, <3>4, <3>5, <3>6 DEF FlagsTell
  <2> QED
    BY <1>2, <2>2, <2>6
<1>12. ASSUME Ends(r) PROVE Goal
  <2>1. PICK status \in {200, 400, 499} : Finishes(r, status)
    BY <1>12 DEF Ends
  <2> QED
    BY <1>3, <2>1 DEF Finishes
<1> HIDE DEF Goal
<1> QED
  BY <1>4, <1>5, <1>6, <1>7, <1>8, <1>9, <1>10, <1>11, <1>12 DEF Shape

(* A step of one request leaves the others alone *)
LEMMA ShapeFrame ==
  ASSUME RelayTypeOK, NEW r \in Requests, Shape(r)
  PROVE  \A p \in Requests : p # r => req'[p] = req[p] /\ causes'[p] = causes[p]
<1>0. req \in [Requests -> ReqRow] /\ causes \in [Requests -> SUBSET Causes]
  BY DEF RelayTypeOK
<1>1. ASSUME NEW p \in Requests, p # r PROVE req'[p] = req[p] /\ causes'[p] = causes[p]
  <2>1. CASE SelectCandidates(r)
    BY <1>0, <1>1, <2>1 DEF SelectCandidates
  <2>2. CASE ClientGone(r) \/ Exhausted(r)
    BY <1>0, <1>1, <2>2 DEF ClientGone, Exhausted, LoopEnds
  <2>3. CASE Skip(r)
    BY <1>0, <1>1, <2>3 DEF Skip, SkipCooling
  <2>4. CASE Try(r)
    BY <1>0, <1>1, <2>4 DEF Try
  <2>5. CASE ClientLeaves(r)
    BY <1>0, <1>1, <2>5 DEF ClientLeaves
  <2>6. CASE Moves(r)
    BY <1>0, <1>1, <2>6 DEF Moves
  <2>7. CASE Falls(r)
    BY <1>0, <1>1, <2>7 DEF Falls, Fails
  <2>8. CASE Ends(r)
    BY <1>0, <1>1, <2>8 DEF Ends, Finishes
  <2> QED
    BY <2>1, <2>2, <2>3, <2>4, <2>5, <2>6, <2>7, <2>8 DEF Shape
<1> QED
  BY <1>1

(* Every step keeps the flags and statuses of all requests *)
LEMMA StatusStep ==
  ASSUME RelayInv, [RelayNext]_rvars
  PROVE  \A p \in Requests : FlagsTell(p)' /\ StatusTells(p)'
<1>0. RelayTypeOK /\ \A p \in Requests : FlagsTell(p) /\ StatusTells(p)
  BY DEF RelayInv
<1>1. ASSUME NEW p \in Requests, req'[p] = req[p], causes'[p] = causes[p]
      PROVE  FlagsTell(p)' /\ StatusTells(p)'
  BY <1>0, <1>1 DEF FlagsTell, StatusTells, Met, Meaning
<1>2. CASE UNCHANGED <<req, causes>>
  BY <1>1, <1>2
<1>3. ASSUME NEW r \in Requests, Shape(r), NEW p \in Requests
      PROVE  FlagsTell(p)' /\ StatusTells(p)'
  <2>1. CASE p = r
    BY <1>0, <1>3, <2>1, TellsStep
  <2>2. CASE p # r
    BY <1>0, <1>1, <1>3, <2>2, ShapeFrame
  <2> QED
    BY <2>1, <2>2
<1> QED
  BY <1>0, <1>2, <1>3, StepShapes

-----------------------------------------------------------------------------
(* The theorems *)

(* The invariant holds at first *)
LEMMA RelayStart == RelayInit => RelayInv
<1> SUFFICES ASSUME RelayInit PROVE RelayInv
  OBVIOUS
<1>1. NewRequest \in ReqRow /\ NewRequest.at = "new"
  BY DEF NewRequest, ReqRow, Flags, Statuses
<1>2. "new" \notin Waiting
  BY DEF Waiting
<1>3. \A r \in Requests : req[r] = NewRequest /\ causes[r] = {}
  BY DEF RelayInit
<1>4. RelayTypeOK
  <2>1. req \in [Requests -> ReqRow] /\ causes \in [Requests -> SUBSET Causes]
    BY <1>1 DEF RelayInit
  <2>2. slots \in [Channels -> Nat] /\ others \in [Channels -> Nat]
    BY DEF RelayInit
  <2> QED
    BY <1>1, <1>2, <1>3, <2>1, <2>2 DEF RelayInit, RelayTypeOK
<1>5. MarksFollowCooldowns
  BY DEF RelayInit, MarksFollowCooldowns
<1>6. SlotsAccounted
  <2>1. \A c \in Channels : {r \in Requests : Holds(r, c)} = {}
    BY <1>1, <1>3 DEF Holds
  <2>2. Cardinality({}) = 0
    BY FS_EmptySet
  <2>3. \A c \in Channels : slots[c] = 0 /\ others[c] = 0
    BY DEF RelayInit
  <2> QED
    BY <2>1, <2>2, <2>3, RelayConstants DEF SlotsAccounted, RelayConstants
<1>7. ASSUME NEW r \in Requests PROVE FlagsTell(r) /\ StatusTells(r)
  <2>1. req[r] = NewRequest /\ causes[r] = {}
    BY <1>3
  <2>2. Met(r) = {}
    BY <2>1 DEF Met
  <2> QED
    BY <2>1, <2>2 DEF FlagsTell, StatusTells, NewRequest, Flags, Waiting
<1> QED
  BY <1>4, <1>5, <1>6, <1>7 DEF RelayInv

(* Every step keeps the invariant *)
LEMMA RelayStep == RelayInv /\ [RelayNext]_rvars => RelayInv'
<1> SUFFICES ASSUME RelayInv, [RelayNext]_rvars PROVE RelayInv'
  OBVIOUS
<1>0. RelayTypeOK /\ MarksFollowCooldowns /\ SlotsAccounted
  BY DEF RelayInv
<1>1. SlotsAccounted' /\ slots' \in [Channels -> Nat] /\ others' \in [Channels -> Nat]
  BY <1>0, SlotStep
<1>2. /\ coordinator' = coordinator /\ keyOn' \subseteq Keys /\ chanOn' \subseteq Channels
      /\ cooling' \subseteq Keys /\ marked' \subseteq Keys /\ MarksFollowCooldowns'
  BY <1>0, CooldownStep
<1>3. /\ req' \in [Requests -> ReqRow]
      /\ \A p \in Requests : req'[p].at \in Waiting => req'[p].left # <<>>
      /\ causes' \in [Requests -> SUBSET Causes]
  BY <1>0, RequestTypes
<1>4. RelayTypeOK'
  BY <1>0, <1>1, <1>2, <1>3 DEF RelayTypeOK
<1>5. \A p \in Requests : FlagsTell(p)' /\ StatusTells(p)'
  BY StatusStep
<1> QED
  BY <1>1, <1>2, <1>4, <1>5 DEF RelayInv

(* The inductive invariant *)
LEMMA RelayInvariant == RelaySpec => []RelayInv
<1>1. RelayInit => RelayInv
  BY RelayStart
<1>2. RelayInv /\ [RelayNext]_rvars => RelayInv'
  BY RelayStep
<1> QED
  BY <1>1, <1>2, PTL DEF RelaySpec

(* The relay keeps its types: in particular the next candidates are always *)
(* candidates and a request that waits is at one (handler.go:563).         *)
THEOREM RelayTypesCorrect == RelaySpec => []RelayTypeOK
<1>1. RelayInv => RelayTypeOK
  BY DEF RelayInv
<1> QED
  BY <1>1, RelayInvariant, PTL

(* In process a quota mark never outlives its cooldown, although other     *)
(* requests cool, mark and clear between the two steps that set them       *)
(* (mem.go:87, coord.go:30).                                               *)
THEOREM MarksStay == RelaySpec => []MarksFollowCooldowns
<1>1. RelayInv => MarksFollowCooldowns
  BY DEF RelayInv
<1> QED
  BY <1>1, RelayInvariant, PTL

(* However attempts end and clients leave, a channel's slots are those of  *)
(* the requests that hold one, and never above its limit (handler.go:579). *)
THEOREM SlotsReturned == RelaySpec => []SlotsAccounted
<1>1. RelayInv => SlotsAccounted
  BY DEF RelayInv
<1> QED
  BY <1>1, RelayInvariant, PTL

(* The flags a request carries through any number of keys and channels end *)
(* in the status that tells what they met, in whatever order               *)
(* (handler.go:886).                                                       *)
THEOREM StatusTold == RelaySpec => []StatusTellsCause
<1>1. RelayInv => StatusTellsCause
  BY DEF RelayInv, StatusTells, StatusTellsCause
<1> QED
  BY <1>1, RelayInvariant, PTL
=============================================================================
