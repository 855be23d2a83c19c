-------------------------- MODULE BackgroundProofs --------------------------
(***************************************************************************)
(* The monthly close and the warnings, for any number of instances, months *)
(* and rows, any retention, levels and limits.                             *)
(***************************************************************************)
EXTENDS MonthlyClose, Alerts, FiniteSetTheorems, NaturalsInduction,
        WellFoundedInduction, TLAPS

-----------------------------------------------------------------------------
(* Invariants of the log and its archive *)

(* A settlement under way was stamped this month or, before the late part,  *)
(* at the end of the last.                                                  *)
Stamped ==
  \A r \in open : /\ r \notin charged
                  /\ r[1] \in {now - 1, now}
                  /\ late => r[1] = now

(* Rows within the retention are in the log *)
Kept ==
  \A r \in charged : /\ r[1] <= now
                     /\ r[1] >= now - Retention => r \in logs

InReach ==
  \A n \in Nodes : arch[n].at # "idle" =>
    arch[n].month < arch[n].until /\ arch[n].until <= now - Retention

(* A file with a row of a month has every row the log has of it *)
Filed ==
  \A n \in Nodes : \A r \in file[n] :
    r[1] < now - Retention /\ Of(r[1], logs) \subseteq file[n]

Archiving ==
  \A n \in Nodes :
    /\ arch[n].at = "count" => arch[n].got = {} /\ arch[n].last = 0
    /\ arch[n].at = "export" =>
         /\ Of(arch[n].month, file[n]) = {}
         /\ \A r \in arch[n].got : r[1] = arch[n].month
         /\ \A r \in Of(arch[n].month, logs) : r[2] <= arch[n].last => r \in arch[n].got
    /\ arch[n].at = "delete" => Of(arch[n].month, logs) \subseteq file[n]

(* Invariants of the balances *)

(* What a balance of month m says of the months, settlements under way and  *)
(* settlements there are                                                    *)
Fits(m, row, at, under, done) ==
  ~row.early =>
    /\ m < at
    /\ row.missed = 0 => UpTo(m, under) = {}
    /\ ~row.hollow => row.used + row.missed = Cardinality(UpTo(m, done \cup under))

Booked(m, row) == Fits(m, row, now, open, charged)

Books ==
  /\ \A m \in Periods : Closed(m) => Booked(m, balance[m])
  /\ \A w \in Writers : job[w].at = "read" => Booked(job[w].period, job[w].row)

Recent ==
  \A n \in Nodes : job[n].at \in {"claimed", "read"} => job[n].period >= now - 1

(* A bill holds balances that stay right, and a level that has every        *)
(* settlement up to a sound opening.                                        *)
Held(m, row) == row # None => Booked(m, row)

Copied ==
  /\ bill # NoBill => Held(bill.month - 1, bill.opening) /\ Held(bill.month, bill.closing)
  /\ bill.at = "sum" =>
       /\ bill.seen \subseteq charged
       /\ Sound(bill.opening) => UpTo(bill.month - 1, charged) \subseteq bill.seen

CloseInv ==
  /\ CloseTypeOK /\ Stamped /\ Kept /\ InReach /\ Filed /\ Archiving
  /\ Books /\ Recent /\ Copied /\ NothingLost

(* The warnings *)

AlertInv ==
  /\ AlertTypeOK
  /\ mailed \in [Ranks -> {0, 1}]
  /\ \A k \in Ranks \ {Points} : org.level < k => mailed[k] = 0
  /\ ~org.hit => mailed[Points] = 0
-----------------------------------------------------------------------------
(* Smallest and largest members *)

Below == {p \in Nat \X Nat : p[1] < p[2]}

(* A set of numbers that is not empty has a smallest *)
LEMMA Smallest ==
  ASSUME NEW S \in SUBSET Nat, S # {}
  PROVE  \E x \in S : \A y \in S : x <= y
<1>1. IsWellFoundedOn(Below, Nat)
  BY NatLessThanWellFounded DEF OpToRel, Below
<1>2. PICK x \in S : \A y \in S : ~(<<y, x>> \in Below)
  BY <1>1, WFMin
<1>3. ASSUME NEW y \in S PROVE x <= y
  <2>1. x \in Nat /\ y \in Nat
    OBVIOUS
  <2>2. ~(y < x)
    BY <1>2, <2>1 DEF Below
  <2> QED
    BY <2>1, <2>2
<1> QED
  BY <1>3

(* A bounded one has a largest *)
LEMMA Largest ==
  ASSUME NEW n \in Nat, NEW S \in SUBSET (0..n), S # {}
  PROVE  \E x \in S : \A y \in S : x >= y
<1> DEFINE T == {n - y : y \in S}
<1>1. T \in SUBSET Nat /\ T # {}
  <2>1. \A y \in S : n - y \in Nat
    OBVIOUS
  <2>2. PICK y \in S : TRUE
    OBVIOUS
  <2>3. n - y \in T
    BY <2>2
  <2> QED
    BY <2>1, <2>3
<1>2. PICK t \in T : \A u \in T : t <= u
  <2> HIDE DEF T
  <2> QED BY <1>1, Smallest
<1>3. PICK x \in S : t = n - x
  BY <1>2
<1>4. ASSUME NEW y \in S PROVE x >= y
  <2>1. n - x <= n - y
    BY <1>2, <1>3
  <2> QED
    BY <2>1
<1> QED
  BY <1>4

-----------------------------------------------------------------------------
(* The warnings *)

(* Levels are ranked by their places in a list *)
LEMMA RanksNumbers == Ranks \subseteq Nat /\ Points \in Ranks
<1> DEFINE U == UNION {DOMAIN l : l \in LevelChoices}
<1>0. Ranks = U \cup {0} /\ Points = 0
  BY DEF Ranks, Points
<1>1. ASSUME NEW l \in LevelChoices PROVE DOMAIN l \subseteq Nat
  <2>1. l \in Seq(Nat)
    BY AlertConstants DEF AlertConstants
  <2> QED
    BY <2>1
<1>2. ASSUME NEW k \in U PROVE k \in Nat
  <2>1. PICK D \in {DOMAIN l : l \in LevelChoices} : k \in D
    OBVIOUS
  <2> QED
    BY <1>1, <2>1
<1> HIDE DEF U
<1> QED
  BY <1>0, <1>2

(* The level a row has reached is one of its list, or none *)
LEMMA BracketRanks ==
  ASSUME NEW o \in OrgRow
  PROVE  Bracket(o) \in Ranks
<1> DEFINE T == {0} \cup {k \in DOMAIN o.levels : o.used * 100 >= o.limit * o.levels[k]}
<1>1. o.levels \in LevelChoices /\ o.levels \in Seq(Nat)
  BY AlertConstants DEF AlertConstants, OrgRow
<1>2. Len(o.levels) \in Nat /\ T \in SUBSET (0..Len(o.levels)) /\ T # {}
  BY <1>1
<1>3. T \subseteq Ranks
  <2>1. DOMAIN o.levels \in {DOMAIN l : l \in LevelChoices}
    BY <1>1
  <2> DEFINE U == UNION {DOMAIN l : l \in LevelChoices}
  <2>2. DOMAIN o.levels \subseteq U
    BY <2>1
  <2>4. Ranks = U \cup {0}
    BY DEF Ranks, Points
  <2>3. T \subseteq {0} \cup DOMAIN o.levels
    OBVIOUS
  <2> HIDE DEF T, U
  <2> QED
    BY <2>2, <2>3, <2>4
<1>4. Bracket(o) = Max(T)
  BY DEF Bracket
<1> HIDE DEF T
<1>5. \E x \in T : \A y \in T : x >= y
  BY <1>2, Largest
<1>6. Max(T) \in T
  BY <1>5 DEF Max
<1> QED
  BY <1>3, <1>4, <1>6

(* What each action does to the row and the mails *)
LEMMA AlertStep ==
  ASSUME AlertInv, [AlertNext]_alertVars
  PROVE  AlertInv'
<1> USE DEF AlertInv
<1>0. AlertTypeOK /\ Ranks \subseteq Nat /\ Points \in Ranks
  BY RanksNumbers
<1>1. ASSUME NEW c \in Checks, NEW g \in Gates, Settle(c, g) PROVE AlertInv'
  <2>1. org.used + 1 \in 0..MaxUsed
    BY <1>0, <1>1, AlertConstants DEF AlertTypeOK, OrgRow, Settle, AlertConstants
  <2>2. org' \in OrgRow /\ org'.level = org.level /\ org'.hit = org.hit
    BY <1>0, <1>1, <2>1 DEF AlertTypeOK, OrgRow, Settle
  <2>3. check' \in [Checks -> CheckRow]
    BY <1>0, <1>1 DEF AlertTypeOK, Settle, Starts, CheckRow
  <2> QED
    BY <1>0, <1>1, <2>2, <2>3 DEF AlertTypeOK, Settle
<1>2. ASSUME NEW c \in Checks, NEW g \in Gates, Recheck(c, g) PROVE AlertInv'
  <2>1. check' \in [Checks -> CheckRow]
    BY <1>0, <1>2 DEF AlertTypeOK, Recheck, Starts, CheckRow
  <2> QED
    BY <1>0, <1>2, <2>1 DEF AlertTypeOK, Recheck
<1>3. ASSUME NEW c \in Checks, Enter(c) PROVE AlertInv'
  <2>1. check[c] \in CheckRow /\ check[c].at = "enter"
    BY <1>0, <1>3 DEF AlertTypeOK, Enter
  <2>2. check[c].gate \in Gates /\ [check[c] EXCEPT !.at = "read"] \in CheckRow
    BY <2>1 DEF CheckRow, Rest
  <2>3. check' \in [Checks -> CheckRow]
    BY <1>0, <1>3, <2>2 DEF AlertTypeOK, Enter, CheckRow
  <2>4. recheck' \in [Gates -> BOOLEAN]
    BY <1>0, <1>3, <2>2 DEF AlertTypeOK, Enter, Throttled
  <2> QED
    BY <1>0, <1>3, <2>3, <2>4 DEF AlertTypeOK, Enter
<1>4. ASSUME NEW c \in Checks, Read(c) PROVE AlertInv'
  <2>1. check[c] \in CheckRow /\ check[c].at = "read"
    BY <1>0, <1>4 DEF AlertTypeOK, Read
  <2>2. check[c].gate \in Gates
    BY <2>1 DEF CheckRow, Rest
  <2>3. [at |-> "level", gate |-> check[c].gate, seen |-> org] \in CheckRow /\ Rest \in CheckRow
    BY <1>0, <2>2 DEF CheckRow, AlertTypeOK
  <2>4. check' \in [Checks -> CheckRow]
    BY <1>0, <1>4, <2>3 DEF AlertTypeOK, Read
  <2>5. window' \in [Gates -> BOOLEAN]
    BY <1>0, <1>4, <2>2 DEF AlertTypeOK, Read
  <2> QED
    BY <1>0, <1>4, <2>4, <2>5 DEF AlertTypeOK, Read
<1>5. ASSUME NEW c \in Checks, CheckLevel(c) PROVE AlertInv'
  <2> DEFINE seen == check[c].seen
             k == Bracket(seen)
  <2>1. check[c] \in CheckRow /\ check[c].at = "level"
    BY <1>0, <1>5 DEF AlertTypeOK, CheckLevel
  <2>2. seen \in OrgRow /\ [check[c] EXCEPT !.at = "balance"] \in CheckRow /\ Rest \in CheckRow
    BY <2>1 DEF CheckRow, Rest
  <2>3. k \in Ranks
    BY <2>2, BracketRanks
  <2>4. check' \in [Checks -> CheckRow]
    BY <1>0, <1>5, <2>2 DEF AlertTypeOK, CheckLevel
  <2>5. seen.level \in Nat /\ org.level \in Nat /\ k \in Nat /\ org \in OrgRow
    BY <1>0, <2>2, <2>3 DEF AlertTypeOK, OrgRow
  <2>6. owed' \in BOOLEAN
    BY <1>0, <1>5 DEF AlertTypeOK, CheckLevel
  <2>7. \/ UNCHANGED <<org, mailed>>
        \/ k > seen.level /\ org.level < k /\ SetLevel(k) /\ Mail(k)
        \/ SetLevel(k) /\ mailed' = Unmailed(k)
    BY <1>5 DEF CheckLevel, Wins
  <2> HIDE DEF k, seen
  <2>8. CASE UNCHANGED <<org, mailed>>
    BY <1>0, <1>5, <2>4, <2>6, <2>8 DEF AlertTypeOK, CheckLevel
  <2>9. ASSUME k > seen.level, org.level < k, SetLevel(k), Mail(k) PROVE AlertInv'
    <3>1. org' \in OrgRow /\ org'.level = k /\ org'.hit = org.hit
      BY <2>3, <2>5, <2>9 DEF SetLevel, OrgRow
    <3>2. k # Points /\ mailed[k] = 0
      BY <2>3, <2>5, <2>9 DEF Points
    <3>3. mailed' = [mailed EXCEPT ![k] = 1]
      BY <3>2, <2>9 DEF Mail
    <3>4. mailed' \in [Ranks -> {0, 1}] /\ mailed'[Points] = mailed[Points]
      BY <1>0, <2>3, <3>2, <3>3
    <3>5. \A j \in Ranks \ {Points} : org'.level < j => mailed'[j] = 0
      BY <1>0, <2>3, <2>5, <2>9, <3>1, <3>3
    <3> QED
      BY <1>0, <1>5, <2>4, <2>6, <3>1, <3>4, <3>5 DEF AlertTypeOK, CheckLevel
  <2>10. ASSUME SetLevel(k), mailed' = Unmailed(k) PROVE AlertInv'
    <3>1. org' \in OrgRow /\ org'.level = k /\ org'.hit = org.hit
      BY <2>3, <2>5, <2>10 DEF SetLevel, OrgRow
    <3>2. mailed' \in [Ranks -> {0, 1}] /\ mailed'[Points] = mailed[Points]
      BY <1>0, <2>10 DEF Unmailed
    <3>3. \A j \in Ranks \ {Points} : org'.level < j => mailed'[j] = 0
      BY <2>10, <3>1 DEF Unmailed
    <3> QED
      BY <1>0, <1>5, <2>4, <2>6, <3>1, <3>2, <3>3 DEF AlertTypeOK, CheckLevel
  <2> QED
    BY <2>7, <2>8, <2>9, <2>10
<1>6. ASSUME NEW c \in Checks, CheckBalance(c) PROVE AlertInv'
  <2> DEFINE s == Short(check[c].seen)
  <2>1. check[c] \in CheckRow /\ check[c].at = "balance"
    BY <1>0, <1>6 DEF AlertTypeOK, CheckBalance
  <2>2. s \in BOOLEAN
    BY DEF Short
  <2>3. org' = [org EXCEPT !.hit = s] /\ org \in OrgRow
    BY <1>0, <1>6 DEF AlertTypeOK, CheckBalance
  <2>4. IF s THEN IF org.hit THEN UNCHANGED mailed ELSE Mail(Points)
        ELSE mailed' = [mailed EXCEPT ![Points] = 0]
    BY <1>6 DEF CheckBalance
  <2>5. check' \in [Checks -> CheckRow]
    BY <1>0, <1>6 DEF AlertTypeOK, CheckBalance, CheckRow
  <2>6. owed' \in BOOLEAN
    BY <1>0, <1>6 DEF AlertTypeOK, CheckBalance
  <2> HIDE DEF s
  <2>7. org' \in OrgRow /\ org'.level = org.level /\ org'.hit = s
    BY <2>2, <2>3 DEF OrgRow
  <2>8. /\ mailed' \in [Ranks -> {0, 1}]
        /\ \A j \in Ranks \ {Points} : mailed'[j] = mailed[j]
        /\ ~s => mailed'[Points] = 0
    BY <1>0, <2>4 DEF Mail
  <2> QED
    BY <1>0, <1>6, <2>5, <2>6, <2>7, <2>8 DEF AlertTypeOK, CheckBalance
<1>7. ASSUME NEW c \in Checks, CheckFails(c) PROVE AlertInv'
  <2>1. check[c] \in CheckRow /\ check[c].at \in {"read", "level", "balance"}
    BY <1>0, <1>7 DEF AlertTypeOK, CheckFails
  <2>2. check[c].gate \in Gates
    BY <2>1 DEF CheckRow, Rest
  <2>3. check[c].at = "level" => [check[c] EXCEPT !.at = "balance"] \in CheckRow
    BY <2>1 DEF CheckRow, Rest
  <2>4. check' \in [Checks -> CheckRow]
    <3>1. Rest \in CheckRow
      BY DEF CheckRow
    <3> QED
      BY <1>0, <1>7, <2>3, <3>1 DEF AlertTypeOK, CheckFails
  <2>5. window' \in [Gates -> BOOLEAN]
    BY <1>0, <1>7, <2>2 DEF AlertTypeOK, CheckFails
  <2> QED
    BY <1>0, <1>7, <2>4, <2>5 DEF AlertTypeOK, CheckFails
<1>8. ASSUME NEW g \in Gates, WindowEnds(g) PROVE AlertInv'
  BY <1>0, <1>8 DEF AlertTypeOK, WindowEnds
<1>9. ASSUME NEW g \in Gates, Stop(g) PROVE AlertInv'
  <2>1. check' \in [Checks -> CheckRow]
    BY <1>0, <1>9 DEF AlertTypeOK, Stop, CheckRow
  <2>2. edit' \in EditRow
    BY <1>0, <1>9 DEF AlertTypeOK, Stop, EditRow
  <2> QED
    BY <1>0, <1>9, <2>1, <2>2 DEF AlertTypeOK, Stop
<1>10. ASSUME NEW q \in Budgets, SetLimit(q) PROVE AlertInv'
  <2>1. org' \in OrgRow /\ org'.level = org.level /\ org'.hit = org.hit
    BY <1>0, <1>10 DEF AlertTypeOK, OrgRow, SetLimit
  <2> QED
    BY <1>0, <1>10, <2>1 DEF AlertTypeOK, SetLimit
<1>11. ASSUME NEW l \in LevelChoices, NEW b \in BalanceChoices, Configure(l, b) PROVE AlertInv'
  <2>1. org' \in OrgRow /\ org'.level = org.level /\ org'.hit = org.hit
    BY <1>0, <1>11 DEF AlertTypeOK, OrgRow, Configure
  <2> QED
    BY <1>0, <1>11, <2>1 DEF AlertTypeOK, Configure, EditRow
<1>12. CASE Recompute
  <2>1. Bracket(org) \in Ranks
    BY <1>0, BracketRanks DEF AlertTypeOK
  <2>2. edit' \in EditRow
    BY <1>0, <1>12, <2>1 DEF Recompute, EditRow, Short, Points
  <2> QED
    BY <1>0, <1>12, <2>2 DEF AlertTypeOK, Recompute
<1>13. CASE WriteLevel
  <2>1. edit \in EditRow /\ edit.at = "write"
    BY <1>0, <1>13 DEF AlertTypeOK, WriteLevel
  <2>2. edit.level \in Ranks /\ edit.hit \in BOOLEAN
    BY <2>1 DEF EditRow, Rest
  <2>3. org' \in OrgRow /\ org'.level = edit.level /\ org'.hit = edit.hit
    BY <1>0, <1>13, <2>2 DEF AlertTypeOK, OrgRow, WriteLevel
  <2> DEFINE u == Unmailed(edit.level)
  <2>4. u \in [Ranks -> {0, 1}] /\ u[Points] = mailed[Points]
    BY <1>0 DEF Unmailed
  <2>5. \A j \in Ranks \ {Points} : edit.level < j => u[j] = 0
    BY DEF Unmailed
  <2>6. mailed' = [u EXCEPT ![Points] = IF edit.hit THEN @ ELSE 0]
    BY <1>13 DEF WriteLevel
  <2> HIDE DEF u
  <2>7. /\ mailed' \in [Ranks -> {0, 1}]
        /\ \A j \in Ranks \ {Points} : mailed'[j] = u[j]
        /\ mailed'[Points] = IF edit.hit THEN mailed[Points] ELSE 0
    BY <1>0, <2>4, <2>6
  <2>8. ~org'.hit => mailed'[Points] = 0
    BY <2>3, <2>7
  <2>9. \A j \in Ranks \ {Points} : org'.level < j => mailed'[j] = 0
    BY <2>3, <2>5, <2>7
  <2> QED
    BY <1>0, <1>13, <2>3, <2>7, <2>8, <2>9 DEF AlertTypeOK, WriteLevel, EditRow
<1>14. CASE UNCHANGED alertVars
  BY <1>14 DEF alertVars, AlertTypeOK
<1> QED
  BY <1>1, <1>2, <1>3, <1>4, <1>5, <1>6, <1>7, <1>8, <1>9, <1>10, <1>11, <1>12, <1>13, <1>14
     DEF AlertNext, CheckStep

(* The start *)
LEMMA AlertStart ==
  ASSUME AlertInit
  PROVE  AlertInv
<1>1. Ranks \subseteq Nat /\ Points \in Ranks
  BY RanksNumbers
<1>2. PICK q \in Budgets, l \in LevelChoices, b \in BalanceChoices :
        org = [used |-> 0, limit |-> q, levels |-> l, level |-> 0, balance |-> b, hit |-> FALSE]
  BY DEF AlertInit
<1>3. org \in OrgRow
  BY <1>1, <1>2, AlertConstants DEF OrgRow, Points, AlertConstants
<1>4. AlertTypeOK
  BY <1>3 DEF AlertInit, AlertTypeOK, CheckRow, EditRow
<1> QED
  BY <1>1, <1>4 DEF AlertInit, AlertInv

(* The row and the checks under way are well-formed, whatever checks, edits *)
(* and stops interleave.                                                    *)
THEOREM AlertTypesCorrect == AlertSpec => []AlertTypeOK
<1>1. AlertInit => AlertInv
  BY AlertStart
<1>2. AlertInv /\ [AlertNext]_alertVars => AlertInv'
  BY AlertStep
<1>3. AlertInv => AlertTypeOK
  BY DEF AlertInv
<1> QED
  BY <1>1, <1>2, <1>3, PTL DEF AlertSpec

(* However many checks on however many instances see a crossing, one mails: *)
(* the conditional update decides.                                          *)
THEOREM CrossingMailedOnce == AlertSpec => []OneMailPerCrossing
<1>1. AlertInit => AlertInv
  BY AlertStart
<1>2. AlertInv /\ [AlertNext]_alertVars => AlertInv'
  BY AlertStep
<1>3. AlertInv => OneMailPerCrossing
  BY DEF AlertInv, OneMailPerCrossing
<1> QED
  BY <1>1, <1>2, <1>3, PTL DEF AlertSpec

-----------------------------------------------------------------------------
(* Sizes of sets of rows, and the first row of one *)

(* There are finitely many rows *)
LEMMA FiniteRows == IsFiniteSet(Rows)
<1>1. IsFiniteSet(Months) /\ IsFiniteSet(1..RowsPerMonth)
  BY CloseConstants, FS_Interval DEF Months, CloseConstants
<1> QED
  BY <1>1, FS_Product DEF Rows

(* A row is its month and its place in it *)
LEMMA RowParts ==
  ASSUME NEW r \in Rows
  PROVE  r = <<r[1], r[2]>> /\ r[1] \in Months /\ r[2] \in 1..RowsPerMonth
BY DEF Rows

(* A set of rows has a size *)
LEMMA Sized ==
  ASSUME NEW S \in SUBSET Rows
  PROVE  IsFiniteSet(S) /\ Cardinality(S) \in Nat
BY FiniteRows, FS_Subset, FS_CardinalityType

(* A part taken away takes its size away *)
LEMMA SizeWithout ==
  ASSUME NEW S \in SUBSET Rows, NEW T \in SUBSET S
  PROVE  Cardinality(S \ T) = Cardinality(S) - Cardinality(T)
<1>1. S \cap T = T
  OBVIOUS
<1>2. IsFiniteSet(S)
  BY Sized
<1>3. Cardinality(S \ T) = Cardinality(S) - Cardinality(S \cap T)
  BY <1>2, FS_Difference
<1> QED
  BY <1>1, <1>3

(* Sizes of sets apart add up *)
LEMMA SizeApart ==
  ASSUME NEW S \in SUBSET Rows, NEW T \in SUBSET Rows, S \cap T = {}
  PROVE  Cardinality(S \cup T) = Cardinality(S) + Cardinality(T)
<1>1. IsFiniteSet(S) /\ IsFiniteSet(T) /\ Cardinality(S) \in Nat /\ Cardinality(T) \in Nat
  BY Sized
<1>2. Cardinality(S \cup T) = Cardinality(S) + Cardinality(T) - Cardinality(S \cap T)
  BY <1>1, FS_Union
<1>3. Cardinality(S \cap T) = 0
  BY FS_EmptySet
<1> QED
  BY <1>1, <1>2, <1>3

(* The archive starts at a month some row is of *)
LEMMA OldestOccurs ==
  ASSUME logs \subseteq Rows, logs # {}
  PROVE  Oldest \in {r[1] : r \in logs}
<1>1. {r[1] : r \in logs} \in SUBSET Nat /\ {r[1] : r \in logs} # {}
  BY DEF Rows, Months
<1>2. \E x \in {r[1] : r \in logs} : \A y \in {r[1] : r \in logs} : x <= y
  BY <1>1, Smallest
<1> QED
  BY <1>2 DEF Oldest, Min

(* The first of some rows is one of them, and none comes before it *)
LEMMA FirstOccurs ==
  ASSUME NEW S \in SUBSET Rows, S # {}
  PROVE  First(S) \in S /\ \A q \in S : First(S)[2] <= q[2]
<1>1. {r[2] : r \in S} \in SUBSET Nat /\ {r[2] : r \in S} # {}
  BY DEF Rows, Months
<1>2. \E x \in {r[2] : r \in S} : \A y \in {r[2] : r \in S} : x <= y
  BY <1>1, Smallest
<1>3. \E r \in S : \A q \in S : r[2] <= q[2]
  BY <1>2
<1> QED
  BY <1>3 DEF First

(* A level computed backwards is a number of points *)
LEMMA EndUsedNumber ==
  ASSUME charged \subseteq Rows, logs \subseteq charged, NEW m
  PROVE  EndUsed(m) \in Nat
<1> DEFINE T == logs \ UpTo(m, logs)
<1>1. T \in SUBSET charged /\ charged \in SUBSET Rows
  OBVIOUS
<1>2. EndUsed(m) = Cardinality(charged) - Cardinality(T)
  BY DEF EndUsed
<1> HIDE DEF T
<1>3. Cardinality(charged \ T) = Cardinality(charged) - Cardinality(T)
  BY <1>1, SizeWithout
<1>4. Cardinality(charged \ T) \in Nat
  BY <1>1, Sized
<1> QED
  BY <1>2, <1>3, <1>4

(* It is what was settled by then, if the log has every row since *)
LEMMA EndUsedExact ==
  ASSUME charged \subseteq Rows, logs \subseteq charged, NEW m \in Int,
         \A r \in charged : r[1] > m => r \in logs
  PROVE  EndUsed(m) = Cardinality(UpTo(m, charged))
<1> DEFINE T == logs \ UpTo(m, logs)
<1>1. T \in SUBSET charged /\ charged \in SUBSET Rows
  OBVIOUS
<1>2. EndUsed(m) = Cardinality(charged) - Cardinality(T)
  BY DEF EndUsed
<1>3. ASSUME NEW r \in charged PROVE r \in T <=> r[1] > m
  <2>1. r[1] \in Int
    BY RowParts DEF Months
  <2> QED
    BY <2>1 DEF UpTo
<1>4. \A r \in charged : r[1] \in Int
  BY RowParts DEF Months
<1>5. charged \ T = UpTo(m, charged)
  <2> HIDE DEF T
  <2> QED
    BY <1>1, <1>3, <1>4 DEF UpTo
<1> HIDE DEF T
<1> QED
  BY <1>1, <1>2, <1>5, SizeWithout

-----------------------------------------------------------------------------
(* Types *)

(* What a writer knows in each of its states *)
LEMMA JobParts ==
  ASSUME NEW j \in JobRow
  PROVE  /\ j.at \in {"asleep", "down", "due", "claimed", "read"}
         /\ j.at \in {"claimed", "read"} => j.period \in Periods
         /\ j.at = "read" => j.row \in BalanceRow
BY DEF JobRow

(* The states writers are put in *)
LEMMA JobKinds ==
  /\ Asleep \in JobRow /\ [at |-> "down"] \in JobRow /\ [at |-> "due"] \in JobRow
  /\ \A m \in Periods : [at |-> "claimed", period |-> m] \in JobRow
  /\ \A m \in Periods, b \in BalanceRow : [at |-> "read", period |-> m, row |-> b] \in JobRow
BY DEF JobRow, Asleep

(* What an archiver knows while it works *)
LEMMA ArchParts ==
  ASSUME NEW a \in {Idle} \cup ArchRow, a.at # "idle"
  PROVE  /\ a \in ArchRow
         /\ a.at \in {"count", "export", "delete"}
         /\ a.month \in Months /\ a.until \in Months /\ a.last \in Nat /\ a.got \subseteq Rows
BY DEF ArchRow, Idle

(* An archiver may begin with any month *)
LEMMA WorkRow ==
  ASSUME NEW m \in Months, NEW u \in Months
  PROVE  Work("count", m, u) \in ArchRow
BY DEF Work, ArchRow

(* It goes on to a month or rests *)
LEMMA OnwardsRow ==
  ASSUME NEW m \in Months, NEW u \in Months
  PROVE  Onwards(m, u) \in {Idle} \cup ArchRow
<1>1. m + 1 < u => m + 1 \in Months
  BY CloseConstants DEF Months, CloseConstants
<1> QED
  BY <1>1, WorkRow DEF Onwards

(* So it does after a count *)
LEMMA VerifiedRow ==
  ASSUME CloseTypeOK, NEW n \in Nodes, arch[n].at = "count"
  PROVE  Verified(n) \in {Idle} \cup ArchRow
<1> DEFINE a == arch[n]
           count == Cardinality(Of(a.month, logs))
<1>1. a \in ArchRow /\ a.month \in Months /\ a.until \in Months
  BY ArchParts DEF CloseTypeOK
<1>2. count \in Nat
  BY Sized DEF CloseTypeOK, Of
<1>3. Onwards(a.month, a.until) \in {Idle} \cup ArchRow
  BY <1>1, OnwardsRow
<1>4. Verified(n) \in {Onwards(a.month, a.until), [a EXCEPT !.at = "delete"],
                       [a EXCEPT !.at = "export", !.count = count]}
  BY DEF Verified
<1> HIDE DEF a, count
<1>5. [a EXCEPT !.at = "delete"] \in ArchRow
  BY <1>1 DEF ArchRow
<1>6. [a EXCEPT !.at = "export", !.count = count] \in ArchRow
  BY <1>1, <1>2 DEF ArchRow
<1> QED
  BY <1>3, <1>4, <1>5, <1>6

(* It looks for rows of its month in the log *)
LEMMA FollowingRows ==
  ASSUME CloseTypeOK, NEW n \in Nodes
  PROVE  Following(n) \in SUBSET Rows /\ Following(n) \subseteq Of(arch[n].month, logs)
BY DEF CloseTypeOK, Following, Of

(* The calendar stays within its bounds *)
LEMMA PrevPeriod ==
  ASSUME CloseTypeOK
  PROVE  Prev \in Periods /\ now \in Periods /\ Prev \in {now - 1, now}
BY CloseConstants DEF CloseTypeOK, Prev, Periods, Months, CloseConstants

(* Types hold at the start *)
LEMMA CloseTypeStart == CloseInit => CloseTypeOK
<1> SUFFICES ASSUME CloseInit PROVE CloseTypeOK
  OBVIOUS
<1>1. now \in Months /\ late \in BOOLEAN /\ marker = NoRow
  <2>1. now = 1 /\ late = FALSE /\ marker = NoRow
    BY DEF CloseInit
  <2>2. 1 \in Months
    BY CloseConstants DEF Months, CloseConstants
  <2> QED
    BY <2>1, <2>2
<1>2. balance \in [Periods -> {None} \cup BalanceRow]
  BY DEF CloseInit
<1>3. job \in [Writers -> JobRow]
  BY JobKinds DEF CloseInit
<1>4. arch \in [Nodes -> {Idle} \cup ArchRow] /\ file \in [Nodes -> SUBSET Rows]
  BY DEF CloseInit
<1> QED
  BY <1>1, <1>2, <1>3, <1>4 DEF CloseInit, CloseTypeOK

(* What a bill knows *)
LEMMA BillParts ==
  ASSUME NEW b \in {NoBill} \cup BillRow, b # NoBill
  PROVE  /\ b \in BillRow /\ b.at \in {"closing", "level", "sum"}
         /\ b.month \in Months /\ b.seen \in SUBSET Rows
         /\ b.opening \in {None} \cup BalanceRow /\ b.closing \in {None} \cup BalanceRow
         /\ b.month \in Periods /\ b.month - 1 \in Periods
BY CloseConstants DEF BillRow, Months, Periods, CloseConstants

(* and in every step *)
LEMMA CloseTypeStep ==
  ASSUME CloseTypeOK, [CloseNext]_cvars
  PROVE  CloseTypeOK'
<1> USE DEF CloseTypeOK
<1>0. /\ Nodes \subseteq Writers /\ Admin \in Writers /\ Prev \in Periods
      /\ now \in Int
  BY PrevPeriod DEF Writers, Months
<1>1. ASSUME NEW i \in 1..RowsPerMonth, Stamp(i) PROVE CloseTypeOK'
  BY <1>1 DEF Stamp, Rows, calendar, closing
<1>2. CASE Commit
  BY <1>2 DEF Commit, calendar, closing
<1>3. ASSUME NEW m \in 0..now, Request(m) PROVE CloseTypeOK'
  <2>1. m \in Periods
    BY CloseConstants DEF Periods, Months, CloseConstants
  <2>2. job' \in [Writers -> JobRow]
    BY <1>0, <1>3, <2>1, JobKinds DEF Request
  <2> QED
    BY <1>3, <2>2 DEF Request, calendar, traffic
<1>4. ASSUME NEW w \in Writers, ReadUsed(w) PROVE CloseTypeOK'
  <2>1. job[w].period \in Periods
    BY <1>4, JobParts DEF ReadUsed
  <2> DEFINE m == job[w].period
             row == [used |-> EndUsed(m), missed |-> Cardinality(UpTo(m, open)),
                     early |-> now <= m,
                     hollow |-> w = Admin /\ \E r \in charged : r[1] > m /\ r \notin logs]
  <2>2. EndUsed(m) \in Nat
    BY EndUsedNumber
  <2>3. Cardinality(UpTo(m, open)) \in Nat
    BY Sized DEF UpTo
  <2>4. row \in BalanceRow
    BY <2>2, <2>3 DEF BalanceRow
  <2>5. job' = [job EXCEPT ![w] = [at |-> "read", period |-> m, row |-> row]]
    BY <1>4 DEF ReadUsed
  <2> HIDE DEF row
  <2>6. job' \in [Writers -> JobRow]
    BY <2>1, <2>4, <2>5, JobKinds
  <2> QED
    BY <1>4, <2>6 DEF ReadUsed, calendar, traffic
<1>5. ASSUME NEW w \in Writers, Upsert(w) PROVE CloseTypeOK'
  <2>1. job[w].period \in Periods /\ job[w].row \in BalanceRow
    BY <1>5, JobParts DEF Upsert
  <2>2. job' \in [Writers -> JobRow]
    BY <1>5, JobKinds DEF Upsert
  <2>3. balance' \in [Periods -> {None} \cup BalanceRow]
    BY <1>5, <2>1 DEF Upsert
  <2> QED
    BY <1>5, <2>2, <2>3 DEF Upsert, calendar, traffic
<1>6. ASSUME NEW w \in Writers, SnapshotFails(w) PROVE CloseTypeOK'
  <2>1. job[w].period \in Periods
    BY <1>6, JobParts DEF SnapshotFails
  <2>2. job' \in [Writers -> JobRow]
    BY <1>6, JobKinds DEF SnapshotFails
  <2> QED
    BY <1>6, <2>1, <2>2 DEF SnapshotFails, calendar, traffic
<1>7. ASSUME NEW n \in Nodes, Claim(n) PROVE CloseTypeOK'
  <2>1. job' \in [Writers -> JobRow]
    BY <1>0, <1>7, JobKinds DEF Claim
  <2> QED
    BY <1>0, <1>7, <2>1 DEF Claim, calendar, traffic
<1>8. ASSUME NEW n \in Nodes, ClaimFails(n) PROVE CloseTypeOK'
  <2>1. job' \in [Writers -> JobRow]
    BY <1>0, <1>8, JobKinds DEF ClaimFails
  <2> QED
    BY <1>8, <2>1 DEF ClaimFails, calendar, traffic
<1>9. ASSUME NEW n \in Nodes, Crash(n) PROVE CloseTypeOK'
  <2>1. job' \in [Writers -> JobRow]
    BY <1>0, <1>9, JobKinds DEF Crash
  <2>2. arch' \in [Nodes -> {Idle} \cup ArchRow]
    BY <1>9 DEF Crash
  <2> QED
    BY <1>9, <2>1, <2>2 DEF Crash, calendar, traffic
<1>10. ASSUME NEW n \in Nodes, Start(n) PROVE CloseTypeOK'
  <2>1. job' \in [Writers -> JobRow]
    BY <1>0, <1>10, JobKinds DEF Start
  <2> QED
    BY <1>10, <2>1 DEF Start, calendar, traffic
<1>11. CASE LateDays
  BY <1>11 DEF LateDays, traffic, closing
<1>12. CASE MonthTurns
  <2>1. now' \in Months
    BY <1>0, <1>12, CloseConstants DEF MonthTurns, Months, Periods, CloseConstants
  <2>2. job' \in [Writers -> JobRow]
    BY <1>12, JobKinds DEF MonthTurns
  <2> QED
    BY <1>12, <2>1, <2>2 DEF MonthTurns, traffic
<1>13. ASSUME NEW n \in Nodes, ArchiveWake(n) PROVE CloseTypeOK'
  <2>1. Oldest \in Months
    BY <1>13, OldestOccurs, RowParts DEF ArchiveWake
  <2>2. Cutoff \in Months
    BY <1>0, <1>13, <2>1, CloseConstants DEF ArchiveWake, Cutoff, Months, CloseConstants
  <2>3. arch' \in [Nodes -> {Idle} \cup ArchRow]
    BY <1>13, <2>1, <2>2, WorkRow DEF ArchiveWake
  <2> QED
    BY <1>13, <2>3 DEF ArchiveWake, calendar, traffic, closing
<1>14. ASSUME NEW n \in Nodes, CountMonth(n) PROVE CloseTypeOK'
  <2>1. arch' \in [Nodes -> {Idle} \cup ArchRow]
    BY <1>14, VerifiedRow DEF CountMonth
  <2> QED
    BY <1>14, <2>1 DEF CountMonth, calendar, traffic, closing
<1>15. ASSUME NEW n \in Nodes, ExportBatch(n) PROVE CloseTypeOK'
  <2> DEFINE f == First(Following(n))
  <2>1. arch[n] \in ArchRow
    BY <1>15, ArchParts DEF ExportBatch
  <2>2. f \in Rows /\ f[2] \in Nat
    BY <1>15, FirstOccurs, FollowingRows, RowParts DEF ExportBatch
  <2>3. arch' = [arch EXCEPT ![n] = [arch[n] EXCEPT !.got = @ \cup {f}, !.last = f[2]]]
    BY <1>15, <2>1 DEF ExportBatch, ArchRow
  <2> HIDE DEF f
  <2>4. [arch[n] EXCEPT !.got = @ \cup {f}, !.last = f[2]] \in ArchRow
    BY <2>1, <2>2 DEF ArchRow
  <2>5. arch' \in [Nodes -> {Idle} \cup ArchRow]
    BY <2>3, <2>4
  <2> QED
    BY <1>15, <2>5 DEF ExportBatch, calendar, traffic, closing
<1>16. ASSUME NEW n \in Nodes, Rename(n) PROVE CloseTypeOK'
  <2>1. arch[n] \in ArchRow /\ arch[n].got \subseteq Rows
    BY <1>16, ArchParts DEF Rename
  <2>2. [arch[n] EXCEPT !.at = "delete", !.last = 0] \in ArchRow
    BY <2>1 DEF ArchRow
  <2>3. \/ arch' = [arch EXCEPT ![n] = [arch[n] EXCEPT !.at = "delete", !.last = 0]]
        \/ arch' = [arch EXCEPT ![n] = Idle]
    BY <1>16, <2>1 DEF Rename, ArchRow
  <2>4. arch' \in [Nodes -> {Idle} \cup ArchRow]
    BY <2>2, <2>3
  <2>5. file' \in [Nodes -> SUBSET Rows]
    BY <1>16, <2>1 DEF Rename
  <2> QED
    BY <1>16, <2>4, <2>5 DEF Rename, calendar, traffic, closing
<1>17. ASSUME NEW n \in Nodes, DeleteBatch(n) PROVE CloseTypeOK'
  <2> DEFINE f == First(Following(n))
  <2>1. arch[n] \in ArchRow /\ arch[n].month \in Months /\ arch[n].until \in Months
    BY <1>17, ArchParts DEF DeleteBatch
  <2>2. Following(n) # {} => f[2] \in Nat
    BY FirstOccurs, FollowingRows, RowParts
  <2>3. Onwards(arch[n].month, arch[n].until) \in {Idle} \cup ArchRow
    BY <2>1, OnwardsRow
  <2>4. \/ arch' = [arch EXCEPT ![n] = Onwards(arch[n].month, arch[n].until)]
        \/ Following(n) # {} /\ arch' = [arch EXCEPT ![n] = [arch[n] EXCEPT !.last = f[2]]]
    BY <1>17 DEF DeleteBatch
  <2> HIDE DEF f
  <2>5. Following(n) # {} => [arch[n] EXCEPT !.last = f[2]] \in ArchRow
    BY <2>1, <2>2 DEF ArchRow
  <2>6. arch' \in [Nodes -> {Idle} \cup ArchRow]
    BY <2>3, <2>4, <2>5
  <2>7. logs' \subseteq charged'
    BY <1>17 DEF DeleteBatch
  <2> QED
    BY <1>17, <2>6, <2>7 DEF DeleteBatch, calendar, closing
<1>18. ASSUME NEW n \in Nodes, ArchiveFails(n) PROVE CloseTypeOK'
  BY <1>18 DEF ArchiveFails, calendar, traffic, closing
<1>19. CASE UNCHANGED cvars
  BY <1>19 DEF cvars, calendar, traffic, closing
<1>20. ASSUME NEW m \in 1..now, OpenBill(m) PROVE CloseTypeOK'
  <2>1. m \in Months /\ m - 1 \in Periods
    BY CloseConstants DEF Months, Periods, CloseConstants
  <2>2. balance[m - 1] \in {None} \cup BalanceRow
    BY <2>1
  <2>3. bill' \in BillRow
    BY <1>20, <2>1, <2>2 DEF OpenBill, BillRow
  <2> QED
    BY <1>20, <2>3 DEF OpenBill, calendar, traffic, closing
<1>21. CASE ReadClosing
  <2>0. bill # NoBill
    BY <1>21 DEF ReadClosing, NoBill
  <2>1. bill \in BillRow /\ bill.month \in Periods
    BY <2>0, BillParts
  <2>2. balance[bill.month] \in {None} \cup BalanceRow
    BY <2>1
  <2>3. [bill EXCEPT !.at = "level", !.closing = balance[bill.month]] \in BillRow
    BY <2>1, <2>2 DEF BillRow
  <2>4. [bill EXCEPT !.at = "level"] \in BillRow
    BY <2>1 DEF BillRow
  <2>5. bill' \in BillRow
    BY <1>21, <2>3, <2>4 DEF ReadClosing
  <2> QED
    BY <1>21, <2>5 DEF ReadClosing, calendar, traffic, closing
<1>22. CASE ReadLevel
  <2>0. bill # NoBill
    BY <1>22 DEF ReadLevel, NoBill
  <2>1. bill \in BillRow
    BY <2>0, BillParts
  <2>2. bill' \in BillRow
    BY <1>22, <2>1 DEF ReadLevel, BillRow
  <2> QED
    BY <1>22, <2>2 DEF ReadLevel, calendar, traffic, closing
<1>23. CASE EndBill
  BY <1>23 DEF EndBill, calendar, traffic, closing
<1> QED
  BY <1>1, <1>2, <1>3, <1>4, <1>5, <1>6, <1>7, <1>8, <1>9, <1>10, <1>11, <1>12, <1>13, <1>14,
     <1>15, <1>16, <1>17, <1>18, <1>19, <1>20, <1>21, <1>22, <1>23 DEF CloseNext, ArchiveStep

-----------------------------------------------------------------------------
(* The log and its archive *)

LogInv == Stamped /\ Kept /\ InReach /\ Filed /\ Archiving /\ NothingLost

(* The log and the files are in order at the start *)
LEMMA LogStart == CloseInit => LogInv
BY DEF CloseInit, LogInv, Stamped, Kept, InReach, Filed, Archiving, NothingLost, Idle

(* An archiver that changes only itself: what must hold of its new state *)
ArchGood(n, a) ==
  /\ a.at # "idle" => a.month < a.until /\ a.until <= now - Retention
  /\ a.at = "count" => a.got = {} /\ a.last = 0
  /\ a.at = "export" =>
       /\ Of(a.month, file[n]) = {}
       /\ \A r \in a.got : r[1] = a.month
       /\ \A r \in Of(a.month, logs) : r[2] <= a.last => r \in a.got
  /\ a.at = "delete" => Of(a.month, logs) \subseteq file[n]

(* A step of one archiver alone keeps them so *)
LEMMA ArchOnly ==
  ASSUME CloseTypeOK, LogInv, NEW n \in Nodes, NEW a, ArchGood(n, a),
         arch' = [arch EXCEPT ![n] = a],
         UNCHANGED <<now, late, open, charged, logs, file>>
  PROVE  LogInv'
<1>1. ASSUME NEW k \in Nodes PROVE ArchGood(k, arch'[k])
  BY DEF CloseTypeOK, LogInv, InReach, Archiving, ArchGood
<1>2. InReach' /\ Archiving'
  BY <1>1 DEF ArchGood, InReach, Archiving, Of
<1>3. Stamped' /\ Kept' /\ Filed' /\ NothingLost'
  BY DEF LogInv, Stamped, Kept, Filed, NothingLost, Of
<1> QED
  BY <1>2, <1>3 DEF LogInv

(* as when it rests *)
LEMMA IdleGood == ASSUME NEW n PROVE ArchGood(n, Idle)
BY DEF ArchGood, Idle

(* or begins *)
LEMMA WorkGood ==
  ASSUME NEW n, NEW m \in Months, NEW u \in Months, m < u, u <= now - Retention
  PROVE  ArchGood(n, Work("count", m, u))
BY DEF ArchGood, Work

(* or goes on *)
LEMMA OnwardsGood ==
  ASSUME NEW n, NEW m \in Months, NEW u \in Months, u <= now - Retention
  PROVE  ArchGood(n, Onwards(m, u))
<1>1. CASE m + 1 < u
  <2>1. m + 1 \in Months
    BY <1>1, CloseConstants DEF Months, CloseConstants
  <2> QED
    BY <1>1, <2>1, WorkGood DEF Onwards
<1>2. CASE ~(m + 1 < u)
  BY <1>2, IdleGood DEF Onwards
<1> QED
  BY <1>1, <1>2

(* A file of a month, if it has as many rows as the log, has them all; and  *)
(* a month that is exported had no file.                                    *)
LEMMA VerifiedGood ==
  ASSUME CloseTypeOK, LogInv, NEW n \in Nodes, arch[n].at = "count"
  PROVE  ArchGood(n, Verified(n))
<1> DEFINE a == arch[n]
           count == Cardinality(Of(a.month, logs))
           d == [a EXCEPT !.at = "delete"]
           e == [a EXCEPT !.at = "export", !.count = count]
<1>1. a \in ArchRow /\ a.month \in Months /\ a.until \in Months
  BY ArchParts DEF CloseTypeOK
<1>2. a.until <= now - Retention /\ a.month < a.until /\ a.got = {} /\ a.last = 0
  BY DEF LogInv, InReach, Archiving
<1>3. Of(a.month, logs) \in SUBSET Rows /\ Of(a.month, file[n]) \in SUBSET Rows
  BY DEF CloseTypeOK, Of
<1>4. count \in Nat /\ Cardinality(Of(a.month, file[n])) \in Nat
  BY <1>3, Sized
<1>5. Of(a.month, file[n]) # {} => Of(a.month, logs) \subseteq file[n]
  BY DEF LogInv, Filed, Of
<1>6. d.at = "delete" /\ d.month = a.month /\ d.until = a.until
  BY <1>1 DEF ArchRow
<1>7. /\ e.at = "export" /\ e.month = a.month /\ e.until = a.until
      /\ e.got = a.got /\ e.last = a.last
  BY <1>1 DEF ArchRow
<1>8. CASE count = 0
  BY <1>1, <1>2, <1>8, OnwardsGood DEF Verified
<1>9. CASE count # 0 /\ Cardinality(Of(a.month, file[n])) >= count
  <2>1. Cardinality(Of(a.month, file[n])) # 0
    BY <1>4, <1>9
  <2>2. Of(a.month, file[n]) # {}
    BY <2>1, FS_EmptySet
  <2>3. Verified(n) = d
    BY <1>9 DEF Verified
  <2> HIDE DEF d
  <2> QED
    BY <1>2, <1>5, <1>6, <2>2, <2>3 DEF ArchGood
<1>10. CASE count # 0 /\ ~(Cardinality(Of(a.month, file[n])) >= count)
  <2>1. Of(a.month, file[n]) = {}
    <3> SUFFICES ASSUME Of(a.month, file[n]) # {} PROVE FALSE
      OBVIOUS
    <3>1. Of(a.month, logs) \in SUBSET Of(a.month, file[n])
      BY <1>5 DEF Of
    <3>2. IsFiniteSet(Of(a.month, file[n]))
      BY <1>3, Sized
    <3>3. count <= Cardinality(Of(a.month, file[n]))
      BY <3>1, <3>2, FS_Subset
    <3> QED
      BY <1>4, <1>10, <3>3
  <2>2. \A r \in Of(a.month, logs) : ~(r[2] <= 0)
    BY RowParts DEF CloseTypeOK, Of
  <2>3. Verified(n) = e
    BY <1>10 DEF Verified
  <2> HIDE DEF e
  <2> QED
    BY <1>2, <1>7, <2>1, <2>2, <2>3 DEF ArchGood
<1> QED
  BY <1>8, <1>9, <1>10

(* Every step keeps the log and the files in order *)
LEMMA LogStep ==
  ASSUME CloseTypeOK, LogInv, [CloseNext]_cvars
  PROVE  LogInv'
<1> USE CloseConstants DEF CloseConstants
<1>0. /\ now \in Int /\ Retention \in Int /\ Retention >= 1
      /\ \A r \in Rows : r[1] \in Int /\ r[2] \in Int /\ r[2] >= 1
  BY RowParts DEF CloseTypeOK, Months
<1>1. ASSUME NEW i \in 1..RowsPerMonth, Stamp(i) PROVE LogInv'
  <2>1. Stamped'
    BY <1>0, <1>1 DEF Stamped, Stamp, calendar
  <2>2. UNCHANGED <<now, late, charged, logs, file, arch>>
    BY <1>1 DEF Stamp, calendar
  <2> QED
    BY <2>1, <2>2 DEF LogInv, Kept, InReach, Filed, Archiving, NothingLost, Of
<1>2. CASE Commit
  <2>1. /\ open' = {} /\ charged' = charged \cup open /\ logs' = logs \cup open
        /\ UNCHANGED <<now, late, file, arch>>
    BY <1>2 DEF Commit, calendar
  <2>2. \A r \in open : r[1] \in {now - 1, now}
    BY DEF LogInv, Stamped
  <2>3. Kept'
    BY <1>0, <2>1, <2>2 DEF LogInv, Kept
  <2>4. ASSUME NEW m \in Int, m < now - Retention PROVE Of(m, logs') = Of(m, logs)
    BY <1>0, <2>1, <2>2, <2>4 DEF Of
  <2>5. Filed'
    BY <1>0, <2>1, <2>4 DEF LogInv, Filed, CloseTypeOK
  <2>6. ASSUME NEW n \in Nodes, arch[n].at # "idle"
        PROVE  Of(arch[n].month, logs') = Of(arch[n].month, logs)
    <3>1. arch[n].month \in Months /\ arch[n].until \in Months
      BY <2>6, ArchParts DEF CloseTypeOK
    <3>2. arch[n].month < now - Retention
      BY <1>0, <2>6, <3>1 DEF LogInv, InReach, Months
    <3> QED
      BY <2>4, <3>1, <3>2 DEF Months
  <2>7. Archiving' /\ InReach'
    BY <2>1, <2>6 DEF LogInv, Archiving, InReach
  <2> QED
    BY <2>1, <2>3, <2>5, <2>7 DEF LogInv, Stamped, NothingLost
<1>3. CASE LateDays
  <2>1. /\ open = Of(now, open) /\ late' = TRUE
        /\ UNCHANGED <<now, open, charged, logs, file, arch>>
    BY <1>3 DEF LateDays, traffic
  <2>2. Stamped'
    BY <2>1 DEF LogInv, Stamped, Of
  <2> QED
    BY <2>1, <2>2 DEF LogInv, Kept, InReach, Filed, Archiving, NothingLost, Of
<1>4. CASE MonthTurns
  <2>1. /\ late /\ now' = now + 1 /\ late' = FALSE
        /\ UNCHANGED <<open, charged, logs, file, arch>>
    BY <1>4 DEF MonthTurns, traffic
  <2>2. Stamped'
    BY <1>0, <2>1 DEF LogInv, Stamped
  <2>3. Kept'
    <3>1. ASSUME NEW r \in charged PROVE r[1] \in Int
      BY <1>0 DEF CloseTypeOK
    <3> QED
      BY <1>0, <2>1, <3>1 DEF LogInv, Kept
  <2>4. InReach'
    <3>1. ASSUME NEW n \in Nodes, arch[n].at # "idle" PROVE arch[n].until \in Int
      BY <3>1, ArchParts DEF CloseTypeOK, Months
    <3> QED
      BY <1>0, <2>1, <3>1 DEF LogInv, InReach
  <2>5. Filed'
    <3>1. ASSUME NEW n \in Nodes, NEW r \in file[n] PROVE r[1] \in Int
      BY <1>0 DEF CloseTypeOK
    <3> QED
      BY <1>0, <2>1, <3>1 DEF LogInv, Filed
  <2> QED
    BY <2>1, <2>2, <2>3, <2>4, <2>5 DEF LogInv, Archiving, NothingLost
<1>5. ASSUME NEW n \in Nodes, ArchiveWake(n) PROVE LogInv'
  <2>1. Oldest \in Months
    BY <1>5, OldestOccurs, RowParts DEF ArchiveWake, CloseTypeOK
  <2>2. Cutoff \in Months /\ Oldest < Cutoff /\ Cutoff <= now - Retention
    BY <1>0, <1>5, <2>1 DEF ArchiveWake, Cutoff, Months, CloseTypeOK
  <2>3. ArchGood(n, Work("count", Oldest, Cutoff))
    BY <2>1, <2>2, WorkGood
  <2> QED
    BY <1>5, <2>3, ArchOnly DEF ArchiveWake, calendar, traffic
<1>6. ASSUME NEW n \in Nodes, CountMonth(n) PROVE LogInv'
  <2>1. ArchGood(n, Verified(n))
    BY <1>6, VerifiedGood DEF CountMonth
  <2> QED
    BY <1>6, <2>1, ArchOnly DEF CountMonth, calendar, traffic
<1>7. ASSUME NEW n \in Nodes, ExportBatch(n) PROVE LogInv'
  <2> DEFINE f == First(Following(n))
             b == [arch[n] EXCEPT !.got = @ \cup {f}, !.last = f[2]]
  <2>1. arch[n] \in ArchRow /\ arch[n].at = "export"
    BY <1>7, ArchParts DEF ExportBatch, CloseTypeOK
  <2>2. /\ f \in Following(n) /\ \A q \in Following(n) : f[2] <= q[2]
        /\ Following(n) \subseteq Rows
    BY <1>7, FirstOccurs, FollowingRows DEF ExportBatch
  <2>3. arch' = [arch EXCEPT ![n] = b]
    BY <1>7, <2>1 DEF ExportBatch, ArchRow
  <2>4. /\ b.at = "export" /\ b.month = arch[n].month /\ b.until = arch[n].until
        /\ b.got = arch[n].got \cup {f} /\ b.last = f[2]
    BY <2>1 DEF ArchRow
  <2>5. f[1] = arch[n].month
    BY <2>2 DEF Following, Of
  <2>6. ASSUME NEW r \in Of(arch[n].month, logs), r[2] <= f[2] PROVE r \in b.got
    <3>1. r \in Rows /\ f \in Rows /\ arch[n].last \in Nat /\ r[1] = arch[n].month
      BY <2>1, <2>2 DEF CloseTypeOK, Of, ArchRow
    <3>2. CASE r[2] <= arch[n].last
      BY <2>1, <2>4, <3>2 DEF LogInv, Archiving
    <3>3. CASE ~(r[2] <= arch[n].last)
      <4>1. r \in Following(n)
        BY <1>0, <3>1, <3>3 DEF Following
      <4>2. r[2] = f[2]
        BY <1>0, <2>2, <2>6, <3>1, <4>1
      <4>3. r = f
        BY <2>5, <3>1, <4>2, RowParts
      <4> QED
        BY <2>4, <4>3
    <3> QED
      BY <3>2, <3>3
  <2> HIDE DEF f, b
  <2>7. ArchGood(n, b)
    BY <2>1, <2>4, <2>5, <2>6 DEF LogInv, InReach, Archiving, ArchGood
  <2> QED
    BY <1>7, <2>3, <2>7, ArchOnly DEF ExportBatch, calendar, traffic
<1>8. ASSUME NEW n \in Nodes, Rename(n) PROVE LogInv'
  <2> DEFINE b == [arch[n] EXCEPT !.at = "delete", !.last = 0]
             m == arch[n].month
  <2>1. arch[n] \in ArchRow /\ arch[n].at = "export" /\ m \in Months /\ arch[n].until \in Months
    BY <1>8, ArchParts DEF Rename, CloseTypeOK
  <2>2. CASE arch' = [arch EXCEPT ![n] = Idle] /\ UNCHANGED file
    BY <1>8, <2>2, IdleGood, ArchOnly DEF Rename, calendar, traffic
  <2>3. ASSUME file' = [file EXCEPT ![n] = (@ \ Of(m, @)) \cup arch[n].got],
               arch' = [arch EXCEPT ![n] = b]
        PROVE  LogInv'
    <3>1. UNCHANGED <<now, late, open, charged, logs>> /\ Following(n) = {}
      BY <1>8 DEF Rename, calendar, traffic
    <3>2. /\ Of(m, file[n]) = {}
          /\ \A r \in arch[n].got : r[1] = m
          /\ \A r \in Of(m, logs) : r[2] <= arch[n].last => r \in arch[n].got
      BY <2>1 DEF LogInv, Archiving
    <3>3. Of(m, logs) \subseteq arch[n].got
      <4>1. ASSUME NEW r \in Of(m, logs) PROVE r[2] <= arch[n].last
        <5>1. r \in Rows /\ arch[n].last \in Nat
          BY <2>1 DEF CloseTypeOK, Of, ArchRow
        <5>2. ~(r[2] > arch[n].last)
          BY <3>1 DEF Following
        <5> QED
          BY <1>0, <5>1, <5>2
      <4> QED
        BY <3>2, <4>1
    <3>4. /\ file'[n] = file[n] \cup arch[n].got
          /\ \A k \in Nodes : k # n => file'[k] = file[k] /\ arch'[k] = arch[k]
      BY <2>3, <3>2 DEF CloseTypeOK
    <3>5. m < now - Retention
      BY <1>0, <2>1 DEF LogInv, InReach, Months
    <3>6. Filed'
      <4>1. ASSUME NEW k \in Nodes, NEW r \in file'[k]
            PROVE  r[1] < now - Retention /\ Of(r[1], logs) \subseteq file'[k]
        <5>1. CASE r \in file[k]
          BY <3>4, <5>1 DEF LogInv, Filed
        <5>2. CASE r \notin file[k]
          <6>1. k = n /\ r \in arch[n].got
            BY <3>4, <5>2
          <6> QED
            BY <3>2, <3>3, <3>4, <3>5, <6>1
        <5> QED
          BY <5>1, <5>2
      <4> QED
        BY <3>1, <4>1 DEF Filed, Of
    <3>7. /\ arch'[n] = b /\ b.at = "delete" /\ b.month = m /\ b.until = arch[n].until
      BY <2>1, <2>3 DEF CloseTypeOK, ArchRow
    <3> HIDE DEF b
    <3>8. InReach' /\ Archiving'
      <4>1. InReach'
        BY <2>1, <3>1, <3>4, <3>7 DEF LogInv, InReach
      <4>2. ASSUME NEW k \in Nodes, k # n
            PROVE  /\ arch'[k].at = "count" => arch'[k].got = {} /\ arch'[k].last = 0
                   /\ arch'[k].at = "export" =>
                        /\ Of(arch'[k].month, file'[k]) = {}
                        /\ \A r \in arch'[k].got : r[1] = arch'[k].month
                        /\ \A r \in Of(arch'[k].month, logs) :
                             r[2] <= arch'[k].last => r \in arch'[k].got
                   /\ arch'[k].at = "delete" => Of(arch'[k].month, logs) \subseteq file'[k]
        BY <3>4, <4>2 DEF LogInv, Archiving
      <4>3. Of(b.month, logs) \subseteq file'[n]
        BY <3>3, <3>4, <3>7
      <4>4. Archiving'
        BY <3>1, <3>7, <4>2, <4>3 DEF Archiving, Of
      <4> QED
        BY <4>1, <4>4
    <3>9. NothingLost'
      <4>1. \A k \in Nodes : file[k] \subseteq file'[k]
        BY <3>4
      <4> QED
        BY <3>1, <4>1 DEF LogInv, NothingLost
    <3>10. Stamped' /\ Kept'
      BY <3>1 DEF LogInv, Stamped, Kept
    <3> QED
      BY <3>6, <3>8, <3>9, <3>10 DEF LogInv
  <2> QED
    <3>1. \/ arch' = [arch EXCEPT ![n] = b]
             /\ file' = [file EXCEPT ![n] = (@ \ Of(m, @)) \cup arch[n].got]
          \/ arch' = [arch EXCEPT ![n] = Idle] /\ UNCHANGED file
      BY <1>8, <2>1 DEF Rename, ArchRow
    <3> QED
      BY <2>2, <2>3, <3>1
<1>9. ASSUME NEW n \in Nodes, DeleteBatch(n) PROVE LogInv'
  <2> DEFINE f == First(Following(n))
             b == [arch[n] EXCEPT !.last = f[2]]
             m == arch[n].month
  <2>1. arch[n] \in ArchRow /\ arch[n].at = "delete" /\ m \in Months /\ arch[n].until \in Months
    BY <1>9, ArchParts DEF DeleteBatch, CloseTypeOK
  <2>2. Of(m, logs) \subseteq file[n] /\ m < arch[n].until /\ arch[n].until <= now - Retention
    BY <2>1 DEF LogInv, Archiving, InReach
  <2>3. CASE Following(n) = {}
    <3>1. ArchGood(n, Onwards(m, arch[n].until))
      BY <2>1, <2>2, OnwardsGood
    <3> QED
      BY <1>9, <2>3, <3>1, ArchOnly DEF DeleteBatch, calendar
  <2>4. CASE Following(n) # {}
    <3>1. /\ logs' = logs \ {f} /\ arch' = [arch EXCEPT ![n] = b]
          /\ UNCHANGED <<now, late, open, charged, file>>
      BY <1>9, <2>4 DEF DeleteBatch, calendar
    <3>2. f \in Of(m, logs)
      BY <2>4, FirstOccurs, FollowingRows
    <3>3. f \in file[n] /\ f[1] < now - Retention
      BY <1>0, <2>1, <2>2, <3>2 DEF Of, Months
    <3> HIDE DEF f
    <3>4. Kept'
      <4>1. f[1] \in Int
        BY <2>1, <3>2 DEF Of, Months
      <4> QED
        BY <1>0, <3>1, <3>3, <4>1 DEF LogInv, Kept
    <3>5. Filed' /\ NothingLost'
      BY <3>1, <3>3 DEF LogInv, Filed, NothingLost, Of
    <3>6. /\ arch'[n] = b /\ b.at = "delete" /\ b.month = m /\ b.until = arch[n].until
          /\ \A k \in Nodes : k # n => arch'[k] = arch[k]
      BY <2>1, <3>1 DEF CloseTypeOK, ArchRow
    <3>7. \A j : Of(j, logs') \subseteq Of(j, logs)
      BY <3>1 DEF Of
    <3> HIDE DEF b
    <3>8. InReach'
      BY <2>1, <2>2, <3>1, <3>6 DEF LogInv, InReach
    <3>9. Archiving'
      <4>1. ASSUME NEW k \in Nodes, k # n
            PROVE  /\ arch'[k].at = "count" => arch'[k].got = {} /\ arch'[k].last = 0
                   /\ arch'[k].at = "export" =>
                        /\ Of(arch'[k].month, file[k]) = {}
                        /\ \A r \in arch'[k].got : r[1] = arch'[k].month
                        /\ \A r \in Of(arch'[k].month, logs') :
                             r[2] <= arch'[k].last => r \in arch'[k].got
                   /\ arch'[k].at = "delete" => Of(arch'[k].month, logs') \subseteq file[k]
        BY <3>6, <3>7, <4>1 DEF LogInv, Archiving
      <4>2. Of(b.month, logs') \subseteq file[n]
        BY <2>2, <3>6, <3>7
      <4>3. file' = file
        BY <3>1
      <4> QED
        BY <3>6, <4>1, <4>2, <4>3 DEF Archiving, Of
    <3> QED
      BY <3>1, <3>4, <3>5, <3>8, <3>9 DEF LogInv, Stamped
  <2> QED
    BY <2>3, <2>4
<1>10. ASSUME NEW n \in Nodes, ArchiveFails(n) PROVE LogInv'
  BY <1>10, IdleGood, ArchOnly DEF ArchiveFails, calendar, traffic
<1>11. ASSUME NEW n \in Nodes, Crash(n) PROVE LogInv'
  BY <1>11, IdleGood, ArchOnly DEF Crash, calendar, traffic
<1>12. ASSUME UNCHANGED <<calendar, traffic, arch, file>> PROVE LogInv'
  BY <1>12 DEF calendar, traffic, LogInv, Stamped, Kept, InReach, Filed, Archiving,
     NothingLost, Of
<1>13. CASE UNCHANGED cvars
  BY <1>12, <1>13 DEF cvars
<1>14. ASSUME NEW m \in 0..now, Request(m) PROVE LogInv'
  BY <1>12, <1>14 DEF Request
<1>15. ASSUME NEW w \in Writers, ReadUsed(w) \/ Upsert(w) \/ SnapshotFails(w) PROVE LogInv'
  BY <1>12, <1>15 DEF ReadUsed, Upsert, SnapshotFails
<1>16. ASSUME NEW n \in Nodes, Claim(n) \/ ClaimFails(n) \/ Start(n) PROVE LogInv'
  BY <1>12, <1>16 DEF Claim, ClaimFails, Start
<1>17. ASSUME NEW m \in 1..now, OpenBill(m) PROVE LogInv'
  BY <1>12, <1>17 DEF OpenBill
<1>18. CASE ReadClosing \/ ReadLevel \/ EndBill
  BY <1>12, <1>18 DEF ReadClosing, ReadLevel, EndBill
<1> QED
  BY <1>1, <1>2, <1>3, <1>4, <1>5, <1>6, <1>7, <1>8, <1>9, <1>10, <1>11, <1>13, <1>14, <1>15,
     <1>16, <1>17, <1>18 DEF CloseNext, ArchiveStep

-----------------------------------------------------------------------------
(* The balances *)

(* Who changes what the balances are about *)
LEMMA Changes ==
  ASSUME CloseTypeOK, [CloseNext]_cvars
  PROVE  /\ \/ \E i \in 1..RowsPerMonth : Stamp(i)
            \/ Commit
            \/ now' \in {now, now + 1} /\ open' = open /\ charged' = charged
         /\ \A w \in Writers : job'[w].at = "read" => job'[w] = job[w] \/ ReadUsed(w)
         /\ \A m \in Periods :
              \/ balance'[m] = balance[m]
              \/ \E w \in Writers : Upsert(w) /\ job[w].period = m /\ balance'[m] = job[w].row
         /\ \A n \in Nodes : job'[n].at \in {"claimed", "read"} =>
              /\ now' = now
              /\ \/ job[n].at \in {"claimed", "read"} /\ job'[n].period = job[n].period
                 \/ job'[n].period = Prev
<1> DEFINE Goal ==
         /\ \/ \E i \in 1..RowsPerMonth : Stamp(i)
            \/ Commit
            \/ now' \in {now, now + 1} /\ open' = open /\ charged' = charged
         /\ \A w \in Writers : job'[w].at = "read" => job'[w] = job[w] \/ ReadUsed(w)
         /\ \A m \in Periods :
              \/ balance'[m] = balance[m]
              \/ \E w \in Writers : Upsert(w) /\ job[w].period = m /\ balance'[m] = job[w].row
         /\ \A n \in Nodes : job'[n].at \in {"claimed", "read"} =>
              /\ now' = now
              /\ \/ job[n].at \in {"claimed", "read"} /\ job'[n].period = job[n].period
                 \/ job'[n].period = Prev
<1> SUFFICES Goal
  OBVIOUS
<1>0. /\ job \in [Writers -> JobRow] /\ Nodes \subseteq Writers /\ Admin \notin Nodes
      /\ balance \in [Periods -> {None} \cup BalanceRow]
  BY CloseConstants DEF CloseTypeOK, Writers, CloseConstants
<1>1. ASSUME UNCHANGED <<job, balance, now, open, charged>> PROVE Goal
  BY <1>1
<1>2. ASSUME NEW i \in 1..RowsPerMonth, Stamp(i) PROVE Goal
  BY <1>2 DEF Stamp, calendar, closing
<1>3. CASE Commit
  BY <1>3 DEF Commit, calendar, closing
<1>4. ASSUME NEW m \in 0..now, Request(m) PROVE Goal
  BY <1>0, <1>4 DEF Request, calendar, traffic
<1>5. ASSUME NEW w \in Writers, ReadUsed(w) PROVE Goal
  <2>1. /\ UNCHANGED <<now, open, charged, balance>>
        /\ \A v \in Writers : v # w => job'[v] = job[v]
        /\ job[w].at = "claimed" /\ job'[w].period = job[w].period
    BY <1>0, <1>5 DEF ReadUsed, calendar, traffic
  <2> QED
    BY <1>0, <1>5, <2>1
<1>6. ASSUME NEW w \in Writers, Upsert(w) PROVE Goal
  <2>1. /\ UNCHANGED <<now, open, charged>>
        /\ \A v \in Writers : v # w => job'[v] = job[v]
        /\ job'[w].at = "asleep"
        /\ balance' = [balance EXCEPT ![job[w].period] = job[w].row]
    BY <1>0, <1>6 DEF Upsert, calendar, traffic, Asleep
  <2> QED
    BY <1>0, <1>6, <2>1
<1>7. ASSUME NEW w \in Writers, SnapshotFails(w) PROVE Goal
  BY <1>0, <1>7 DEF SnapshotFails, calendar, traffic, Asleep
<1>8. ASSUME NEW n \in Nodes, Claim(n) PROVE Goal
  <2>1. /\ UNCHANGED <<now, open, charged, balance>>
        /\ \A v \in Writers : v # n => job'[v] = job[v]
        /\ job'[n] \in {Asleep, [at |-> "claimed", period |-> Prev]}
    BY <1>0, <1>8 DEF Claim, calendar, traffic
  <2> QED
    BY <1>0, <2>1 DEF Asleep
<1>9. ASSUME NEW n \in Nodes, ClaimFails(n) PROVE Goal
  BY <1>0, <1>9 DEF ClaimFails, calendar, traffic, Asleep
<1>10. ASSUME NEW n \in Nodes, Crash(n) PROVE Goal
  BY <1>0, <1>10 DEF Crash, calendar, traffic
<1>11. ASSUME NEW n \in Nodes, Start(n) PROVE Goal
  BY <1>0, <1>11 DEF Start, calendar, traffic
<1>12. CASE LateDays
  BY <1>1, <1>12 DEF LateDays, traffic, closing
<1>13. CASE MonthTurns
  <2>1. /\ now' = now + 1 /\ UNCHANGED <<open, charged, balance>>
        /\ \A w \in Writers : job[w].at \in {"asleep", "down"}
        /\ job' = [w \in Writers |-> IF w \in Nodes /\ ~Down(w) THEN [at |-> "due"] ELSE job[w]]
    BY <1>13 DEF MonthTurns, Served, traffic
  <2>2. \A w \in Writers : job'[w].at \in {"due", "asleep", "down"}
    BY <2>1
  <2> QED
    BY <1>0, <2>1, <2>2
<1>14. ASSUME NEW n \in Nodes, ArchiveStep(n) \/ ArchiveFails(n) PROVE Goal
  BY <1>1, <1>14 DEF ArchiveStep, ArchiveWake, CountMonth, ExportBatch, Rename, DeleteBatch,
     ArchiveFails, calendar, traffic, closing
<1>15. CASE UNCHANGED cvars
  BY <1>1, <1>15 DEF cvars, calendar, traffic, closing
<1>16. ASSUME NEW m \in 1..now, OpenBill(m) PROVE Goal
  BY <1>1, <1>16 DEF OpenBill, calendar, traffic, closing
<1>17. CASE ReadClosing \/ ReadLevel \/ EndBill
  BY <1>1, <1>17 DEF ReadClosing, ReadLevel, EndBill, calendar, traffic, closing
<1> HIDE DEF Goal
<1> QED
  BY <1>2, <1>3, <1>4, <1>5, <1>6, <1>7, <1>8, <1>9, <1>10, <1>11, <1>12, <1>13, <1>14, <1>15,
     <1>16, <1>17 DEF CloseNext

(* A balance stays right while settlements are stamped and committed *)
LEMMA FitsStays ==
  ASSUME CloseTypeOK, [CloseNext]_cvars,
         NEW m \in Periods, NEW row, Fits(m, row, now, open, charged)
  PROVE  Fits(m, row, now', open', charged')
<1>0. m \in Int /\ now \in Int
  BY DEF CloseTypeOK, Periods, Months
<1>1. ASSUME NEW i \in 1..RowsPerMonth, Stamp(i) PROVE Fits(m, row, now', open', charged')
  <2>1. open = {} /\ open' = {<<now, i>>} /\ charged' = charged /\ now' = now
    BY <1>1 DEF Stamp, calendar
  <2> SUFFICES ASSUME ~row.early PROVE Fits(m, row, now', open', charged')
    BY DEF Fits
  <2>2. m < now
    BY DEF Fits
  <2>3. UpTo(m, open') = {}
    BY <1>0, <2>1, <2>2 DEF UpTo
  <2>4. UpTo(m, charged' \cup open') = UpTo(m, charged \cup open)
    BY <2>1, <2>3 DEF UpTo
  <2> QED
    BY <2>1, <2>2, <2>3, <2>4 DEF Fits
<1>2. CASE Commit
  <2>1. open' = {} /\ charged' = charged \cup open /\ now' = now
    BY <1>2 DEF Commit, calendar
  <2>2. UpTo(m, open') = {} /\ charged' \cup open' = charged \cup open
    BY <2>1 DEF UpTo
  <2> QED
    BY <2>1, <2>2 DEF Fits
<1>3. CASE now' \in {now, now + 1} /\ open' = open /\ charged' = charged
  BY <1>0, <1>3 DEF Fits
<1> QED
  BY <1>1, <1>2, <1>3, Changes

(* A balance is right when it is read *)
LEMMA FitsRead ==
  ASSUME CloseTypeOK, LogInv, Recent, NEW w \in Writers, ReadUsed(w)
  PROVE  /\ job'[w].period \in Periods
         /\ Fits(job'[w].period, job'[w].row, now, open, charged)
<1> DEFINE m == job[w].period
           row == [used |-> EndUsed(m), missed |-> Cardinality(UpTo(m, open)),
                   early |-> now <= m,
                   hollow |-> w = Admin /\ \E r \in charged : r[1] > m /\ r \notin logs]
<1>1. m \in Periods /\ m \in Int /\ now \in Int
  BY JobParts DEF ReadUsed, CloseTypeOK, Periods, Months
<1>2. job'[w] = [at |-> "read", period |-> m, row |-> row]
  BY DEF ReadUsed, CloseTypeOK
<1>3. job'[w].period = m /\ job'[w].row = row
  BY <1>2
<1>4. ASSUME ~(now <= m)
      PROVE  m < now /\ (Cardinality(UpTo(m, open)) = 0 => UpTo(m, open) = {})
  <2>1. IsFiniteSet(UpTo(m, open))
    BY Sized DEF UpTo, CloseTypeOK
  <2> QED
    BY <1>1, <1>4, <2>1, FS_EmptySet
<1>5. ASSUME ~(now <= m), ~(w = Admin /\ \E r \in charged : r[1] > m /\ r \notin logs)
      PROVE  EndUsed(m) + Cardinality(UpTo(m, open)) = Cardinality(UpTo(m, charged \cup open))
  <2>1. ASSUME NEW r \in charged, r[1] > m PROVE r \in logs
    <3>1. CASE w = Admin
      BY <1>5, <2>1, <3>1
    <3>2. CASE w # Admin
      <4>1. w \in Nodes /\ m >= now - 1
        BY <3>2 DEF Writers, Recent, ReadUsed
      <4>2. r[1] \in Int /\ Retention \in Int /\ Retention >= 1
        BY RowParts, CloseConstants DEF CloseTypeOK, Months, CloseConstants
      <4>3. r[1] >= now - Retention
        BY <1>1, <2>1, <4>1, <4>2
      <4> QED
        BY <4>3 DEF LogInv, Kept
    <3> QED
      BY <3>1, <3>2
  <2>2. EndUsed(m) = Cardinality(UpTo(m, charged))
    BY <1>1, <2>1, EndUsedExact DEF CloseTypeOK
  <2>3. /\ UpTo(m, charged) \in SUBSET Rows /\ UpTo(m, open) \in SUBSET Rows
        /\ UpTo(m, charged) \cap UpTo(m, open) = {}
        /\ UpTo(m, charged) \cup UpTo(m, open) = UpTo(m, charged \cup open)
    BY DEF CloseTypeOK, LogInv, Stamped, UpTo
  <2> QED
    BY <2>2, <2>3, SizeApart
<1>6. /\ row.used = EndUsed(m) /\ row.missed = Cardinality(UpTo(m, open))
      /\ row.early = (now <= m)
      /\ row.hollow = (w = Admin /\ \E r \in charged : r[1] > m /\ r \notin logs)
  OBVIOUS
<1> HIDE DEF m, row
<1>7. Fits(m, row, now, open, charged)
  BY <1>4, <1>5, <1>6 DEF Fits
<1> QED
  BY <1>1, <1>3, <1>7

(* Every step keeps the balances right *)
LEMMA BooksStep ==
  ASSUME CloseTypeOK, LogInv, Books, Recent, [CloseNext]_cvars
  PROVE  Books' /\ Recent'
<1>1. Recent'
  <2>1. now \in Int /\ Prev \in {now - 1, now}
    BY PrevPeriod DEF CloseTypeOK, Months
  <2>2. ASSUME NEW n \in Nodes, job'[n].at \in {"claimed", "read"}
        PROVE  now' = now /\ (job'[n].period = Prev \/ job'[n].period >= now - 1)
    BY <2>2, Changes DEF Recent
  <2> QED
    BY <2>1, <2>2 DEF Recent
<1>2. ASSUME NEW w \in Writers, job'[w].at = "read"
      PROVE  Fits(job'[w].period, job'[w].row, now', open', charged')
  <2>1. CASE job'[w] = job[w]
    <3>1. job[w].period \in Periods
      BY <1>2, <2>1, JobParts DEF CloseTypeOK
    <3>2. Fits(job[w].period, job[w].row, now, open, charged)
      BY <1>2, <2>1 DEF Books, Booked
    <3> QED
      BY <2>1, <3>1, <3>2, FitsStays
  <2>2. CASE ReadUsed(w)
    <3>1. UNCHANGED <<now, open, charged>>
      BY <2>2 DEF ReadUsed, calendar, traffic
    <3> QED
      BY <2>2, <3>1, FitsRead
  <2> QED
    BY <1>2, <2>1, <2>2, Changes
<1>3. ASSUME NEW m \in Periods, balance'[m] # None
      PROVE  Fits(m, balance'[m], now', open', charged')
  <2>1. CASE balance'[m] = balance[m]
    <3>1. Fits(m, balance[m], now, open, charged)
      BY <1>3, <2>1 DEF Books, Booked, Closed
    <3> QED
      BY <2>1, <3>1, FitsStays
  <2>2. ASSUME NEW w \in Writers, Upsert(w), job[w].period = m, balance'[m] = job[w].row
        PROVE  Fits(m, balance'[m], now', open', charged')
    <3>1. Fits(m, job[w].row, now, open, charged)
      BY <2>2 DEF Upsert, Books, Booked
    <3> QED
      BY <2>2, <3>1, FitsStays
  <2> QED
    BY <2>1, <2>2, Changes
<1>4. Books'
  BY <1>2, <1>3 DEF Books, Booked, Closed
<1> QED
  BY <1>1, <1>4

-----------------------------------------------------------------------------
(* Bills *)

(* Who changes a bill *)
LEMMA BillMoves ==
  ASSUME [CloseNext]_cvars
  PROVE  \/ bill' = bill
         \/ \E m \in 1..now : OpenBill(m)
         \/ ReadClosing \/ ReadLevel \/ EndBill
BY DEF CloseNext, ArchiveStep, Stamp, Commit, Request, ReadUsed, Upsert, SnapshotFails,
   Claim, ClaimFails, Crash, Start, LateDays, MonthTurns, ArchiveWake, CountMonth,
   ExportBatch, Rename, DeleteBatch, ArchiveFails, cvars

(* A balance a bill holds stays right *)
LEMMA HeldStays ==
  ASSUME CloseTypeOK, [CloseNext]_cvars, NEW m \in Periods, NEW row, Held(m, row)
  PROVE  row # None => Fits(m, row, now', open', charged')
BY FitsStays DEF Held, Booked

(* No settlement up to a sound balance is still to come *)
LEMMA SoundMeans ==
  ASSUME CloseTypeOK, NEW m \in Periods, NEW row \in {None} \cup BalanceRow,
         Held(m, row), Sound(row)
  PROVE  /\ UpTo(m, open) = {}
         /\ row.used = Cardinality(UpTo(m, charged))
<1>1. Fits(m, row, now, open, charged)
  BY DEF Sound, Held, Booked
<1>2. row.used \in Int /\ row.missed = 0 /\ ~row.early /\ ~row.hollow
  BY DEF Sound, BalanceRow
<1>3. UpTo(m, open) = {}
  BY <1>1, <1>2 DEF Fits
<1>4. UpTo(m, charged \cup open) = UpTo(m, charged)
  BY <1>3 DEF UpTo
<1>5. row.used + row.missed = Cardinality(UpTo(m, charged))
  BY <1>1, <1>2, <1>4 DEF Fits
<1> QED
  BY <1>2, <1>3, <1>5

(* A level that is read, then settlements that commit: those up to a sound  *)
(* opening are in it.                                                       *)
LEMMA SeenStays ==
  ASSUME CloseTypeOK, [CloseNext]_cvars, bill.at = "sum", Copied, bill' = bill
  PROVE  /\ bill.seen \subseteq charged'
         /\ Sound(bill.opening) => UpTo(bill.month - 1, charged') \subseteq bill.seen
<1>1. bill # NoBill
  BY DEF NoBill
<1>2. /\ bill.month - 1 \in Periods /\ bill.opening \in {None} \cup BalanceRow
      /\ Held(bill.month - 1, bill.opening) /\ bill.seen \subseteq charged
  BY <1>1, BillParts DEF Copied, CloseTypeOK
<1>3. charged' = charged \/ charged' = charged \cup open
  <2>1. ASSUME NEW i \in 1..RowsPerMonth, Stamp(i) PROVE charged' = charged
    BY <2>1 DEF Stamp
  <2>2. CASE Commit
    BY <2>2 DEF Commit
  <2> QED
    BY <2>1, <2>2, Changes
<1>4. ASSUME Sound(bill.opening) PROVE UpTo(bill.month - 1, charged') \subseteq bill.seen
  <2>1. UpTo(bill.month - 1, open) = {}
    BY <1>2, <1>4, SoundMeans
  <2>2. UpTo(bill.month - 1, charged') = UpTo(bill.month - 1, charged)
    BY <1>3, <2>1 DEF UpTo
  <2> QED
    BY <1>4, <2>2 DEF Copied
<1> QED
  BY <1>2, <1>3, <1>4

(* Every step keeps what a bill has read right *)
LEMMA CopiedStep ==
  ASSUME CloseTypeOK, Books, Copied, [CloseNext]_cvars
  PROVE  Copied'
<1>0. ASSUME NEW m \in Periods, Closed(m) PROVE Booked(m, balance[m])
  BY <1>0 DEF Books
<1>1. CASE bill' = bill
  <2>1. ASSUME bill # NoBill
        PROVE  Held(bill.month - 1, bill.opening)' /\ Held(bill.month, bill.closing)'
    <3>1. bill.month \in Periods /\ bill.month - 1 \in Periods
      BY <2>1, BillParts DEF CloseTypeOK
    <3>2. Held(bill.month - 1, bill.opening) /\ Held(bill.month, bill.closing)
      BY <2>1 DEF Copied
    <3>3. bill.opening # None => Fits(bill.month - 1, bill.opening, now', open', charged')
      BY <3>1, <3>2, HeldStays
    <3>4. bill.closing # None => Fits(bill.month, bill.closing, now', open', charged')
      BY <3>1, <3>2, HeldStays
    <3> QED
      BY <1>1, <3>3, <3>4 DEF Held, Booked
  <2>2. bill.at = "sum" =>
          /\ bill.seen \subseteq charged'
          /\ Sound(bill.opening) => UpTo(bill.month - 1, charged') \subseteq bill.seen
    BY <1>1, SeenStays
  <2>3. Sound(bill.opening)' <=> Sound(bill.opening)
    BY <1>1 DEF Sound
  <2> QED
    BY <1>1, <2>1, <2>2, <2>3 DEF Copied
<1>2. ASSUME NEW m \in 1..now, OpenBill(m) PROVE Copied'
  <2>1. /\ bill' = [at |-> "closing", month |-> m, opening |-> balance[m - 1],
                    closing |-> None, seen |-> {}]
        /\ UNCHANGED <<now, open, charged>>
    BY <1>2 DEF OpenBill, calendar, traffic
  <2>2. m - 1 \in Periods
    BY CloseConstants DEF CloseTypeOK, Months, Periods, CloseConstants
  <2>3. balance[m - 1] # None => Booked(m - 1, balance[m - 1])
    BY <1>0, <2>2 DEF Closed
  <2>4. /\ bill'.at = "closing" /\ bill'.month = m
        /\ bill'.opening = balance[m - 1] /\ bill'.closing = None
    BY <2>1
  <2> QED
    BY <2>1, <2>3, <2>4 DEF Copied, Held, Booked
<1>3. ASSUME bill.at \in {"closing", "level"}, UNCHANGED <<now, open, charged>>,
             bill'.month = bill.month, bill'.opening = bill.opening,
             bill'.closing \in {bill.closing, balance[bill.month]},
             bill'.at = "sum" => bill'.seen = charged
      PROVE  Copied'
  <2>1. bill # NoBill
    BY <1>3 DEF NoBill
  <2>2. bill.month \in Periods
    BY <2>1, BillParts DEF CloseTypeOK
  <2>3. balance[bill.month] # None => Booked(bill.month, balance[bill.month])
    BY <1>0, <2>2 DEF Closed
  <2>4. Held(bill.month - 1, bill.opening) /\ Held(bill.month, bill.closing)
    BY <2>1 DEF Copied
  <2>5. Held(bill.month - 1, bill.opening)' /\ Held(bill.month, bill.closing)'
    BY <1>3, <2>3, <2>4 DEF Held, Booked
  <2>6. bill'.at = "sum" =>
          /\ bill'.seen \subseteq charged'
          /\ UpTo(bill'.month - 1, charged') \subseteq bill'.seen
    BY <1>3 DEF UpTo
  <2> QED
    BY <2>5, <2>6 DEF Copied
<1>4. CASE ReadClosing
  <2>1. /\ bill.at = "closing" /\ UNCHANGED <<now, open, charged>>
        /\ \/ bill' = [bill EXCEPT !.at = "level", !.closing = balance[bill.month]]
           \/ bill' = [bill EXCEPT !.at = "level"]
    BY <1>4 DEF ReadClosing, calendar, traffic
  <2>2. bill \in BillRow
    BY <2>1, BillParts DEF CloseTypeOK, NoBill
  <2>3. /\ bill'.at = "level" /\ bill'.month = bill.month /\ bill'.opening = bill.opening
        /\ bill'.closing \in {bill.closing, balance[bill.month]}
    BY <2>1, <2>2 DEF BillRow
  <2> QED
    BY <1>3, <2>1, <2>3
<1>5. CASE ReadLevel
  <2>1. /\ bill.at = "level" /\ UNCHANGED <<now, open, charged>>
        /\ bill' = [bill EXCEPT !.at = "sum", !.seen = charged]
    BY <1>5 DEF ReadLevel, calendar, traffic
  <2>2. bill \in BillRow
    BY <2>1, BillParts DEF CloseTypeOK, NoBill
  <2>3. /\ bill'.month = bill.month /\ bill'.opening = bill.opening
        /\ bill'.closing = bill.closing /\ bill'.seen = charged
    BY <2>1, <2>2 DEF BillRow
  <2> QED
    BY <1>3, <2>1, <2>3
<1>6. CASE EndBill
  <2>1. bill' = NoBill /\ bill'.at = "none"
    BY <1>6 DEF EndBill, NoBill
  <2> QED
    BY <2>1 DEF Copied
<1> QED
  BY <1>1, <1>2, <1>4, <1>5, <1>6, BillMoves

(* The settlements of a month are those up to it less those up to the one   *)
(* before                                                                   *)
LEMMA MonthApart ==
  ASSUME NEW S \in SUBSET Rows, NEW m \in Int
  PROVE  Cardinality(UpTo(m, S)) = Cardinality(UpTo(m - 1, S)) + Cardinality(Of(m, S))
<1>1. \A r \in S : r[1] \in Int
  BY RowParts DEF Months
<1>2. UpTo(m, S) = UpTo(m - 1, S) \cup Of(m, S)
  BY <1>1 DEF UpTo, Of
<1>3. UpTo(m - 1, S) \cap Of(m, S) = {}
  BY DEF UpTo, Of
<1>4. UpTo(m - 1, S) \in SUBSET Rows /\ Of(m, S) \in SUBSET Rows
  BY DEF UpTo, Of
<1> QED
  BY <1>2, <1>3, <1>4, SizeApart

(* What a level exceeds, or falls short of, the settlements up to its month *)
LEMMA LevelApart ==
  ASSUME NEW done \in SUBSET Rows, NEW seen \in SUBSET done, NEW m \in Int,
         UpTo(m - 1, done) \subseteq seen
  PROVE  Cardinality(UpTo(m, done)) + Cardinality({r \in seen : r[1] > m})
         = Cardinality(seen) + Cardinality(Of(m, done \ seen))
<1> DEFINE over == {r \in seen : r[1] > m}
           since == Of(m, done \ seen)
<1>1. \A r \in done : r[1] \in Int
  BY RowParts DEF Months
<1>2. seen = UpTo(m, seen) \cup over /\ UpTo(m, seen) \cap over = {}
  BY <1>1 DEF UpTo
<1>3. UpTo(m, done) = UpTo(m, seen) \cup since
  BY <1>1 DEF UpTo, Of
<1>4. UpTo(m, seen) \cap since = {}
  BY DEF UpTo, Of
<1>5. UpTo(m, seen) \in SUBSET Rows /\ over \in SUBSET Rows /\ since \in SUBSET Rows
  BY DEF UpTo, Of
<1> HIDE DEF over, since
<1>6. Cardinality(seen) = Cardinality(UpTo(m, seen)) + Cardinality(over)
  <2>1. Cardinality(UpTo(m, seen) \cup over) = Cardinality(UpTo(m, seen)) + Cardinality(over)
    BY <1>2, <1>5, SizeApart
  <2> QED
    BY <1>2, <2>1, Zenon
<1>7. Cardinality(UpTo(m, done)) = Cardinality(UpTo(m, seen)) + Cardinality(since)
  <2>1. Cardinality(UpTo(m, seen) \cup since) = Cardinality(UpTo(m, seen)) + Cardinality(since)
    BY <1>4, <1>5, SizeApart
  <2> QED
    BY <1>3, <2>1, Zenon
<1>8. /\ Cardinality(UpTo(m, seen)) \in Nat /\ Cardinality(over) \in Nat
      /\ Cardinality(since) \in Nat
  BY <1>5, Sized
<1>9. Cardinality(UpTo(m, done)) + Cardinality(over) = Cardinality(seen) + Cardinality(since)
  BY <1>6, <1>7, <1>8
<1> QED
  BY <1>9 DEF over, since

(* Bills are off by no more than they say, because balances are exact *)
LEMMA BillsFollow ==
  ASSUME CloseTypeOK, Copied
  PROVE  BillReconciles
<1> DEFINE m == bill.month
<1> SUFFICES ASSUME bill.at = "sum", Sound(bill.opening),
                    bill.closing = None \/ Sound(bill.closing),
                    Of(m, charged) \subseteq logs
             PROVE  Consumption - (ClosingUsed - bill.opening.used) =
                      IF bill.closing = None THEN Cardinality(Since) - Cardinality(Beyond) ELSE 0
  BY DEF BillReconciles
<1>1. bill # NoBill
  BY DEF NoBill
<1>2. /\ m \in Periods /\ m - 1 \in Periods /\ m \in Int
      /\ bill.opening \in {None} \cup BalanceRow /\ bill.closing \in {None} \cup BalanceRow
  BY <1>1, BillParts DEF CloseTypeOK, Months
<1>3. /\ Held(m - 1, bill.opening) /\ Held(m, bill.closing)
      /\ bill.seen \subseteq charged /\ UpTo(m - 1, charged) \subseteq bill.seen
  BY <1>1 DEF Copied
<1>4. bill.opening.used = Cardinality(UpTo(m - 1, charged))
  BY <1>2, <1>3, SoundMeans
<1>5. Consumption = Cardinality(Of(m, charged))
  <2>1. Of(m, charged) = Of(m, logs)
    BY DEF CloseTypeOK, Of
  <2> QED
    BY <2>1 DEF Consumption
<1> DEFINE a == Cardinality(UpTo(m - 1, charged))
           b == Cardinality(Of(m, charged))
           t == Cardinality(UpTo(m, charged))
           x == Cardinality(Since)
           y == Cardinality(Beyond)
           v == Cardinality(bill.seen)
<1>6. t = a + b
  BY <1>2, MonthApart DEF CloseTypeOK
<1>7. a \in Nat /\ b \in Nat /\ x \in Nat /\ y \in Nat /\ v \in Nat
  <2>1. /\ UpTo(m - 1, charged) \in SUBSET Rows /\ Of(m, charged) \in SUBSET Rows
        /\ Since \in SUBSET Rows /\ Beyond \in SUBSET Rows /\ bill.seen \in SUBSET Rows
    BY <1>3 DEF CloseTypeOK, UpTo, Of, Since, Beyond
  <2> QED
    BY <2>1, Sized
<1>8. CASE bill.closing # None
  <2>1. ClosingUsed = t
    BY <1>2, <1>3, <1>8, SoundMeans DEF ClosingUsed
  <2> HIDE DEF a, b, t, x, y, v, m
  <2>2. b - (t - a) = 0
    BY <1>6, <1>7
  <2> QED
    BY <1>4, <1>5, <1>8, <2>1, <2>2 DEF a, b, t, m
<1>9. CASE bill.closing = None
  <2>1. ClosingUsed = v
    BY <1>9 DEF ClosingUsed, Level
  <2>2. t + y = v + x
    BY <1>2, <1>3, LevelApart DEF CloseTypeOK, Since, Beyond
  <2> HIDE DEF a, b, t, x, y, v, m
  <2>3. b - (v - a) = x - y
    BY <1>6, <1>7, <2>2
  <2> QED
    BY <1>4, <1>5, <1>9, <2>1, <2>3 DEF a, b, v, x, y, m
<1> QED
  BY <1>8, <1>9

(* Right balances are exact *)
LEMMA BooksExact ==
  ASSUME Books
  PROVE  ClosedExactly
BY DEF Books, Booked, Fits, ClosedExactly

-----------------------------------------------------------------------------
(* The inductive invariant of the log, its archive and the balances *)
LEMMA CloseInvariant == CloseSpec => []CloseInv
<1>1. CloseInit => CloseInv
  <2> SUFFICES ASSUME CloseInit PROVE CloseInv
    OBVIOUS
  <2>1. Books /\ Recent
    <3>1. \A m \in Periods : ~Closed(m)
      BY DEF CloseInit, Closed
    <3>2. job = [w \in Writers |-> IF w = Admin THEN Asleep ELSE [at |-> "due"]]
      BY DEF CloseInit
    <3>3. \A w \in Writers : job[w].at \in {"asleep", "due"}
      BY <3>2 DEF Asleep
    <3>4. Nodes \subseteq Writers
      BY DEF Writers
    <3> QED
      BY <3>1, <3>3, <3>4 DEF Books, Recent
  <2>2. Copied
    BY DEF CloseInit, Copied, NoBill
  <2> QED
    BY <2>1, <2>2, CloseTypeStart, LogStart DEF CloseInv, LogInv
<1>2. CloseInv /\ [CloseNext]_cvars => CloseInv'
  BY CloseTypeStep, LogStep, BooksStep, CopiedStep DEF CloseInv, LogInv
<1> QED
  BY <1>1, <1>2, PTL DEF CloseSpec

(* The state of writers, archivers, balances and files is well-formed.  *)
THEOREM CloseTypesCorrect == CloseSpec => []CloseTypeOK
<1>1. CloseInv => CloseTypeOK
  BY DEF CloseInv
<1> QED
  BY <1>1, CloseInvariant, PTL

(* Any number of archivers that crash or meet lose no row.  *)
THEOREM ArchiveKeepsRows == CloseSpec => []NothingLost
<1>1. CloseInv => NothingLost
  BY DEF CloseInv
<1> QED
  BY <1>1, CloseInvariant, PTL

(* A balance is exact however often and by whomever it is written.  *)
THEOREM BalancesExact == CloseSpec => []ClosedExactly
<1>1. CloseInv => ClosedExactly
  BY BooksExact DEF CloseInv
<1> QED
  BY <1>1, CloseInvariant, PTL

(* Two sound balances and the log between them agree, and a bill that takes *)
(* the level is off by exactly what settled between its statements and in   *)
(* later months, whatever settles, closes or is archived meanwhile.         *)
THEOREM BillsReconcile == CloseSpec => []BillReconciles
<1>1. CloseInv => BillReconciles
  BY BillsFollow DEF CloseInv
<1> QED
  BY <1>1, CloseInvariant, PTL
=============================================================================
