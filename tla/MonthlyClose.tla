---------------------------- MODULE MonthlyClose ----------------------------
(***************************************************************************)
(* What happens to a month once it is over: every instance wakes on the    *)
(* first and one of them writes the month's closing balance, a customer's  *)
(* bill is reconciled from two balances and the log, and rows older than   *)
(* the retention move from the log to a file.                              *)
(*                                                                         *)
(* One customer, whose settlements cost one point each; a row <<m, i>> is  *)
(* the i-th of month m.  A month has a late part, from whose days one      *)
(* cannot always count a month back.  Each instance archives into a        *)
(* directory of its own.                                                   *)
(***************************************************************************)
EXTENDS Integers, FiniteSets, FiniteSetsExt, TLC

CONSTANTS
  Nodes, Admin,     \* instances, and the handler of a manual snapshot
  Retention,        \* whole months the log keeps
  LongMonths,       \* months longer than the one before
  LastMonth, RowsPerMonth, MaxFaults, MaxManual   \* bounds

ASSUME CloseConstants ==
  /\ Retention \in Nat \ {0} /\ LastMonth \in Nat \ {0} /\ RowsPerMonth \in Nat
  /\ MaxFaults \in Nat /\ MaxManual \in Nat /\ Admin \notin Nodes

Months == 1..LastMonth
Periods == 0..LastMonth     \* and the one before the first
Rows == Months \X (1..RowsPerMonth)
Writers == Nodes \cup {Admin}
Of(m, rows) == {r \in rows : r[1] = m}
UpTo(m, rows) == {r \in rows : r[1] <= m}

VARIABLES
  now, late,     \* the month, and whether it is in its late part
  open,          \* settlements stamped with a time, not committed yet
  charged,       \* settlements committed: quota_used is their number
  logs,          \* usage_logs
  marker,        \* the setting balance_snapshot_period
  balance,       \* period_balances
  job,           \* the writers of balances
  arch,          \* the archivers
  file,          \* complete archive files
  bill,          \* a bill under way
  faults, manual \* so far

calendar == <<now, late>>
traffic == <<open, charged, logs>>
closing == <<marker, balance, job>>
cvars == <<calendar, traffic, closing, bill, arch, file, faults, manual>>

NoRow == -1
Blank == -2
None == [used |-> -1]
Asleep == [at |-> "asleep"]
Idle == [at |-> "idle"]
NoBill == [at |-> "none"]

BalanceRow == [used : Nat, missed : Nat, early : BOOLEAN, hollow : BOOLEAN]
JobRow == [at : {"asleep", "down", "due"}]
          \cup [at : {"claimed"}, period : Periods]
          \cup [at : {"read"}, period : Periods, row : BalanceRow]
ArchRow == [at : {"count", "export", "delete"}, month : Months, until : Months,
            count : Nat, got : SUBSET Rows, last : Nat]
BillRow == [at : {"closing", "level", "sum"}, month : Months, seen : SUBSET Rows,
            opening : {None} \cup BalanceRow, closing : {None} \cup BalanceRow]

CloseInit ==
  /\ now = 1 /\ late = FALSE
  /\ open = {} /\ charged = {} /\ logs = {}
  /\ marker = NoRow /\ balance = [m \in Periods |-> None]
  /\ job = [w \in Writers |-> IF w = Admin THEN Asleep ELSE [at |-> "due"]]
  /\ arch = [n \in Nodes |-> Idle]
  /\ file = [n \in Nodes |-> {}]
  /\ bill = NoBill
  /\ faults = 0 /\ manual = 0

Fault == faults < MaxFaults /\ faults' = faults + 1

-----------------------------------------------------------------------------
(* Settlements: the row's time is taken inside the transaction that also   *)
(* raises quota_used, and both are seen at its commit.                     *)

Stamp(i) ==
  /\ open = {} /\ <<now, i>> \notin charged
  /\ \A k \in 1..i - 1 : <<now, k>> \in charged
  /\ open' = {<<now, i>>}
  /\ UNCHANGED <<calendar, charged, logs, closing, bill, arch, file, faults, manual>>

Commit ==
  /\ open # {}
  /\ open' = {} /\ charged' = charged \cup open /\ logs' = logs \cup open
  /\ UNCHANGED <<calendar, closing, bill, arch, file, faults, manual>>

-----------------------------------------------------------------------------
(* Balances *)

Awake(n) == job[n].at = "due"
Down(n) == job[n].at = "down"

(* The month AddDate(0, -1, 0) leads to: the day does not exist in a short  *)
(* month and runs over into the next.                                       *)
Prev == IF late /\ now \in LongMonths THEN now ELSE now - 1

(* The instance that changes the marker writes the balance *)
Claim(n) ==
  /\ Awake(n)
  /\ marker' = Prev
  /\ job' = [job EXCEPT ![n] = IF marker = Prev THEN Asleep
                                 ELSE [at |-> "claimed", period |-> Prev]]
  /\ UNCHANGED <<calendar, traffic, balance, bill, arch, file, faults, manual>>

ClaimFails(n) ==
  /\ Awake(n) /\ Fault
  /\ job' = [job EXCEPT ![n] = Asleep]
  /\ marker' \in {marker, IF marker = NoRow THEN Blank ELSE marker}
  /\ UNCHANGED <<calendar, traffic, balance, bill, arch, file, manual>>

(* RunSnapshot: an administrator names any month *)
Request(m) ==
  /\ manual < MaxManual /\ manual' = manual + 1
  /\ job[Admin] = Asleep
  /\ job' = [job EXCEPT ![Admin] = [at |-> "claimed", period |-> m]]
  /\ UNCHANGED <<calendar, traffic, marker, balance, bill, arch, file, faults>>

(* Mutation of EndUsed: the level as it is. *)
MutEndUsed(m) == Cardinality(charged)
(* What was used at the end of month m: what is used now less what the log *)
(* says was used since.                                                    *)
EndUsed(m) == Cardinality(charged) - Cardinality(logs \ UpTo(m, logs))

(* SnapshotBalances reads; the last three fields are history: settlements   *)
(* of the month it cannot see yet, whether the month still runs, whether    *)
(* rows since are gone from the log.                                        *)
ReadUsed(w) ==
  /\ job[w].at = "claimed"
  /\ LET m == job[w].period IN
     job' = [job EXCEPT ![w] =
       [at |-> "read", period |-> m,
        row |-> [used |-> EndUsed(m), missed |-> Cardinality(UpTo(m, open)),
                 early |-> now <= m,
                 hollow |-> w = Admin /\ \E r \in charged : r[1] > m /\ r \notin logs]]]
  /\ UNCHANGED <<calendar, traffic, marker, balance, bill, arch, file, faults, manual>>

Upsert(w) ==
  /\ job[w].at = "read"
  /\ balance' = [balance EXCEPT ![job[w].period] = job[w].row]
  /\ job' = [job EXCEPT ![w] = Asleep]
  /\ UNCHANGED <<calendar, traffic, marker, bill, arch, file, faults, manual>>

(* The marker is taken back, if that succeeds; a manual run has none *)
SnapshotFails(w) ==
  /\ job[w].at \in {"claimed", "read"} /\ Fault
  /\ marker' \in IF w = Admin THEN {marker} ELSE {Blank, marker}
  /\ job' = [job EXCEPT ![w] = Asleep]
  /\ UNCHANGED <<calendar, traffic, balance, bill, arch, file, manual>>

Crash(n) ==
  /\ ~Down(n) /\ Fault
  /\ job' = [job EXCEPT ![n] = [at |-> "down"]]
  /\ arch' = [arch EXCEPT ![n] = Idle]
  /\ UNCHANGED <<calendar, traffic, marker, balance, bill, file, manual>>

Start(n) ==
  /\ Down(n)
  /\ job' = [job EXCEPT ![n] = [at |-> "due"]]
  /\ UNCHANGED <<calendar, traffic, marker, balance, bill, arch, file, faults, manual>>

(* The calendar moves on once the jobs of the day are done, and a           *)
(* settlement spans midnight but not days.                                  *)
Served == \A w \in Writers : job[w].at \in {"asleep", "down"}

LateDays ==
  /\ ~late /\ Served /\ open = Of(now, open)
  /\ late' = TRUE
  /\ UNCHANGED <<now, traffic, closing, bill, arch, file, faults, manual>>

MonthTurns ==
  /\ late /\ Served /\ now < LastMonth
  /\ now' = now + 1 /\ late' = FALSE
  /\ job' = [w \in Writers |-> IF w \in Nodes /\ ~Down(w) THEN [at |-> "due"] ELSE job[w]]
  /\ UNCHANGED <<traffic, marker, balance, bill, arch, file, faults, manual>>

-----------------------------------------------------------------------------
(* A bill (BuildBillStatement): the opening balance, the closing one, the   *)
(* customer's row and the log's total, read one after the other.  seen is   *)
(* what the row counted.  A read of a balance that fails finds none.        *)

OpenBill(m) ==
  /\ bill = NoBill
  /\ bill' = [at |-> "closing", month |-> m, opening |-> balance[m - 1],
              closing |-> None, seen |-> {}]
  /\ UNCHANGED <<calendar, traffic, closing, arch, file, faults, manual>>

ReadClosing ==
  /\ bill.at = "closing"
  /\ \/ bill' = [bill EXCEPT !.at = "level", !.closing = balance[bill.month]] /\ UNCHANGED faults
     \/ bill' = [bill EXCEPT !.at = "level"] /\ Fault
  /\ UNCHANGED <<calendar, traffic, closing, arch, file, manual>>

ReadLevel ==
  /\ bill.at = "level"
  /\ bill' = [bill EXCEPT !.at = "sum", !.seen = charged]
  /\ UNCHANGED <<calendar, traffic, closing, arch, file, faults, manual>>

(* It is answered, the row is not found, or its instance stops *)
EndBill ==
  /\ bill # NoBill
  /\ bill' = NoBill
  /\ UNCHANGED <<calendar, traffic, closing, arch, file, faults, manual>>

Level == Cardinality(bill.seen)

(* Mutation of ClosingUsed: the level, always. *)
MutClosingUsed == Level

(* The closing balance, or the level if there is none *)
ClosingUsed == IF bill.closing # None THEN bill.closing.used ELSE Level

(* The total the last statement finds *)
Consumption == Cardinality(Of(bill.month, logs))

Closed(m) == balance[m] # None

-----------------------------------------------------------------------------
(* The archive: month by month, from the oldest row to the retention line.  *)

Oldest == Min({r[1] : r \in logs})

(* Mutation of Cutoff: one month too many is kept. *)
MutCutoff == now - Retention - 1

Cutoff == now - Retention

Work(at, m, until) == [at |-> at, month |-> m, until |-> until,
                       count |-> 0, got |-> {}, last |-> 0]

(* The month after m, if it is before the line *)
Onwards(m, until) == IF m + 1 < until THEN Work("count", m + 1, until) ELSE Idle

ArchiveWake(n) ==
  /\ arch[n] = Idle /\ ~Down(n)
  /\ logs # {} /\ Oldest < Cutoff
  /\ arch' = [arch EXCEPT ![n] = Work("count", Oldest, Cutoff)]
  /\ UNCHANGED <<calendar, traffic, closing, bill, file, faults, manual>>

(* Mutation of Verified: a file counts only if it has as many rows as the   *)
(* log, although some may have been deleted since.                          *)
MutVerified(n) ==
  LET a == arch[n]
      count == Cardinality(Of(a.month, logs)) IN
  IF count = 0 THEN Onwards(a.month, a.until)
  ELSE IF Cardinality(Of(a.month, file[n])) = count THEN [a EXCEPT !.at = "delete"]
  ELSE [a EXCEPT !.at = "export", !.count = count]

(* What a count leads to: the month is empty, a file covers it, or it is    *)
(* exported.                                                                *)
Verified(n) ==
  LET a == arch[n]
      count == Cardinality(Of(a.month, logs)) IN
  IF count = 0 THEN Onwards(a.month, a.until)
  ELSE IF Cardinality(Of(a.month, file[n])) >= count THEN [a EXCEPT !.at = "delete"]
  ELSE [a EXCEPT !.at = "export", !.count = count]

CountMonth(n) ==
  /\ arch[n].at = "count"
  /\ arch' = [arch EXCEPT ![n] = Verified(n)]
  /\ UNCHANGED <<calendar, traffic, closing, bill, file, faults, manual>>

(* The next row of the month after the last one seen; batches of one *)
Following(n) == {r \in Of(arch[n].month, logs) : r[2] > arch[n].last}
First(rows) == CHOOSE r \in rows : \A q \in rows : r[2] <= q[2]

ExportBatch(n) ==
  /\ arch[n].at = "export" /\ Following(n) # {}
  /\ arch' = [arch EXCEPT ![n].got = @ \cup {First(Following(n))},
                          ![n].last = First(Following(n))[2]]
  /\ UNCHANGED <<calendar, traffic, closing, bill, file, faults, manual>>

(* The rows written must be as many as were counted; then the file gets its *)
(* name.  Otherwise the round ends.                                         *)
Rename(n) ==
  /\ arch[n].at = "export" /\ Following(n) = {}
  /\ IF Cardinality(arch[n].got) = arch[n].count
       THEN /\ file' = [file EXCEPT ![n] = (@ \ Of(arch[n].month, @)) \cup arch[n].got]
            /\ arch' = [arch EXCEPT ![n].at = "delete", ![n].last = 0]
       ELSE arch' = [arch EXCEPT ![n] = Idle] /\ UNCHANGED file
  /\ UNCHANGED <<calendar, traffic, closing, bill, faults, manual>>

DeleteBatch(n) ==
  /\ arch[n].at = "delete"
  /\ IF Following(n) = {}
       THEN /\ arch' = [arch EXCEPT ![n] = Onwards(@.month, @.until)]
            /\ UNCHANGED logs
       ELSE /\ logs' = logs \ {First(Following(n))}
            /\ arch' = [arch EXCEPT ![n].last = First(Following(n))[2]]
  /\ UNCHANGED <<calendar, open, charged, closing, bill, file, faults, manual>>

ArchiveFails(n) ==
  /\ arch[n].at \in {"count", "export", "delete"} /\ Fault
  /\ arch' = [arch EXCEPT ![n] = Idle]
  /\ UNCHANGED <<calendar, traffic, closing, bill, file, manual>>

-----------------------------------------------------------------------------
ArchiveStep(n) ==
  ArchiveWake(n) \/ CountMonth(n) \/ ExportBatch(n) \/ Rename(n) \/ DeleteBatch(n)

CloseNext ==
  \/ \E i \in 1..RowsPerMonth : Stamp(i)
  \/ Commit
  \/ \E m \in 0..now : Request(m)
  \/ \E m \in 1..now : OpenBill(m)
  \/ ReadClosing \/ ReadLevel \/ EndBill
  \/ \E w \in Writers : ReadUsed(w) \/ Upsert(w) \/ SnapshotFails(w)
  \/ \E n \in Nodes : \/ Claim(n) \/ ClaimFails(n) \/ Crash(n) \/ Start(n)
                      \/ ArchiveStep(n) \/ ArchiveFails(n)
  \/ LateDays \/ MonthTurns

(* Supervision restarts an instance, and an archiver works every day; that  *)
(* any of them does is enough.                                              *)
CloseFairness == WF_cvars(\E n \in Nodes : Start(n) \/ ArchiveStep(n))

CloseSpec == CloseInit /\ [][CloseNext]_cvars /\ CloseFairness

-----------------------------------------------------------------------------
CloseTypeOK ==
  /\ now \in Months /\ late \in BOOLEAN
  /\ open \subseteq Rows /\ charged \subseteq Rows /\ logs \subseteq charged
  /\ marker \in {NoRow, Blank} \cup Periods
  /\ balance \in [Periods -> {None} \cup BalanceRow]
  /\ job \in [Writers -> JobRow]
  /\ arch \in [Nodes -> {Idle} \cup ArchRow]
  /\ file \in [Nodes -> SUBSET Rows]
  /\ bill \in {NoBill} \cup BillRow

(* A balance written after its month is what was settled up to the month's  *)
(* end, whenever and however often it is written, save for settlements that *)
(* commit later (missed).  The exceptions are a month written before it was *)
(* over and a manual run for a month whose later rows have been archived.   *)
ClosedExactly ==
  \A m \in Periods : Closed(m) /\ ~balance[m].early /\ ~balance[m].hollow =>
    balance[m].used + balance[m].missed = Cardinality(UpTo(m, charged \cup open))

(* How far a bill is from reconciling (chain_ok), when its last statement    *)
(* runs: not at all between two sound balances, whatever settles or is      *)
(* written meanwhile; and one that takes the level instead is off by        *)
(* exactly the month's settlements since it read the level, less those of   *)
(* later months that the level holds.                                       *)
Sound(row) == row # None /\ ~row.early /\ ~row.hollow /\ row.missed = 0
Since == Of(bill.month, charged \ bill.seen)
Beyond == {r \in bill.seen : r[1] > bill.month}
BillReconciles ==
  /\ bill.at = "sum" /\ Sound(bill.opening)
  /\ bill.closing = None \/ Sound(bill.closing)
  /\ Of(bill.month, charged) \subseteq logs
  => Consumption - (ClosingUsed - bill.opening.used) =
       IF bill.closing = None THEN Cardinality(Since) - Cardinality(Beyond) ELSE 0

(* A balance once written for a month is the month's exact final level when *)
(* the next month is over too, whenever the task ran.                       *)
MonthEndExact ==
  \A m \in 1..now - 2 : Closed(m) /\ ~balance[m].hollow =>
    balance[m].used + balance[m].missed = Cardinality(UpTo(m, charged \cup open))

(* A settlement's row is in the log or in an archive file, whatever         *)
(* instances crash or archive at once.                                      *)
NothingLost == \A r \in charged : r \in logs \/ \E n \in Nodes : r \in file[n]

(* Again and again the log holds no row older than the retention.  *)
OldLogsLeave == []<>(\A r \in logs : r[1] >= now - Retention)
=============================================================================
