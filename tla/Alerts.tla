------------------------------- MODULE Alerts -------------------------------
(***************************************************************************)
(* Warnings of one customer: after a settlement its instance checks the    *)
(* level the use has reached and the points that remain, at most once in   *)
(* a window; a check within the window is made up for when it ends.  The   *)
(* row holds what was warned of already.  Instances, the checks of one     *)
(* instance and an administrator's edit interleave between statements.     *)
(***************************************************************************)
EXTENDS Integers, FiniteSets, FiniteSetsExt, Sequences, TLC

CONSTANTS
  Gates,          \* instances
  Checks,         \* bound: checks under way at once
  Budgets,        \* the limits there may be
  LevelChoices, BalanceChoices,   \* alert_levels and alert_balance
  MaxUsed, MaxChanges, MaxStops   \* bounds

ASSUME AlertConstants ==
  /\ Budgets \subseteq Nat /\ BalanceChoices \subseteq Nat
  /\ LevelChoices \subseteq Seq(Nat)
  /\ MaxUsed \in Nat /\ MaxChanges \in Nat /\ MaxStops \in Nat

VARIABLES
  org,        \* the row
  window,     \* per instance: has a check begun within the last minute
  recheck,    \* per instance: is one to follow when the minute is over
  check,      \* the checks under way
  edit,       \* UpdateOrgAlertLevels between its statements
  changes, stops,      \* so far
  mailed,     \* history: mails for a level since the row was last below it
  owed        \* history: a warning the next settlement has to make up for

alertVars == <<org, window, recheck, check, edit, changes, stops, mailed, owed>>

Rest == [at |-> "rest"]
Points == 0      \* the rank of the remaining points, beside those of the levels
Ranks == {Points} \cup UNION {DOMAIN l : l \in LevelChoices}

OrgRow == [used : 0..MaxUsed, limit : Budgets, levels : LevelChoices, level : Ranks,
           balance : BalanceChoices, hit : BOOLEAN]
CheckRow == {Rest} \cup [at : {"enter", "read"}, gate : Gates]
            \cup [at : {"level", "balance"}, gate : Gates, seen : OrgRow]
EditRow == {Rest, [at |-> "recompute"]} \cup [at : {"write"}, level : Ranks, hit : BOOLEAN]

AlertInit ==
  /\ \E q \in Budgets, l \in LevelChoices, b \in BalanceChoices :
       org = [used |-> 0, limit |-> q, levels |-> l, level |-> 0, balance |-> b, hit |-> FALSE]
  /\ window = [g \in Gates |-> FALSE] /\ recheck = [g \in Gates |-> FALSE]
  /\ check = [c \in Checks |-> Rest] /\ edit = Rest
  /\ changes = 0 /\ stops = 0
  /\ mailed = [k \in Ranks |-> 0] /\ owed = FALSE

(* bracket: the highest level whose share of the limit is used *)
Bracket(o) == Max({0} \cup {k \in DOMAIN o.levels : o.used * 100 >= o.limit * o.levels[k]})

Short(o) == o.limit - o.used < o.balance

Watched(o) == o.limit > 0 /\ (o.levels # <<>> \/ o.balance > 0)

(* Everything the row has reached, it has warned of *)
Told(o) == Watched(o) => /\ o.level >= Bracket(o)
                         /\ o.balance > 0 /\ Short(o) => o.hit

-----------------------------------------------------------------------------
Starts(c, g) == check[c] = Rest /\ check' = [check EXCEPT ![c] = [at |-> "enter", gate |-> g]]

(* A settlement with a cost, and the check it starts on its instance *)
Settle(c, g) ==
  /\ org.used < MaxUsed
  /\ org' = [org EXCEPT !.used = @ + 1]
  /\ Starts(c, g)
  /\ owed' = FALSE
  /\ UNCHANGED <<window, recheck, edit, changes, stops, mailed>>

(* The limit is changed; nobody is told of it here *)
SetLimit(q) ==
  /\ changes < MaxChanges /\ changes' = changes + 1
  /\ q # org.limit
  /\ org' = [org EXCEPT !.limit = q]
  /\ owed' = (owed \/ ~Told(org'))
  /\ UNCHANGED <<window, recheck, check, edit, stops, mailed>>

(* Mutation of Throttled: a check within the window is simply dropped. *)
MutThrottled(c, g) == UNCHANGED recheck

(* scheduleAlertRecheck *)
Throttled(c, g) == recheck' = [recheck EXCEPT ![g] = TRUE]

(* throttleWindow: two checks may pass when both look before either stores *)
Enter(c) ==
  /\ check[c].at = "enter"
  /\ IF window[check[c].gate]
       THEN Throttled(c, check[c].gate) /\ check' = [check EXCEPT ![c] = Rest]
       ELSE check' = [check EXCEPT ![c].at = "read"] /\ UNCHANGED recheck
  /\ UNCHANGED <<org, window, edit, changes, stops, mailed, owed>>

Read(c) ==
  /\ check[c].at = "read"
  /\ window' = [window EXCEPT ![check[c].gate] = TRUE]
  /\ check' = [check EXCEPT ![c] =
       IF Watched(org) THEN [at |-> "level", gate |-> @.gate, seen |-> org] ELSE Rest]
  /\ UNCHANGED <<org, recheck, edit, changes, stops, mailed, owed>>

Mail(k) == mailed' = [mailed EXCEPT ![k] = @ + 1]

SetLevel(k) == org' = [org EXCEPT !.level = k]

(* A rank above k may be mailed again *)
Unmailed(k) == [r \in Ranks |-> IF r # Points /\ r > k THEN 0 ELSE mailed[r]]

(* Mutation of Wins: whoever saw the crossing mails. *)
MutWins(k) == TRUE

(* UPDATE ... WHERE alert_level < k *)
Wins(k) == org.level < k

CheckLevel(c) ==
  /\ check[c].at = "level"
  /\ LET seen == check[c].seen
         k == Bracket(seen) IN
     /\ IF k > seen.level
          THEN IF Wins(k) THEN SetLevel(k) /\ Mail(k) ELSE UNCHANGED <<org, mailed>>
          ELSE IF k < seen.level THEN SetLevel(k) /\ mailed' = Unmailed(k)
          ELSE UNCHANGED <<org, mailed>>
     /\ check' = [check EXCEPT ![c] = IF seen.balance > 0 THEN [@ EXCEPT !.at = "balance"] ELSE Rest]
  /\ owed' = (owed \/ (org'.level < org.level /\ ~Told(org')))
  /\ UNCHANGED <<window, recheck, edit, changes, stops>>

CheckBalance(c) ==
  /\ check[c].at = "balance"
  /\ IF Short(check[c].seen)
       THEN IF org.hit THEN UNCHANGED mailed ELSE Mail(Points)
       ELSE mailed' = [mailed EXCEPT ![Points] = 0]
  /\ org' = [org EXCEPT !.hit = Short(check[c].seen)]
  /\ check' = [check EXCEPT ![c] = Rest]
  /\ owed' = (owed \/ (~org'.hit /\ ~Told(org')))
  /\ UNCHANGED <<window, recheck, edit, changes, stops>>

(* A statement fails: raising a level or noting a balance ends the check,   *)
(* lowering a level does not.                                               *)
CheckFails(c) ==
  /\ check[c].at \in {"read", "level", "balance"}
  /\ check[c].at = "level" => Bracket(check[c].seen) # check[c].seen.level
  /\ stops < MaxStops /\ stops' = stops + 1
  /\ window' = [window EXCEPT ![check[c].gate] = TRUE]
  /\ check' = [check EXCEPT ![c] =
       IF check[c].at = "level" /\ Bracket(check[c].seen) < check[c].seen.level
            /\ check[c].seen.balance > 0
         THEN [@ EXCEPT !.at = "balance"] ELSE Rest]
  /\ owed' = TRUE
  /\ UNCHANGED <<org, recheck, edit, changes, mailed>>

(* The minute is over *)
WindowEnds(g) ==
  /\ window[g]
  /\ window' = [window EXCEPT ![g] = FALSE]
  /\ UNCHANGED <<org, recheck, check, edit, changes, stops, mailed, owed>>

(* The check put off until then *)
Recheck(c, g) ==
  /\ recheck[g] /\ ~window[g]
  /\ recheck' = [recheck EXCEPT ![g] = FALSE]
  /\ Starts(c, g)
  /\ UNCHANGED <<org, window, edit, changes, stops, mailed, owed>>

(* UpdateOrgAlertLevels, then RecomputeAlertLevel reads and writes *)
Configure(l, b) ==
  /\ changes < MaxChanges /\ changes' = changes + 1
  /\ edit = Rest
  /\ org' = [org EXCEPT !.levels = l, !.balance = b]
  /\ edit' = [at |-> "recompute"]
  /\ owed' = (owed \/ ~Told(org'))
  /\ UNCHANGED <<window, recheck, check, stops, mailed>>

Recompute ==
  /\ edit.at = "recompute"
  /\ edit' = [at |-> "write",
              level |-> IF org.limit > 0 THEN Bracket(org) ELSE 0,
              hit |-> org.balance > 0 /\ org.limit > 0 /\ Short(org)]
  /\ UNCHANGED <<org, window, recheck, check, changes, stops, mailed, owed>>

WriteLevel ==
  /\ edit.at = "write"
  /\ org' = [org EXCEPT !.level = edit.level, !.hit = edit.hit]
  /\ mailed' = [Unmailed(edit.level) EXCEPT ![Points] = IF edit.hit THEN @ ELSE 0]
  /\ edit' = Rest
  /\ owed' = (owed \/ ~Told(org'))
  /\ UNCHANGED <<window, recheck, check, changes, stops>>

(* An instance stops: its checks, its window and its timers are gone.  An   *)
(* edit it served is not finished.                                          *)
Stop(g) ==
  /\ stops < MaxStops /\ stops' = stops + 1
  /\ window' = [window EXCEPT ![g] = FALSE]
  /\ recheck' = [recheck EXCEPT ![g] = FALSE]
  /\ check' = [c \in Checks |-> IF check[c] # Rest /\ check[c].gate = g THEN Rest ELSE check[c]]
  /\ edit' \in {edit, Rest}
  /\ owed' = TRUE
  /\ UNCHANGED <<org, changes, mailed>>

CheckStep(c) == Enter(c) \/ Read(c) \/ CheckLevel(c) \/ CheckBalance(c)

AlertNext ==
  \/ \E c \in Checks, g \in Gates : Settle(c, g) \/ Recheck(c, g)
  \/ \E c \in Checks : CheckStep(c) \/ CheckFails(c)
  \/ \E g \in Gates : WindowEnds(g) \/ Stop(g)
  \/ \E q \in Budgets : SetLimit(q)
  \/ \E l \in LevelChoices, b \in BalanceChoices : Configure(l, b)
  \/ Recompute \/ WriteLevel

(* Goroutines and timers run: while one can, some do *)
AlertFairness ==
  WF_alertVars(\/ \E c \in Checks : CheckStep(c) \/ \E g \in Gates : Recheck(c, g)
               \/ \E g \in Gates : WindowEnds(g)
               \/ Recompute \/ WriteLevel)

AlertSpec == AlertInit /\ [][AlertNext]_alertVars /\ AlertFairness

-----------------------------------------------------------------------------
AlertTypeOK ==
  /\ org \in OrgRow
  /\ window \in [Gates -> BOOLEAN] /\ recheck \in [Gates -> BOOLEAN]
  /\ check \in [Checks -> CheckRow] /\ edit \in EditRow
  /\ DOMAIN mailed = Ranks /\ owed \in BOOLEAN

(* One mail for a crossing, whatever number of checks on whatever instances *)
(* see it at once: none for a level the row stayed at or above since the    *)
(* last, none for the remaining points while the row says they are short.   *)
OneMailPerCrossing == \A k \in Ranks : mailed[k] <= 1

(* When settlements cease, the last one's crossing has been warned of, the  *)
(* one a window held back too; unless afterwards a lower limit or an edit   *)
(* crossed it instead, an instance stopped or a statement failed, or a      *)
(* level was lowered by what had been read before.                          *)
CrossingsTold == <>[](Told(org) \/ owed)
=============================================================================
