---------------------------- MODULE QuotaLedger ----------------------------
(***************************************************************************)
(* The points ledger of internal/service/quota.go and the handlers that    *)
(* move it: a customer (org) and its accounts (users) each carry a         *)
(* quota_limit, a quota_used and a lazily reset monthly total.  Requests   *)
(* are authenticated, prechecked without a lock, served, and settled       *)
(* afterwards in one transaction.                                          *)
(*                                                                         *)
(* A database transaction is one step: PostgreSQL holds the row locks of   *)
(* every row a transaction updates until it commits, SQLite serialises     *)
(* write transactions.  What a handler reads or computes outside that      *)
(* protection (the precheck, the billing period of a settlement) is a step *)
(* of its own.                                                             *)
(***************************************************************************)
EXTENDS Integers, FiniteSets

CONSTANTS
  Orgs, Users,      \* ids of the orgs and users tables; never reused
  OrgOf,            \* users.org_id
  AdminOf,          \* the org_admin account created together with an org
  Reqs,             \* concurrent /v1 requests (slots)
  Dialect,          \* "sqlite" or "postgres"
  NULL,             \* SQL NULL: the quota_limit of an unlimited account
  MaxInt,           \* int64 is -(MaxInt + 1) .. MaxInt
  MaxCost,          \* largest cost of one request (maxCost in CalcCost)
  InitialQuotas, OrgDeltas, OrgTargets, UserDeltas, MonthlyCaps,  \* inputs
  MaxGrants,        \* bound: rows of quota_grants
  MaxPeriod         \* bound: months that pass

Int64 == -(MaxInt + 1) .. MaxInt
Subjects == Orgs \cup Users

ASSUME LedgerConstants ==
  /\ Orgs \cap Users = {} /\ Users # {}
  /\ OrgOf \in [Users -> Orgs]
  /\ AdminOf \in [Orgs -> Users]
  /\ \A o \in Orgs : OrgOf[AdminOf[o]] = o
  /\ IsFiniteSet(Reqs)
  /\ Dialect \in {"sqlite", "postgres"}
  /\ NULL \notin Int
  /\ MaxInt \in Nat /\ MaxCost \in Nat
  /\ InitialQuotas \subseteq Int64 /\ OrgDeltas \subseteq Int64
  /\ OrgTargets \subseteq Int64 /\ UserDeltas \subseteq Int64
  /\ MonthlyCaps \subseteq 0 .. MaxInt
  /\ MaxGrants \in Nat /\ MaxPeriod \in Nat

VARIABLES
  row,        \* the orgs and users rows, by id
  granted,    \* sum of quota_grants.amount per subject
  grantRows,  \* number of quota_grants rows
  logged,     \* sum of usage_logs.cost per subject
  period,     \* the current billing month (currentPeriod)
  req,        \* the requests being served
  month,      \* history: cost settled under the current month, per subject
  peak        \* history: highest quota_limit a subject has had

vars == <<row, granted, grantRows, logged, period, req, month, peak>>

(* orgs.status: 1 enabled, 0 disabled by hand, 2 suspended for arrears;    *)
(* users.status is 0 or 1.                                                 *)
Row == [state   : {"unborn", "live", "deleted"},
        status  : {0, 1, 2},
        limit   : Int64 \cup {NULL},
        used    : 0 .. MaxInt,
        mquota  : 0 .. MaxInt,
        mcost   : Nat,
        mperiod : Nat]

Req == [pc     : {"idle", "authed", "inflight", "settling"},
        user   : Users,
        cost   : 0 .. MaxCost,
        period : Nat]

(* A slot that serves no request. *)
NoReq == [pc |-> "idle", user |-> CHOOSE u \in Users : TRUE,
          cost |-> 0, period |-> 0]

(* The column defaults of a freshly inserted row. *)
NewRow(limit) ==
  [state |-> "live", status |-> 1, limit |-> limit, used |-> 0,
   mquota |-> 0, mcost |-> 0, mperiod |-> 0]

Live(s) == row[s].state = "live"

MaxOf(a, b) == IF a >= b THEN a ELSE b

(* COALESCE(quota_limit, 0) *)
Coalesce(limit) == IF limit = NULL THEN 0 ELSE limit

(* Go's int64 arithmetic: the result of one addition or subtraction. *)
Wrap(x) ==
  IF x > MaxInt THEN x - 2 * (MaxInt + 1)
  ELSE IF x < -(MaxInt + 1) THEN x + 2 * (MaxInt + 1) ELSE x

addNoWrap(base, amount) ==
  LET sum == Wrap(base + amount)
  IN  ~(amount > 0 /\ sum < base) /\ ~(amount < 0 /\ sum > base)

Init ==
  /\ row = [s \in Subjects |->
              [NewRow(IF s \in Orgs THEN 0 ELSE NULL)
                 EXCEPT !.state = "unborn"]]
  /\ granted = [s \in Subjects |-> 0]
  /\ grantRows = 0
  /\ logged = [s \in Subjects |-> 0]
  /\ period = 1
  /\ req = [r \in Reqs |-> NoReq]
  /\ month = [s \in Subjects |-> 0]
  /\ peak = [s \in Subjects |-> 0]

-----------------------------------------------------------------------------
(* Quota grants.  Every change of a limit books its difference.            *)

(* Mutation of Grant: only positive differences are booked. *)
MutGrant(s, amount) ==
  /\ granted' = [granted EXCEPT ![s] = @ + MaxOf(amount, 0)]
  /\ grantRows' = IF amount = 0 THEN grantRows ELSE grantRows + 1

(* Insert a quota_grants row of the given amount unless it is zero. *)
Grant(s, amount) ==
  /\ granted' = [granted EXCEPT ![s] = @ + amount]
  /\ grantRows' = IF amount = 0 THEN grantRows ELSE grantRows + 1

SetLimit(s, limit) ==
  peak' = [peak EXCEPT ![s] = MaxOf(@, Coalesce(limit))]

(* Mutations of LiftArrears: not called, and without its status = 2. *)
MutNoLift(r) == r
MutLiftAny(r) == IF r.limit > r.used THEN [r EXCEPT !.status = 1] ELSE r

(* UPDATE orgs SET status = 1 WHERE status = 2 AND quota_limit > quota_used *)
LiftArrears(r) ==
  IF r.status = 2 /\ r.limit > r.used THEN [r EXCEPT !.status = 1] ELSE r

(* The part of a ledger step that no grant or account operation touches. *)
NoTraffic == UNCHANGED <<logged, period, req, month>>

(* CreateOrg, and with amount 0 the self-service registration *)
CreateOrg(o, amount) ==
  /\ row[o].state = "unborn" /\ row[AdminOf[o]].state = "unborn"
  /\ amount >= 0
  /\ grantRows < MaxGrants
  /\ row' = [row EXCEPT ![o] = NewRow(amount), ![AdminOf[o]] = NewRow(NULL)]
  /\ Grant(o, amount)
  /\ SetLimit(o, amount)
  /\ NoTraffic

(* CreateMember: an initial quota of 0 leaves quota_limit NULL *)
CreateMember(u, amount) ==
  /\ Live(OrgOf[u]) /\ row[u].state = "unborn" /\ u # AdminOf[OrgOf[u]]
  /\ amount >= 0
  /\ grantRows < MaxGrants
  /\ row' = [row EXCEPT ![u] = NewRow(IF amount = 0 THEN NULL ELSE amount)]
  /\ Grant(u, amount)
  /\ SetLimit(u, amount)
  /\ NoTraffic

AddOrgQuotaTx(o, amount) ==
  /\ Live(o)
  /\ addNoWrap(row[o].limit, amount)
  /\ grantRows < MaxGrants
  /\ row' = [row EXCEPT ![o] = LiftArrears([@ EXCEPT !.limit = row[o].limit + amount])]
  /\ Grant(o, amount)
  /\ SetLimit(o, row[o].limit + amount)

AddOrgQuota(o, amount) == AddOrgQuotaTx(o, amount) /\ NoTraffic

SetOrgQuota(o, limit) ==
  /\ Live(o)
  /\ limit >= 0
  /\ grantRows < MaxGrants
  /\ row' = [row EXCEPT ![o] = LiftArrears([@ EXCEPT !.limit = limit])]
  /\ Grant(o, Wrap(limit - row[o].limit))
  /\ SetLimit(o, limit)
  /\ NoTraffic

AddUserQuotaTx(u, amount) ==
  /\ Live(u)
  /\ row[u].limit # NULL
  /\ addNoWrap(row[u].limit, amount)
  /\ grantRows < MaxGrants
  /\ row' = [row EXCEPT ![u].limit = @ + amount]
  /\ Grant(u, amount)
  /\ SetLimit(u, row[u].limit + amount)

AddUserQuota(u, amount) == AddUserQuotaTx(u, amount) /\ NoTraffic

(* Limited to unlimited returns the whole limit; unlimited to limited      *)
(* starts at what has been used.  A call that changes nothing is a no-op.  *)
SetUserQuotaUnlimited(u, unlimited) ==
  /\ Live(u) /\ u # AdminOf[OrgOf[u]]
  /\ unlimited # (row[u].limit = NULL)
  /\ grantRows < MaxGrants
  /\ LET new == IF unlimited THEN NULL ELSE row[u].used
         delta == IF unlimited THEN Wrap(0 - row[u].limit) ELSE row[u].used
     IN  /\ row' = [row EXCEPT ![u].limit = new]
         /\ Grant(u, delta)
         /\ SetLimit(u, new)
  /\ NoTraffic

-----------------------------------------------------------------------------
(* Account administration.                                                 *)

NoGrant == UNCHANGED <<granted, grantRows, peak>>

(* UpdateOrg: either field may be left out, which keeps its value *)
UpdateOrg(o, status, mquota) ==
  /\ Live(o)
  /\ status \in {0, 1} \/ status = row[o].status
  /\ row' = [row EXCEPT ![o] = [@ EXCEPT !.status = status, !.mquota = mquota]]
  /\ NoGrant /\ NoTraffic

(* The first transaction of UpdateMember; the second, when the request     *)
(* asks for it, is SetUserQuotaUnlimited.                                  *)
UpdateMember(u, status, mquota) ==
  /\ Live(u) /\ u # AdminOf[OrgOf[u]]
  /\ row' = [row EXCEPT ![u] = [@ EXCEPT !.status = status, !.mquota = mquota]]
  /\ NoGrant /\ NoTraffic

DeleteMember(u) ==
  /\ Live(u) /\ u # AdminOf[OrgOf[u]]
  /\ row' = [row EXCEPT ![u].state = "deleted"]
  /\ NoGrant /\ NoTraffic

(* DeleteOrg removes the org and all its users; grants and logs stay *)
DeleteOrg(o) ==
  /\ Live(o)
  /\ row' = [s \in Subjects |->
               IF Live(s) /\ (s = o \/ (s \in Users /\ OrgOf[s] = o))
               THEN [row[s] EXCEPT !.state = "deleted"] ELSE row[s]]
  /\ NoGrant /\ NoTraffic

-----------------------------------------------------------------------------
(* The life of a request.                                                  *)

NoLedger == UNCHANGED <<row, granted, grantRows, logged, period, month, peak>>

(* APIKeyAuth: the key's user and org exist and both are enabled *)
APIKeyAuth(r, u) ==
  /\ req[r].pc = "idle"
  /\ Live(u) /\ Live(OrgOf[u])
  /\ row[u].status = 1 /\ row[OrgOf[u]].status = 1
  /\ req' = [req EXCEPT ![r].pc = "authed", ![r].user = u]
  /\ NoLedger

(* The month's consumption as the read side sees it *)
MonthlyCost(s) == IF row[s].mperiod = period THEN row[s].mcost ELSE 0

UnderMonthlyCap(s) == row[s].mquota > 0 => MonthlyCost(s) < row[s].mquota

(* Mutation of PrecheckPasses: an account with a limit of its own is not   *)
(* held to the limit of its org.                                           *)
MutPrecheck(u) ==
  /\ Live(u) /\ Live(OrgOf[u])
  /\ IF row[u].limit # NULL THEN row[u].used < row[u].limit
     ELSE row[OrgOf[u]].used < row[OrgOf[u]].limit
  /\ UnderMonthlyCap(u) /\ UnderMonthlyCap(OrgOf[u])

PrecheckPasses(u) ==
  /\ Live(u) /\ Live(OrgOf[u])
  /\ row[u].limit # NULL => row[u].used < row[u].limit
  /\ UnderMonthlyCap(u)
  /\ row[OrgOf[u]].used < row[OrgOf[u]].limit
  /\ UnderMonthlyCap(OrgOf[u])

(* A refused request ends with a zero-cost log row *)
Precheck(r) ==
  /\ req[r].pc = "authed"
  /\ req' = [req EXCEPT ![r] = IF PrecheckPasses(req[r].user)
                               THEN [@ EXCEPT !.pc = "inflight"] ELSE NoReq]
  /\ NoLedger

(* The response has been delivered; SettleTx starts and computes period *)
BeginSettle(r, cost) ==
  /\ req[r].pc = "inflight"
  /\ req' = [req EXCEPT ![r].pc = "settling", ![r].cost = cost,
                        ![r].period = period]
  /\ NoLedger

(* SQLite takes the write lock at BEGIN, before the period is computed;    *)
(* PostgreSQL takes the row lock at the first UPDATE, after it.            *)
SettlePeriod(r) == IF Dialect = "sqlite" THEN period ELSE req[r].period

(* Mutation of Charge: the first settlement of a month does not reset. *)
MutCharge(x, cost, p) ==
  [x EXCEPT !.used = @ + cost, !.mcost = @ + cost, !.mperiod = p]

Charge(x, cost, p) ==
  [x EXCEPT !.used = @ + cost,
            !.mcost = IF x.mperiod = p THEN @ + cost ELSE cost,
            !.mperiod = p]

(* UPDATE orgs SET status = 2 WHERE status = 1 AND quota_limit > 0 AND ... *)
CutOff(x) ==
  IF x.status = 1 /\ x.limit > 0 /\ x.used >= x.limit
  THEN [x EXCEPT !.status = 2] ELSE x

(* Both rows, the arrears check and the log commit together; an UPDATE of  *)
(* a row deleted meanwhile matches nothing, and one that would leave the   *)
(* bigint range aborts the transaction (SettleError).                      *)
SettleTx(u, cost, p) ==
  LET o == OrgOf[u]
  IN  /\ \A s \in {u, o} : row[s].used + cost <= MaxInt
      /\ row' = [s \in Subjects |->
           IF cost = 0 \/ ~Live(s) \/ s \notin {u, o} THEN row[s]
           ELSE IF s = u THEN Charge(row[s], cost, p)
           ELSE CutOff(Charge(row[s], cost, p))]
      /\ logged' = [s \in Subjects |->
           IF s \in {u, o} THEN logged[s] + cost ELSE logged[s]]
      /\ month' = [s \in Subjects |->
           IF s \in {u, o} /\ p = period THEN month[s] + cost ELSE month[s]]
      /\ UNCHANGED <<granted, grantRows, period, peak>>

Settle(r) ==
  /\ req[r].pc = "settling"
  /\ SettleTx(req[r].user, req[r].cost, SettlePeriod(r))
  /\ req' = [req EXCEPT ![r] = NoReq]

(* Mutation of SettleError: the log row survives the failed transaction. *)
MutSettleError(r) ==
  /\ req[r].pc = "settling"
  /\ logged' = [logged EXCEPT ![req[r].user] = @ + req[r].cost]
  /\ req' = [req EXCEPT ![r] = NoReq]
  /\ UNCHANGED <<row, granted, grantRows, period, month, peak>>

(* The transaction fails (busy timeout, lost connection) and rolls back;   *)
(* the caller only logs the error.                                         *)
SettleError(r) ==
  /\ req[r].pc = "settling"
  /\ req' = [req EXCEPT ![r] = NoReq]
  /\ NoLedger

(* The calendar moves on to the next billing month *)
NextMonth ==
  /\ period < MaxPeriod
  /\ period' = period + 1
  /\ month' = [s \in Subjects |-> 0]
  /\ UNCHANGED <<row, granted, grantRows, logged, req, peak>>

-----------------------------------------------------------------------------
OrgOps(o) ==
  \/ \E q \in InitialQuotas : CreateOrg(o, q)
  \/ \E d \in OrgDeltas : AddOrgQuota(o, d)
  \/ \E t \in OrgTargets : SetOrgQuota(o, t)
  \/ \E st \in {0, 1, row[o].status}, q \in MonthlyCaps \cup {row[o].mquota} :
       UpdateOrg(o, st, q)
  \/ DeleteOrg(o)

UserOps(u) ==
  \/ \E q \in InitialQuotas : CreateMember(u, q)
  \/ \E d \in UserDeltas : AddUserQuota(u, d)
  \/ \E b \in BOOLEAN : SetUserQuotaUnlimited(u, b)
  \/ \E st \in {0, 1}, q \in MonthlyCaps \cup {row[u].mquota} :
       UpdateMember(u, st, q)
  \/ DeleteMember(u)

ReqSteps(r) ==
  \/ \E u \in Users : APIKeyAuth(r, u)
  \/ Precheck(r)
  \/ \E c \in 0 .. MaxCost : BeginSettle(r, c)
  \/ Settle(r)
  \/ SettleError(r)

Next ==
  \/ \E o \in Orgs : OrgOps(o)
  \/ \E u \in Users : UserOps(u)
  \/ \E r \in Reqs : ReqSteps(r)
  \/ NextMonth

Spec == Init /\ [][Next]_vars

-----------------------------------------------------------------------------
(* Properties.                                                             *)

(* Every column keeps its type; in particular no limit leaves the int64    *)
(* range and only an account may be unlimited.                             *)
TypeOK ==
  /\ row \in [Subjects -> Row]
  /\ \A o \in Orgs : row[o].limit # NULL
  /\ \A u \in Users : row[u].status # 2
  /\ granted \in [Subjects -> Int]
  /\ grantRows \in Nat
  /\ logged \in [Subjects -> Nat]
  /\ period \in Nat
  /\ req \in [Reqs -> Req]
  /\ month \in [Subjects -> Nat]
  /\ peak \in [Subjects -> Nat]

(* The audit trail explains every limit: the quota_grants of a subject sum *)
(* up to COALESCE(quota_limit, 0), whatever mixture of initial quotas,     *)
(* top-ups, recoveries, set-to-value calls and unlimited/limited switches  *)
(* has happened (comments of AddOrgQuotaTx, SetOrgQuota and                *)
(* SetUserQuotaUnlimited).                                                 *)
GrantsMatchLimit == \A s \in Subjects : granted[s] = Coalesce(row[s].limit)

(* Consumption has one source of truth: for every existing org and account *)
(* quota_used is the sum of the cost of its usage_logs, although the two   *)
(* rows and the log are three statements, requests settle concurrently and *)
(* a settlement may fail.                                                  *)
UsedMatchesLogs == \A s \in Subjects : Live(s) => row[s].used = logged[s]

(* An org is suspended for arrears only while it has nothing left: every   *)
(* path that raises the limit above quota_used also lifts the suspension.  *)
ArrearsMeansExhausted ==
  \A o \in Orgs : Live(o) /\ row[o].status = 2 => row[o].used >= row[o].limit

(* Requests admitted by the precheck and not yet settled. *)
InFlight(s) ==
  {r \in Reqs : /\ req[r].pc \in {"inflight", "settling"}
                /\ s \in {req[r].user, OrgOf[req[r].user]}}

(* The advisory precheck overspends by at most N times the cost of one     *)
(* request, N the number of concurrent requests (comment of Settle): what  *)
(* is used plus what the requests in flight may still cost stays within    *)
(* the highest limit ever granted plus N * MaxCost.                        *)
OverdraftBound ==
  \A s \in Subjects : row[s].limit # NULL =>
    row[s].used + Cardinality(InFlight(s)) * MaxCost
      <= peak[s] + Cardinality(Reqs) * MaxCost

(* The monthly total of the current month is what was settled in it: the   *)
(* first settlement of a month resets it atomically and none is lost.      *)
MonthlyAccurate ==
  \A s \in Subjects : Live(s) => MonthlyCost(s) = month[s]

(* A settlement that exhausts a positive limit stops the org in the same   *)
(* step: no state with the limit reached and the org still enabled is ever *)
(* visible after it.                                                       *)
SettleCutsOff ==
  [][\A o \in Orgs :
       row'[o].used > row[o].used /\ row'[o].limit > 0
         /\ row'[o].used >= row'[o].limit => row'[o].status # 1]_vars

(* An org disabled by hand stays disabled until it is re-enabled by hand:  *)
(* neither a settlement nor a change of its limit touches the status.      *)
ManualDisableSticky ==
  [][\A o \in Orgs :
       Live(o) /\ row[o].status = 0 /\ row'[o].status # 0 =>
         UNCHANGED <<granted, logged, req>> /\ row'[o].used = row[o].used]_vars

-----------------------------------------------------------------------------
(* What the properties rest on; the proofs use these as one inductive      *)
(* invariant.                                                              *)

(* A row that has not been inserted yet has no limit, grants or traffic. *)
UnbornUntouched ==
  \A s \in Subjects : row[s].state = "unborn" =>
    /\ Coalesce(row[s].limit) = 0
    /\ granted[s] = 0 /\ logged[s] = 0 /\ month[s] = 0

(* A request being served belongs to an account that was created. *)
ServedWasBorn ==
  \A r \in Reqs : req[r].pc # "idle" =>
    /\ row[req[r].user].state # "unborn"
    /\ row[OrgOf[req[r].user]].state # "unborn"

(* No difference a handler books overflows: an org limit never lies so far *)
(* below zero, and an account limit never at the very bottom of int64,     *)
(* that setting it to a value in range would wrap.                         *)
DifferencesFit ==
  /\ \A o \in Orgs, t \in OrgTargets : t - row[o].limit <= MaxInt
  /\ \A u \in Users : row[u].limit # NULL => row[u].limit > -(MaxInt + 1)

(* peak really is an upper bound of the limit. *)
PeakCovers == \A s \in Subjects : row[s].limit # NULL => row[s].limit <= peak[s]

(* No row is ahead of the calendar, so a new month finds none that already *)
(* carries it.                                                             *)
MonthlyFresh == \A s \in Subjects : row[s].mperiod <= period
=============================================================================
