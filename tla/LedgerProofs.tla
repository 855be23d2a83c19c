---------------------------- MODULE LedgerProofs ----------------------------
(***************************************************************************)
(* Theorems about the ledger and about the tickets composed with it, for   *)
(* every set of orgs, accounts, concurrent requests and tickets and every  *)
(* choice of inputs and bounds.  The second part shows that the            *)
(* composition still implements the ledger, and that a ticket brings in    *)
(* its amount exactly once.                                                *)
(***************************************************************************)
EXTENDS Approvals, FiniteSetTheorems, TLAPS

(* A precheck of Go's guarded addition: when addNoWrap accepts it, the     *)
(* mathematical sum is an int64, so the UPDATE stores exactly that sum.    *)
LEMMA AddNoWrapExact ==
  ASSUME NEW base \in Int64, NEW amount \in Int64, addNoWrap(base, amount)
  PROVE  base + amount \in Int64
  BY LedgerConstants DEF addNoWrap, Wrap, Int64

(* An int64 difference that Go computes is an int64. *)
LEMMA WrapInt64 ==
  ASSUME NEW a \in Int64, NEW b \in Int64
  PROVE  Wrap(a - b) \in Int64
  BY LedgerConstants DEF Wrap, Int64

(* New, lifted and cut off rows are rows *)
LEMMA RowTypes ==
  /\ \A q \in Int64 \cup {NULL} : NewRow(q) \in Row
  /\ \A x \in Row : x.limit # NULL => LiftArrears(x) \in Row
  /\ \A x \in Row : x.limit # NULL => CutOff(x) \in Row
  BY LedgerConstants DEF NewRow, Row, LiftArrears, CutOff, Int64

(* So is a row with a cost booked on it *)
LEMMA ChargeType ==
  ASSUME NEW x \in Row, NEW cost \in 0 .. MaxCost, NEW p \in Nat,
         x.used + cost <= MaxInt
  PROVE  Charge(x, cost, p) \in Row
  <1> DEFINE m == IF x.mperiod = p THEN x.mcost + cost ELSE cost
  <1>1. cost \in Nat /\ x.mcost \in Nat /\ x.used \in 0 .. MaxInt
    BY LedgerConstants DEF Row
  <1>2. m \in Nat /\ x.used + cost \in 0 .. MaxInt
    BY <1>1, LedgerConstants
  <1>3. Charge(x, cost, p) = [x EXCEPT !.used = @ + cost, !.mcost = m, !.mperiod = p]
    BY DEF Charge
  <1> HIDE DEF m
  <1>4. QED
    BY <1>2, <1>3 DEF Row

(* The types hold at first *)
LEMMA InitType == Init => TypeOK
  <1> SUFFICES ASSUME Init PROVE TypeOK
    OBVIOUS
  <1>1. row \in [Subjects -> Row]
    BY LedgerConstants DEF Init, NewRow, Row, Int64, Subjects
  <1>2. \A o \in Orgs : row[o].limit # NULL
    BY LedgerConstants DEF Init, NewRow, Subjects
  <1>3. \A u \in Users : row[u].status # 2
    BY LedgerConstants DEF Init, NewRow, Subjects
  <1>4. req \in [Reqs -> Req]
    <2>1. (CHOOSE u \in Users : TRUE) \in Users
      BY LedgerConstants
    <2>2. NoReq \in Req
      BY <2>1, LedgerConstants DEF NoReq, Req
    <2>3. QED
      BY <2>2 DEF Init
  <1>5. QED
    BY <1>1, <1>2, <1>3, <1>4 DEF Init, TypeOK

(* Facts about the constants that most steps need. *)
LEMMA Ids ==
  /\ Orgs \subseteq Subjects /\ Users \subseteq Subjects
  /\ \A u \in Users : OrgOf[u] \in Orgs
  /\ \A o \in Orgs : AdminOf[o] \in Users /\ o \notin Users /\ o # AdminOf[o]
  /\ \A u \in Users : u \notin Orgs /\ u # OrgOf[u]
  /\ NULL \notin Int /\ MaxInt \in Nat /\ MaxCost \in Nat
  BY LedgerConstants DEF Subjects

(* A step that rewrites one row, books one grant and serves no request     *)
(* keeps the types when the new row is well typed.                         *)
LEMMA GrantStepType ==
  ASSUME TypeOK, NEW s \in Subjects, NEW x \in Row, NEW amount \in Int,
         NEW limit \in Int64 \cup {NULL},
         s \in Orgs => x.limit # NULL, s \in Users => x.status # 2,
         row' = [row EXCEPT ![s] = x],
         Grant(s, amount), SetLimit(s, limit), NoTraffic
  PROVE  TypeOK'
  <1>1. Coalesce(limit) \in Int
    BY LedgerConstants DEF Coalesce, Int64
  <1>2. peak' \in [Subjects -> Nat]
    BY <1>1 DEF TypeOK, SetLimit, MaxOf
  <1>3. granted' \in [Subjects -> Int] /\ grantRows' \in Nat
    BY DEF TypeOK, Grant
  <1>4. /\ row' \in [Subjects -> Row]
        /\ \A o \in Orgs : row'[o].limit # NULL
        /\ \A u \in Users : row'[u].status # 2
    BY Ids DEF TypeOK
  <1>5. QED
    BY <1>2, <1>3, <1>4 DEF TypeOK, NoTraffic

(* The same for an administrative step, which books nothing. *)
LEMMA AdminStepType ==
  ASSUME TypeOK, row' \in [Subjects -> Row],
         \A o \in Orgs : row'[o].limit # NULL,
         \A u \in Users : row'[u].status # 2, NoGrant, NoTraffic
  PROVE  TypeOK'
  BY DEF TypeOK, NoGrant, NoTraffic

(* And for a step of a request that leaves the ledger alone. *)
LEMMA ReqStepType ==
  ASSUME TypeOK, NEW r \in Reqs, NEW x \in Req,
         req' = [req EXCEPT ![r] = x], NoLedger
  PROVE  TypeOK'
  BY DEF TypeOK, NoLedger

(* An idle request is a request *)
LEMMA NoReqType == NoReq \in Req
  <1>1. (CHOOSE u \in Users : TRUE) \in Users
    BY LedgerConstants
  <1>2. QED
    BY <1>1, LedgerConstants DEF NoReq, Req

(* Every step keeps the types *)
LEMMA NextType == TypeOK /\ [Next]_vars => TypeOK'
  <1> SUFFICES ASSUME TypeOK, [Next]_vars PROVE TypeOK'
    OBVIOUS
  <1>1. ASSUME NEW o \in Orgs, NEW q \in InitialQuotas, CreateOrg(o, q)
        PROVE  TypeOK'
    <2>1. q \in Int64 /\ q # NULL /\ q \in Int
      BY LedgerConstants DEF Int64
    <2>2. NewRow(q) \in Row /\ NewRow(NULL) \in Row
      BY <2>1, RowTypes
    <2>3. row' \in [Subjects -> Row]
      BY Ids, <1>1, <2>2 DEF CreateOrg, TypeOK
    <2>4. /\ \A x \in Orgs : row'[x].limit # NULL
          /\ \A u \in Users : row'[u].status # 2
      BY Ids, <1>1, <2>1 DEF CreateOrg, NewRow, TypeOK
    <2>5. peak' \in [Subjects -> Nat]
      BY Ids, <1>1, <2>1 DEF CreateOrg, SetLimit, MaxOf, Coalesce, TypeOK
    <2>6. granted' \in [Subjects -> Int] /\ grantRows' \in Nat
      BY Ids, <1>1, <2>1 DEF CreateOrg, Grant, TypeOK
    <2>7. QED
      BY <1>1, <2>3, <2>4, <2>5, <2>6 DEF CreateOrg, NoTraffic, TypeOK
  <1>2. ASSUME NEW u \in Users, NEW q \in InitialQuotas, CreateMember(u, q)
        PROVE  TypeOK'
    <2> DEFINE x == NewRow(IF q = 0 THEN NULL ELSE q)
    <2>1. q \in Int64 /\ q \in Int
      BY LedgerConstants DEF Int64
    <2>2. x \in Row
      BY <2>1, RowTypes
    <2>2a. x.status # 2
      BY DEF NewRow
    <2>3. QED
      BY Ids, <1>2, <2>1, <2>2, <2>2a, GrantStepType DEF CreateMember
  <1>3. ASSUME NEW o \in Orgs, NEW d \in OrgDeltas, AddOrgQuota(o, d)
        PROVE  TypeOK'
    <2> DEFINE x == [row[o] EXCEPT !.limit = row[o].limit + d]
    <2>1. row[o] \in Row /\ row[o].limit \in Int64 /\ d \in Int64 /\ d \in Int
      BY Ids, LedgerConstants DEF Row, TypeOK, Int64
    <2>2. row[o].limit + d \in Int64 /\ row[o].limit + d \in Int
      BY <1>3, <2>1, AddNoWrapExact DEF AddOrgQuota, AddOrgQuotaTx, Int64
    <2>3. x \in Row /\ x.limit # NULL
      BY Ids, <2>1, <2>2 DEF Row
    <2>4. LiftArrears(x) \in Row /\ LiftArrears(x).limit # NULL
      BY <2>3, RowTypes DEF LiftArrears, Row
    <2>5. /\ row' = [row EXCEPT ![o] = LiftArrears(x)]
          /\ Grant(o, d) /\ SetLimit(o, row[o].limit + d) /\ NoTraffic
      BY <1>3 DEF AddOrgQuota, AddOrgQuotaTx
    <2> HIDE DEF x
    <2>6. QED
      BY Ids, <2>1, <2>2, <2>4, <2>5, GrantStepType
  <1>4. ASSUME NEW o \in Orgs, NEW t \in OrgTargets, SetOrgQuota(o, t)
        PROVE  TypeOK'
    <2> DEFINE x == [row[o] EXCEPT !.limit = t]
    <2>1. row[o] \in Row /\ row[o].limit \in Int64 /\ t \in Int64 /\ t \in Int
      BY Ids, LedgerConstants DEF Row, TypeOK, Int64
    <2>2. Wrap(t - row[o].limit) \in Int
      BY <2>1, WrapInt64 DEF Int64
    <2>3. x \in Row /\ x.limit # NULL
      BY Ids, <2>1 DEF Row
    <2>4. LiftArrears(x) \in Row /\ LiftArrears(x).limit # NULL
      BY <2>3, RowTypes DEF LiftArrears, Row
    <2>5. QED
      BY Ids, <1>4, <2>1, <2>2, <2>4, GrantStepType DEF SetOrgQuota
  <1>5. ASSUME NEW u \in Users, NEW d \in UserDeltas, AddUserQuota(u, d)
        PROVE  TypeOK'
    <2> DEFINE x == [row[u] EXCEPT !.limit = @ + d]
    <2>1. /\ row[u] \in Row /\ row[u].limit \in Int64 /\ row[u].status # 2
          /\ d \in Int64 /\ d \in Int
      BY Ids, <1>5, LedgerConstants
         DEF Row, TypeOK, Int64, AddUserQuota, AddUserQuotaTx
    <2>2. row[u].limit + d \in Int64
      BY <1>5, <2>1, AddNoWrapExact DEF AddUserQuota, AddUserQuotaTx
    <2>3. x \in Row /\ x.status # 2
      BY <2>1, <2>2 DEF Row
    <2>4. QED
      BY Ids, <1>5, <2>1, <2>2, <2>3, GrantStepType
         DEF AddUserQuota, AddUserQuotaTx
  <1>6. ASSUME NEW u \in Users, NEW b \in BOOLEAN, SetUserQuotaUnlimited(u, b)
        PROVE  TypeOK'
    <2> DEFINE new == IF b THEN NULL ELSE row[u].used
               delta == IF b THEN Wrap(0 - row[u].limit) ELSE row[u].used
               x == [row[u] EXCEPT !.limit = new]
    <2>1. /\ row[u] \in Row /\ row[u].limit \in Int64 \cup {NULL}
          /\ row[u].used \in Int64 /\ row[u].used \in Int /\ row[u].status # 2
      BY Ids, LedgerConstants DEF Row, TypeOK, Int64
    <2>2. new \in Int64 \cup {NULL}
      BY <2>1
    <2>3. delta \in Int
      <3>1. CASE b
        <4>0. row[u].limit # NULL
          BY <1>6, <3>1 DEF SetUserQuotaUnlimited
        <4>1. row[u].limit \in Int64 /\ 0 \in Int64
          BY Ids, <2>1, <4>0 DEF Int64
        <4>2. QED
          BY <3>1, <4>1, WrapInt64 DEF Int64
      <3>2. CASE ~b
        BY <2>1, <3>2
      <3>3. QED
        BY <3>1, <3>2
    <2>4. x \in Row /\ x.status # 2
      BY <2>1, <2>2 DEF Row
    <2>5. row' = [row EXCEPT ![u] = x] /\ Grant(u, delta) /\ SetLimit(u, new) /\ NoTraffic
      BY <1>6 DEF SetUserQuotaUnlimited
    <2> HIDE DEF new, delta, x
    <2>6. QED
      BY Ids, <2>2, <2>3, <2>4, <2>5, GrantStepType
  <1>7. ASSUME NEW o \in Orgs, NEW st \in {0, 1, row[o].status},
               NEW q \in MonthlyCaps \cup {row[o].mquota}, UpdateOrg(o, st, q)
        PROVE  TypeOK'
    <2>1. row[o] \in Row /\ st \in {0, 1, 2} /\ q \in 0 .. MaxInt
      BY Ids, LedgerConstants DEF TypeOK, Row
    <2>2. /\ row' \in [Subjects -> Row]
          /\ \A x \in Orgs : row'[x].limit # NULL
          /\ \A u \in Users : row'[u].status # 2
      BY Ids, <1>7, <2>1 DEF UpdateOrg, TypeOK, Row
    <2>3. QED
      BY <1>7, <2>2, AdminStepType DEF UpdateOrg
  <1>8. ASSUME NEW u \in Users, NEW st \in {0, 1},
               NEW q \in MonthlyCaps \cup {row[u].mquota}, UpdateMember(u, st, q)
        PROVE  TypeOK'
    <2>1. row[u] \in Row /\ q \in 0 .. MaxInt /\ st \in {0, 1, 2} /\ st # 2
      BY Ids, LedgerConstants DEF TypeOK, Row
    <2> DEFINE x == [row[u] EXCEPT !.status = st, !.mquota = q]
    <2>2. x \in Row /\ x.status # 2
      BY <2>1 DEF Row
    <2>3. row' = [row EXCEPT ![u] = x]
      BY <1>8 DEF UpdateMember
    <2> HIDE DEF x
    <2>4. /\ row' \in [Subjects -> Row]
          /\ \A y \in Orgs : row'[y].limit # NULL
          /\ \A y \in Users : row'[y].status # 2
      BY Ids, <2>2, <2>3 DEF TypeOK
    <2>5. QED
      BY <1>8, <2>4, AdminStepType DEF UpdateMember
  <1>9. ASSUME NEW u \in Users, DeleteMember(u)
        PROVE  TypeOK'
    <2>1. /\ row' \in [Subjects -> Row]
          /\ \A x \in Orgs : row'[x].limit # NULL
          /\ \A x \in Users : row'[x].status # 2
      BY Ids, <1>9 DEF DeleteMember, TypeOK, Row
    <2>2. QED
      BY <1>9, <2>1, AdminStepType DEF DeleteMember
  <1>10. ASSUME NEW o \in Orgs, DeleteOrg(o)
         PROVE  TypeOK'
    <2>1. \A s \in Subjects : [row[s] EXCEPT !.state = "deleted"] \in Row
      BY DEF TypeOK, Row
    <2>2. /\ row' \in [Subjects -> Row]
          /\ \A x \in Orgs : row'[x].limit # NULL
          /\ \A x \in Users : row'[x].status # 2
      BY Ids, <1>10, <2>1 DEF DeleteOrg, TypeOK, Row
    <2>3. QED
      BY <1>10, <2>2, AdminStepType DEF DeleteOrg
  <1>11. ASSUME NEW r \in Reqs, NEW u \in Users, APIKeyAuth(r, u)
         PROVE  TypeOK'
    <2>1. [req[r] EXCEPT !.pc = "authed", !.user = u] \in Req
      BY DEF TypeOK, Req
    <2>2. QED
      BY <1>11, <2>1, ReqStepType DEF APIKeyAuth
  <1>12. ASSUME NEW r \in Reqs, Precheck(r)
         PROVE  TypeOK'
    <2>1. [req[r] EXCEPT !.pc = "inflight"] \in Req
      BY DEF TypeOK, Req
    <2>2. QED
      BY <1>12, <2>1, NoReqType, ReqStepType DEF Precheck
  <1>13. ASSUME NEW r \in Reqs, NEW c \in 0 .. MaxCost, BeginSettle(r, c)
         PROVE  TypeOK'
    <2> DEFINE x == [req[r] EXCEPT !.pc = "settling", !.cost = c, !.period = period]
    <2>1. x \in Req
      BY DEF TypeOK, Req
    <2>2. req' = [req EXCEPT ![r] = x] /\ NoLedger
      BY <1>13 DEF BeginSettle, TypeOK
    <2> HIDE DEF x
    <2>3. QED
      BY <2>1, <2>2, ReqStepType
  <1>14. ASSUME NEW r \in Reqs, Settle(r)
         PROVE  TypeOK'
    <2> DEFINE u == req[r].user
               c == req[r].cost
               p == SettlePeriod(r)
    <2>1. u \in Users /\ c \in 0 .. MaxCost /\ p \in Nat /\ c \in Nat
      BY Ids DEF TypeOK, Req, SettlePeriod
    <2>2. SettleTx(u, c, p) /\ req' = [req EXCEPT ![r] = NoReq]
      BY <1>14 DEF Settle
    <2> HIDE DEF u, c, p
    <2>3. OrgOf[u] \in Orgs /\ u \in Subjects /\ OrgOf[u] \in Subjects
      BY Ids, <2>1
    <2>4. \A s \in {u, OrgOf[u]} : Charge(row[s], c, p) \in Row
      BY <2>1, <2>2, <2>3, ChargeType DEF SettleTx, TypeOK
    <2>5. \A s \in Subjects : /\ Charge(row[s], c, p).limit = row[s].limit
                              /\ Charge(row[s], c, p).status = row[s].status
      BY DEF Charge, TypeOK, Row
    <2>6. /\ CutOff(Charge(row[OrgOf[u]], c, p)) \in Row
          /\ CutOff(Charge(row[OrgOf[u]], c, p)).limit # NULL
      <3>1. Charge(row[OrgOf[u]], c, p) \in Row
            /\ Charge(row[OrgOf[u]], c, p).limit # NULL
        BY <2>3, <2>4, <2>5 DEF TypeOK
      <3>2. QED
        BY <3>1, RowTypes DEF CutOff, Row
    <2>7. \A s \in Subjects : row'[s] \in Row
      BY <2>2, <2>3, <2>4, <2>6 DEF SettleTx, TypeOK
    <2>8. row' \in [Subjects -> Row]
      BY <2>2, <2>7 DEF SettleTx
    <2>9. \A o \in Orgs : row'[o].limit # NULL
      BY Ids, <2>1, <2>2, <2>6 DEF SettleTx, TypeOK
    <2>10. \A x \in Users : row'[x].status # 2
      BY Ids, <2>1, <2>2, <2>3, <2>5 DEF SettleTx, TypeOK
    <2>11. logged' \in [Subjects -> Nat] /\ month' \in [Subjects -> Nat]
      BY <2>1, <2>2 DEF SettleTx, TypeOK
    <2>12. req' \in [Reqs -> Req]
      BY <2>2, NoReqType DEF TypeOK
    <2>13. QED
      BY <2>2, <2>8, <2>9, <2>10, <2>11, <2>12 DEF TypeOK, SettleTx
  <1>15. ASSUME NEW r \in Reqs, SettleError(r)
         PROVE  TypeOK'
    BY <1>15, NoReqType, ReqStepType DEF SettleError
  <1>16. CASE NextMonth
    BY <1>16 DEF NextMonth, TypeOK
  <1>17. CASE UNCHANGED vars
    BY <1>17 DEF vars, TypeOK
  <1>18. QED
    BY <1>1, <1>2, <1>3, <1>4, <1>5, <1>6, <1>7, <1>8, <1>9, <1>10, <1>11,
       <1>12, <1>13, <1>14, <1>15, <1>16, <1>17
       DEF Next, OrgOps, UserOps, ReqSteps

(* The column types of the ledger hold in every reachable state: no limit  *)
(* leaves int64 although Go's arithmetic wraps, an org always has a limit, *)
(* and no account is ever put in arrears.                                  *)
THEOREM TypeCorrect == Spec => []TypeOK
  BY InitType, NextType, PTL DEF Spec

-----------------------------------------------------------------------------
(* Only settlements, grants and account operations write the ledger.       *)
LEMMA QuietSteps ==
  ASSUME NEW r \in Reqs,
         \/ \E u \in Users : APIKeyAuth(r, u)
         \/ Precheck(r)
         \/ \E c \in 0 .. MaxCost : BeginSettle(r, c)
         \/ SettleError(r)
  PROVE  NoLedger
  BY DEF APIKeyAuth, Precheck, BeginSettle, SettleError

(* What a settlement does to one row. *)
LEMMA SettleRow ==
  ASSUME TypeOK, NEW r \in Reqs, Settle(r), NEW s \in Subjects
  PROVE  /\ row'[s].state = row[s].state
         /\ row'[s].limit = row[s].limit
         /\ req[r].cost \in 0 .. MaxCost
         /\ \/ row'[s].used = row[s].used /\ row'[s].status = row[s].status
            \/ row'[s].used = row[s].used + req[r].cost
         /\ Live(s) /\ s \in {req[r].user, OrgOf[req[r].user]} =>
              row'[s].used = row[s].used + req[r].cost
         /\ s \notin {req[r].user, OrgOf[req[r].user]} => row'[s] = row[s]
         /\ row'[s].status = 2 /\ row[s].status # 2 =>
              row'[s].used >= row'[s].limit /\ row[s].status = 1
         /\ row'[s].status # row[s].status => row'[s].status = 2
         /\ s \in Orgs /\ row'[s].used # row[s].used /\ row'[s].limit > 0
              /\ row'[s].used >= row'[s].limit => row'[s].status # 1
  <1> DEFINE u == req[r].user
             c == req[r].cost
             p == SettlePeriod(r)
             o == OrgOf[u]
             x == Charge(row[s], c, p)
  <1>1. u \in Users /\ c \in 0 .. MaxCost /\ o \in Orgs /\ u # o
    BY Ids DEF TypeOK, Req
  <1>2. SettleTx(u, c, p)
    BY DEF Settle
  <1>3. row[s] \in Row
    BY DEF TypeOK
  <1>4. /\ x.state = row[s].state /\ x.limit = row[s].limit
        /\ x.status = row[s].status /\ x.used = row[s].used + c
    BY <1>3 DEF Charge, Row
  <1>5. /\ CutOff(x).state = x.state /\ CutOff(x).limit = x.limit
        /\ CutOff(x).used = x.used
        /\ CutOff(x).status =
             IF x.status = 1 /\ x.limit > 0 /\ x.used >= x.limit
             THEN 2 ELSE x.status
    BY <1>3 DEF CutOff, Charge, Row
  <1>6. row'[s] = IF c = 0 \/ ~Live(s) \/ s \notin {u, o} THEN row[s]
                  ELSE IF s = u THEN x ELSE CutOff(x)
    BY <1>2 DEF SettleTx
  <1>7. s \in Orgs => s # u
    BY Ids, <1>1
  <1>8. row[s].used \in Nat /\ c \in Nat
    BY Ids, <1>1, <1>3 DEF Row
  <1> HIDE DEF u, c, p, o, x
  <1>9. CASE c = 0 \/ ~Live(s) \/ s \notin {u, o}
    BY <1>1, <1>6, <1>8, <1>9 DEF u, c, o
  <1>10. CASE ~(c = 0 \/ ~Live(s) \/ s \notin {u, o}) /\ s = u
    BY <1>1, <1>4, <1>6, <1>7, <1>8, <1>10 DEF u, c, o
  <1>11. CASE ~(c = 0 \/ ~Live(s) \/ s \notin {u, o}) /\ s # u
    BY <1>1, <1>4, <1>5, <1>6, <1>8, <1>11 DEF u, c, o
  <1>12. QED
    BY <1>9, <1>10, <1>11

(* What raising or lowering an org's limit does to its row. *)
LEMMA LiftRow ==
  ASSUME NEW x \in Row, NEW limit \in Int,
         NEW y, y = LiftArrears([x EXCEPT !.limit = limit])
  PROVE  /\ y.state = x.state /\ y.used = x.used /\ y.limit = limit
         /\ y.mcost = x.mcost /\ y.mperiod = x.mperiod
         /\ y.status = IF x.status = 2 /\ limit > x.used THEN 1 ELSE x.status
  BY DEF LiftArrears, Row

(* Nobody is in arrears at first *)
LEMMA InitArrears == Init => ArrearsMeansExhausted
  BY Ids DEF Init, ArrearsMeansExhausted, Live, NewRow

(* Every step keeps arrears to orgs that are used up *)
LEMMA NextArrears ==
  TypeOK /\ ArrearsMeansExhausted /\ [Next]_vars => ArrearsMeansExhausted'
  <1> SUFFICES ASSUME TypeOK, ArrearsMeansExhausted, [Next]_vars,
                      NEW o \in Orgs, Live(o)', row'[o].status = 2
               PROVE  row'[o].used >= row'[o].limit
    BY DEF ArrearsMeansExhausted
  <1>0. /\ row[o] \in Row /\ o \in Subjects /\ row[o].used \in Int
        /\ row[o].limit \in Int
    BY Ids DEF TypeOK, Row, Int64
  <1>q. row'[o] = row[o] => row'[o].used >= row'[o].limit
    BY DEF ArrearsMeansExhausted, Live
  <1>1. ASSUME NEW p \in Orgs, NEW q \in InitialQuotas, CreateOrg(p, q)
        PROVE  row'[o].used >= row'[o].limit
    <2>1. o = p => row'[o].status = 1
      BY Ids, <1>0, <1>1 DEF CreateOrg, NewRow, TypeOK
    <2>2. o # p => row'[o] = row[o]
      BY Ids, <1>0, <1>1 DEF CreateOrg, TypeOK
    <2>3. QED
      BY <1>q, <2>1, <2>2
  <1>2. ASSUME NEW p \in Orgs, NEW d \in OrgDeltas, AddOrgQuota(p, d)
        PROVE  row'[o].used >= row'[o].limit
    <2>1. CASE o = p
      <3>1. row[o].limit + d \in Int
        BY <1>0, LedgerConstants DEF Int64
      <3>2. row'[o] = LiftArrears([row[o] EXCEPT !.limit = row[o].limit + d])
        BY <1>0, <1>2, <2>1 DEF AddOrgQuota, AddOrgQuotaTx, TypeOK
      <3>3. /\ row'[o].used = row[o].used /\ row'[o].limit = row[o].limit + d
            /\ row'[o].status = IF row[o].status = 2 /\ row[o].limit + d > row[o].used
                                THEN 1 ELSE row[o].status
        BY <1>0, <3>1, <3>2, LiftRow
      <3>4. QED
        BY <1>0, <3>1, <3>3
    <2>2. CASE o # p
      BY <1>0, <1>q, <1>2, <2>2 DEF AddOrgQuota, AddOrgQuotaTx, TypeOK
    <2>3. QED
      BY <2>1, <2>2
  <1>3. ASSUME NEW p \in Orgs, NEW t \in OrgTargets, SetOrgQuota(p, t)
        PROVE  row'[o].used >= row'[o].limit
    <2>1. CASE o = p
      <3>1. t \in Int
        BY LedgerConstants DEF Int64
      <3>2. row'[o] = LiftArrears([row[o] EXCEPT !.limit = t])
        BY <1>0, <1>3, <2>1 DEF SetOrgQuota, TypeOK
      <3>3. /\ row'[o].used = row[o].used /\ row'[o].limit = t
            /\ row'[o].status = IF row[o].status = 2 /\ t > row[o].used
                                THEN 1 ELSE row[o].status
        BY <1>0, <3>1, <3>2, LiftRow
      <3>4. QED
        BY <1>0, <3>1, <3>3
    <2>2. CASE o # p
      BY <1>0, <1>q, <1>3, <2>2 DEF SetOrgQuota, TypeOK
    <2>3. QED
      BY <2>1, <2>2
  <1>4. ASSUME NEW p \in Orgs, NEW st \in {0, 1, row[p].status},
               NEW q \in MonthlyCaps \cup {row[p].mquota}, UpdateOrg(p, st, q)
        PROVE  row'[o].used >= row'[o].limit
    <2>1. CASE o = p
      <3>1. /\ row'[o].used = row[o].used /\ row'[o].limit = row[o].limit
            /\ row'[o].state = row[o].state /\ row'[o].status = st
        BY <1>0, <1>4, <2>1 DEF UpdateOrg, TypeOK, Row
      <3>2. row[o].status = 2
        BY <2>1, <3>1
      <3>3. QED
        BY <3>1, <3>2 DEF ArrearsMeansExhausted, Live
    <2>2. CASE o # p
      BY <1>0, <1>q, <1>4, <2>2 DEF UpdateOrg, TypeOK
    <2>3. QED
      BY <2>1, <2>2
  <1>5. ASSUME NEW p \in Orgs, DeleteOrg(p)
        PROVE  row'[o].used >= row'[o].limit
    <2>1. row'[o] = row[o] \/ row'[o].state = "deleted"
      BY <1>0, <1>5 DEF DeleteOrg, Row
    <2>2. QED
      BY <1>q, <2>1 DEF Live
  <1>6. ASSUME NEW u \in Users, UserOps(u)
        PROVE  row'[o].used >= row'[o].limit
    <2>1. row'[o] = row[o]
      BY Ids, <1>0, <1>6
         DEF UserOps, CreateMember, AddUserQuota, AddUserQuotaTx,
             SetUserQuotaUnlimited, UpdateMember, DeleteMember, TypeOK
    <2>2. QED
      BY <1>q, <2>1
  <1>7. ASSUME NEW r \in Reqs, Settle(r)
        PROVE  row'[o].used >= row'[o].limit
    <2>1. /\ row'[o].state = row[o].state /\ row'[o].limit = row[o].limit
          /\ req[r].cost \in 0 .. MaxCost
          /\ \/ row'[o].used = row[o].used /\ row'[o].status = row[o].status
             \/ row'[o].used = row[o].used + req[r].cost
          /\ row[o].status # 2 => row'[o].used >= row'[o].limit
      BY <1>0, <1>7, SettleRow
    <2>2. row[o].status = 2 => row[o].used >= row[o].limit
      BY <2>1 DEF ArrearsMeansExhausted, Live
    <2>3. QED
      BY Ids, <1>0, <2>1, <2>2
  <1>8. ASSUME NoLedger \/ NextMonth \/ UNCHANGED vars
        PROVE  row'[o].used >= row'[o].limit
    BY <1>q, <1>8 DEF NoLedger, NextMonth, vars
  <1>9. QED
    BY <1>1, <1>2, <1>3, <1>4, <1>5, <1>6, <1>7, <1>8, QuietSteps
       DEF Next, OrgOps, ReqSteps

(* An org stands suspended for arrears only while its limit is used up,    *)
(* for any number of orgs, accounts and concurrent requests.               *)
THEOREM ArrearsExhausted == Spec => []ArrearsMeansExhausted
  <1>1. TypeOK /\ ArrearsMeansExhausted /\ [Next]_vars => ArrearsMeansExhausted'
    BY NextArrears
  <1>2. QED
    BY InitArrears, TypeCorrect, <1>1, PTL DEF Spec

-----------------------------------------------------------------------------
(* Rows that do not exist yet, and the rows a request refers to.           *)
Born == UnbornUntouched /\ ServedWasBorn

(* No row that does not exist yet is used or served at first *)
LEMMA InitBorn == Init => Born
  BY Ids DEF Init, Born, UnbornUntouched, ServedWasBorn, NoReq, NewRow, Coalesce

(* A request stays attached to the account that authenticated. *)
LEMMA ReqSource ==
  ASSUME TypeOK, [Next]_vars, NEW r \in Reqs, req'[r].pc # "idle"
  PROVE  \/ req[r].pc # "idle" /\ req'[r].user = req[r].user
         \/ Live(req'[r].user) /\ Live(OrgOf[req'[r].user]) /\ UNCHANGED row
  <1>1. ASSUME NEW q \in Reqs, ReqSteps(q)
        PROVE  \/ req[r].pc # "idle" /\ req'[r].user = req[r].user
               \/ Live(req'[r].user) /\ Live(OrgOf[req'[r].user]) /\ UNCHANGED row
    <2>1. CASE q # r
      BY <1>1, <2>1 DEF ReqSteps, APIKeyAuth, Precheck, BeginSettle, Settle,
                        SettleError, TypeOK
    <2>2. CASE q = r
      <3>1. ASSUME NEW u \in Users, APIKeyAuth(r, u)
            PROVE  Live(req'[r].user) /\ Live(OrgOf[req'[r].user]) /\ UNCHANGED row
        BY <3>1 DEF APIKeyAuth, TypeOK, Req, NoLedger
      <3>2. CASE Precheck(r)
        BY <3>2 DEF Precheck, TypeOK, Req, NoReq
      <3>3. ASSUME NEW c \in 0 .. MaxCost, BeginSettle(r, c)
            PROVE  req[r].pc # "idle" /\ req'[r].user = req[r].user
        BY <3>3 DEF BeginSettle, TypeOK, Req
      <3>4. CASE Settle(r) \/ SettleError(r)
        BY <3>4 DEF Settle, SettleError, TypeOK, Req, NoReq
      <3>5. QED
        BY <1>1, <2>2, <3>1, <3>2, <3>3, <3>4 DEF ReqSteps
    <2>3. QED
      BY <2>1, <2>2
  <1>2. CASE UNCHANGED req
    BY <1>2
  <1>3. \/ UNCHANGED req
        \/ \E q \in Reqs : ReqSteps(q)
    BY DEF Next, OrgOps, UserOps, NextMonth, vars, CreateOrg, CreateMember,
           AddOrgQuota, SetOrgQuota, AddUserQuota, SetUserQuotaUnlimited,
           UpdateOrg, UpdateMember, DeleteMember, DeleteOrg, NoTraffic
  <1>4. QED
    BY <1>1, <1>2, <1>3

(* A row that exists, or existed, never becomes unborn again. *)
LEMMA StaysBorn ==
  ASSUME TypeOK, [Next]_vars, NEW s \in Subjects, row[s].state # "unborn"
  PROVE  row'[s].state # "unborn"
  <1>0. row[s] \in Row
    BY DEF TypeOK
  <1>1. ASSUME NEW o \in Orgs, OrgOps(o)
        PROVE  row'[s].state # "unborn"
    <2>1. ASSUME NEW q \in InitialQuotas, CreateOrg(o, q)
          PROVE  row'[s].state # "unborn"
      BY Ids, <1>0, <2>1 DEF CreateOrg, NewRow, TypeOK
    <2>2. ASSUME NEW d \in OrgDeltas, AddOrgQuota(o, d)
          PROVE  row'[s].state # "unborn"
      BY <1>0, <2>2 DEF AddOrgQuota, AddOrgQuotaTx, LiftArrears, TypeOK, Row
    <2>3. ASSUME NEW t \in OrgTargets, SetOrgQuota(o, t)
          PROVE  row'[s].state # "unborn"
      BY <1>0, <2>3 DEF SetOrgQuota, LiftArrears, TypeOK, Row
    <2>4. ASSUME NEW st \in {0, 1, row[o].status},
                 NEW q \in MonthlyCaps \cup {row[o].mquota}, UpdateOrg(o, st, q)
          PROVE  row'[s].state # "unborn"
      BY <1>0, <2>4 DEF UpdateOrg, TypeOK, Row
    <2>5. CASE DeleteOrg(o)
      BY <1>0, <2>5 DEF DeleteOrg, Row
    <2>6. QED
      BY <1>1, <2>1, <2>2, <2>3, <2>4, <2>5 DEF OrgOps
  <1>2. ASSUME NEW u \in Users, UserOps(u)
        PROVE  row'[s].state # "unborn"
    <2>1. ASSUME NEW q \in InitialQuotas, CreateMember(u, q)
          PROVE  row'[s].state # "unborn"
      BY Ids, <1>0, <2>1 DEF CreateMember, NewRow, TypeOK, Row
    <2>2. ASSUME NEW d \in UserDeltas, AddUserQuota(u, d)
          PROVE  row'[s].state # "unborn"
      BY Ids, <1>0, <2>2 DEF AddUserQuota, AddUserQuotaTx, TypeOK, Row
    <2>3. ASSUME NEW b \in BOOLEAN, SetUserQuotaUnlimited(u, b)
          PROVE  row'[s].state # "unborn"
      BY Ids, <1>0, <2>3 DEF SetUserQuotaUnlimited, TypeOK, Row
    <2>4. ASSUME NEW st \in {0, 1}, NEW q \in MonthlyCaps \cup {row[u].mquota},
                 UpdateMember(u, st, q)
          PROVE  row'[s].state # "unborn"
      BY Ids, <1>0, <2>4 DEF UpdateMember, TypeOK, Row
    <2>5. CASE DeleteMember(u)
      BY Ids, <1>0, <2>5 DEF DeleteMember, TypeOK, Row
    <2>6. QED
      BY <1>2, <2>1, <2>2, <2>3, <2>4, <2>5 DEF UserOps
  <1>3. ASSUME NEW r \in Reqs, Settle(r)
        PROVE  row'[s].state # "unborn"
    BY <1>3, SettleRow
  <1>4. ASSUME NoLedger \/ NextMonth \/ UNCHANGED vars
        PROVE  row'[s].state # "unborn"
    BY <1>4 DEF NoLedger, NextMonth, vars
  <1>5. QED
    BY <1>1, <1>2, <1>3, <1>4, QuietSteps DEF Next, ReqSteps

(* Every step keeps requests to rows that exist *)
LEMMA NextServed == TypeOK /\ ServedWasBorn /\ [Next]_vars => ServedWasBorn'
  <1> SUFFICES ASSUME TypeOK, ServedWasBorn, [Next]_vars,
                      NEW r \in Reqs, req'[r].pc # "idle"
               PROVE  /\ row'[req'[r].user].state # "unborn"
                      /\ row'[OrgOf[req'[r].user]].state # "unborn"
    BY DEF ServedWasBorn
  <1>1. req'[r].user \in Users
    BY NextType DEF TypeOK, Req
  <1>2. req'[r].user \in Subjects /\ OrgOf[req'[r].user] \in Subjects
    BY Ids, <1>1
  <1>3. CASE req[r].pc # "idle" /\ req'[r].user = req[r].user
    BY <1>2, <1>3, StaysBorn DEF ServedWasBorn
  <1>4. CASE Live(req'[r].user) /\ Live(OrgOf[req'[r].user]) /\ UNCHANGED row
    BY <1>4 DEF Live
  <1>5. QED
    BY <1>3, <1>4, ReqSource

(* A step that does not create s leaves it unborn and untouched. *)
LEMMA NextUntouched ==
  TypeOK /\ Born /\ [Next]_vars => UnbornUntouched'
  <1> SUFFICES ASSUME TypeOK, Born, [Next]_vars,
                      NEW s \in Subjects, row'[s].state = "unborn"
               PROVE  /\ Coalesce(row'[s].limit) = 0
                      /\ granted'[s] = 0 /\ logged'[s] = 0 /\ month'[s] = 0
    BY DEF UnbornUntouched, Coalesce
  <1>0. /\ row[s].state = "unborn" /\ row[s] \in Row
        /\ Coalesce(row[s].limit) = 0
        /\ granted[s] = 0 /\ logged[s] = 0 /\ month[s] = 0
    BY StaysBorn DEF TypeOK, Born, UnbornUntouched
  <1>1. ASSUME NEW o \in Orgs, OrgOps(o)
        PROVE  row'[s].limit = row[s].limit /\ granted'[s] = 0
                 /\ UNCHANGED <<logged, month>>
    <2>1. ASSUME NEW q \in InitialQuotas, CreateOrg(o, q)
          PROVE  row'[s].limit = row[s].limit /\ granted'[s] = 0
                   /\ UNCHANGED <<logged, month>>
      BY Ids, <1>0, <2>1 DEF CreateOrg, NewRow, NoTraffic, Grant, TypeOK
    <2>2. ASSUME NEW d \in OrgDeltas, AddOrgQuota(o, d)
          PROVE  row'[s].limit = row[s].limit /\ granted'[s] = 0
                   /\ UNCHANGED <<logged, month>>
      BY <1>0, <2>2
         DEF AddOrgQuota, AddOrgQuotaTx, Live, Grant, NoTraffic, TypeOK
    <2>3. ASSUME NEW t \in OrgTargets, SetOrgQuota(o, t)
          PROVE  row'[s].limit = row[s].limit /\ granted'[s] = 0
                   /\ UNCHANGED <<logged, month>>
      BY <1>0, <2>3 DEF SetOrgQuota, Live, Grant, NoTraffic, TypeOK
    <2>4. ASSUME NEW st \in {0, 1, row[o].status},
                 NEW q \in MonthlyCaps \cup {row[o].mquota}, UpdateOrg(o, st, q)
          PROVE  row'[s].limit = row[s].limit /\ granted'[s] = 0
                   /\ UNCHANGED <<logged, month>>
      BY <1>0, <2>4 DEF UpdateOrg, Live, NoGrant, NoTraffic, TypeOK
    <2>5. CASE DeleteOrg(o)
      BY <1>0, <2>5 DEF DeleteOrg, Live, NoGrant, NoTraffic, TypeOK
    <2>6. QED
      BY <1>1, <2>1, <2>2, <2>3, <2>4, <2>5 DEF OrgOps
  <1>2. ASSUME NEW u \in Users, UserOps(u)
        PROVE  row'[s].limit = row[s].limit /\ granted'[s] = 0
                 /\ UNCHANGED <<logged, month>>
    <2>1. ASSUME NEW q \in InitialQuotas, CreateMember(u, q)
          PROVE  row'[s].limit = row[s].limit /\ granted'[s] = 0
                   /\ UNCHANGED <<logged, month>>
      BY Ids, <1>0, <2>1 DEF CreateMember, NewRow, TypeOK, Row, Live,
             Grant, NoGrant, NoTraffic
    <2>2. ASSUME NEW d \in UserDeltas, AddUserQuota(u, d)
          PROVE  row'[s].limit = row[s].limit /\ granted'[s] = 0
                   /\ UNCHANGED <<logged, month>>
      BY Ids, <1>0, <2>2 DEF AddUserQuota, AddUserQuotaTx, TypeOK, Row, Live,
             Grant, NoGrant, NoTraffic
    <2>3. ASSUME NEW b \in BOOLEAN, SetUserQuotaUnlimited(u, b)
          PROVE  row'[s].limit = row[s].limit /\ granted'[s] = 0
                   /\ UNCHANGED <<logged, month>>
      BY Ids, <1>0, <2>3 DEF SetUserQuotaUnlimited, TypeOK, Row, Live,
             Grant, NoGrant, NoTraffic
    <2>4. ASSUME NEW st \in {0, 1}, NEW q \in MonthlyCaps \cup {row[u].mquota},
                 UpdateMember(u, st, q)
          PROVE  row'[s].limit = row[s].limit /\ granted'[s] = 0
                   /\ UNCHANGED <<logged, month>>
      BY Ids, <1>0, <2>4 DEF UpdateMember, TypeOK, Row, Live,
             Grant, NoGrant, NoTraffic
    <2>5. CASE DeleteMember(u)
      BY Ids, <1>0, <2>5 DEF DeleteMember, TypeOK, Row, Live,
             Grant, NoGrant, NoTraffic
    <2>6. QED
      BY <1>2, <2>1, <2>2, <2>3, <2>4, <2>5 DEF UserOps
  <1>3. ASSUME NEW r \in Reqs, Settle(r)
        PROVE  row'[s].limit = row[s].limit /\ granted'[s] = 0
                 /\ logged'[s] = 0 /\ month'[s] = 0
    <2>1. s \notin {req[r].user, OrgOf[req[r].user]}
      BY <1>0, <1>3 DEF Settle, Born, ServedWasBorn
    <2>2. QED
      BY <1>0, <1>3, <2>1, SettleRow DEF Settle, SettleTx
  <1>4. ASSUME NoLedger \/ NextMonth \/ UNCHANGED vars
        PROVE  row'[s].limit = row[s].limit /\ granted'[s] = 0
                 /\ logged'[s] = 0 /\ month'[s] = 0
    BY <1>0, <1>4 DEF NoLedger, NextMonth, vars
  <1>5. QED
    BY <1>0, <1>1, <1>2, <1>3, <1>4, QuietSteps DEF Next, ReqSteps

(* No row that does not exist yet is ever used or served *)
LEMMA BornInvariant == Spec => []Born
  <1>1. TypeOK /\ Born /\ [Next]_vars => Born'
    BY NextServed, NextUntouched DEF Born
  <1>2. QED
    BY InitBorn, TypeCorrect, <1>1, PTL DEF Spec

-----------------------------------------------------------------------------
(* No grant or account operation changes what an existing row has used, or *)
(* any log.                                                                *)
LEMMA AdminKeepsUsed ==
  ASSUME TypeOK,
         \/ \E o \in Orgs : OrgOps(o)
         \/ \E u \in Users : UserOps(u)
  PROVE  /\ UNCHANGED <<logged, month, period, req>>
         /\ \A s \in Subjects :
              \/ /\ row'[s].used = row[s].used /\ row'[s].mcost = row[s].mcost
                 /\ row'[s].mperiod = row[s].mperiod
                 /\ row'[s].state \in {row[s].state, "deleted"}
              \/ /\ row[s].state = "unborn" /\ row'[s].used = 0
                 /\ row'[s].mcost = 0 /\ row'[s].mperiod = 0
  <1> DEFINE P(s) ==
        \/ /\ row'[s].used = row[s].used /\ row'[s].mcost = row[s].mcost
           /\ row'[s].mperiod = row[s].mperiod
           /\ row'[s].state \in {row[s].state, "deleted"}
        \/ /\ row[s].state = "unborn" /\ row'[s].used = 0
           /\ row'[s].mcost = 0 /\ row'[s].mperiod = 0
  <1>1. ASSUME NEW o \in Orgs, NEW q \in InitialQuotas, CreateOrg(o, q),
               NEW s \in Subjects
        PROVE  P(s)
    BY Ids, <1>1 DEF CreateOrg, NewRow, TypeOK
  <1>2. ASSUME NEW o \in Orgs, NEW d \in OrgDeltas, AddOrgQuota(o, d),
               NEW s \in Subjects
        PROVE  P(s)
    BY Ids, <1>2 DEF AddOrgQuota, AddOrgQuotaTx, LiftArrears, TypeOK, Row
  <1>3. ASSUME NEW o \in Orgs, NEW t \in OrgTargets, SetOrgQuota(o, t),
               NEW s \in Subjects
        PROVE  P(s)
    BY Ids, <1>3 DEF SetOrgQuota, LiftArrears, TypeOK, Row
  <1>4. ASSUME NEW o \in Orgs, NEW st \in {0, 1, row[o].status},
               NEW q \in MonthlyCaps \cup {row[o].mquota}, UpdateOrg(o, st, q),
               NEW s \in Subjects
        PROVE  P(s)
    BY Ids, <1>4 DEF UpdateOrg, TypeOK, Row
  <1>5. ASSUME NEW o \in Orgs, DeleteOrg(o), NEW s \in Subjects
        PROVE  P(s)
    <2>1. row[s] \in Row
      BY DEF TypeOK
    <2>2. row'[s] = row[s] \/ row'[s] = [row[s] EXCEPT !.state = "deleted"]
      BY <1>5 DEF DeleteOrg
    <2>3. QED
      BY <2>1, <2>2 DEF Row
  <1>6. ASSUME NEW u \in Users, NEW q \in InitialQuotas, CreateMember(u, q),
               NEW s \in Subjects
        PROVE  P(s)
    BY Ids, <1>6 DEF CreateMember, NewRow, TypeOK
  <1>7. ASSUME NEW u \in Users, NEW d \in UserDeltas, AddUserQuota(u, d),
               NEW s \in Subjects
        PROVE  P(s)
    BY Ids, <1>7 DEF AddUserQuota, AddUserQuotaTx, TypeOK, Row
  <1>8. ASSUME NEW u \in Users, NEW b \in BOOLEAN, SetUserQuotaUnlimited(u, b),
               NEW s \in Subjects
        PROVE  P(s)
    BY Ids, <1>8 DEF SetUserQuotaUnlimited, TypeOK, Row
  <1>9. ASSUME NEW u \in Users, NEW st \in {0, 1},
               NEW q \in MonthlyCaps \cup {row[u].mquota}, UpdateMember(u, st, q),
               NEW s \in Subjects
        PROVE  P(s)
    BY Ids, <1>9 DEF UpdateMember, TypeOK, Row
  <1>10. ASSUME NEW u \in Users, DeleteMember(u), NEW s \in Subjects
         PROVE  P(s)
    BY Ids, <1>10 DEF DeleteMember, TypeOK, Row
  <1>11. UNCHANGED <<logged, month, period, req>>
    BY DEF OrgOps, UserOps, CreateOrg, CreateMember, AddOrgQuota, SetOrgQuota,
           AddUserQuota, SetUserQuotaUnlimited, UpdateOrg, UpdateMember,
           DeleteMember, DeleteOrg, NoTraffic
  <1>12. QED
    BY <1>1, <1>2, <1>3, <1>4, <1>5, <1>6, <1>7, <1>8, <1>9, <1>10, <1>11
       DEF OrgOps, UserOps

(* Every step keeps what is used equal to what is logged *)
LEMMA NextUsed ==
  TypeOK /\ Born /\ UsedMatchesLogs /\ [Next]_vars => UsedMatchesLogs'
  <1> SUFFICES ASSUME TypeOK, Born, UsedMatchesLogs, [Next]_vars,
                      NEW s \in Subjects, Live(s)'
               PROVE  row'[s].used = logged'[s]
    BY DEF UsedMatchesLogs
  <1>1. CASE \/ \E o \in Orgs : OrgOps(o)
             \/ \E u \in Users : UserOps(u)
    <2>1. logged' = logged
      BY <1>1, AdminKeepsUsed
    <2>2. CASE row[s].state = "unborn" /\ row'[s].used = 0
      BY <2>1, <2>2 DEF Born, UnbornUntouched
    <2>3. CASE row'[s].used = row[s].used /\ row'[s].state \in {row[s].state, "deleted"}
      BY <2>1, <2>3 DEF UsedMatchesLogs, Live
    <2>4. QED
      BY <1>1, <2>2, <2>3, AdminKeepsUsed
  <1>2. ASSUME NEW r \in Reqs, Settle(r)
        PROVE  row'[s].used = logged'[s]
    <2>1. Live(s)
      BY <1>2, SettleRow DEF Live
    <2>2. logged'[s] = IF s \in {req[r].user, OrgOf[req[r].user]}
                       THEN logged[s] + req[r].cost ELSE logged[s]
      BY <1>2 DEF Settle, SettleTx
    <2>3. QED
      BY <1>2, <2>1, <2>2, SettleRow DEF UsedMatchesLogs
  <1>3. ASSUME NoLedger \/ NextMonth \/ UNCHANGED vars
        PROVE  row'[s].used = logged'[s]
    BY <1>3 DEF NoLedger, NextMonth, vars, UsedMatchesLogs, Live
  <1>4. QED
    BY <1>1, <1>2, <1>3, QuietSteps DEF Next, ReqSteps

(* quota_used of every existing org and account is the cost total of its   *)
(* usage_logs, however many requests settle concurrently or fail to.       *)
THEOREM UsedIsLogged == Spec => []UsedMatchesLogs
  <1>1. Init => UsedMatchesLogs
    BY DEF Init, UsedMatchesLogs, Live, NewRow
  <1>2. TypeOK /\ Born /\ UsedMatchesLogs /\ [Next]_vars => UsedMatchesLogs'
    BY NextUsed
  <1>3. QED
    BY TypeCorrect, BornInvariant, <1>1, <1>2, PTL DEF Spec

-----------------------------------------------------------------------------
(* What one grant or account operation does to the limit of one subject:   *)
(* nothing, or it creates the row and books the whole limit, or it books   *)
(* the difference.                                                         *)
LimitKept(s) == row'[s].limit = row[s].limit /\ granted'[s] = granted[s]

LimitCreated(s) ==
  /\ row[s].state = "unborn"
  /\ granted'[s] = granted[s] + Coalesce(row'[s].limit)

LimitMoved(s) ==
  DifferencesFit =>
    granted'[s] = granted[s] + Coalesce(row'[s].limit) - Coalesce(row[s].limit)

LimitStep(s) == LimitKept(s) \/ LimitCreated(s) \/ LimitMoved(s)

(* What a step does to the limits of orgs *)
LEMMA OrgLimits ==
  ASSUME TypeOK, NEW o \in Orgs, OrgOps(o), NEW s \in Subjects
  PROVE  LimitStep(s)
  <1>0. /\ row[s] \in Row /\ granted[s] \in Int /\ row[o] \in Row
        /\ row[o].limit \in Int /\ row[o].limit \in Int64 /\ row[o].limit # NULL
    BY Ids, LedgerConstants DEF TypeOK, Row, Int64
  <1>1. ASSUME NEW q \in InitialQuotas, CreateOrg(o, q)
        PROVE  LimitStep(s)
    <2>1. q # NULL /\ q \in Int
      BY LedgerConstants DEF Int64
    <2>2. CASE s = o
      BY Ids, <1>0, <1>1, <2>1, <2>2
         DEF CreateOrg, NewRow, Grant, TypeOK, LimitStep, LimitCreated, Coalesce
    <2>3. CASE s = AdminOf[o]
      BY Ids, <1>0, <1>1, <2>3
         DEF CreateOrg, NewRow, Grant, TypeOK, LimitStep, LimitCreated, Coalesce
    <2>4. CASE s # o /\ s # AdminOf[o]
      BY Ids, <1>0, <1>1, <2>4 DEF CreateOrg, Grant, TypeOK, LimitStep, LimitKept
    <2>5. QED
      BY <2>2, <2>3, <2>4
  <1>2. ASSUME NEW d \in OrgDeltas, AddOrgQuota(o, d)
        PROVE  LimitStep(s)
    <2>1. d \in Int /\ row[o].limit + d \in Int
      BY <1>0, LedgerConstants DEF Int64
    <2>2. CASE s = o
      <3>1. row'[s] = LiftArrears([row[o] EXCEPT !.limit = row[o].limit + d])
        BY <1>0, <1>2, <2>2, Ids DEF AddOrgQuota, AddOrgQuotaTx, TypeOK
      <3>2. row'[s].limit = row[o].limit + d
        BY <1>0, <2>1, <3>1, LiftRow
      <3>3. granted'[s] = granted[s] + d
        BY <1>0, <1>2, <2>2, Ids DEF AddOrgQuota, AddOrgQuotaTx, Grant, TypeOK
      <3>4. row'[s].limit # NULL
        BY <2>1, <3>2, Ids
      <3>5. QED
        BY <1>0, <2>1, <2>2, <3>2, <3>3, <3>4 DEF LimitStep, LimitMoved, Coalesce
    <2>3. CASE s # o
      BY Ids, <1>0, <1>2, <2>3
         DEF AddOrgQuota, AddOrgQuotaTx, Grant, TypeOK, LimitStep, LimitKept
    <2>4. QED
      BY <2>2, <2>3
  <1>3. ASSUME NEW t \in OrgTargets, SetOrgQuota(o, t)
        PROVE  LimitStep(s)
    <2>1. t \in Int /\ t # NULL /\ t >= 0
      BY <1>3, LedgerConstants DEF Int64, SetOrgQuota
    <2>2. CASE s = o
      <3>1. row'[s] = LiftArrears([row[o] EXCEPT !.limit = t])
        BY <1>0, <1>3, <2>2, Ids DEF SetOrgQuota, TypeOK
      <3>2. row'[s].limit = t
        BY <1>0, <2>1, <3>1, LiftRow
      <3>3. granted'[s] = granted[s] + Wrap(t - row[o].limit)
        BY <1>0, <1>3, <2>2, Ids DEF SetOrgQuota, Grant, TypeOK
      <3>4. DifferencesFit => Wrap(t - row[o].limit) = t - row[o].limit
        BY <1>0, <2>1, Ids DEF DifferencesFit, Wrap, Int64
      <3>5. QED
        BY <1>0, <2>1, <2>2, <3>2, <3>3, <3>4 DEF LimitStep, LimitMoved, Coalesce
    <2>3. CASE s # o
      BY Ids, <1>0, <1>3, <2>3
         DEF SetOrgQuota, Grant, TypeOK, LimitStep, LimitKept
    <2>4. QED
      BY <2>2, <2>3
  <1>4. ASSUME NEW st \in {0, 1, row[o].status},
               NEW q \in MonthlyCaps \cup {row[o].mquota}, UpdateOrg(o, st, q)
        PROVE  LimitStep(s)
    BY Ids, <1>0, <1>4 DEF UpdateOrg, NoGrant, TypeOK, Row, LimitStep, LimitKept
  <1>5. CASE DeleteOrg(o)
    <2>1. row'[s] = row[s] \/ row'[s] = [row[s] EXCEPT !.state = "deleted"]
      BY <1>5 DEF DeleteOrg
    <2>2. QED
      BY <1>0, <1>5, <2>1 DEF DeleteOrg, NoGrant, Row, LimitStep, LimitKept
  <1>6. QED
    BY <1>1, <1>2, <1>3, <1>4, <1>5 DEF OrgOps

(* What a step does to the limits of accounts *)
LEMMA UserLimits ==
  ASSUME TypeOK, NEW u \in Users, UserOps(u), NEW s \in Subjects
  PROVE  LimitStep(s)
  <1>0. /\ row[s] \in Row /\ granted[s] \in Int /\ row[u] \in Row
        /\ row[u].limit # NULL => row[u].limit \in Int /\ row[u].limit \in Int64
        /\ row[u].used \in Int
    BY Ids, LedgerConstants DEF TypeOK, Row, Int64
  <1>1. ASSUME NEW q \in InitialQuotas, CreateMember(u, q)
        PROVE  LimitStep(s)
    <2>1. q # NULL /\ q \in Int
      BY LedgerConstants DEF Int64
    <2>2. CASE s = u
      BY Ids, <1>0, <1>1, <2>1, <2>2
         DEF CreateMember, NewRow, Grant, TypeOK, LimitStep, LimitCreated, Coalesce
    <2>3. CASE s # u
      BY Ids, <1>0, <1>1, <2>3 DEF CreateMember, Grant, TypeOK, LimitStep, LimitKept
    <2>4. QED
      BY <2>2, <2>3
  <1>2. ASSUME NEW d \in UserDeltas, AddUserQuota(u, d)
        PROVE  LimitStep(s)
    <2>1. d \in Int /\ row[u].limit # NULL
      BY <1>2, LedgerConstants DEF Int64, AddUserQuota, AddUserQuotaTx
    <2>2. CASE s = u
      <3>1. row'[s].limit = row[s].limit + d
        BY Ids, <1>0, <1>2, <2>2 DEF AddUserQuota, AddUserQuotaTx, TypeOK, Row
      <3>2. granted'[s] = granted[s] + d
        BY Ids, <1>0, <1>2, <2>2 DEF AddUserQuota, AddUserQuotaTx, Grant, TypeOK
      <3>3. row'[s].limit # NULL /\ row[s].limit \in Int /\ row[s].limit # NULL
        BY Ids, <1>0, <2>1, <2>2, <3>1
      <3>4. QED
        BY <1>0, <2>1, <3>1, <3>2, <3>3 DEF LimitStep, LimitMoved, Coalesce
    <2>3. CASE s # u
      BY Ids, <1>0, <1>2, <2>3
         DEF AddUserQuota, AddUserQuotaTx, Grant, TypeOK, LimitStep, LimitKept
    <2>4. QED
      BY <2>2, <2>3
  <1>3. ASSUME NEW b \in BOOLEAN, SetUserQuotaUnlimited(u, b)
        PROVE  LimitStep(s)
    <2>1. CASE s # u
      BY Ids, <1>0, <1>3, <2>1
         DEF SetUserQuotaUnlimited, Grant, TypeOK, LimitStep, LimitKept
    <2>2. CASE s = u /\ b
      <3>1. row[u].limit # NULL /\ row'[u].limit = NULL
        BY Ids, <1>0, <1>3, <2>2 DEF SetUserQuotaUnlimited, TypeOK, Row
      <3>2. granted'[u] = granted[u] + Wrap(0 - row[u].limit)
        BY Ids, <1>0, <1>3, <2>2 DEF SetUserQuotaUnlimited, Grant, TypeOK
      <3>3. DifferencesFit => Wrap(0 - row[u].limit) = -row[u].limit
        BY Ids, <1>0, <3>1 DEF DifferencesFit, Wrap, Int64
      <3>4. QED
        BY <1>0, <2>2, <3>1, <3>2, <3>3 DEF LimitStep, LimitMoved, Coalesce
    <2>3. CASE s = u /\ ~b
      <3>1. row[u].limit = NULL /\ row'[u].limit = row[u].used
        BY Ids, <1>0, <1>3, <2>3 DEF SetUserQuotaUnlimited, TypeOK, Row
      <3>2. granted'[u] = granted[u] + row[u].used
        BY Ids, <1>0, <1>3, <2>3 DEF SetUserQuotaUnlimited, Grant, TypeOK
      <3>3. row'[u].limit # NULL
        BY Ids, <1>0, <3>1
      <3>4. QED
        BY <1>0, <2>3, <3>1, <3>2, <3>3 DEF LimitStep, LimitMoved, Coalesce
    <2>4. QED
      BY <2>1, <2>2, <2>3
  <1>4. ASSUME NEW st \in {0, 1},
               NEW q \in MonthlyCaps \cup {row[u].mquota}, UpdateMember(u, st, q)
        PROVE  LimitStep(s)
    BY Ids, <1>0, <1>4 DEF UpdateMember, NoGrant, TypeOK, Row, LimitStep, LimitKept
  <1>5. CASE DeleteMember(u)
    BY Ids, <1>0, <1>5 DEF DeleteMember, NoGrant, TypeOK, Row, LimitStep, LimitKept
  <1>6. QED
    BY <1>1, <1>2, <1>3, <1>4, <1>5 DEF UserOps

(* Every step keeps limits equal to what was granted *)
LEMMA NextGrants ==
  TypeOK /\ Born /\ DifferencesFit /\ GrantsMatchLimit /\ [Next]_vars
    => GrantsMatchLimit'
  <1> SUFFICES ASSUME TypeOK, Born, DifferencesFit, GrantsMatchLimit, [Next]_vars,
                      NEW s \in Subjects
               PROVE  granted'[s] = Coalesce(row'[s].limit)
    BY DEF GrantsMatchLimit, Coalesce
  <1>0. /\ granted[s] = Coalesce(row[s].limit) /\ granted[s] \in Int
        /\ row[s].state = "unborn" => granted[s] = 0
        /\ row'[s] \in Row
    BY NextType DEF GrantsMatchLimit, TypeOK, Born, UnbornUntouched
  <1>1. Coalesce(row'[s].limit) \in Int
    BY <1>0, Ids DEF Coalesce, Row, Int64
  <1>2. ASSUME LimitStep(s)
        PROVE  granted'[s] = Coalesce(row'[s].limit)
    BY <1>0, <1>1, <1>2 DEF LimitStep, LimitKept, LimitCreated, LimitMoved, Coalesce
  <1>3. ASSUME NEW r \in Reqs, Settle(r)
        PROVE  granted'[s] = Coalesce(row'[s].limit)
    <2>1. row'[s].limit = row[s].limit
      BY <1>3, SettleRow
    <2>2. granted' = granted
      BY <1>3 DEF Settle, SettleTx
    <2>3. QED
      BY <1>0, <2>1, <2>2 DEF Coalesce
  <1>4. ASSUME NoLedger \/ NextMonth \/ UNCHANGED vars
        PROVE  granted'[s] = Coalesce(row'[s].limit)
    BY <1>0, <1>4 DEF NoLedger, NextMonth, vars, Coalesce
  <1>5. QED
    BY <1>2, <1>3, <1>4, OrgLimits, UserLimits, QuietSteps DEF Next, ReqSteps

(* Every limit is the sum of its grants, for any mixture of operations, as *)
(* long as no difference wraps; the run int64_edge shows that it fails     *)
(* without this hypothesis.                                                *)
THEOREM GrantsExplainLimits == Spec /\ []DifferencesFit => []GrantsMatchLimit
  <1>1. Init => GrantsMatchLimit
    BY Ids DEF Init, GrantsMatchLimit, Coalesce, NewRow
  <1>2. TypeOK /\ Born /\ DifferencesFit /\ GrantsMatchLimit /\ [Next]_vars
          => GrantsMatchLimit'
    BY NextGrants
  <1>3. QED
    BY TypeCorrect, BornInvariant, <1>1, <1>2, PTL DEF Spec

-----------------------------------------------------------------------------
(* A settlement that uses up a positive limit never leaves the org enabled *)
(* and no settlement or change of a limit re-enables one that was disabled *)
(* by hand.                                                                *)
LEMMA SettleStops ==
  ASSUME TypeOK, NEW r \in Reqs, Settle(r), NEW o \in Orgs,
         row'[o].used > row[o].used, row'[o].limit > 0,
         row'[o].used >= row'[o].limit
  PROVE  row'[o].status # 1
  <1> DEFINE u == req[r].user
             c == req[r].cost
             p == SettlePeriod(r)
             x == Charge(row[o], c, p)
  <1>1. /\ req[r] \in Req /\ u \in Users /\ o \in Subjects /\ o # u
        /\ row[o] \in Row /\ row[o].used \in Int
    BY Ids DEF TypeOK, Req, Row
  <1>2. row'[o] = IF c = 0 \/ ~Live(o) \/ o \notin {u, OrgOf[u]} THEN row[o]
                  ELSE IF o = u THEN Charge(row[o], c, p)
                  ELSE CutOff(Charge(row[o], c, p))
    BY <1>1 DEF Settle, SettleTx
  <1>3. row'[o] # row[o]
    BY <1>1
  <1>4. row'[o] = CutOff(x)
    BY <1>1, <1>2, <1>3
  <1>5. x.status = row[o].status /\ x.limit = row[o].limit
    BY <1>1 DEF Charge, Row
  <1>6. [x EXCEPT !.status = 2].status = 2 /\ [x EXCEPT !.status = 2].used = x.used
          /\ [x EXCEPT !.status = 2].limit = x.limit
    BY <1>1 DEF Charge, Row
  <1> HIDE DEF x
  <1>7. QED
    BY <1>4, <1>6 DEF CutOff

(* The cut-off is part of the settlement that makes it due. *)
THEOREM SettlementCutsOff == Spec => SettleCutsOff
  <1>1. TypeOK /\ [Next]_vars =>
          [\A o \in Orgs :
             row'[o].used > row[o].used /\ row'[o].limit > 0
               /\ row'[o].used >= row'[o].limit => row'[o].status # 1]_vars
    <2> SUFFICES ASSUME TypeOK, Next, NEW o \in Orgs,
                        row'[o].used > row[o].used, row'[o].limit > 0,
                        row'[o].used >= row'[o].limit
                 PROVE  row'[o].status # 1
      OBVIOUS
    <2>1. o \in Subjects /\ row[o].used \in Nat
      BY Ids DEF TypeOK, Row
    <2>2. ~ ((\E x \in Orgs : OrgOps(x)) \/ (\E u \in Users : UserOps(u)))
      <3> SUFFICES ASSUME (\E x \in Orgs : OrgOps(x)) \/ (\E u \in Users : UserOps(u))
                   PROVE  FALSE
        OBVIOUS
      <3>1. row'[o].used = row[o].used \/ row'[o].used = 0
        BY <2>1, AdminKeepsUsed
      <3>2. QED
        BY <2>1, <3>1
    <2>3. ~ (NoLedger \/ NextMonth)
      BY <2>1 DEF NoLedger, NextMonth
    <2>4. PICK r \in Reqs : Settle(r)
      BY <2>2, <2>3, QuietSteps DEF Next, ReqSteps
    <2>5. QED
      BY <2>4, SettleStops
  <1>2. QED
    BY TypeCorrect, <1>1, PTL DEF Spec, SettleCutsOff

(* Who leaves status 0 does so without grant, booking or request *)
LEMMA NextManual ==
  ASSUME TypeOK, Next, NEW o \in Orgs, Live(o), row[o].status = 0,
         row'[o].status # 0
  PROVE  UNCHANGED <<granted, logged, req>> /\ row'[o].used = row[o].used
  <1> DEFINE Kept == UNCHANGED <<granted, logged, req>> /\ row'[o].used = row[o].used
  <1>0. /\ row[o] \in Row /\ o \in Subjects /\ row[o].limit \in Int
        /\ row'[o] # row[o]
    BY Ids DEF TypeOK, Row, Int64
  <1>1. ASSUME NEW p \in Orgs, OrgOps(p)
        PROVE  Kept
    <2>1. ASSUME NEW q \in InitialQuotas, CreateOrg(p, q)
          PROVE  Kept
      BY Ids, <1>0, <2>1 DEF CreateOrg, TypeOK, Live
    <2>2. ASSUME NEW d \in OrgDeltas, AddOrgQuota(p, d)
          PROVE  Kept
      <3>1. p = o /\ row[o].limit + d \in Int
        BY Ids, LedgerConstants, <1>0, <2>2
           DEF AddOrgQuota, AddOrgQuotaTx, TypeOK, Int64
      <3>2. row'[o] = LiftArrears([row[o] EXCEPT !.limit = row[o].limit + d])
        BY <1>0, <2>2, <3>1 DEF AddOrgQuota, AddOrgQuotaTx, TypeOK
      <3>3. row'[o].status = row[o].status
        BY <1>0, <3>1, <3>2, LiftRow
      <3>4. QED
        BY <3>3
    <2>3. ASSUME NEW t \in OrgTargets, SetOrgQuota(p, t)
          PROVE  Kept
      <3>1. p = o /\ t \in Int
        BY Ids, LedgerConstants, <1>0, <2>3 DEF SetOrgQuota, TypeOK, Int64
      <3>2. row'[o] = LiftArrears([row[o] EXCEPT !.limit = t])
        BY <1>0, <2>3, <3>1 DEF SetOrgQuota, TypeOK
      <3>3. row'[o].status = row[o].status
        BY <1>0, <3>1, <3>2, LiftRow
      <3>4. QED
        BY <3>3
    <2>4. ASSUME NEW st \in {0, 1, row[p].status},
                 NEW q \in MonthlyCaps \cup {row[p].mquota}, UpdateOrg(p, st, q)
          PROVE  Kept
      BY Ids, <1>0, <2>4 DEF UpdateOrg, NoGrant, NoTraffic, TypeOK, Row
    <2>5. CASE DeleteOrg(p)
      BY <1>0, <2>5 DEF DeleteOrg, Row
    <2>6. QED
      BY <1>1, <2>1, <2>2, <2>3, <2>4, <2>5 DEF OrgOps
  <1>2. ASSUME NEW u \in Users, UserOps(u)
        PROVE  FALSE
    <2>1. o \in Subjects /\ o # u /\ u \in Subjects
      BY Ids
    <2>2. \A q \in InitialQuotas : ~CreateMember(u, q)
      BY <1>0, <2>1 DEF CreateMember, TypeOK
    <2>3. \A d \in UserDeltas : ~AddUserQuota(u, d)
      BY <1>0, <2>1 DEF AddUserQuota, AddUserQuotaTx, TypeOK
    <2>4. \A b \in BOOLEAN : ~SetUserQuotaUnlimited(u, b)
      BY <1>0, <2>1 DEF SetUserQuotaUnlimited, TypeOK
    <2>5. \A st \in {0, 1}, q \in MonthlyCaps \cup {row[u].mquota} :
            ~UpdateMember(u, st, q)
      BY <1>0, <2>1 DEF UpdateMember, TypeOK
    <2>6. ~DeleteMember(u)
      BY <1>0, <2>1 DEF DeleteMember, TypeOK
    <2>7. QED
      BY <1>2, <2>2, <2>3, <2>4, <2>5, <2>6 DEF UserOps
  <1>3. ASSUME NEW r \in Reqs, Settle(r)
        PROVE  FALSE
    BY <1>0, <1>3, SettleRow
  <1>4. ~ (NoLedger \/ NextMonth)
    BY <1>0 DEF NoLedger, NextMonth
  <1>5. QED
    BY <1>1, <1>2, <1>3, <1>4, QuietSteps DEF Next, ReqSteps

(* What an administrator disabled, only an administrator's status update   *)
(* enables again.                                                          *)
THEOREM ManualDisableHolds == Spec => ManualDisableSticky
  <1>1. TypeOK /\ [Next]_vars =>
          [\A o \in Orgs :
             Live(o) /\ row[o].status = 0 /\ row'[o].status # 0 =>
               UNCHANGED <<granted, logged, req>> /\ row'[o].used = row[o].used]_vars
    BY NextManual
  <1>2. QED
    BY TypeCorrect, <1>1, PTL DEF Spec, ManualDisableSticky

-----------------------------------------------------------------------------
(* Concurrent requests: how far they can overdraw a limit, and what the     *)
(* monthly totals hold.                                                     *)

(* The highest limit a subject ever had only grows, and covers the limit   *)
(* that a grant or account operation leaves behind.                        *)
PeakGrows(s) ==
  /\ peak'[s] \in Nat /\ peak'[s] >= peak[s]
  /\ row'[s].limit = row[s].limit \/ row'[s].limit = NULL
       \/ row'[s].limit <= peak'[s]

(* A new limit is covered by its peak *)
LEMMA SetLimitPeak ==
  ASSUME TypeOK, NEW s \in Subjects, NEW t \in Subjects,
         NEW limit \in Int64 \cup {NULL}, SetLimit(t, limit)
  PROVE  /\ peak'[s] \in Nat /\ peak'[s] >= peak[s]
         /\ s = t /\ limit # NULL => limit <= peak'[s]
         /\ s # t => peak'[s] = peak[s]
  <1>1. peak[s] \in Nat /\ peak \in [Subjects -> Nat]
    BY DEF TypeOK
  <1>2. Coalesce(limit) \in Int /\ (limit # NULL => Coalesce(limit) = limit)
    BY Ids DEF Coalesce, Int64
  <1>3. CASE s = t
    <2>1. peak'[s] = MaxOf(peak[s], Coalesce(limit))
      BY <1>1, <1>3 DEF SetLimit
    <2>2. QED
      BY <1>1, <1>2, <1>3, <2>1 DEF MaxOf
  <1>4. CASE s # t
    BY <1>1, <1>4 DEF SetLimit
  <1>5. QED
    BY <1>3, <1>4

(* A step keeps the peaks of orgs *)
LEMMA OrgPeak ==
  ASSUME TypeOK, NEW o \in Orgs, OrgOps(o), NEW s \in Subjects
  PROVE  PeakGrows(s)
  <1>0. /\ row[s] \in Row /\ row[o] \in Row /\ o \in Subjects
        /\ row[o].limit \in Int /\ row[o].limit \in Int64
        /\ peak[s] \in Nat
    BY Ids, LedgerConstants DEF TypeOK, Row, Int64
  <1>1. ASSUME NEW q \in InitialQuotas, CreateOrg(o, q)
        PROVE  PeakGrows(s)
    <2>1. q \in Int64 \cup {NULL} /\ q # NULL
      BY LedgerConstants DEF Int64
    <2>2. /\ peak'[s] \in Nat /\ peak'[s] >= peak[s]
          /\ s = o => q <= peak'[s]
      BY <1>0, <1>1, <2>1, SetLimitPeak DEF CreateOrg
    <2>3. /\ s = o => row'[s].limit = q
          /\ s = AdminOf[o] => row'[s].limit = NULL
          /\ s # o /\ s # AdminOf[o] => row'[s] = row[s]
      BY Ids, <1>0, <1>1 DEF CreateOrg, NewRow, TypeOK
    <2>4. QED
      BY <2>2, <2>3 DEF PeakGrows
  <1>2. ASSUME NEW d \in OrgDeltas, AddOrgQuota(o, d)
        PROVE  PeakGrows(s)
    <2>1. row[o].limit + d \in Int64
      BY <1>0, <1>2, LedgerConstants, AddNoWrapExact
         DEF AddOrgQuota, AddOrgQuotaTx
    <2>2. row[o].limit + d \in Int64 \cup {NULL} /\ row[o].limit + d \in Int
            /\ row[o].limit + d # NULL
      BY <2>1, Ids DEF Int64
    <2>3. SetLimit(o, row[o].limit + d)
      BY <1>2 DEF AddOrgQuota, AddOrgQuotaTx
    <2>4. /\ peak'[s] \in Nat /\ peak'[s] >= peak[s]
          /\ s = o => row[o].limit + d <= peak'[s]
      BY <1>0, <2>2, <2>3, SetLimitPeak
    <2>5. CASE s = o
      <3>1. row'[s] = LiftArrears([row[o] EXCEPT !.limit = row[o].limit + d])
        BY <1>0, <1>2, <2>5 DEF AddOrgQuota, AddOrgQuotaTx, TypeOK
      <3>2. row'[s].limit = row[o].limit + d
        BY <1>0, <2>2, <3>1, LiftRow
      <3>3. QED
        BY <2>4, <2>5, <3>2 DEF PeakGrows
    <2>6. CASE s # o
      BY <1>0, <1>2, <2>4, <2>6 DEF AddOrgQuota, AddOrgQuotaTx, TypeOK, PeakGrows
    <2>7. QED
      BY <2>5, <2>6
  <1>3. ASSUME NEW t \in OrgTargets, SetOrgQuota(o, t)
        PROVE  PeakGrows(s)
    <2>1. t \in Int64 \cup {NULL} /\ t \in Int /\ t # NULL
      BY LedgerConstants DEF Int64
    <2>2. /\ peak'[s] \in Nat /\ peak'[s] >= peak[s]
          /\ s = o => t <= peak'[s]
      BY <1>0, <1>3, <2>1, SetLimitPeak DEF SetOrgQuota
    <2>3. CASE s = o
      <3>1. row'[s] = LiftArrears([row[o] EXCEPT !.limit = t])
        BY <1>0, <1>3, <2>3 DEF SetOrgQuota, TypeOK
      <3>2. row'[s].limit = t
        BY <1>0, <2>1, <3>1, LiftRow
      <3>3. QED
        BY <2>2, <2>3, <3>2 DEF PeakGrows
    <2>4. CASE s # o
      BY <1>0, <1>3, <2>2, <2>4 DEF SetOrgQuota, TypeOK, PeakGrows
    <2>5. QED
      BY <2>3, <2>4
  <1>4. ASSUME NEW st \in {0, 1, row[o].status},
               NEW q \in MonthlyCaps \cup {row[o].mquota}, UpdateOrg(o, st, q)
        PROVE  PeakGrows(s)
    BY Ids, <1>0, <1>4 DEF UpdateOrg, NoGrant, TypeOK, Row, PeakGrows
  <1>5. CASE DeleteOrg(o)
    <2>1. row'[s] = row[s] \/ row'[s] = [row[s] EXCEPT !.state = "deleted"]
      BY <1>5 DEF DeleteOrg
    <2>2. QED
      BY <1>0, <1>5, <2>1 DEF DeleteOrg, NoGrant, Row, PeakGrows
  <1>6. QED
    BY <1>1, <1>2, <1>3, <1>4, <1>5 DEF OrgOps

(* A step keeps the peaks of accounts *)
LEMMA UserPeak ==
  ASSUME TypeOK, NEW u \in Users, UserOps(u), NEW s \in Subjects
  PROVE  PeakGrows(s)
  <1>0. /\ row[s] \in Row /\ row[u] \in Row /\ u \in Subjects
        /\ row[u].limit # NULL => row[u].limit \in Int64
        /\ row[u].used \in Int64
        /\ peak[s] \in Nat
    BY Ids, LedgerConstants DEF TypeOK, Row, Int64
  <1>1. ASSUME NEW q \in InitialQuotas, CreateMember(u, q)
        PROVE  PeakGrows(s)
    <2>1. q \in Int64 \cup {NULL} /\ q # NULL
      BY LedgerConstants DEF Int64
    <2>2. /\ peak'[s] \in Nat /\ peak'[s] >= peak[s]
          /\ s = u => q <= peak'[s]
      BY <1>0, <1>1, <2>1, SetLimitPeak DEF CreateMember
    <2>3. /\ s = u => row'[s].limit = IF q = 0 THEN NULL ELSE q
          /\ s # u => row'[s] = row[s]
      BY Ids, <1>0, <1>1 DEF CreateMember, NewRow, TypeOK
    <2>4. QED
      BY <2>2, <2>3 DEF PeakGrows
  <1>2. ASSUME NEW d \in UserDeltas, AddUserQuota(u, d)
        PROVE  PeakGrows(s)
    <2>1. row[u].limit + d \in Int64
      BY <1>0, <1>2, LedgerConstants, AddNoWrapExact
         DEF AddUserQuota, AddUserQuotaTx
    <2>2. row[u].limit + d \in Int64 \cup {NULL} /\ row[u].limit + d # NULL
      BY <2>1, Ids DEF Int64
    <2>3. SetLimit(u, row[u].limit + d)
      BY <1>2 DEF AddUserQuota, AddUserQuotaTx
    <2>4. /\ peak'[s] \in Nat /\ peak'[s] >= peak[s]
          /\ s = u => row[u].limit + d <= peak'[s]
      BY <1>0, <2>2, <2>3, SetLimitPeak
    <2>5. /\ s = u => row'[s].limit = row[u].limit + d
          /\ s # u => row'[s] = row[s]
      BY Ids, <1>0, <1>2 DEF AddUserQuota, AddUserQuotaTx, TypeOK, Row
    <2>6. QED
      BY <2>4, <2>5 DEF PeakGrows
  <1>3. ASSUME NEW b \in BOOLEAN, SetUserQuotaUnlimited(u, b)
        PROVE  PeakGrows(s)
    <2> DEFINE new == IF b THEN NULL ELSE row[u].used
    <2>1. new \in Int64 \cup {NULL} /\ (new = NULL <=> b)
      BY <1>0, Ids DEF Int64
    <2>2. SetLimit(u, new)
      BY <1>3 DEF SetUserQuotaUnlimited
    <2>3. /\ s = u => row'[s].limit = new
          /\ s # u => row'[s] = row[s]
      BY Ids, <1>0, <1>3 DEF SetUserQuotaUnlimited, TypeOK, Row
    <2> HIDE DEF new
    <2>4. /\ peak'[s] \in Nat /\ peak'[s] >= peak[s]
          /\ s = u /\ new # NULL => new <= peak'[s]
      BY <1>0, <2>1, <2>2, SetLimitPeak
    <2>5. QED
      BY <2>3, <2>4 DEF PeakGrows
  <1>4. ASSUME NEW st \in {0, 1},
               NEW q \in MonthlyCaps \cup {row[u].mquota}, UpdateMember(u, st, q)
        PROVE  PeakGrows(s)
    BY Ids, <1>0, <1>4 DEF UpdateMember, NoGrant, TypeOK, Row, PeakGrows
  <1>5. CASE DeleteMember(u)
    BY Ids, <1>0, <1>5 DEF DeleteMember, NoGrant, TypeOK, Row, PeakGrows
  <1>6. QED
    BY <1>1, <1>2, <1>3, <1>4, <1>5 DEF UserOps

(* Peaks always cover the limits *)
LEMMA PeakInvariant == Spec => []PeakCovers
  <1>1. Init => PeakCovers
    BY Ids DEF Init, PeakCovers, NewRow
  <1>2. TypeOK /\ PeakCovers /\ [Next]_vars => PeakCovers'
    <2> SUFFICES ASSUME TypeOK, PeakCovers, [Next]_vars, NEW s \in Subjects,
                        row'[s].limit # NULL
                 PROVE  row'[s].limit <= peak'[s]
      BY DEF PeakCovers
    <2>0. /\ row[s].limit # NULL => row[s].limit <= peak[s] /\ row[s].limit \in Int
          /\ peak[s] \in Nat
      BY DEF PeakCovers, TypeOK, Row, Int64
    <2>1. ASSUME PeakGrows(s)
          PROVE  row'[s].limit <= peak'[s]
      BY <2>0, <2>1 DEF PeakGrows
    <2>2. ASSUME NEW r \in Reqs, Settle(r)
          PROVE  row'[s].limit <= peak'[s]
      BY <2>0, <2>2, SettleRow DEF Settle, SettleTx
    <2>3. ASSUME NoLedger \/ NextMonth \/ UNCHANGED vars
          PROVE  row'[s].limit <= peak'[s]
      BY <2>0, <2>3 DEF NoLedger, NextMonth, vars
    <2>4. QED
      BY <2>1, <2>2, <2>3, OrgPeak, UserPeak, QuietSteps DEF Next, ReqSteps
  <1>3. QED
    BY TypeCorrect, <1>1, <1>2, PTL DEF Spec

-----------------------------------------------------------------------------
(* How many requests a subject has in flight.                              *)
LEMMA InFlightFinite ==
  ASSUME NEW s
  PROVE  /\ IsFiniteSet(InFlight(s)) /\ InFlight(s) \subseteq Reqs
         /\ Cardinality(InFlight(s)) \in Nat /\ Cardinality(Reqs) \in Nat
         /\ Cardinality(InFlight(s)) <= Cardinality(Reqs)
  <1>1. InFlight(s) \in SUBSET Reqs
    BY DEF InFlight
  <1>2. QED
    BY <1>1, LedgerConstants, FS_Subset, FS_CardinalityType

(* Multiplication is monotonic *)
LEMMA MulMono ==
  ASSUME NEW k \in Nat, NEW n \in Nat, NEW m \in Nat, k <= n
  PROVE  /\ k * m \in Nat /\ n * m \in Nat /\ k * m <= n * m
         /\ k # 0 => (k - 1) * m = k * m - m
  OBVIOUS

(* The bound for one subject, after a step. *)
Bounded(s) ==
  row[s].limit # NULL =>
    row[s].used + Cardinality(InFlight(s)) * MaxCost
      <= peak[s] + Cardinality(Reqs) * MaxCost

(* Fewer requests in flight and no more used keep the bound. *)
LEMMA BoundKept ==
  ASSUME TypeOK, TypeOK', NEW s \in Subjects, Bounded(s),
         InFlight(s)' \subseteq InFlight(s),
         row'[s].used = row[s].used, row[s].limit # NULL, peak'[s] >= peak[s]
  PROVE  Bounded(s)'
  <1>1. /\ Cardinality(InFlight(s)) \in Nat /\ IsFiniteSet(InFlight(s))
    BY InFlightFinite
  <1>2. /\ Cardinality(InFlight(s)') \in Nat
        /\ Cardinality(InFlight(s)') <= Cardinality(InFlight(s))
    BY <1>1, FS_Subset, FS_CardinalityType
  <1>3. /\ MaxCost \in Nat /\ row[s].used \in Int /\ peak[s] \in Int
        /\ peak'[s] \in Int
    BY Ids DEF TypeOK, Row
  <1> DEFINE a == Cardinality(InFlight(s)')
             b == Cardinality(InFlight(s))
             n == Cardinality(Reqs)
  <1>4. a * MaxCost <= b * MaxCost /\ a * MaxCost \in Nat /\ b * MaxCost \in Nat
    BY <1>1, <1>2, <1>3, MulMono
  <1>5. n * MaxCost \in Nat
    BY <1>3, InFlightFinite, MulMono
  <1>6. row[s].used + b * MaxCost <= peak[s] + n * MaxCost
    BY DEF Bounded
  <1>7. row'[s].used + a * MaxCost <= peak'[s] + n * MaxCost
    <2> HIDE DEF a, b, n
    <2> DEFINE am == a * MaxCost
               bm == b * MaxCost
               nm == n * MaxCost
    <2>1. /\ am <= bm /\ am \in Nat /\ bm \in Nat /\ nm \in Nat
          /\ row[s].used + bm <= peak[s] + nm
      BY <1>4, <1>5, <1>6
    <2> HIDE DEF am, bm, nm
    <2>2. row'[s].used + am <= peak'[s] + nm
      BY <1>3, <2>1
    <2>3. QED
      BY <2>2 DEF am, nm
  <1>8. QED
    BY <1>7 DEF Bounded

(* Nothing used beyond the highest limit keeps it whatever is in flight. *)
LEMMA BoundFresh ==
  ASSUME TypeOK', NEW s \in Subjects, row'[s].used <= peak'[s]
  PROVE  Bounded(s)'
  <1> DEFINE a == Cardinality(InFlight(s)')
             n == Cardinality(Reqs)
  <1>1. a \in Nat /\ n \in Nat /\ a <= n
    <2>1. InFlight(s)' \in SUBSET Reqs
      BY DEF InFlight
    <2>2. QED
      BY <2>1, LedgerConstants, FS_Subset, FS_CardinalityType
  <1>2. /\ MaxCost \in Nat /\ row'[s].used \in Int /\ peak'[s] \in Int
    BY Ids DEF TypeOK, Row
  <1>3. a * MaxCost <= n * MaxCost /\ a * MaxCost \in Nat /\ n * MaxCost \in Nat
    <2> HIDE DEF a, n
    <2>1. QED
      BY <1>1, <1>2, MulMono
  <1>4. row'[s].used + a * MaxCost <= peak'[s] + n * MaxCost
    <2> HIDE DEF a, n
    <2> DEFINE am == a * MaxCost
               nm == n * MaxCost
    <2>1. am <= nm /\ am \in Nat /\ nm \in Nat
      BY <1>3
    <2> HIDE DEF am, nm
    <2>2. row'[s].used + am <= peak'[s] + nm
      BY <1>2, <2>1
    <2>3. QED
      BY <2>2 DEF am, nm
  <1>5. QED
    BY <1>4 DEF Bounded

(* A settlement trades the request in flight for its cost. *)
LEMMA BoundSettle ==
  ASSUME TypeOK, TypeOK', NEW s \in Subjects, Bounded(s),
         NEW r \in Reqs, Settle(r)
  PROVE  Bounded(s)'
  <1> SUFFICES ASSUME row'[s].limit # NULL
               PROVE  Bounded(s)'
    BY DEF Bounded
  <1> DEFINE u == req[r].user
  <1>0. /\ row[s].used \in Int /\ peak[s] \in Int /\ peak' = peak
        /\ req[r] \in Req /\ u \in Users
    BY DEF TypeOK, Row, Req, Settle, SettleTx
  <1>1. /\ row[s].limit # NULL
        /\ req[r].cost \in 0 .. MaxCost
        /\ row'[s].used \in {row[s].used, row[s].used + req[r].cost}
        /\ s \notin {u, OrgOf[u]} => row'[s] = row[s]
    BY SettleRow
  <1>2. InFlight(s)' = IF s \in {u, OrgOf[u]} THEN InFlight(s) \ {r} ELSE InFlight(s)
    BY <1>0 DEF Settle, InFlight, NoReq, TypeOK
  <1>3. CASE s \notin {u, OrgOf[u]}
    BY <1>0, <1>1, <1>2, <1>3, BoundKept
  <1>4. CASE s \in {u, OrgOf[u]}
    <2>1. r \in InFlight(s)
      BY <1>4 DEF Settle, InFlight
    <2> DEFINE b == Cardinality(InFlight(s))
               n == Cardinality(Reqs)
    <2>2. /\ Cardinality(InFlight(s)') = b - 1 /\ b \in Nat /\ n \in Nat
          /\ b <= n /\ b # 0
      <3>1. IsFiniteSet(InFlight(s)) /\ b \in Nat /\ n \in Nat /\ b <= n
        BY InFlightFinite
      <3>2. Cardinality(InFlight(s) \ {r}) = b - 1
        BY <2>1, <3>1, FS_RemoveElement
      <3>3. b # 0
        BY <2>1, <3>1, FS_EmptySet
      <3>4. QED
        BY <1>2, <1>4, <3>1, <3>2, <3>3
    <2>3. row[s].used + b * MaxCost <= peak[s] + n * MaxCost
      BY <1>1 DEF Bounded
    <2>4. (b - 1) * MaxCost = b * MaxCost - MaxCost /\ b * MaxCost \in Nat
            /\ n * MaxCost \in Nat
      <3> HIDE DEF b, n
      <3>1. QED
        BY <2>2, Ids, MulMono
    <2>5. row'[s].used + (b - 1) * MaxCost <= peak'[s] + n * MaxCost
      <3> HIDE DEF b, n
      <3> DEFINE bm == b * MaxCost
                 nm == n * MaxCost
      <3>1. row[s].used + bm <= peak[s] + nm /\ bm \in Nat /\ nm \in Nat
              /\ (b - 1) * MaxCost = bm - MaxCost
        BY <2>3, <2>4
      <3> HIDE DEF bm, nm
      <3>2. row'[s].used <= row[s].used + MaxCost /\ row'[s].used \in Int
        BY <1>0, <1>1, Ids
      <3>3. row'[s].used + (bm - MaxCost) <= peak'[s] + nm
        BY <1>0, <3>1, <3>2, Ids
      <3>4. QED
        BY <3>1, <3>3 DEF nm
    <2>6. QED
      BY <2>2, <2>5 DEF Bounded
  <1>5. QED
    BY <1>3, <1>4

(* An unlimited account that gets a limit starts at what it has used; any  *)
(* other row with no limit keeps none, or is only now created.             *)
LEMMA UnlimitedStep ==
  ASSUME TypeOK, NEW s \in Subjects, row[s].limit = NULL,
         \/ \E o \in Orgs : OrgOps(o)
         \/ \E u \in Users : UserOps(u)
  PROVE  row'[s].limit = NULL \/ row'[s].used <= peak'[s] \/ row'[s].used = 0
  <1> DEFINE Goal == row'[s].limit = NULL \/ row'[s].used <= peak'[s]
                       \/ row'[s].used = 0
  <1>0. /\ s \in Users /\ s \notin Orgs /\ row[s] \in Row
        /\ row[s].used \in Nat /\ peak[s] \in Nat
    BY Ids DEF TypeOK, Subjects, Row
  <1>1. ASSUME NEW o \in Orgs, OrgOps(o)
        PROVE  Goal
    <2>1. ASSUME NEW q \in InitialQuotas, CreateOrg(o, q)
          PROVE  Goal
      BY Ids, <1>0, <2>1 DEF CreateOrg, NewRow, TypeOK
    <2>2. ASSUME NEW d \in OrgDeltas, AddOrgQuota(o, d)
          PROVE  Goal
      BY Ids, <1>0, <2>2 DEF AddOrgQuota, AddOrgQuotaTx, TypeOK
    <2>3. ASSUME NEW t \in OrgTargets, SetOrgQuota(o, t)
          PROVE  Goal
      BY Ids, <1>0, <2>3 DEF SetOrgQuota, TypeOK
    <2>4. ASSUME NEW st \in {0, 1, row[o].status},
                 NEW q \in MonthlyCaps \cup {row[o].mquota}, UpdateOrg(o, st, q)
          PROVE  Goal
      BY Ids, <1>0, <2>4 DEF UpdateOrg, TypeOK
    <2>5. CASE DeleteOrg(o)
      <3>1. row'[s] = row[s] \/ row'[s] = [row[s] EXCEPT !.state = "deleted"]
        BY <2>5 DEF DeleteOrg
      <3>2. QED
        BY <1>0, <3>1 DEF Row
    <2>6. QED
      BY <1>1, <2>1, <2>2, <2>3, <2>4, <2>5 DEF OrgOps
  <1>2. ASSUME NEW u \in Users, UserOps(u)
        PROVE  Goal
    <2>1. ASSUME NEW q \in InitialQuotas, CreateMember(u, q)
          PROVE  Goal
      BY Ids, <1>0, <2>1 DEF CreateMember, NewRow, TypeOK
    <2>2. ASSUME NEW d \in UserDeltas, AddUserQuota(u, d)
          PROVE  Goal
      BY Ids, <1>0, <2>2 DEF AddUserQuota, AddUserQuotaTx, TypeOK
    <2>3. ASSUME NEW b \in BOOLEAN, SetUserQuotaUnlimited(u, b)
          PROVE  Goal
      <3>1. CASE s # u
        BY Ids, <1>0, <2>3, <3>1 DEF SetUserQuotaUnlimited, TypeOK
      <3>2. CASE s = u
        <4>1. ~b /\ row'[s].used = row[s].used /\ SetLimit(s, row[s].used)
          BY Ids, <1>0, <2>3, <3>2 DEF SetUserQuotaUnlimited, TypeOK, Row
        <4>2. row[s].used \in Int64 \cup {NULL} /\ row[s].used # NULL
          BY Ids, <1>0 DEF Row, Int64
        <4>3. row[s].used <= peak'[s]
          BY <1>0, <4>1, <4>2, SetLimitPeak
        <4>4. QED
          BY <4>1, <4>3
      <3>3. QED
        BY <3>1, <3>2
    <2>4. ASSUME NEW st \in {0, 1},
                 NEW q \in MonthlyCaps \cup {row[u].mquota}, UpdateMember(u, st, q)
          PROVE  Goal
      BY Ids, <1>0, <2>4 DEF UpdateMember, TypeOK, Row
    <2>5. CASE DeleteMember(u)
      BY Ids, <1>0, <2>5 DEF DeleteMember, TypeOK, Row
    <2>6. QED
      BY <1>2, <2>1, <2>2, <2>3, <2>4, <2>5 DEF UserOps
  <1>3. QED
    BY <1>1, <1>2

(* What administrators do keeps the bound of admissions *)
LEMMA BoundAdmin ==
  ASSUME TypeOK, TypeOK', NEW s \in Subjects, Bounded(s), PeakGrows(s),
         PeakCovers,
         \/ \E o \in Orgs : OrgOps(o)
         \/ \E u \in Users : UserOps(u)
  PROVE  Bounded(s)'
  <1>0. /\ row[s].used \in Nat /\ peak[s] \in Nat /\ peak'[s] >= peak[s]
        /\ peak'[s] \in Nat /\ UNCHANGED req
        /\ row'[s].limit # NULL => row'[s].limit \in Int
    BY AdminKeepsUsed DEF PeakGrows, TypeOK, Row, Int64
  <1>1. CASE row'[s].used = 0
    BY <1>0, <1>1, BoundFresh
  <1>2. CASE row'[s].used = row[s].used /\ row[s].limit # NULL
    <2>1. InFlight(s)' = InFlight(s)
      BY <1>0 DEF InFlight
    <2>2. QED
      BY <1>0, <1>2, <2>1, BoundKept
  <1>3. CASE row'[s].used = row[s].used /\ row[s].limit = NULL
    <2>1. row'[s].limit = NULL \/ row'[s].used <= peak'[s] \/ row'[s].used = 0
      BY <1>0, <1>3, UnlimitedStep
    <2>2. QED
      BY <1>1, <2>1, BoundFresh DEF Bounded
  <1>4. QED
    BY <1>1, <1>2, <1>3, AdminKeepsUsed

(* A request that passes the precheck has every one of its limits left. *)
LEMMA BoundRequest ==
  ASSUME TypeOK, TypeOK', NEW s \in Subjects, Bounded(s), PeakCovers,
         NEW r \in Reqs,
         \/ \E u \in Users : APIKeyAuth(r, u)
         \/ Precheck(r)
         \/ \E c \in 0 .. MaxCost : BeginSettle(r, c)
         \/ SettleError(r)
  PROVE  Bounded(s)'
  <1> SUFFICES ASSUME row'[s].limit # NULL
               PROVE  Bounded(s)'
    BY DEF Bounded
  <1>0. /\ UNCHANGED row /\ UNCHANGED peak /\ row[s].limit # NULL
        /\ peak[s] \in Nat /\ row[s].limit \in Int /\ row[s].used \in Int
        /\ req[r] \in Req
    BY QuietSteps DEF NoLedger, TypeOK, Row, Int64
  <1>1. ASSUME InFlight(s)' \subseteq InFlight(s)
        PROVE  Bounded(s)'
    BY <1>0, <1>1, BoundKept
  <1>2. CASE \E u \in Users : APIKeyAuth(r, u)
    <2>1. req'[r].pc = "authed" /\ \A q \in Reqs \ {r} : req'[q] = req[q]
      BY <1>0, <1>2 DEF APIKeyAuth, TypeOK, Req
    <2>2. InFlight(s)' \subseteq InFlight(s)
      BY <2>1 DEF InFlight
    <2>3. QED
      BY <1>1, <2>2
  <1>3. CASE Precheck(r) /\ s \in {req[r].user, OrgOf[req[r].user]}
               /\ PrecheckPasses(req[r].user)
    <2>1. row[s].used <= row[s].limit
      BY <1>0, <1>3 DEF PrecheckPasses
    <2>2. row[s].limit <= peak[s]
      BY <1>0 DEF PeakCovers
    <2>3. row'[s].used <= peak'[s]
      BY <1>0, <2>1, <2>2
    <2>4. QED
      BY <2>3, BoundFresh
  <1>4. CASE Precheck(r) /\ ~(s \in {req[r].user, OrgOf[req[r].user]}
                                /\ PrecheckPasses(req[r].user))
    <2>1. \A q \in Reqs \ {r} : req'[q] = req[q]
      BY <1>4 DEF Precheck, TypeOK
    <2>2. req'[r] = IF PrecheckPasses(req[r].user)
                    THEN [req[r] EXCEPT !.pc = "inflight"] ELSE NoReq
      BY <1>4 DEF Precheck, TypeOK
    <2>3. CASE PrecheckPasses(req[r].user)
      <3>1. req'[r].user = req[r].user
        BY <1>0, <2>2, <2>3 DEF Req
      <3>2. s \notin {req[r].user, OrgOf[req[r].user]}
        BY <1>4, <2>3
      <3>3. QED
        BY <1>1, <2>1, <3>1, <3>2 DEF InFlight
    <2>4. CASE ~PrecheckPasses(req[r].user)
      <3>1. req'[r].pc = "idle"
        BY <2>2, <2>4 DEF NoReq
      <3>2. QED
        BY <1>1, <2>1, <3>1 DEF InFlight
    <2>5. QED
      BY <2>3, <2>4
  <1>5. CASE \E c \in 0 .. MaxCost : BeginSettle(r, c)
    <2>1. PICK c \in 0 .. MaxCost : BeginSettle(r, c)
      BY <1>5
    <2>2. /\ req[r].pc = "inflight"
          /\ req'[r] = [req[r] EXCEPT !.pc = "settling", !.cost = c, !.period = period]
          /\ \A q \in Reqs \ {r} : req'[q] = req[q]
      BY <2>1 DEF BeginSettle, TypeOK
    <2>3. req'[r].user = req[r].user
      BY <1>0, <2>2 DEF Req
    <2>4. InFlight(s)' \subseteq InFlight(s)
      BY <2>2, <2>3 DEF InFlight
    <2>5. QED
      BY <1>1, <2>4
  <1>6. CASE SettleError(r)
    <2>1. InFlight(s)' \subseteq InFlight(s)
      BY <1>0, <1>6 DEF SettleError, InFlight, NoReq, TypeOK
    <2>2. QED
      BY <1>1, <2>1
  <1>7. QED
    BY <1>2, <1>3, <1>4, <1>5, <1>6

(* The overdraft of a limit never exceeds N times the cost of one request, *)
(* N the number of requests that can be in flight together: the bound      *)
(* promised where Settle is defined, for every N and every limit history.  *)
THEOREM OverdraftIsBounded == Spec => []OverdraftBound
  <1>1. Init => OverdraftBound
    <2> SUFFICES ASSUME Init, NEW s \in Subjects PROVE Bounded(s)
      BY DEF OverdraftBound, Bounded
    <2>1. InFlight(s) = {}
      BY DEF Init, InFlight, NoReq
    <2>2. Cardinality(InFlight(s)) = 0 /\ Cardinality(Reqs) \in Nat
      BY <2>1, LedgerConstants, FS_EmptySet, FS_CardinalityType
    <2>3. row[s].used = 0 /\ peak[s] = 0
      BY DEF Init, NewRow
    <2>4. 0 * MaxCost = 0 /\ Cardinality(Reqs) * MaxCost \in Nat
      BY <2>2, Ids, MulMono
    <2>5. QED
      BY <2>2, <2>3, <2>4 DEF Bounded
  <1>2. TypeOK /\ TypeOK' /\ PeakCovers /\ OverdraftBound /\ [Next]_vars
          => OverdraftBound'
    <2> SUFFICES ASSUME TypeOK, TypeOK', PeakCovers, OverdraftBound, [Next]_vars,
                        NEW s \in Subjects
                 PROVE  Bounded(s)'
      BY DEF OverdraftBound, Bounded
    <2>0. Bounded(s)
      BY DEF OverdraftBound, Bounded
    <2>1. ASSUME (\E o \in Orgs : OrgOps(o)) \/ (\E u \in Users : UserOps(u))
          PROVE  Bounded(s)'
      BY <2>0, <2>1, OrgPeak, UserPeak, BoundAdmin
    <2>2. ASSUME NEW r \in Reqs, Settle(r)
          PROVE  Bounded(s)'
      BY <2>0, <2>2, BoundSettle
    <2>3. ASSUME NEW r \in Reqs,
                 \/ \E u \in Users : APIKeyAuth(r, u)
                 \/ Precheck(r)
                 \/ \E c \in 0 .. MaxCost : BeginSettle(r, c)
                 \/ SettleError(r)
          PROVE  Bounded(s)'
      BY <2>0, <2>3, BoundRequest
    <2>4. ASSUME NextMonth \/ UNCHANGED vars
          PROVE  Bounded(s)'
      BY <2>0, <2>4 DEF NextMonth, vars, Bounded, InFlight
    <2>5. QED
      BY <2>1, <2>2, <2>3, <2>4 DEF Next, ReqSteps
  <1>3. QED
    BY TypeCorrect, PeakInvariant, <1>1, <1>2, PTL DEF Spec

-----------------------------------------------------------------------------
(* The monthly total.                                                      *)

(* Every step keeps the monthly resets *)
LEMMA NextMonthly ==
  ASSUME Dialect = "sqlite", TypeOK, Born, MonthlyFresh, MonthlyAccurate,
         [Next]_vars, NEW s \in Subjects
  PROVE  /\ row'[s].mperiod <= period'
         /\ Live(s)' => MonthlyCost(s)' = month'[s]
  <1>0. /\ row[s] \in Row /\ row[s].mperiod \in Nat /\ row[s].mcost \in Nat
        /\ period \in Nat /\ row[s].mperiod <= period
        /\ Live(s) => MonthlyCost(s) = month[s]
        /\ row[s].state = "unborn" => month[s] = 0
    BY DEF TypeOK, Row, MonthlyFresh, MonthlyAccurate, Born, UnbornUntouched
  <1>1. CASE \/ \E o \in Orgs : OrgOps(o)
             \/ \E u \in Users : UserOps(u)
    <2>1. UNCHANGED <<month, period>>
      BY <1>1, AdminKeepsUsed
    <2>2. CASE /\ row'[s].mcost = row[s].mcost /\ row'[s].mperiod = row[s].mperiod
               /\ row'[s].state \in {row[s].state, "deleted"}
      BY <1>0, <2>1, <2>2 DEF MonthlyCost, Live
    <2>3. CASE row[s].state = "unborn" /\ row'[s].mcost = 0 /\ row'[s].mperiod = 0
      BY <1>0, <2>1, <2>3 DEF MonthlyCost
    <2>4. QED
      BY <1>1, <2>2, <2>3, AdminKeepsUsed
  <1>2. ASSUME NEW r \in Reqs, Settle(r)
        PROVE  /\ row'[s].mperiod <= period'
               /\ Live(s)' => MonthlyCost(s)' = month'[s]
    <2> DEFINE u == req[r].user
               c == req[r].cost
               x == Charge(row[s], c, period)
    <2>1. /\ u \in Users /\ c \in Nat /\ period' = period
          /\ row'[s].state = row[s].state
          /\ month[s] \in Nat
      <3>1. u \in Users /\ month[s] \in Nat
        BY DEF TypeOK, Req
      <3>2. c \in 0 .. MaxCost /\ row'[s].state = row[s].state
        BY <1>2, SettleRow
      <3>3. period' = period
        BY <1>2 DEF Settle, SettleTx
      <3>4. QED
        BY <3>1, <3>2, <3>3, Ids
    <2>2. /\ row'[s] = IF c = 0 \/ ~Live(s) \/ s \notin {u, OrgOf[u]} THEN row[s]
                       ELSE IF s = u THEN x ELSE CutOff(x)
          /\ month'[s] = IF s \in {u, OrgOf[u]} THEN month[s] + c ELSE month[s]
      BY <1>2 DEF Settle, SettleTx, SettlePeriod
    <2>3. /\ x.mperiod = period
          /\ x.mcost = IF row[s].mperiod = period THEN row[s].mcost + c ELSE c
          /\ [x EXCEPT !.status = 2].mperiod = x.mperiod
          /\ [x EXCEPT !.status = 2].mcost = x.mcost
      BY <1>0 DEF Charge, Row
    <2> HIDE DEF x, c
    <2>4. CASE c = 0 \/ ~Live(s) \/ s \notin {u, OrgOf[u]}
      BY <1>0, <2>1, <2>2, <2>4 DEF MonthlyCost, Live
    <2>5. CASE ~(c = 0 \/ ~Live(s) \/ s \notin {u, OrgOf[u]})
      <3>1. row'[s].mperiod = period /\ row'[s].mcost = x.mcost
        <4>1. row'[s] = x \/ row'[s] = CutOff(x)
          BY <2>2, <2>5
        <4>2. CutOff(x) = x \/ CutOff(x) = [x EXCEPT !.status = 2]
          BY DEF CutOff
        <4>3. QED
          BY <2>3, <4>1, <4>2
      <3>2. month'[s] = month[s] + c /\ Live(s)
        BY <2>2, <2>5
      <3>3. QED
        BY <1>0, <2>1, <2>3, <3>1, <3>2 DEF MonthlyCost
    <2>6. QED
      BY <2>4, <2>5
  <1>3. CASE NextMonth
    BY <1>0, <1>3 DEF NextMonth, MonthlyCost
  <1>4. ASSUME NoLedger \/ UNCHANGED vars
        PROVE  /\ row'[s].mperiod <= period'
               /\ Live(s)' => MonthlyCost(s)' = month'[s]
    BY <1>0, <1>4 DEF NoLedger, vars, MonthlyCost, Live
  <1>5. QED
    BY <1>1, <1>2, <1>3, <1>4, QuietSteps DEF Next, ReqSteps

(* Where write transactions are serialised from their start (SQLite), the  *)
(* monthly total of every org and account is what was settled in the       *)
(* current month; the run month_rollover shows that PostgreSQL's row locks *)
(* are not enough.                                                         *)
THEOREM MonthlyTotalsSQLite == Dialect = "sqlite" /\ Spec => []MonthlyAccurate
  <1> SUFFICES ASSUME Dialect = "sqlite" PROVE Spec => []MonthlyAccurate
    OBVIOUS
  <1>1. Init => MonthlyFresh /\ MonthlyAccurate
    BY DEF Init, MonthlyFresh, MonthlyAccurate, MonthlyCost, NewRow
  <1>2. TypeOK /\ Born /\ (MonthlyFresh /\ MonthlyAccurate) /\ [Next]_vars
          => (MonthlyFresh /\ MonthlyAccurate)'
    BY NextMonthly DEF MonthlyFresh, MonthlyAccurate
  <1>3. QED
    BY TypeCorrect, BornInvariant, <1>1, <1>2, PTL DEF Spec

-----------------------------------------------------------------------------
(* Approvals *)

LEMMA InitTickets == ApprovalInit => TicketTypeOK /\ CreditedExactly
  <1> SUFFICES ASSUME ApprovalInit PROVE TicketTypeOK /\ CreditedExactly
    OBVIOUS
  <1> DEFINE u0 == CHOOSE u \in Users : TRUE
             t0 == CHOOSE t \in Tickets : TRUE
  <1>1. u0 \in Users /\ u0 \in Subjects /\ t0 \in Tickets /\ 0 \in 0 .. MaxInt
    BY LedgerConstants, ApprovalConstants, Ids
  <1> HIDE DEF u0, t0
  <1>2. [NewTicket("quota", u0, 0) EXCEPT !.state = "none"] \in Ticket
    BY <1>1 DEF NewTicket, Ticket
  <1>3. tickets \in [Tickets -> Ticket]
    BY <1>2 DEF ApprovalInit, u0
  <1>4. \A t \in Tickets : /\ tickets[t].kind = "quota" /\ tickets[t].subject \in Users
                           /\ tickets[t].state = "none" /\ tickets[t].status = "pending"
    BY <1>1 DEF ApprovalInit, NewTicket, u0
  <1>5. handler \in [Handlers -> Handler]
    BY <1>1 DEF ApprovalInit, Handler, t0
  <1>6. credit \in [Tickets -> Nat] /\ \A t \in Tickets : credit[t] = 0
    BY DEF ApprovalInit
  <1>7. QED
    BY <1>3, <1>4, <1>5, <1>6 DEF TicketTypeOK, CreditedExactly

(* The tickets and handlers after a decision. *)
LEMMA DecideType ==
  ASSUME TicketTypeOK, NEW h \in Handlers, NEW t \in Tickets,
         NEW status \in {"approved", "rejected"}, Decide(h, t, status)
  PROVE  /\ tickets' \in [Tickets -> Ticket]
         /\ handler' \in [Handlers -> Handler]
         /\ tickets[t].status = "pending" /\ tickets[t].state = "live"
         /\ tickets'[t].status = status
         /\ \A q \in Tickets :
              /\ tickets'[q].kind = tickets[q].kind
              /\ tickets'[q].subject = tickets[q].subject
              /\ tickets'[q].amount = tickets[q].amount
              /\ tickets'[q].state = tickets[q].state
              /\ q # t => tickets'[q] = tickets[q]
  BY DEF TicketTypeOK, Ticket, Handler, Decide, Pending, Answer

(* What a ticket may look like after any step of the ledger. *)
LEMMA CascadeType ==
  ASSUME TicketTypeOK, LedgerStep
  PROVE  /\ tickets' \in [Tickets -> Ticket]
         /\ \A q \in Tickets :
              /\ tickets'[q].kind = tickets[q].kind
              /\ tickets'[q].subject = tickets[q].subject
              /\ tickets'[q].amount = tickets[q].amount
              /\ tickets'[q].status = tickets[q].status
              /\ tickets'[q].state = "none" <=> tickets[q].state = "none"
  <1>1. tickets' = [t \in Tickets |-> Cascade(t)]
    BY DEF LedgerStep
  <1>2. ASSUME NEW q \in Tickets
        PROVE  /\ Cascade(q) \in Ticket
               /\ Cascade(q).kind = tickets[q].kind
               /\ Cascade(q).subject = tickets[q].subject
               /\ Cascade(q).amount = tickets[q].amount
               /\ Cascade(q).status = tickets[q].status
               /\ Cascade(q).state # "none" => tickets[q].state # "none"
               /\ Cascade(q).state = "none" => tickets[q].state = "none"
    <2> DEFINE gone == [tickets[q] EXCEPT !.state = "deleted"]
    <2>1. tickets[q] \in Ticket
      BY DEF TicketTypeOK
    <2>2. /\ gone \in Ticket
          /\ gone.kind = tickets[q].kind /\ gone.subject = tickets[q].subject
          /\ gone.amount = tickets[q].amount /\ gone.status = tickets[q].status
          /\ gone.state = "deleted"
      BY <2>1 DEF Ticket
    <2>3. Cascade(q) = tickets[q] \/ (tickets[q].state = "live" /\ Cascade(q) = gone)
      BY DEF Cascade
    <2> HIDE DEF gone
    <2>4. QED
      BY <2>1, <2>2, <2>3
  <1>3. QED
    BY <1>1, <1>2

(* A new ticket of either kind. *)
LEMMA NewTicketType ==
  ASSUME TicketTypeOK, NEW t \in Tickets, NEW kind \in {"recharge", "quota"},
         NEW s \in Subjects, NEW amount \in TicketAmounts,
         IF kind = "quota" THEN s \in Users ELSE s \in Orgs,
         row[s].state # "deleted", tickets[t].state = "none",
         tickets' = [tickets EXCEPT ![t] = NewTicket(kind, s, amount)],
         UNCHANGED <<handler, credit, vars>>,
         CreditedExactly
  PROVE  TicketTypeOK' /\ CreditedExactly'
  <1>1. amount \in 0 .. MaxInt /\ amount \in Nat
    BY ApprovalConstants, LedgerConstants
  <1>2. NewTicket(kind, s, amount) \in Ticket
    BY <1>1 DEF NewTicket, Ticket
  <1>3. TicketTypeOK'
    <2> DEFINE new == NewTicket(kind, s, amount)
    <2>1. /\ new.kind = kind /\ new.subject = s /\ new.amount = amount
          /\ new.state = "live"
      BY DEF NewTicket
    <2> HIDE DEF new
    <2>2. /\ tickets' \in [Tickets -> Ticket]
          /\ tickets'[t] = new
          /\ \A q \in Tickets : q # t => tickets'[q] = tickets[q]
      BY <1>2 DEF TicketTypeOK, new
    <2>3. UNCHANGED <<handler, credit, row>>
      BY DEF vars
    <2>4. QED
      BY <2>1, <2>2, <2>3 DEF TicketTypeOK
  <1>4. credit[t] = 0
    BY DEF CreditedExactly, TicketTypeOK, Ticket
  <1>5. QED
    BY <1>3, <1>4 DEF CreditedExactly, NewTicket, TicketTypeOK

(* A decision that credits what it approves keeps both invariants. *)
LEMMA DecideKeeps ==
  ASSUME TypeOK, TicketTypeOK, CreditedExactly,
         NEW h \in Handlers, NEW t \in Tickets,
         NEW status \in {"approved", "rejected"}, Decide(h, t, status),
         credit' = IF status = "approved"
                   THEN [credit EXCEPT ![t] = @ + tickets[t].amount] ELSE credit,
         \A s \in Subjects : row'[s].state = row[s].state
  PROVE  TicketTypeOK' /\ CreditedExactly'
  <1>1. /\ tickets' \in [Tickets -> Ticket]
        /\ handler' \in [Handlers -> Handler]
        /\ tickets[t].status = "pending" /\ tickets[t].state = "live"
        /\ tickets'[t].status = status
        /\ \A q \in Tickets :
             /\ tickets'[q].kind = tickets[q].kind
             /\ tickets'[q].subject = tickets[q].subject
             /\ tickets'[q].amount = tickets[q].amount
             /\ tickets'[q].state = tickets[q].state
             /\ q # t => tickets'[q] = tickets[q]
    BY DecideType
  <1>2. \A q \in Tickets : tickets[q].amount \in Nat /\ tickets[q].subject \in Subjects
    BY LedgerConstants DEF TicketTypeOK, Ticket
  <1>3. credit[t] = 0 /\ credit \in [Tickets -> Nat]
    BY <1>1 DEF CreditedExactly, TicketTypeOK
  <1>4. credit' \in [Tickets -> Nat]
    BY <1>2, <1>3
  <1>5. TicketTypeOK'
    <2>1. \A q \in Tickets :
            IF tickets'[q].kind = "quota" THEN tickets'[q].subject \in Users
            ELSE tickets'[q].subject \in Orgs
      BY <1>1 DEF TicketTypeOK
    <2>2. \A q \in Tickets :
            IF tickets'[q].state = "none" THEN tickets'[q].status = "pending"
            ELSE tickets'[q].amount \in TicketAmounts
      BY <1>1 DEF TicketTypeOK
    <2>3. \A q \in Tickets : tickets'[q].state = "live" /\ tickets'[q].kind = "quota" =>
            row'[tickets'[q].subject].state # "deleted"
      BY <1>1, <1>2 DEF TicketTypeOK
    <2>4. QED
      BY <1>1, <1>4, <2>1, <2>2, <2>3 DEF TicketTypeOK
  <1>6. ASSUME NEW q \in Tickets
        PROVE  credit'[q] = IF tickets'[q].status = "approved"
                            THEN tickets'[q].amount ELSE 0
    <2>1. CASE q = t
      BY <1>1, <1>2, <1>3, <2>1 DEF CreditedExactly
    <2>2. CASE q # t
      <3>1. credit'[q] = credit[q]
        BY <1>3, <2>2
      <3>2. QED
        BY <1>1, <2>2, <3>1 DEF CreditedExactly
    <2>3. QED
      BY <2>1, <2>2
  <1>7. QED
    BY <1>5, <1>6 DEF CreditedExactly

(* The two crediting operations change a limit and a status, no row's state. *)
LEMMA CreditKeepsState ==
  ASSUME TypeOK, NEW s \in Subjects, NEW a \in Nat,
         AddOrgQuotaTx(s, a) \/ CreditUser(s, a)
  PROVE  \A x \in Subjects : row'[x].state = row[x].state
  <1>1. \A x \in Subjects : row[x] \in Row
    BY DEF TypeOK
  <1>2. CASE AddOrgQuotaTx(s, a)
    <2> DEFINE new == LiftArrears([row[s] EXCEPT !.limit = row[s].limit + a])
    <2>1. new.state = row[s].state
      BY <1>1 DEF LiftArrears, Row
    <2> HIDE DEF new
    <2>2. row' = [row EXCEPT ![s] = new]
      BY <1>2 DEF AddOrgQuotaTx, new
    <2>3. QED
      BY <2>1, <2>2 DEF TypeOK
  <1>3. CASE CreditUser(s, a)
    <2>1. row' = [row EXCEPT ![s] = [row[s] EXCEPT !.limit = Coalesce(row[s].limit) + a]]
      BY <1>3 DEF CreditUser, TypeOK
    <2>2. [row[s] EXCEPT !.limit = Coalesce(row[s].limit) + a].state = row[s].state
      BY <1>1 DEF Row
    <2>3. QED
      BY <2>1, <2>2 DEF TypeOK
  <1>4. QED
    BY <1>2, <1>3

LEMMA NextTickets ==
  TypeOK /\ TicketTypeOK /\ CreditedExactly /\ [ApprovalNext]_<<vars, avars>>
    => TicketTypeOK' /\ CreditedExactly'
  <1> SUFFICES ASSUME TypeOK, TicketTypeOK, CreditedExactly,
                      [ApprovalNext]_<<vars, avars>>
               PROVE  TicketTypeOK' /\ CreditedExactly'
    OBVIOUS
  <1>1. ASSUME NEW t \in Tickets, NEW o \in Orgs, NEW a \in TicketAmounts,
               CreateRecharge(t, o, a)
        PROVE  TicketTypeOK' /\ CreditedExactly'
    <2>1. /\ o \in Subjects /\ tickets[t].state = "none" /\ row[o].state # "deleted"
          /\ tickets' = [tickets EXCEPT ![t] = NewTicket("recharge", o, a)]
          /\ UNCHANGED <<handler, credit, vars>>
      BY <1>1 DEF CreateRecharge, Live, Subjects
    <2>2. QED
      BY <2>1, NewTicketType
  <1>2. ASSUME NEW t \in Tickets, NEW u \in Users, NEW a \in TicketAmounts,
               CreateRequest(t, u, a)
        PROVE  TicketTypeOK' /\ CreditedExactly'
    <2>1. /\ u \in Subjects /\ tickets[t].state = "none" /\ row[u].state # "deleted"
          /\ tickets' = [tickets EXCEPT ![t] = NewTicket("quota", u, a)]
          /\ UNCHANGED <<handler, credit, vars>>
      BY <1>2 DEF CreateRequest, Live, Subjects
    <2>2. QED
      BY <2>1, NewTicketType
  <1>3. ASSUME NEW h \in Handlers, NEW t \in Tickets, NEW b \in BOOLEAN,
               ReadTicket(h, t, b)
        PROVE  TicketTypeOK' /\ CreditedExactly'
    <2>1. handler' \in [Handlers -> Handler]
      BY <1>3 DEF ReadTicket, TicketTypeOK, Handler
    <2>2. QED
      BY <1>3, <2>1 DEF ReadTicket, TicketTypeOK, CreditedExactly, vars
  <1>4. ASSUME NEW h \in Handlers, NEW t \in Tickets, Reject(h, t)
        PROVE  TicketTypeOK' /\ CreditedExactly'
    <2>1. /\ Decide(h, t, "rejected")
          /\ credit' = credit /\ row' = row
      BY <1>4 DEF Reject, vars
    <2>2. QED
      BY <2>1, DecideKeeps
  <1>5. ASSUME NEW h \in Handlers, NEW t \in Tickets,
               ApproveRecharge(h, t) \/ ApproveQuota(h, t)
        PROVE  TicketTypeOK' /\ CreditedExactly'
    <2>1. /\ Decide(h, t, "approved")
          /\ credit' = [credit EXCEPT ![t] = @ + tickets[t].amount]
          /\ \/ AddOrgQuotaTx(tickets[t].subject, tickets[t].amount)
             \/ CreditUser(tickets[t].subject, tickets[t].amount)
      BY <1>5 DEF ApproveRecharge, ApproveQuota
    <2>2. tickets[t].subject \in Subjects /\ tickets[t].amount \in Nat
      BY LedgerConstants DEF TicketTypeOK, Ticket
    <2>3. \A x \in Subjects : row'[x].state = row[x].state
      BY <2>1, <2>2, CreditKeepsState
    <2>4. QED
      BY <2>1, <2>3, DecideKeeps
  <1>6. ASSUME NEW h \in Handlers, HandlerFails(h)
        PROVE  TicketTypeOK' /\ CreditedExactly'
    <2>1. handler' \in [Handlers -> Handler]
      BY <1>6 DEF HandlerFails, Answer, TicketTypeOK, Handler
    <2>2. QED
      BY <1>6, <2>1 DEF HandlerFails, TicketTypeOK, CreditedExactly, vars
  <1>7. CASE LedgerStep
    <2>1. /\ tickets' \in [Tickets -> Ticket]
          /\ \A q \in Tickets :
               /\ tickets'[q].kind = tickets[q].kind
               /\ tickets'[q].subject = tickets[q].subject
               /\ tickets'[q].amount = tickets[q].amount
               /\ tickets'[q].status = tickets[q].status
               /\ tickets'[q].state = "none" <=> tickets[q].state = "none"
      BY <1>7, CascadeType
    <2>2. ASSUME NEW q \in Tickets, tickets'[q].state = "live", tickets'[q].kind = "quota"
          PROVE  row'[tickets'[q].subject].state # "deleted"
      <3>1. tickets'[q] = Cascade(q)
        BY <1>7 DEF LedgerStep
      <3>2. tickets[q] \in Ticket
        BY DEF TicketTypeOK
      <3>3. QED
        BY <2>1, <2>2, <3>1, <3>2 DEF Cascade, Ticket
    <2>3. UNCHANGED <<handler, credit>>
      BY <1>7 DEF LedgerStep
    <2>4. TicketTypeOK'
      BY <2>1, <2>2, <2>3 DEF TicketTypeOK
    <2>5. QED
      BY <2>1, <2>3, <2>4 DEF CreditedExactly
  <1>8. CASE UNCHANGED <<vars, avars>>
    BY <1>8 DEF TicketTypeOK, CreditedExactly, vars, avars
  <1>9. QED
    BY <1>1, <1>2, <1>3, <1>4, <1>5, <1>6, <1>7, <1>8 DEF ApprovalNext

(* Every step of the composition is a step of the ledger or leaves it alone. *)
LEMMA StepRefines ==
  TypeOK /\ TicketTypeOK /\ [ApprovalNext]_<<vars, avars>> => [Next]_vars
  <1> SUFFICES ASSUME TypeOK, TicketTypeOK, [ApprovalNext]_<<vars, avars>>
               PROVE  [Next]_vars
    OBVIOUS
  <1>1. ASSUME NEW h \in Handlers, NEW t \in Tickets, ApproveRecharge(h, t)
        PROVE  Next
    <2> DEFINE o == tickets[t].subject
               a == tickets[t].amount
    <2>1. o \in Orgs /\ a \in OrgDeltas
      BY <1>1, ApprovalConstants DEF ApproveRecharge, Decide, Pending, TicketTypeOK
    <2>2. AddOrgQuota(o, a)
      BY <1>1 DEF ApproveRecharge, AddOrgQuota
    <2> HIDE DEF o, a
    <2>3. OrgOps(o)
      BY <2>1, <2>2 DEF OrgOps
    <2>4. QED
      BY <2>1, <2>3 DEF Next
  <1>2. ASSUME NEW h \in Handlers, NEW t \in Tickets, ApproveQuota(h, t)
        PROVE  Next
    <2> DEFINE u == tickets[t].subject
               a == tickets[t].amount
    <2>1. u \in Users /\ a \in UserDeltas /\ a \in 1 .. MaxInt
      BY <1>2, ApprovalConstants DEF ApproveQuota, Decide, Pending, TicketTypeOK
    <2>2. CreditUser(u, a) /\ NoTraffic
      BY <1>2 DEF ApproveQuota
    <2> HIDE DEF u, a
    <2>3. row[u] \in Row /\ row[u].limit # NULL
      BY <2>1, <2>2 DEF TypeOK, Subjects, CreditUser
    <2>4. row[u].limit \in Int64 /\ row[u].limit + a <= MaxInt
      BY <2>1, <2>2, <2>3, LedgerConstants DEF Row, CreditUser, Int64
    <2>5. addNoWrap(row[u].limit, a)
      BY <2>1, <2>4, LedgerConstants DEF addNoWrap, Wrap, Int64
    <2>6. AddUserQuota(u, a)
      BY <2>2, <2>3, <2>5 DEF CreditUser, AddUserQuota, AddUserQuotaTx, Coalesce
    <2>7. UserOps(u)
      BY <2>1, <2>6 DEF UserOps
    <2>8. QED
      BY <2>1, <2>7 DEF Next
  <1>3. QED
    BY <1>1, <1>2 DEF ApprovalNext, CreateRecharge, CreateRequest, ReadTicket,
                     Reject, HandlerFails, LedgerStep, vars

LEMMA ApprovalInvariant == ApprovalSpec => [](TypeOK /\ TicketTypeOK /\ CreditedExactly)
  <1>1. ApprovalInit => TypeOK /\ TicketTypeOK /\ CreditedExactly
    BY InitType, InitTickets DEF ApprovalInit
  <1>2. TypeOK /\ TicketTypeOK /\ CreditedExactly /\ [ApprovalNext]_<<vars, avars>>
          => (TypeOK /\ TicketTypeOK /\ CreditedExactly)'
    BY NextType, StepRefines, NextTickets
  <1>3. QED
    BY <1>1, <1>2, PTL DEF ApprovalSpec

(* A ticket brings in its amount exactly once, and only when approved. *)
THEOREM CreditedOnce == ApprovalSpec => []CreditedExactly
  BY ApprovalInvariant, PTL

(* No quota request outlives its account, and every column keeps its type. *)
THEOREM TicketsCorrect == ApprovalSpec => []TicketTypeOK
  BY ApprovalInvariant, PTL

(* The ledger under the approval workflow is still the ledger: whatever    *)
(* holds of Spec holds of the composition.                                 *)
THEOREM ApprovalsRefineLedger == ApprovalSpec => ImplementsLedger
  <1>1. ApprovalInit => Init
    BY DEF ApprovalInit
  <1>2. QED
    BY <1>1, StepRefines, ApprovalInvariant, PTL DEF ApprovalSpec, ImplementsLedger, Spec

(* A decision is final. *)
THEOREM DecisionsStand == ApprovalSpec => DecisionFinal
  <1>1. ASSUME TicketTypeOK, [ApprovalNext]_<<vars, avars>>
        PROVE  [\A t \in Tickets : tickets[t].status # "pending" =>
                 tickets'[t].status = tickets[t].status]_<<vars, avars>>
    <2> SUFFICES ASSUME ApprovalNext, NEW t \in Tickets, tickets[t].status # "pending"
                 PROVE  tickets'[t].status = tickets[t].status
      BY <1>1
    <2>1. ASSUME NEW q \in Tickets, NEW k \in {"recharge", "quota"}, NEW s \in Subjects,
                 NEW a \in TicketAmounts, tickets[q].state = "none",
                 tickets' = [tickets EXCEPT ![q] = NewTicket(k, s, a)]
          PROVE  tickets'[t].status = tickets[t].status
      <3>1. t # q
        BY <1>1, <2>1 DEF TicketTypeOK
      <3>2. QED
        BY <1>1, <2>1, <3>1 DEF TicketTypeOK
    <2>2. ASSUME NEW h \in Handlers, NEW q \in Tickets,
                 NEW status \in {"approved", "rejected"}, Decide(h, q, status)
          PROVE  tickets'[t].status = tickets[t].status
      <3>1. tickets[q].status = "pending" /\ (t # q => tickets'[t] = tickets[t])
        BY <1>1, <2>2, DecideType
      <3>2. QED
        BY <3>1
    <2>3. CASE LedgerStep
      BY <1>1, <2>3, CascadeType
    <2>4. QED
      BY <2>1, <2>2, <2>3 DEF ApprovalNext, CreateRecharge, CreateRequest, ReadTicket,
         Reject, ApproveRecharge, ApproveQuota, HandlerFails, Subjects
  <1>2. QED
    BY <1>1, ApprovalInvariant, PTL DEF ApprovalSpec, DecisionFinal
=============================================================================
