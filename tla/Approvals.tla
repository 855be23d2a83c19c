----------------------------- MODULE Approvals -----------------------------
(***************************************************************************)
(* Paper-trail top-ups: a customer's recharge request, decided by the      *)
(* platform, and an account's quota request, decided by its org admin.     *)
(* Both handlers read the pending ticket first and decide it in a second,  *)
(* transactional step that books the points in the ledger, so several      *)
(* administrators (or one double click) can be between the two steps with  *)
(* the same ticket.                                                        *)
(***************************************************************************)
EXTENDS QuotaLedger

CONSTANTS
  Tickets,        \* ids of recharge_requests and quota_requests
  Handlers,       \* approval calls being served
  TicketAmounts   \* inputs

ASSUME ApprovalConstants ==
  /\ Tickets # {}
  /\ TicketAmounts \subseteq 1 .. MaxInt
  /\ TicketAmounts \subseteq OrgDeltas \cap UserDeltas

VARIABLES
  tickets,   \* the two request tables
  handler,   \* what each approval call holds
  credit     \* per ticket, the sum of the quota_grants that name it

avars == <<tickets, handler, credit>>

Ticket == [state   : {"none", "live", "deleted"},
           kind    : {"recharge", "quota"},
           subject : Subjects,
           amount  : 0 .. MaxInt,
           status  : {"pending", "approved", "rejected"}]

Handler == [pc : {"idle", "read"}, ticket : Tickets, approve : BOOLEAN]

NewTicket(kind, subject, amount) ==
  [state |-> "live", kind |-> kind, subject |-> subject, amount |-> amount,
   status |-> "pending"]

ApprovalInit ==
  /\ Init
  /\ tickets = [t \in Tickets |->
                  [NewTicket("quota", CHOOSE u \in Users : TRUE, 0)
                     EXCEPT !.state = "none"]]
  /\ handler = [h \in Handlers |->
                  [pc |-> "idle", ticket |-> CHOOSE t \in Tickets : TRUE,
                   approve |-> FALSE]]
  /\ credit = [t \in Tickets |-> 0]

(* The org admin's CreateRecharge *)
CreateRecharge(t, o, amount) ==
  /\ tickets[t].state = "none"
  /\ Live(o)
  /\ tickets' = [tickets EXCEPT ![t] = NewTicket("recharge", o, amount)]
  /\ UNCHANGED <<handler, credit, vars>>

(* The member's CreateRequest, for points *)
CreateRequest(t, u, amount) ==
  /\ tickets[t].state = "none"
  /\ Live(u) /\ u # AdminOf[OrgOf[u]]
  /\ tickets' = [tickets EXCEPT ![t] = NewTicket("quota", u, amount)]
  /\ UNCHANGED <<handler, credit, vars>>

(* Mutation of Pending: the status is not looked at again. *)
MutPending(t) == tickets[t].state = "live"

Pending(t) == tickets[t].state = "live" /\ tickets[t].status = "pending"

(* HandleRequest and HandleRecharge find the ticket pending *)
ReadTicket(h, t, approve) ==
  /\ handler[h].pc = "idle"
  /\ tickets[t].state = "live" /\ tickets[t].status = "pending"
  /\ handler' = [handler EXCEPT
       ![h] = [pc |-> "read", ticket |-> t, approve |-> approve]]
  /\ UNCHANGED <<tickets, credit, vars>>

Holds(h, t) == handler[h].pc = "read" /\ handler[h].ticket = t

Answer(h) == handler' = [handler EXCEPT ![h].pc = "idle"]

(* The conditional update of a decision: WHERE status = 'pending' *)
Decide(h, t, status) ==
  /\ Holds(h, t)
  /\ Pending(t)
  /\ tickets' = [tickets EXCEPT ![t].status = status]
  /\ Answer(h)

Reject(h, t) ==
  /\ ~handler[h].approve
  /\ Decide(h, t, "rejected")
  /\ UNCHANGED <<credit, vars>>

ApproveRecharge(h, t) ==
  /\ handler[h].approve /\ tickets[t].kind = "recharge"
  /\ Decide(h, t, "approved")
  /\ AddOrgQuotaTx(tickets[t].subject, tickets[t].amount) /\ NoTraffic
  /\ credit' = [credit EXCEPT ![t] = @ + tickets[t].amount]

(* Mutation of CreditUser: an unlimited account gets a limit. *)
MutCreditUser(u, amount) ==
  /\ Live(u)
  /\ grantRows < MaxGrants
  /\ row' = [row EXCEPT ![u].limit = Coalesce(@) + amount]
  /\ Grant(u, amount)
  /\ SetLimit(u, Coalesce(row[u].limit) + amount)

(* The account is locked, must be limited and must not overflow *)
CreditUser(u, amount) ==
  /\ Live(u)
  /\ row[u].limit # NULL
  /\ row[u].limit <= MaxInt - amount
  /\ grantRows < MaxGrants
  /\ row' = [row EXCEPT ![u].limit = Coalesce(@) + amount]
  /\ Grant(u, amount)
  /\ SetLimit(u, Coalesce(row[u].limit) + amount)

ApproveQuota(h, t) ==
  /\ handler[h].approve /\ tickets[t].kind = "quota"
  /\ Decide(h, t, "approved")
  /\ CreditUser(tickets[t].subject, tickets[t].amount) /\ NoTraffic
  /\ credit' = [credit EXCEPT ![t] = @ + tickets[t].amount]

(* Decided by someone else meanwhile, no such subject any more, overflow,  *)
(* an unlimited account, or a database error: the transaction rolls back   *)
(* and the ticket stays as it is.                                          *)
HandlerFails(h) ==
  /\ handler[h].pc = "read"
  /\ Answer(h)
  /\ UNCHANGED <<tickets, credit, vars>>

(* Deleting an account deletes its quota requests (ON DELETE CASCADE);     *)
(* recharge requests have no such key.                                     *)
Cascade(t) ==
  IF /\ tickets[t].state = "live" /\ tickets[t].kind = "quota"
     /\ row'[tickets[t].subject].state = "deleted"
  THEN [tickets[t] EXCEPT !.state = "deleted"] ELSE tickets[t]

(* Every other operation of the ledger *)
LedgerStep ==
  /\ Next
  /\ tickets' = [t \in Tickets |-> Cascade(t)]
  /\ UNCHANGED <<handler, credit>>

ApprovalNext ==
  \/ \E t \in Tickets, o \in Orgs, a \in TicketAmounts : CreateRecharge(t, o, a)
  \/ \E t \in Tickets, u \in Users, a \in TicketAmounts : CreateRequest(t, u, a)
  \/ \E h \in Handlers, t \in Tickets :
       \/ \E b \in BOOLEAN : ReadTicket(h, t, b)
       \/ Reject(h, t)
       \/ ApproveRecharge(h, t)
       \/ ApproveQuota(h, t)
  \/ \E h \in Handlers : HandlerFails(h)
  \/ LedgerStep

ApprovalSpec == ApprovalInit /\ [][ApprovalNext]_<<vars, avars>>

-----------------------------------------------------------------------------
(* The tables of tickets are well formed; a quota request in the table     *)
(* still has its account, so no approval can credit a deleted one.         *)
TicketTypeOK ==
  /\ tickets \in [Tickets -> Ticket]
  /\ \A t \in Tickets :
       IF tickets[t].kind = "quota" THEN tickets[t].subject \in Users
       ELSE tickets[t].subject \in Orgs
  /\ \A t \in Tickets :
       IF tickets[t].state = "none" THEN tickets[t].status = "pending"
       ELSE tickets[t].amount \in TicketAmounts
  /\ \A t \in Tickets : tickets[t].state = "live" /\ tickets[t].kind = "quota" =>
       row[tickets[t].subject].state # "deleted"
  /\ handler \in [Handlers -> Handler]
  /\ credit \in [Tickets -> Nat]

(* A ticket brings in its amount exactly once, and only if it ends up      *)
(* approved, however many approval calls hold it at the same time and      *)
(* whatever fails half-way ("double approval" in the comments of both      *)
(* handlers).                                                              *)
CreditedExactly ==
  \A t \in Tickets :
    credit[t] = IF tickets[t].status = "approved" THEN tickets[t].amount ELSE 0

(* A decision stands: no later call turns an approval into a rejection or  *)
(* the other way round.                                                    *)
DecisionFinal ==
  [][\A t \in Tickets : tickets[t].status # "pending" =>
       tickets'[t].status = tickets[t].status]_<<vars, avars>>

(* Approving a ticket is one of the ledger's own operations: composed with *)
(* the ticket tables the ledger still runs as QuotaLedger specifies, so    *)
(* everything proved about it carries over.                                *)
ImplementsLedger == Spec
=============================================================================
