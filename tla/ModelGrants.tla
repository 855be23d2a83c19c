---------------------------- MODULE ModelGrants ----------------------------
(***************************************************************************)
(* Who may call which model.  The platform opens vendors, and exceptionally *)
(* single models, to a customer; the customer's admin passes them on to its *)
(* accounts.  The relay looks at the account's grants only, so taking       *)
(* something back from the customer has to take it from the accounts too.   *)
(*                                                                          *)
(* The three handlers that write grants check what is open first, outside   *)
(* the transaction in which they write; a handler past its check is a       *)
(* `call'.  One customer is modelled: no row is shared between customers.   *)
(***************************************************************************)
EXTENDS FiniteSets

CONSTANTS
  Users,          \* the member accounts of the customer
  Vendors, Models,
  HomeOf,         \* models.vendor_id
  Serving,        \* vendors with a channel for the model (ModelServingVendors)
  Tickets,        \* ids of quota_requests (kind model) and org_model_requests
  Calls,          \* grant-writing calls in progress
  OrgExceptions,  \* inputs: models SetOrgModels may open one by one
  Retired         \* inputs: models the platform may delete

ASSUME GrantConstants ==
  /\ Users # {} /\ Vendors # {} /\ Tickets # {}
  /\ HomeOf \in [Models -> Vendors]
  /\ Serving \in [Models -> SUBSET Vendors]
  /\ OrgExceptions \subseteq Models /\ Retired \subseteq Models

VARIABLES
  status,    \* the models table
  orgV, orgM,     \* org_vendor_grants, org_model_grants
  userV, userM,   \* user_vendor_grants, user_model_grants
  tickets,   \* the two request tables
  call,      \* the grant-writing calls and what they are going to write
  strayV, strayM  \* history: grants of an account written past their check

stray == <<strayV, strayM>>
gvars == <<status, orgV, orgM, userV, userM, tickets, call, stray>>

GTicket == [status : {"none", "pending", "closed"}, kind : {"user", "org"},
            user : Users, vendors : SUBSET Vendors]

Call == [kind : {"idle", "org", "member", "request"},
         user : Users, ticket : Tickets,
         addV : SUBSET Vendors, delV : SUBSET Vendors,
         addM : SUBSET Models, delM : SUBSET Models,
         late : BOOLEAN]   \* history: something was taken back since its check

NoCall == [kind |-> "idle", user |-> CHOOSE u \in Users : TRUE,
           ticket |-> CHOOSE t \in Tickets : TRUE,
           addV |-> {}, delV |-> {}, addM |-> {}, delM |-> {}, late |-> FALSE]

GrantInit ==
  /\ status = [m \in Models |-> "on"]
  /\ orgV = {} /\ orgM = {}
  /\ userV = [u \in Users |-> {}] /\ userM = [u \in Users |-> {}]
  /\ tickets = [t \in Tickets |-> [status |-> "none", kind |-> "user",
                                   user |-> NoCall.user, vendors |-> {}]]
  /\ call = [h \in Calls |-> NoCall]
  /\ strayV = [u \in Users |-> {}] /\ strayM = [u \in Users |-> {}]

(* OrgGrantedSet: opened by a serving vendor or by name *)
OrgOpen(m) ==
  status[m] # "absent" /\ (orgV \cap Serving[m] # {} \/ m \in orgM)

(* The relay's grant check on an enabled model *)
MayCall(u, m) ==
  status[m] = "on" /\ (userV[u] \cap Serving[m] # {} \/ m \in userM[u])

-----------------------------------------------------------------------------
(* The catalogue.  A channel that lists a missing model creates it.        *)

Catalogue == UNCHANGED <<orgV, userV, tickets, stray>>

(* History: the calls that are about to insert grants they have checked    *)
Overtaken(h) ==
  IF call[h].kind \in {"member", "request"} THEN [call[h] EXCEPT !.late = TRUE] ELSE call[h]

CreateModel(m) ==
  /\ status[m] = "absent"
  /\ status' = [status EXCEPT ![m] = "on"]
  /\ UNCHANGED <<orgM, userM, call>> /\ Catalogue

UpdateModel(m, st) ==
  /\ status[m] # "absent"
  /\ status' = [status EXCEPT ![m] = st]
  /\ UNCHANGED <<orgM, userM, call>> /\ Catalogue

DeleteModel(m) ==
  /\ m \in Retired
  /\ status[m] # "absent"
  /\ status' = [status EXCEPT ![m] = "absent"]
  /\ orgM' = orgM \ {m}
  /\ userM' = [u \in Users |-> userM[u] \ {m}]
  /\ call' = [h \in Calls |-> Overtaken(h)]
  /\ Catalogue

-----------------------------------------------------------------------------
(* Applications.                                                           *)

NoGrants == UNCHANGED <<status, orgM, userV, userM, stray>>

Submit(t, kind, u, vendors) ==
  /\ tickets[t].status = "none"
  /\ vendors # {}
  /\ tickets' = [tickets EXCEPT ![t] = [status |-> "pending", kind |-> kind,
                                        user |-> u, vendors |-> vendors]]
  /\ UNCHANGED <<orgV, call>> /\ NoGrants

(* A member asks for the home vendors of some models; all must be open, and *)
(* those it has already are dropped.                                        *)
CreateRequest(t, u, models) ==
  LET homes == {HomeOf[m] : m \in {x \in models : status[x] # "absent"}}
  IN  /\ homes \subseteq orgV
      /\ Submit(t, "user", u, homes \ userV[u])

(* The org admin asks the platform for vendors that are not open yet. *)
CreateModelRequest(t, vendors) ==
  Submit(t, "org", NoCall.user, vendors \ orgV)

Close(t) == tickets' = [tickets EXCEPT ![t].status = "closed"]

PendingTicket(t, kind) == tickets[t].status = "pending" /\ tickets[t].kind = kind

(* Decided in one transaction under WHERE status = 'pending' *)
HandleModelRequest(t, approve) ==
  /\ PendingTicket(t, "org")
  /\ Close(t)
  /\ orgV' = IF approve THEN orgV \cup tickets[t].vendors ELSE orgV
  /\ UNCHANGED call /\ NoGrants

RejectRequest(t) ==
  /\ PendingTicket(t, "user")
  /\ Close(t)
  /\ UNCHANGED <<orgV, call>> /\ NoGrants

-----------------------------------------------------------------------------
(* Calls that check first and write later.                                 *)

Checked(h, c) ==
  /\ call[h].kind = "idle"
  /\ call' = [call EXCEPT ![h] = c]
  /\ UNCHANGED <<orgV, tickets>> /\ NoGrants

(* An approval takes a vendor as open if the customer has it, or has any   *)
(* single model of it.                                                     *)
TakenAsOpen(v) ==
  v \in orgV \/ \E m \in orgM : status[m] # "absent" /\ HomeOf[m] = v

(* A vendor taken as open for one of its models is noted in addV.          *)
CheckRequest(h, t) ==
  /\ PendingTicket(t, "user")
  /\ \A v \in tickets[t].vendors : TakenAsOpen(v)
  /\ Checked(h, [NoCall EXCEPT !.kind = "request", !.ticket = t,
                               !.addV = tickets[t].vendors \ orgV])

(* The ticket may have been decided by another call since *)
HandleRequest(h) ==
  LET t == call[h].ticket
  IN  /\ call[h].kind = "request"
      /\ PendingTicket(t, "user")
      /\ Close(t)
      /\ userV' = [userV EXCEPT ![tickets[t].user] = @ \cup tickets[t].vendors]
      /\ strayV' = [strayV EXCEPT ![tickets[t].user] =
                      @ \cup IF call[h].late THEN tickets[t].vendors ELSE call[h].addV]
      /\ call' = [call EXCEPT ![h] = NoCall]
      /\ UNCHANGED <<status, orgV, orgM, userM, strayM>>

(* Mutation of CheckMember: models are only checked to exist. *)
MutCheckMember(h, u, vendors, models) ==
  /\ vendors \subseteq orgV
  /\ \A m \in models : status[m] = "on"
  /\ Checked(h, [NoCall EXCEPT !.kind = "member", !.user = u,
                               !.addV = vendors, !.addM = models])

CheckMember(h, u, vendors, models) ==
  /\ vendors \subseteq orgV
  /\ \A m \in models : status[m] = "on" /\ OrgOpen(m)
  /\ Checked(h, [NoCall EXCEPT !.kind = "member", !.user = u,
                               !.addV = vendors, !.addM = models])

(* Both lists of the account are replaced *)
SetMemberModels(h) ==
  /\ call[h].kind = "member"
  /\ userV' = [userV EXCEPT ![call[h].user] = call[h].addV]
  /\ userM' = [userM EXCEPT ![call[h].user] = call[h].addM]
  /\ strayV' = [strayV EXCEPT ![call[h].user] = IF call[h].late THEN call[h].addV ELSE {}]
  /\ strayM' = [strayM EXCEPT ![call[h].user] = IF call[h].late THEN call[h].addM ELSE {}]
  /\ call' = [call EXCEPT ![h] = NoCall]
  /\ UNCHANGED <<status, orgV, orgM, tickets>>

(* A listed model that is not enabled is an error, unless the customer had *)
(* it: then it counts as taken back.                                       *)
CheckOrg(h, vendors, models) ==
  LET kept == {m \in models : status[m] = "on"}
  IN  /\ models \ kept \subseteq orgM
      /\ Checked(h, [NoCall EXCEPT
           !.kind = "org",
           !.addV = vendors \ orgV, !.delV = orgV \ vendors,
           !.addM = kept \ orgM,    !.delM = orgM \ kept])

(* Mutation of Cascaded: taking a vendor back leaves single models alone. *)
MutCascaded(c) == c.delM

(* The models whose account grants a revocation removes *)
Cascaded(c) ==
  {m \in Models : status[m] # "absent" /\ HomeOf[m] \in c.delV} \cup c.delM

(* Opening what another call has opened meanwhile violates UNIQUE *)
SetOrgModels(h) ==
  LET c == call[h]
  IN  /\ c.kind = "org"
      /\ c.addV \cap orgV = {} /\ c.addM \cap orgM = {}
      /\ orgV' = (orgV \ c.delV) \cup c.addV
      /\ orgM' = (orgM \ c.delM) \cup c.addM
      /\ userV' = [u \in Users |-> userV[u] \ c.delV]
      /\ userM' = [u \in Users |-> userM[u] \ Cascaded(c)]
      /\ call' = [[g \in Calls |-> IF c.delV # {} \/ c.delM # {} THEN Overtaken(g) ELSE call[g]]
                    EXCEPT ![h] = NoCall]
      /\ UNCHANGED <<status, tickets, stray>>

(* A conflict, a decided ticket or a database error: nothing is written *)
CallFails(h) ==
  /\ call[h].kind # "idle"
  /\ call' = [call EXCEPT ![h] = NoCall]
  /\ UNCHANGED <<orgV, tickets>> /\ NoGrants

-----------------------------------------------------------------------------
CatalogueSteps(m) ==
  \/ CreateModel(m)
  \/ \E st \in {"on", "off"} : UpdateModel(m, st)
  \/ DeleteModel(m)

TicketSteps(t) ==
  \/ \E u \in Users, models \in SUBSET Models : CreateRequest(t, u, models)
  \/ \E vendors \in SUBSET Vendors : CreateModelRequest(t, vendors)
  \/ \E b \in BOOLEAN : HandleModelRequest(t, b)
  \/ RejectRequest(t)

CallSteps(h) ==
  \/ \E t \in Tickets : CheckRequest(h, t)
  \/ HandleRequest(h)
  \/ \E u \in Users, vendors \in SUBSET Vendors, models \in SUBSET Models :
       CheckMember(h, u, vendors, models)
  \/ SetMemberModels(h)
  \/ \E vendors \in SUBSET Vendors, models \in SUBSET OrgExceptions :
       CheckOrg(h, vendors, models)
  \/ SetOrgModels(h)
  \/ CallFails(h)

GrantNext ==
  \/ \E m \in Models : CatalogueSteps(m)
  \/ \E t \in Tickets : TicketSteps(t)
  \/ \E h \in Calls : CallSteps(h)

GrantSpec == GrantInit /\ [][GrantNext]_gvars

-----------------------------------------------------------------------------
(* The grant tables and applications are well formed; an application in    *)
(* progress always asks for something.                                     *)
GrantTypeOK ==
  /\ status \in [Models -> {"absent", "off", "on"}]
  /\ orgV \in SUBSET Vendors /\ orgM \in SUBSET Models
  /\ userV \in [Users -> SUBSET Vendors]
  /\ userM \in [Users -> SUBSET Models]
  /\ tickets \in [Tickets -> GTicket]
  /\ \A t \in Tickets : tickets[t].status = "pending" => tickets[t].vendors # {}
  /\ call \in [Calls -> Call]
  /\ strayV \in [Users -> SUBSET Vendors] /\ strayM \in [Users -> SUBSET Models]

(* The relay never lets an account call a model its customer has lost, or  *)
(* never had: "all accounts' grants are removed with it, such calls are    *)
(* refused at once" (the notification of SetOrgModels).                    *)
CallsCovered == \A u \in Users, m \in Models : MayCall(u, m) => OrgOpen(m)

(* The moment a vendor or a single model is taken back from the customer,  *)
(* no account holds it any more, whatever other calls are in progress and  *)
(* however stale the sets are from which the difference was computed.      *)
RevocationCascades ==
  [][\A u \in Users :
       /\ (orgV \ orgV') \cap userV'[u] = {}
       /\ (orgM \ orgM') \cap userM'[u] = {}
       /\ \A m \in userM'[u] :
            status[m] # "absent" => HomeOf[m] \notin orgV \ orgV']_gvars

(* What an account may call beyond its customer was granted past its check: *)
(* by a call that something was taken back from after it had checked        *)
(* (handler.go:894), by an approval that took a vendor as open for one of   *)
(* its models, or for a model that another vendor than its own serves.      *)
(* Nothing else escapes the cascades.                                       *)
OnlyStraysUncovered ==
  \A u \in Users, m \in Models : MayCall(u, m) =>
    \/ OrgOpen(m)
    \/ strayV[u] \cap Serving[m] # {}
    \/ m \in strayM[u]
    \/ m \in userM[u] /\ ~(Serving[m] \subseteq {HomeOf[m]})
=============================================================================
