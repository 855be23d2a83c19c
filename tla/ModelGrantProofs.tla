-------------------------- MODULE ModelGrantProofs --------------------------
(***************************************************************************)
(* Theorems about ModelGrants: what a revocation removes at once, and what *)
(* an account can still call although its customer has lost it.             *)
(***************************************************************************)
EXTENDS ModelGrants, TLAPS

LEMMA NoCallType == NoCall \in Call /\ NoCall.kind = "idle"
  <1> DEFINE u0 == CHOOSE u \in Users : TRUE
             t0 == CHOOSE t \in Tickets : TRUE
  <1>1. u0 \in Users /\ t0 \in Tickets
    BY GrantConstants
  <1> HIDE DEF u0, t0
  <1>2. NoCall = [kind |-> "idle", user |-> u0, ticket |-> t0,
                  addV |-> {}, delV |-> {}, addM |-> {}, delM |-> {}, late |-> FALSE]
    BY DEF NoCall, u0, t0
  <1>3. QED
    BY <1>1, <1>2 DEF Call

LEMMA InitGrants == GrantInit => GrantTypeOK
  <1> SUFFICES ASSUME GrantInit PROVE GrantTypeOK
    OBVIOUS
  <1>1. NoCall.user \in Users
    BY NoCallType DEF Call
  <1>2. tickets \in [Tickets -> GTicket]
    BY <1>1 DEF GrantInit, GTicket
  <1>3. \A t \in Tickets : tickets[t].status = "none"
    BY DEF GrantInit
  <1>4. call \in [Calls -> Call]
    BY NoCallType DEF GrantInit
  <1>5. status \in [Models -> {"absent", "off", "on"}] /\ orgV \in SUBSET Vendors
          /\ orgM \in SUBSET Models
          /\ userV \in [Users -> SUBSET Vendors] /\ userM \in [Users -> SUBSET Models]
    BY DEF GrantInit
  <1>6. strayV \in [Users -> SUBSET Vendors] /\ strayM \in [Users -> SUBSET Models]
    BY DEF GrantInit
  <1>7. QED
    BY <1>2, <1>3, <1>4, <1>5, <1>6 DEF GrantTypeOK

(* A well-formed call record taken up by a handler keeps every type. *)
LEMMA CheckedType ==
  ASSUME GrantTypeOK, NEW h \in Calls, NEW c \in Call, Checked(h, c)
  PROVE  GrantTypeOK'
  <1>1. call' \in [Calls -> Call]
    BY DEF Checked, GrantTypeOK
  <1>2. QED
    BY <1>1 DEF Checked, NoGrants, stray, GrantTypeOK

LEMMA SubmitType ==
  ASSUME GrantTypeOK, NEW t \in Tickets, NEW kind \in {"user", "org"},
         NEW u \in Users, NEW vendors \in SUBSET Vendors, Submit(t, kind, u, vendors)
  PROVE  GrantTypeOK'
  <1> DEFINE new == [status |-> "pending", kind |-> kind, user |-> u, vendors |-> vendors]
  <1>1. new \in GTicket /\ new.vendors # {}
    BY DEF GTicket, Submit
  <1> HIDE DEF new
  <1>2. tickets' = [tickets EXCEPT ![t] = new]
    BY DEF Submit, new
  <1>3. tickets' \in [Tickets -> GTicket]
    BY <1>1, <1>2 DEF GrantTypeOK
  <1>4. \A q \in Tickets : tickets'[q].status = "pending" => tickets'[q].vendors # {}
    BY <1>1, <1>2 DEF GrantTypeOK
  <1>5. QED
    BY <1>3, <1>4 DEF Submit, NoGrants, stray, GrantTypeOK

LEMMA CloseType ==
  ASSUME GrantTypeOK, NEW t \in Tickets, Close(t)
  PROVE  /\ tickets' \in [Tickets -> GTicket]
         /\ \A q \in Tickets : tickets'[q].status = "pending" => tickets'[q].vendors # {}
         /\ \A q \in Tickets : tickets'[q].vendors = tickets[q].vendors
  BY DEF Close, GrantTypeOK, GTicket

LEMMA CallEnds ==
  ASSUME GrantTypeOK, NEW h \in Calls, call' = [call EXCEPT ![h] = NoCall]
  PROVE  call' \in [Calls -> Call]
  BY NoCallType DEF GrantTypeOK

(* Noting that a call was overtaken keeps its record well formed. *)
LEMMA OvertakenType ==
  ASSUME GrantTypeOK, NEW g \in Calls
  PROVE  /\ Overtaken(g) \in Call
         /\ Overtaken(g).kind = call[g].kind /\ Overtaken(g).ticket = call[g].ticket
         /\ call[g].kind \in {"member", "request"} => Overtaken(g).late
  <1>1. call[g] \in Call
    BY DEF GrantTypeOK
  <1>2. CASE call[g].kind \in {"member", "request"}
    <2>1. Overtaken(g) = [call[g] EXCEPT !.late = TRUE]
      BY <1>2 DEF Overtaken
    <2>2. QED
      BY <1>1, <2>1 DEF Call
  <1>3. CASE call[g].kind \notin {"member", "request"}
    BY <1>1, <1>3 DEF Overtaken
  <1>4. QED
    BY <1>2, <1>3

LEMMA NextGrantType == GrantTypeOK /\ [GrantNext]_gvars => GrantTypeOK'
  <1> SUFFICES ASSUME GrantTypeOK, [GrantNext]_gvars PROVE GrantTypeOK'
    OBVIOUS
  <1>1. ASSUME NEW m \in Models, CatalogueSteps(m) PROVE GrantTypeOK'
    <2>1. CASE CreateModel(m)
      BY <2>1 DEF CreateModel, Catalogue, stray, GrantTypeOK
    <2>2. ASSUME NEW st \in {"on", "off"}, UpdateModel(m, st) PROVE GrantTypeOK'
      BY <2>2 DEF UpdateModel, Catalogue, stray, GrantTypeOK
    <2>3. CASE DeleteModel(m)
      <3>1. call' \in [Calls -> Call]
        BY <2>3, OvertakenType DEF DeleteModel
      <3>2. QED
        BY <2>3, <3>1 DEF DeleteModel, Catalogue, stray, GrantTypeOK
    <2>4. QED
      BY <1>1, <2>1, <2>2, <2>3 DEF CatalogueSteps
  <1>2. ASSUME NEW t \in Tickets, TicketSteps(t) PROVE GrantTypeOK'
    <2>1. ASSUME NEW u \in Users, NEW models \in SUBSET Models, CreateRequest(t, u, models)
          PROVE  GrantTypeOK'
      <3> DEFINE homes == {HomeOf[m] : m \in {x \in models : status[x] # "absent"}}
      <3>1. homes \ userV[u] \in SUBSET Vendors
        BY <2>1 DEF CreateRequest, GrantTypeOK
      <3>2. Submit(t, "user", u, homes \ userV[u])
        BY <2>1 DEF CreateRequest
      <3> HIDE DEF homes
      <3>3. QED
        BY <3>1, <3>2, SubmitType
    <2>2. ASSUME NEW vendors \in SUBSET Vendors, CreateModelRequest(t, vendors)
          PROVE  GrantTypeOK'
      <3>1. NoCall.user \in Users
        BY NoCallType DEF Call
      <3>2. QED
        BY <2>2, <3>1, SubmitType DEF CreateModelRequest
    <2>3. ASSUME NEW b \in BOOLEAN, HandleModelRequest(t, b) PROVE GrantTypeOK'
      <3>1. tickets[t].vendors \subseteq Vendors
        BY DEF GrantTypeOK, GTicket
      <3>2. Close(t)
        BY <2>3 DEF HandleModelRequest
      <3>3. QED
        BY <2>3, <3>1, <3>2, CloseType DEF HandleModelRequest, NoGrants, stray, GrantTypeOK
    <2>4. CASE RejectRequest(t)
      BY <2>4, CloseType DEF RejectRequest, NoGrants, stray, GrantTypeOK
    <2>5. QED
      BY <1>2, <2>1, <2>2, <2>3, <2>4 DEF TicketSteps
  <1>3. ASSUME NEW h \in Calls, CallSteps(h) PROVE GrantTypeOK'
    <2>1. ASSUME NEW t \in Tickets, CheckRequest(h, t) PROVE GrantTypeOK'
      <3>1. [NoCall EXCEPT !.kind = "request", !.ticket = t,
                           !.addV = tickets[t].vendors \ orgV] \in Call
        BY NoCallType DEF Call, GrantTypeOK, GTicket
      <3>2. QED
        BY <2>1, <3>1, CheckedType DEF CheckRequest
    <2>2. CASE HandleRequest(h)
      <3> DEFINE t == call[h].ticket
      <3>1. t \in Tickets
        BY DEF GrantTypeOK, Call
      <3>2. tickets[t].user \in Users /\ tickets[t].vendors \subseteq Vendors
        BY <3>1 DEF GrantTypeOK, GTicket
      <3>3. Close(t) /\ call' = [call EXCEPT ![h] = NoCall]
        BY <2>2 DEF HandleRequest
      <3>4. userV' \in [Users -> SUBSET Vendors]
        BY <2>2, <3>2 DEF HandleRequest, GrantTypeOK
      <3>6. call[h].addV \subseteq Vendors
        BY DEF GrantTypeOK, Call
      <3>7. strayV' \in [Users -> SUBSET Vendors]
        BY <2>2, <3>2, <3>6 DEF HandleRequest, GrantTypeOK
      <3> HIDE DEF t
      <3>5. QED
        BY <2>2, <3>1, <3>3, <3>4, <3>7, CloseType, CallEnds DEF HandleRequest, GrantTypeOK
    <2>3. ASSUME NEW u \in Users, NEW vendors \in SUBSET Vendors, NEW models \in SUBSET Models,
                 CheckMember(h, u, vendors, models)
          PROVE  GrantTypeOK'
      <3>1. [NoCall EXCEPT !.kind = "member", !.user = u,
                           !.addV = vendors, !.addM = models] \in Call
        BY NoCallType DEF Call
      <3>2. QED
        BY <2>3, <3>1, CheckedType DEF CheckMember
    <2>4. CASE SetMemberModels(h)
      <3>1. call[h].addV \in SUBSET Vendors /\ call[h].addM \in SUBSET Models
        BY DEF GrantTypeOK, Call
      <3>2. call' \in [Calls -> Call]
        BY <2>4, CallEnds DEF SetMemberModels
      <3>3. QED
        BY <2>4, <3>1, <3>2 DEF SetMemberModels, GrantTypeOK
    <2>5. ASSUME NEW vendors \in SUBSET Vendors, NEW models \in SUBSET OrgExceptions,
                 CheckOrg(h, vendors, models)
          PROVE  GrantTypeOK'
      <3> DEFINE kept == {m \in models : status[m] = "on"}
                 c == [NoCall EXCEPT !.kind = "org",
                         !.addV = vendors \ orgV, !.delV = orgV \ vendors,
                         !.addM = kept \ orgM,    !.delM = orgM \ kept]
      <3>1. kept \subseteq Models
        BY GrantConstants
      <3>2. Checked(h, c)
        BY <2>5 DEF CheckOrg
      <3> HIDE DEF kept
      <3>3. c \in Call
        BY <3>1, NoCallType DEF Call, GrantTypeOK
      <3> HIDE DEF c
      <3>4. QED
        BY <3>2, <3>3, CheckedType
    <2>6. CASE SetOrgModels(h)
      <3>1. call[h].addV \in SUBSET Vendors /\ call[h].addM \in SUBSET Models
        BY DEF GrantTypeOK, Call
      <3>2. call' \in [Calls -> Call]
        <4> DEFINE taken == call[h].delV # {} \/ call[h].delM # {}
                   rest == [g \in Calls |-> IF taken THEN Overtaken(g) ELSE call[g]]
        <4>1. rest \in [Calls -> Call]
          BY OvertakenType DEF GrantTypeOK
        <4>2. call' = [rest EXCEPT ![h] = NoCall]
          BY <2>6 DEF SetOrgModels
        <4> HIDE DEF rest
        <4>3. QED
          BY <4>1, <4>2, NoCallType
      <3>3. QED
        BY <2>6, <3>1, <3>2 DEF SetOrgModels, stray, GrantTypeOK
    <2>7. CASE CallFails(h)
      BY <2>7, CallEnds DEF CallFails, NoGrants, stray, GrantTypeOK
    <2>8. QED
      BY <1>3, <2>1, <2>2, <2>3, <2>4, <2>5, <2>6, <2>7 DEF CallSteps
  <1>4. CASE UNCHANGED gvars
    BY <1>4 DEF gvars, stray, GrantTypeOK
  <1>5. QED
    BY <1>1, <1>2, <1>3, <1>4 DEF GrantNext

(* The tables stay well formed and no application is empty. *)
THEOREM GrantsTypeCorrect == GrantSpec => []GrantTypeOK
  BY InitGrants, NextGrantType, PTL DEF GrantSpec

-----------------------------------------------------------------------------
(* Only two kinds of step take anything from the customer: SetOrgModels    *)
(* and, for a single model, DeleteModel.                                   *)
LEMMA NextRevokes ==
  ASSUME GrantTypeOK, GrantNext, NEW u \in Users
  PROVE  /\ (orgV \ orgV') \cap userV'[u] = {}
         /\ (orgM \ orgM') \cap userM'[u] = {}
         /\ \A m \in userM'[u] : status[m] # "absent" => HomeOf[m] \notin orgV \ orgV'
  <1>1. ASSUME NEW h \in Calls, SetOrgModels(h)
        PROVE  /\ (orgV \ orgV') \cap userV'[u] = {}
               /\ (orgM \ orgM') \cap userM'[u] = {}
               /\ \A m \in userM'[u] :
                    status[m] # "absent" => HomeOf[m] \notin orgV \ orgV'
    <2> DEFINE c == call[h]
    <2>1. orgV \ orgV' \subseteq c.delV /\ orgM \ orgM' \subseteq c.delM
      BY <1>1 DEF SetOrgModels
    <2>2. userV'[u] = userV[u] \ c.delV /\ userM'[u] = userM[u] \ Cascaded(c)
      BY <1>1 DEF SetOrgModels
    <2>3. userM[u] \subseteq Models
      BY DEF GrantTypeOK
    <2> HIDE DEF c
    <2>4. QED
      BY <2>1, <2>2, <2>3 DEF Cascaded
  <1>2. ASSUME NEW m \in Models, DeleteModel(m)
        PROVE  orgV' = orgV /\ (orgM \ orgM') \cap userM'[u] = {}
    BY <1>2 DEF DeleteModel, Catalogue
  <1>3. ASSUME NEW t \in Tickets, TicketSteps(t)
        PROVE  orgV \subseteq orgV' /\ orgM' = orgM
    BY <1>3 DEF TicketSteps, CreateRequest, CreateModelRequest, Submit,
                HandleModelRequest, RejectRequest, NoGrants
  <1>4. ASSUME NEW h \in Calls, CallSteps(h), ~SetOrgModels(h)
        PROVE  orgV' = orgV /\ orgM' = orgM
    BY <1>4 DEF CallSteps, CheckRequest, HandleRequest, CheckMember, SetMemberModels,
                CheckOrg, CallFails, Checked, NoGrants
  <1>5. ASSUME NEW m \in Models, CatalogueSteps(m), ~DeleteModel(m)
        PROVE  orgV' = orgV /\ orgM' = orgM
    BY <1>5 DEF CatalogueSteps, CreateModel, UpdateModel, Catalogue
  <1>6. QED
    BY <1>1, <1>2, <1>3, <1>4, <1>5 DEF GrantNext

(* A revocation is complete the moment it commits, with any number of      *)
(* other calls in progress.                                                *)
THEOREM RevocationIsComplete == GrantSpec => RevocationCascades
  <1>1. GrantTypeOK /\ [GrantNext]_gvars =>
          [\A u \in Users :
             /\ (orgV \ orgV') \cap userV'[u] = {}
             /\ (orgM \ orgM') \cap userM'[u] = {}
             /\ \A m \in userM'[u] :
                  status[m] # "absent" => HomeOf[m] \notin orgV \ orgV']_gvars
    BY NextRevokes
  <1>2. QED
    BY <1>1, GrantsTypeCorrect, PTL DEF GrantSpec, RevocationCascades

-----------------------------------------------------------------------------
(* What a call that nothing overtook found open is still open.             *)

(* The model exists and, if its home vendor alone serves it, is open       *)
Held(m) ==
  /\ status[m] # "absent"
  /\ Serving[m] \subseteq {HomeOf[m]} => (orgV \cap Serving[m] # {} \/ m \in orgM)

FreshMember(h) ==
  call[h].kind = "member" /\ ~call[h].late =>
    /\ call[h].addV \subseteq orgV
    /\ \A m \in call[h].addM : Held(m)

FreshRequest(h) ==
  call[h].kind = "request" =>
    /\ tickets[call[h].ticket].status # "none"
    /\ ~call[h].late => tickets[call[h].ticket].vendors \subseteq orgV \cup call[h].addV

CallsExplained == \A h \in Calls : FreshMember(h) /\ FreshRequest(h)

GrantsExplained ==
  \A u \in Users : /\ userV[u] \subseteq orgV \cup strayV[u]
                   /\ \A m \in userM[u] \ strayM[u] : Held(m)

LEMMA InitExplained == GrantInit => CallsExplained /\ GrantsExplained
  <1> SUFFICES ASSUME GrantInit PROVE CallsExplained /\ GrantsExplained
    OBVIOUS
  <1>1. \A h \in Calls : call[h].kind = "idle"
    BY NoCallType DEF GrantInit
  <1>2. QED
    BY <1>1 DEF GrantInit, CallsExplained, FreshMember, FreshRequest, GrantsExplained

(* Nothing was taken from the customer, and no ticket in use was changed. *)
Kept ==
  /\ \A m \in Models : status[m] # "absent" => status'[m] # "absent"
  /\ orgV \subseteq orgV' /\ orgM \subseteq orgM'
  /\ \A t \in Tickets : tickets[t].status # "none" =>
       tickets'[t].status # "none" /\ tickets'[t].vendors = tickets[t].vendors

LEMMA HeldKept ==
  ASSUME Kept, NEW m \in Models, Held(m)
  PROVE  Held(m)'
  BY DEF Kept, Held

(* A call in progress keeps what it found open, if nothing was taken. *)
LEMMA FreshKept ==
  ASSUME GrantTypeOK, Kept, NEW h \in Calls, call'[h] = call[h],
         FreshMember(h), FreshRequest(h)
  PROVE  FreshMember(h)' /\ FreshRequest(h)'
  <1>1. call[h].ticket \in Tickets /\ call[h].addM \subseteq Models
    BY DEF GrantTypeOK, Call
  <1>2. FreshMember(h)'
    BY <1>1, HeldKept DEF FreshMember, Kept
  <1>3. FreshRequest(h)'
    BY <1>1 DEF FreshRequest, Kept
  <1>4. QED
    BY <1>2, <1>3

(* A call that ended has nothing to explain. *)
LEMMA IdleFresh ==
  ASSUME NEW h \in Calls, call'[h] = NoCall
  PROVE  FreshMember(h)' /\ FreshRequest(h)'
  BY NoCallType DEF FreshMember, FreshRequest

LEMMA KeptGrants ==
  ASSUME GrantTypeOK, Kept, GrantsExplained, UNCHANGED <<userV, userM, stray>>
  PROVE  GrantsExplained'
  <1>1. \A u \in Users : userM[u] \subseteq Models
    BY DEF GrantTypeOK
  <1>2. \A u \in Users, m \in Models : Held(m) => Held(m)'
    BY HeldKept
  <1>3. QED
    BY <1>1, <1>2 DEF Kept, GrantsExplained, stray

(* A revocation marks every call that is about to insert grants; nothing   *)
(* is then left to explain of it.                                          *)
LEMMA OvertakenFresh ==
  ASSUME GrantTypeOK, CallsExplained, tickets' = tickets, NEW g \in Calls,
         call'[g] = Overtaken(g)
  PROVE  FreshMember(g)' /\ FreshRequest(g)'
  <1>1. FreshMember(g)'
    BY OvertakenType DEF FreshMember
  <1>2. FreshRequest(g)'
    BY OvertakenType DEF FreshRequest, CallsExplained
  <1>3. QED
    BY <1>1, <1>2

LEMMA CatalogueExplained ==
  ASSUME GrantTypeOK, CallsExplained, GrantsExplained, NEW m \in Models, CatalogueSteps(m)
  PROVE  (CallsExplained /\ GrantsExplained)'
  <1>1. CASE CreateModel(m) \/ \E st \in {"on", "off"} : UpdateModel(m, st)
    <2>1. Kept /\ UNCHANGED <<userV, userM, stray, call>>
      BY <1>1 DEF CreateModel, UpdateModel, Catalogue, GrantTypeOK, Kept
    <2>2. QED
      BY <2>1, KeptGrants, FreshKept DEF CallsExplained
  <1>2. CASE DeleteModel(m)
    <2>1. CallsExplained'
      BY <1>2, OvertakenFresh DEF DeleteModel, Catalogue, CallsExplained
    <2>2. \A x \in Models : x # m /\ Held(x) => Held(x)'
      BY <1>2 DEF DeleteModel, Catalogue, GrantTypeOK, Held
    <2>3. \A u \in Users : userM[u] \subseteq Models /\ userM'[u] = userM[u] \ {m}
      BY <1>2 DEF DeleteModel, GrantTypeOK
    <2>4. GrantsExplained'
      BY <1>2, <2>2, <2>3 DEF DeleteModel, Catalogue, stray, GrantsExplained
    <2>5. QED
      BY <2>1, <2>4
  <1>3. QED
    BY <1>1, <1>2 DEF CatalogueSteps

LEMMA TicketExplained ==
  ASSUME GrantTypeOK, CallsExplained, GrantsExplained, NEW t \in Tickets, TicketSteps(t)
  PROVE  (CallsExplained /\ GrantsExplained)'
  <1>1. UNCHANGED <<status, orgM, userV, userM, stray, call>> /\ orgV \subseteq orgV'
    BY DEF TicketSteps, CreateRequest, CreateModelRequest, Submit, HandleModelRequest,
           RejectRequest, NoGrants
  <1>2. \/ Close(t)
        \/ \E kind, u, vendors : Submit(t, kind, u, vendors)
    BY DEF TicketSteps, CreateRequest, CreateModelRequest, HandleModelRequest, RejectRequest
  <1>3. \A q \in Tickets : tickets[q].status # "none" =>
          tickets'[q].status # "none" /\ tickets'[q].vendors = tickets[q].vendors
    <2>1. CASE Close(t)
      BY <2>1 DEF Close, GrantTypeOK, GTicket
    <2>2. CASE \E kind, u, vendors : Submit(t, kind, u, vendors)
      BY <2>2 DEF Submit, GrantTypeOK
    <2>3. QED
      BY <1>2, <2>1, <2>2
  <1>4. Kept
    BY <1>1, <1>3 DEF Kept
  <1>5. QED
    BY <1>1, <1>4, KeptGrants, FreshKept DEF CallsExplained

(* A call past its check found everything it will insert open.             *)
LEMMA CheckedExplained ==
  ASSUME GrantTypeOK, CallsExplained, GrantsExplained, NEW h \in Calls, NEW c \in Call,
         Checked(h, c),
         c.kind = "member" => c.addV \subseteq orgV /\ \A m \in c.addM : Held(m),
         c.kind = "request" => /\ tickets[c.ticket].status # "none"
                               /\ tickets[c.ticket].vendors \subseteq orgV \cup c.addV
  PROVE  (CallsExplained /\ GrantsExplained)'
  <1>1. UNCHANGED <<status, orgV, orgM, userV, userM, tickets, stray>>
    BY DEF Checked, NoGrants
  <1>2. call'[h] = c /\ \A g \in Calls : g # h => call'[g] = call[g]
    BY DEF Checked, GrantTypeOK
  <1>3. Kept
    BY <1>1 DEF Kept
  <1>4. FreshMember(h)' /\ FreshRequest(h)'
    BY <1>1, <1>2 DEF FreshMember, FreshRequest, Held
  <1>5. QED
    BY <1>1, <1>2, <1>3, <1>4, FreshKept, KeptGrants DEF CallsExplained

(* What a member call writes is open, or astray if it was overtaken. *)
LEMMA MemberExplained ==
  ASSUME GrantTypeOK, CallsExplained, GrantsExplained, NEW h \in Calls, SetMemberModels(h)
  PROVE  (CallsExplained /\ GrantsExplained)'
  <1> DEFINE u == call[h].user
  <1>1. u \in Users
    BY DEF GrantTypeOK, Call
  <1>2. UNCHANGED <<status, orgV, orgM, tickets>> /\ Kept
    BY DEF SetMemberModels, Kept
  <1>3. call'[h] = NoCall /\ \A g \in Calls : g # h => call'[g] = call[g]
    BY DEF SetMemberModels, GrantTypeOK
  <1>4. CallsExplained'
    BY <1>2, <1>3, IdleFresh, FreshKept DEF CallsExplained
  <1>5. /\ userV'[u] = call[h].addV /\ userM'[u] = call[h].addM
        /\ call[h].late => strayV'[u] = call[h].addV /\ strayM'[u] = call[h].addM
    BY <1>1 DEF SetMemberModels, GrantTypeOK
  <1>6. \A w \in Users : w # u =>
          /\ userV'[w] = userV[w] /\ userM'[w] = userM[w]
          /\ strayV'[w] = strayV[w] /\ strayM'[w] = strayM[w]
    BY DEF SetMemberModels, GrantTypeOK
  <1>7. ~call[h].late => call[h].addV \subseteq orgV /\ \A m \in call[h].addM : Held(m)
    BY DEF SetMemberModels, CallsExplained, FreshMember
  <1>8. \A m : Held(m)' <=> Held(m)
    BY <1>2 DEF Held
  <1> HIDE DEF u
  <1>9. /\ userV'[u] \subseteq orgV' \cup strayV'[u]
        /\ \A m \in userM'[u] \ strayM'[u] : Held(m)'
    BY <1>2, <1>5, <1>7, <1>8
  <1>10. GrantsExplained'
    BY <1>2, <1>6, <1>8, <1>9 DEF GrantsExplained
  <1>11. QED
    BY <1>4, <1>10

(* What an approval writes is open, noted as taken for open, or astray. *)
LEMMA RequestExplained ==
  ASSUME GrantTypeOK, CallsExplained, GrantsExplained, NEW h \in Calls, HandleRequest(h)
  PROVE  (CallsExplained /\ GrantsExplained)'
  <1> DEFINE t == call[h].ticket
             u == tickets[t].user
             new == tickets[t].vendors
  <1>1. t \in Tickets /\ u \in Users
    BY DEF GrantTypeOK, Call, GTicket
  <1>2. UNCHANGED <<status, orgV, orgM, userM, strayM>> /\ Close(t)
    BY DEF HandleRequest
  <1>3. Kept
    BY <1>1, <1>2 DEF Kept, Close, GrantTypeOK, GTicket
  <1>4. call'[h] = NoCall /\ \A g \in Calls : g # h => call'[g] = call[g]
    BY DEF HandleRequest, GrantTypeOK
  <1>5. CallsExplained'
    BY <1>3, <1>4, IdleFresh, FreshKept DEF CallsExplained
  <1>6. /\ userV'[u] = userV[u] \cup new
        /\ call[h].late => strayV'[u] = strayV[u] \cup new
        /\ ~call[h].late => strayV'[u] = strayV[u] \cup call[h].addV
    BY <1>1 DEF HandleRequest, GrantTypeOK
  <1>7. \A w \in Users : w # u => userV'[w] = userV[w] /\ strayV'[w] = strayV[w]
    BY DEF HandleRequest, GrantTypeOK
  <1>8. ~call[h].late => new \subseteq orgV \cup call[h].addV
    BY DEF HandleRequest, CallsExplained, FreshRequest
  <1>9. userV[u] \subseteq orgV \cup strayV[u]
    BY <1>1 DEF GrantsExplained
  <1>10. \A m : Held(m)' <=> Held(m)
    BY <1>2 DEF Held
  <1> HIDE DEF u, new, t
  <1>11. userV'[u] \subseteq orgV' \cup strayV'[u]
    BY <1>2, <1>6, <1>8, <1>9
  <1>12. GrantsExplained'
    BY <1>2, <1>7, <1>10, <1>11 DEF GrantsExplained
  <1>13. QED
    BY <1>5, <1>12

(* Taking back empties the accounts and overtakes every other call. *)
LEMMA OrgExplained ==
  ASSUME GrantTypeOK, CallsExplained, GrantsExplained, NEW h \in Calls, SetOrgModels(h)
  PROVE  (CallsExplained /\ GrantsExplained)'
  <1> DEFINE c == call[h]
             taken == c.delV # {} \/ c.delM # {}
  <1>1. /\ orgV' = (orgV \ c.delV) \cup c.addV /\ orgM' = (orgM \ c.delM) \cup c.addM
        /\ UNCHANGED <<status, tickets, strayV, strayM>>
        /\ \A u \in Users : /\ userV'[u] = userV[u] \ c.delV
                            /\ userM'[u] = userM[u] \ Cascaded(c)
    BY DEF SetOrgModels, stray
  <1>2. \A g \in Calls : /\ g = h => call'[g] = NoCall
                         /\ g # h /\ taken => call'[g] = Overtaken(g)
                         /\ g # h /\ ~taken => call'[g] = call[g]
    BY DEF SetOrgModels
  <1>3. \A u \in Users : userM[u] \subseteq Models
    BY DEF GrantTypeOK
  <1> HIDE DEF c
  <1>4. CallsExplained'
    <2>1. CASE taken
      BY <1>1, <1>2, <2>1, IdleFresh, OvertakenFresh DEF CallsExplained
    <2>2. CASE ~taken
      <3>1. Kept
        BY <1>1, <2>2 DEF Kept
      <3>2. QED
        BY <1>2, <2>2, <3>1, IdleFresh, FreshKept DEF CallsExplained
    <2>3. QED
      BY <2>1, <2>2
  <1>5. ASSUME NEW m \in Models, Held(m), m \notin Cascaded(c)
        PROVE  Held(m)'
    <2>1. status[m] # "absent" /\ HomeOf[m] \notin c.delV /\ m \notin c.delM
      BY <1>5 DEF Held, Cascaded
    <2>2. QED
      BY <1>1, <1>5, <2>1 DEF Held
  <1>6. GrantsExplained'
    BY <1>1, <1>3, <1>5 DEF GrantsExplained
  <1>7. QED
    BY <1>4, <1>6

LEMMA NextExplained ==
  ASSUME GrantTypeOK, CallsExplained, GrantsExplained, [GrantNext]_gvars
  PROVE  (CallsExplained /\ GrantsExplained)'
  <1>1. ASSUME NEW h \in Calls, CallSteps(h) PROVE (CallsExplained /\ GrantsExplained)'
    <2>1. ASSUME NEW t \in Tickets, CheckRequest(h, t)
          PROVE  (CallsExplained /\ GrantsExplained)'
      <3> DEFINE c == [NoCall EXCEPT !.kind = "request", !.ticket = t,
                                     !.addV = tickets[t].vendors \ orgV]
      <3>1. tickets[t].vendors \subseteq Vendors /\ tickets[t].status = "pending"
        BY <2>1 DEF CheckRequest, PendingTicket, GrantTypeOK, GTicket
      <3>2. c \in Call /\ c.kind = "request" /\ c.ticket = t
              /\ c.addV = tickets[t].vendors \ orgV
        BY <3>1, NoCallType DEF Call
      <3>3. Checked(h, c)
        BY <2>1 DEF CheckRequest
      <3> HIDE DEF c
      <3>4. QED
        BY <3>1, <3>2, <3>3, CheckedExplained
    <2>2. ASSUME NEW u \in Users, NEW vendors \in SUBSET Vendors, NEW models \in SUBSET Models,
                 CheckMember(h, u, vendors, models)
          PROVE  (CallsExplained /\ GrantsExplained)'
      <3> DEFINE c == [NoCall EXCEPT !.kind = "member", !.user = u,
                                     !.addV = vendors, !.addM = models]
      <3>1. c \in Call /\ c.kind = "member" /\ c.addV = vendors /\ c.addM = models
        BY NoCallType DEF Call
      <3>2. vendors \subseteq orgV /\ \A m \in models : Held(m)
        BY <2>2 DEF CheckMember, OrgOpen, Held
      <3>3. Checked(h, c)
        BY <2>2 DEF CheckMember
      <3> HIDE DEF c
      <3>4. QED
        BY <3>1, <3>2, <3>3, CheckedExplained
    <2>3. ASSUME NEW vendors \in SUBSET Vendors, NEW models \in SUBSET OrgExceptions,
                 CheckOrg(h, vendors, models)
          PROVE  (CallsExplained /\ GrantsExplained)'
      <3> DEFINE kept == {m \in models : status[m] = "on"}
                 c == [NoCall EXCEPT !.kind = "org",
                         !.addV = vendors \ orgV, !.delV = orgV \ vendors,
                         !.addM = kept \ orgM,    !.delM = orgM \ kept]
      <3>1. kept \subseteq Models
        BY GrantConstants
      <3>2. Checked(h, c)
        BY <2>3 DEF CheckOrg
      <3> HIDE DEF kept
      <3>3. c \in Call /\ c.kind = "org"
        BY <3>1, NoCallType DEF Call, GrantTypeOK
      <3> HIDE DEF c
      <3>4. QED
        BY <3>2, <3>3, CheckedExplained
    <2>4. CASE CallFails(h)
      <3>1. UNCHANGED <<status, orgV, orgM, userV, userM, tickets, stray>>
        BY <2>4 DEF CallFails, NoGrants
      <3>2. call'[h] = NoCall /\ \A g \in Calls : g # h => call'[g] = call[g]
        BY <2>4 DEF CallFails, GrantTypeOK
      <3>3. Kept
        BY <3>1 DEF Kept
      <3>4. QED
        BY <3>1, <3>2, <3>3, IdleFresh, FreshKept, KeptGrants DEF CallsExplained
    <2>5. QED
      BY <1>1, <2>1, <2>2, <2>3, <2>4, MemberExplained, RequestExplained, OrgExplained
         DEF CallSteps
  <1>2. CASE UNCHANGED gvars
    <2>1. UNCHANGED <<status, orgV, orgM, userV, userM, tickets, stray, call>>
      BY <1>2 DEF gvars
    <2>2. Kept
      BY <2>1 DEF Kept
    <2>3. QED
      BY <2>1, <2>2, FreshKept, KeptGrants DEF CallsExplained
  <1>3. QED
    BY <1>1, <1>2, CatalogueExplained, TicketExplained DEF GrantNext

(* Whatever calls overlap, an account can call a model its customer does   *)
(* not have open only through a grant inserted past its check, or one for  *)
(* a model that a vendor other than its home vendor serves.                *)
THEOREM StraysExplainAll == GrantSpec => []OnlyStraysUncovered
  <1>1. GrantTypeOK /\ GrantsExplained => OnlyStraysUncovered
    <2> SUFFICES ASSUME GrantTypeOK, GrantsExplained, NEW u \in Users, NEW m \in Models,
                        MayCall(u, m), ~OrgOpen(m), strayV[u] \cap Serving[m] = {},
                        m \notin strayM[u]
                 PROVE  m \in userM[u] /\ ~(Serving[m] \subseteq {HomeOf[m]})
      BY DEF OnlyStraysUncovered
    <2>1. userV[u] \cap Serving[m] = {} /\ status[m] # "absent"
      BY DEF GrantsExplained, MayCall, OrgOpen
    <2>2. m \in userM[u] /\ Held(m)
      BY <2>1 DEF MayCall, GrantsExplained
    <2>3. QED
      BY <2>1, <2>2 DEF Held, OrgOpen
  <1>2. GrantTypeOK /\ CallsExplained /\ GrantsExplained /\ [GrantNext]_gvars
          => (CallsExplained /\ GrantsExplained)'
    BY NextExplained
  <1>3. QED
    BY <1>1, <1>2, InitExplained, GrantsTypeCorrect, PTL DEF GrantSpec
=============================================================================
