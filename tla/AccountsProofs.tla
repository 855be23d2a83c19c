--------------------------- MODULE AccountsProofs ---------------------------
(***************************************************************************)
(* Proofs about Accounts, for any number of calls, accounts, addresses,    *)
(* mails and changes of passwords.                                         *)
(***************************************************************************)
EXTENDS Accounts, FiniteSetTheorems, WellFoundedInduction, TLAPS

Rows == [for : Emails \cup Accounts, email : Emails, code : Nat, wrong : 0..MaxWrong,
         expired : BOOLEAN, recent : BOOLEAN]
LinkRows == [id : Nat, user : Accounts, email : Emails,
             used : BOOLEAN, expired : BOOLEAN, recent : BOOLEAN]
UserRows == [email : Emails \cup {NoEmail}, password : Nat, on : BOOLEAN, super : BOOLEAN]

Asking == {"clear", "store", "mail", "count", "recheck", "drop", "use", "settle",
           "retire", "link", "mail link", "claim"}
Owning == {"clear", "kill", "retire", "link", "mail link", "claim", "set", "issue"} \cup Editing
Stages == Asking \cup Owning

Handlers == [at : Stages, for : Emails \cup Accounts, user : Accounts \cup {NoEmail},
             email : Emails \cup {NoEmail}, code : Nat, seen : SUBSET Nat]
Tokens == [user : Accounts, typed : Nat, ver : Nat]

(* What each variable holds. *)
Formed ==
  /\ Known \subseteq Accounts /\ users \in [Known -> UserRows]
  /\ codes \subseteq Rows /\ links \subseteq LinkRows
  /\ session \in {Free} \cup Tokens
  /\ call \in [Calls -> {Free} \cup Handlers]
  /\ sent \in Nat /\ passwords \in Nat
  /\ uses \in [1..MaxMails -> Nat] /\ wrong \in [1..MaxMails -> Nat]
  /\ superseded \subseteq Nat

Underway(stages) == {c \in Calls : call[c].at \in stages}

(* Numbers are handed out in a row, each to one code or one link. *)
Numbered ==
  /\ sent + Cardinality(Underway(Sending)) <= MaxMails
  /\ \A r \in codes : r.code \in 1..sent
  /\ \A l \in links : l.id \in 1..sent
  /\ superseded \subseteq 1..sent
  /\ \A k \in 1..MaxMails : k > sent => uses[k] = 0 /\ wrong[k] = 0
  /\ \A c \in Calls : call[c] # Free =>
       /\ call[c].seen \subseteq 1..sent
       /\ call[c].at \in {"count", "recheck", "drop", "use", "claim"} => call[c].code \in 1..sent
  /\ \A q, r \in codes : q.code = r.code => q = r
  /\ \A k, l \in links : k.id = l.id => k = l
  /\ \A r \in codes, l \in links : r.code # l.id

(* Who a handler works for. *)
Addressed ==
  /\ Admins \subseteq Known
  /\ \A u \in Known : users[u].password <= passwords
  /\ \A l \in links : l.user \in Known
  /\ session # Free => session.user \in Known
  /\ \A c \in Calls : call[c] # Free =>
       /\ call[c].at \in Asking => call[c].email \in Emails
       /\ call[c].at \in Owning => call[c].user \in Known
       /\ call[c].at \in {"use", "settle"} => call[c].user \in Accounts
       /\ call[c].at = "issue" => call[c].code <= passwords

(* An address has one row and one account. *)
Single ==
  /\ \A q, r \in codes : q.for = r.for /\ q.for \in Emails => q = r
  /\ \A u, v \in Known : users[u].email = users[v].email /\ users[u].email # NoEmail => u = v

(* What has been used cannot be used again: the row is gone, the link used. *)
Dead(k) == (\A r \in codes : r.code # k) /\ (\A l \in links : l.id = k => l.used)

Once == \A k \in 1..MaxMails : uses[k] <= 1 /\ (uses[k] > 0 => Dead(k))

(* What is about to be superseded: its fate from the first look to the new  *)
(* code or link.                                                            *)
Superseding ==
  /\ \A k \in superseded : Dead(k)
  /\ \A c \in Calls : call[c] # Free => \A k \in call[c].seen :
       /\ call[c].at = "clear" => /\ \A r \in codes : r.code = k => r.for = call[c].for
                                  /\ \A l \in links : l.id # k
       /\ call[c].at \in {"store", "link"} => Dead(k)
       /\ call[c].at = "retire" => /\ \A r \in codes : r.code # k
                                   /\ \A l \in links : l.id = k => l.user = call[c].user

(* The wrong answers a row does not show yet are those about to be counted. *)
Uncounted(r) == {c \in Calls : At(c, "count") /\ call[c].code = r.code /\ call[c].for = r.for}
Reaches(c, r) == call[c].for = r.for /\ (call[c].for \in Emails \/ r.code = call[c].code)

Counting ==
  /\ \A k \in 1..MaxMails : wrong[k] <= MaxWrong
  /\ \A c \in Calls, r \in codes :
        At(c, "count") /\ call[c].code = r.code => call[c].for = r.for
  /\ \A r \in codes :
       /\ wrong[r.code] <= r.wrong + Cardinality(Uncounted(r))
       /\ r.wrong >= MaxWrong =>
            \E c \in Calls : call[c] # Free /\ call[c].at \in {"recheck", "drop"} /\ Reaches(c, r)

Opened == session # Free => session.typed = session.ver

Inductive ==
  /\ Formed /\ Numbered /\ Addressed /\ Single /\ Once /\ Superseding /\ Counting
  /\ OldLinksDie /\ Opened

(* Nobody edits the own account. *)
Others == \A c \in Calls : call[c].at \in Editing => call[c].for # call[c].user

-----------------------------------------------------------------------------
(* The least of two numbers is one of them. *)
LEMMA LeastOfTwo ==
  ASSUME NEW a \in Nat, NEW b \in Nat
  PROVE  /\ Min({a, b}) \in Nat
         /\ Min({a, b}) <= a /\ Min({a, b}) <= b
         /\ Min({a, b}) = a \/ Min({a, b}) = b
<1>1. \E x \in {a, b} : \A y \in {a, b} : x <= y
  <2>1. CASE a <= b
    BY <2>1
  <2>2. CASE ~(a <= b)
    BY <2>2
  <2> QED
    BY <2>1, <2>2
<1>2. /\ Min({a, b}) \in {a, b}
      /\ \A y \in {a, b} : Min({a, b}) <= y
  BY <1>1 DEF Min
<1> QED
  BY <1>2

(* The order of numbers, as a relation on them. *)
Below == {p \in Nat \X Nat : p[1] < p[2]}

(* A set of numbers has a least one. *)
LEMMA Smallest ==
  ASSUME NEW S \in SUBSET Nat, S # {}
  PROVE  \E x \in S : \A y \in S : x <= y
<1>1. IsWellFoundedOn(Below, Nat)
  BY NatLessThanWellFounded DEF OpToRel, Below
<1>2. PICK x \in S : \A y \in S : ~(<<y, x>> \in Below)
  BY <1>1, WFMin
<1>3. ASSUME NEW y \in S PROVE x <= y
  <2>1. x \in Nat /\ y \in Nat
    OBVIOUS
  <2>2. ~(y < x)
    BY <1>2, <2>1 DEF Below
  <2> QED
    BY <2>1, <2>2
<1> QED
  BY <1>3

(* Rows that are there have a newest one. *)
LEMMA NewestRow ==
  ASSUME NEW rows \in SUBSET codes, rows # {}, Formed, Numbered
  PROVE  Newest(rows) \in rows
<1> DEFINE Gaps == {sent - r.code : r \in rows}
<1>1. \A r \in rows : r.code \in 1..sent
  BY DEF Numbered
<1>2. sent \in Nat
  BY DEF Formed
<1>3. Gaps \in SUBSET Nat /\ Gaps # {}
  BY <1>1, <1>2
<1>4. PICK x \in Gaps : \A y \in Gaps : x <= y
  <2> HIDE DEF Gaps
  <2> QED
    BY <1>3, Smallest
<1>5. PICK r \in rows : x = sent - r.code
  OBVIOUS
<1>6. \A q \in rows : r.code >= q.code
  <2> TAKE q \in rows
  <2>1. sent - q.code \in Gaps
    OBVIOUS
  <2>2. sent - r.code <= sent - q.code
    BY <1>4, <1>5, <2>1
  <2> QED
    BY <1>1, <1>2, <2>2
<1> QED
  BY <1>6 DEF Newest

-----------------------------------------------------------------------------
(* What a step does to the handlers *)

Moved(c, to) ==
  /\ call' \in [Calls -> {Free} \cup Handlers]
  /\ call'[c] # Free /\ call'[c].at = to
  /\ call'[c].for = call[c].for /\ call'[c].user = call[c].user
  /\ call'[c].email = call[c].email /\ call'[c].code = call[c].code
  /\ call'[c].seen = call[c].seen
  /\ \A d \in Calls : d # c => call'[d] = call[d]

Ended(c) ==
  /\ call' \in [Calls -> {Free} \cup Handlers]
  /\ call'[c] = Free
  /\ \A d \in Calls : d # c => call'[d] = call[d]

Began(c, at, for, user, email, code, seen) ==
  /\ call' \in [Calls -> {Free} \cup Handlers]
  /\ call[c] = Free /\ call'[c] # Free
  /\ call'[c].at = at /\ call'[c].for = for /\ call'[c].user = user
  /\ call'[c].email = email /\ call'[c].code = code /\ call'[c].seen = seen
  /\ \A d \in Calls : d # c => call'[d] = call[d]

(* A handler under way is a record of one. *)
LEMMA Handler ==
  ASSUME call \in [Calls -> {Free} \cup Handlers], NEW c \in Calls, call[c] # Free
  PROVE  call[c] \in Handlers
OBVIOUS

(* A handler under way is not a free one. *)
LEMMA NotFree ==
  ASSUME NEW h \in Handlers
  PROVE  h # Free
<1>1. h.at \in Stages
  BY DEF Handlers
<1>2. "free" \notin Stages
  BY DEF Stages, Asking, Owning, Editing
<1>3. Free.at = "free"
  BY DEF Free
<1> QED
  BY <1>1, <1>2, <1>3

(* A call that goes on keeps everything but its stage. *)
LEMMA Moves ==
  ASSUME call \in [Calls -> {Free} \cup Handlers], NEW c \in Calls, call[c] # Free,
         NEW to \in Stages, Go(c, to)
  PROVE  Moved(c, to)
<1>1. call[c] \in Handlers
  OBVIOUS
<1> DEFINE h == [call[c] EXCEPT !.at = to]
<1>2. /\ h \in Handlers /\ h.at = to /\ h.for = call[c].for /\ h.user = call[c].user
      /\ h.email = call[c].email /\ h.code = call[c].code /\ h.seen = call[c].seen
  BY <1>1 DEF Handlers
<1>3. call' = [call EXCEPT ![c] = h]
  BY DEF Go
<1> HIDE DEF h
<1>4. call'[c] = h /\ \A d \in Calls : d # c => call'[d] = call[d]
  BY <1>3
<1>5. call' \in [Calls -> {Free} \cup Handlers]
  BY <1>2, <1>3
<1> QED
  BY <1>2, <1>4, <1>5, NotFree DEF Moved

(* A call that ends is free again, the others stand still. *)
LEMMA Ending ==
  ASSUME call \in [Calls -> {Free} \cup Handlers], NEW c \in Calls, End(c)
  PROVE  Ended(c)
BY DEF End, Ended

(* A call that begins is what it is begun with. *)
LEMMA Beginning ==
  ASSUME call \in [Calls -> {Free} \cup Handlers], NEW c \in Calls,
         NEW at \in Stages, NEW for \in Emails \cup Accounts, NEW user \in Accounts \cup {NoEmail},
         NEW email \in Emails \cup {NoEmail}, NEW code \in Nat, NEW seen \in SUBSET Nat,
         call[c] = Free,
         call' = [call EXCEPT ![c] = [at |-> at, for |-> for, user |-> user, email |-> email,
                                      code |-> code, seen |-> seen]]
  PROVE  Began(c, at, for, user, email, code, seen)
<1> DEFINE h == [at |-> at, for |-> for, user |-> user, email |-> email,
                 code |-> code, seen |-> seen]
<1>1. /\ h \in Handlers /\ h.at = at /\ h.for = for /\ h.user = user
      /\ h.email = email /\ h.code = code /\ h.seen = seen
  BY DEF Handlers
<1>2. call' = [call EXCEPT ![c] = h]
  OBVIOUS
<1> HIDE DEF h
<1>3. call'[c] = h /\ \A d \in Calls : d # c => call'[d] = call[d]
  BY <1>2
<1>4. call' \in [Calls -> {Free} \cup Handlers]
  BY <1>1, <1>2
<1> QED
  BY <1>1, <1>3, <1>4, NotFree DEF Began

(* The handlers a step of one starts, moves or ends. *)
LEMMA StartsCall ==
  ASSUME Formed, Addressed, AccountsConstants, NEW c \in Calls
  PROVE  /\ \A e \in Emails : SendCode(c, e) => Began(c, "store", e, NoEmail, e, 0, {})
         /\ \A u \in Accounts, e \in Emails : SendBindCode(c, u, e) =>
              Began(c, "clear", u, u, e, 0, {r.code : r \in RowsFor(u)})
         /\ \A u \in Known : RequestPasswordReset(c, u) =>
              Began(c, "retire", u, u, users[u].email, 0, Live(u))
         /\ \A l \in links : ResetPassword(c, l) =>
              Began(c, "claim", l.user, l.user, l.email, l.id, {})
         /\ \A u \in Known : ChangePassword(c, u) => Began(c, "set", u, u, NoEmail, 0, {})
         /\ \A u \in Known : Login(c, u) =>
              Began(c, "issue", u, u, NoEmail, users[u].password, {})
         /\ \A o \in Admins, u \in Admins, change \in Editing :
              UpdateAdmin(c, o, u, change) => Began(c, change, o, u, NoEmail, 0, {})
<1> USE DEF Formed, Begin
<1>0. {"store", "clear", "retire", "claim", "set", "issue"} \subseteq Stages
      /\ Editing \subseteq Stages
  BY DEF Stages, Asking, Owning
<1>1. \A e \in Emails : SendCode(c, e) => Began(c, "store", e, NoEmail, e, 0, {})
  BY <1>0, Beginning DEF SendCode
<1>2. \A u \in Accounts, e \in Emails : SendBindCode(c, u, e) =>
        Began(c, "clear", u, u, e, 0, {r.code : r \in RowsFor(u)})
  <2> TAKE u \in Accounts, e \in Emails
  <2>1. {r.code : r \in RowsFor(u)} \in SUBSET Nat
    BY DEF RowsFor, Rows
  <2> QED
    BY <1>0, <2>1, Beginning DEF SendBindCode
<1>3. \A u \in Known : RequestPasswordReset(c, u) =>
        Began(c, "retire", u, u, users[u].email, 0, Live(u))
  <2> TAKE u \in Known
  <2>1. Live(u) \in SUBSET Nat
    BY DEF Live, LinkRows
  <2>2. users[u].email \in Emails \cup {NoEmail} /\ u \in Accounts
    BY DEF UserRows
  <2> QED
    BY <1>0, <2>1, <2>2, Beginning DEF RequestPasswordReset
<1>4. \A l \in links : ResetPassword(c, l) =>
        Began(c, "claim", l.user, l.user, l.email, l.id, {})
  <2> TAKE l \in links
  <2>1. l.user \in Accounts /\ l.email \in Emails /\ l.id \in Nat
    BY DEF LinkRows
  <2> QED
    BY <1>0, <2>1, Beginning DEF ResetPassword
<1>5. \A u \in Known : ChangePassword(c, u) => Began(c, "set", u, u, NoEmail, 0, {})
  BY <1>0, Beginning DEF ChangePassword
<1>6. \A u \in Known : Login(c, u) =>
        Began(c, "issue", u, u, NoEmail, users[u].password, {})
  <2> TAKE u \in Known
  <2>1. users[u].password \in Nat /\ u \in Accounts
    BY DEF UserRows
  <2> QED
    BY <1>0, <2>1, Beginning DEF Login
<1>7. \A o \in Admins, u \in Admins, change \in Editing :
        UpdateAdmin(c, o, u, change) => Began(c, change, o, u, NoEmail, 0, {})
  <2> TAKE o \in Admins, u \in Admins, change \in Editing
  <2>1. o \in Accounts /\ u \in Accounts /\ change \in Stages
    BY <1>0 DEF AccountsConstants
  <2> QED
    BY <2>1, Beginning DEF UpdateAdmin
<1> QED
  BY <1>1, <1>2, <1>3, <1>4, <1>5, <1>6, <1>7

(* A call that was asked for a code and has read a row of its own. *)
Entered(c, s, u, e, row, at) ==
  /\ Began(c, at, s, u, e, row.code, {})
  /\ at = "count" => wrong' = [wrong EXCEPT ![row.code] = Min({@ + 1, MaxWrong})]
  /\ at # "count" => wrong' = wrong

(* A handler that is asked for a code reads the newest row of its address  *)
(* or account.                                                             *)
LEMMA Entering ==
  ASSUME Formed, Numbered, NEW c \in Calls, NEW s \in Emails \cup Accounts,
         NEW u \in Accounts, NEW e \in Emails, NEW k \in Nat, Enter(c, s, u, e, k)
  PROVE  \E row \in RowsFor(s), at \in {"drop", "count", "use"} : Entered(c, s, u, e, row, at)
<1> DEFINE row == Newest(RowsFor(s))
           next == IF row.expired THEN "drop" ELSE IF row.code # k THEN "count" ELSE "use"
<1>1. RowsFor(s) # {} /\ RowsFor(s) \in SUBSET codes
  BY DEF Enter, RowsFor
<1>2. row \in RowsFor(s)
  BY <1>1, NewestRow
<1>3. /\ Begin(c, next, s, u, e, row.code)
      /\ wrong' = IF next = "count" THEN [wrong EXCEPT ![row.code] = Min({@ + 1, MaxWrong})] ELSE wrong
      /\ UNCHANGED tables /\ UNCHANGED <<uses, superseded, stray>>
  BY DEF Enter
<1>4. next \in {"drop", "count", "use"}
  OBVIOUS
<1>5. row.code \in Nat
  BY <1>1, <1>2 DEF Formed, Rows
<1> HIDE DEF row, next
<1>6. Began(c, next, s, u, e, row.code, {})
  <2>1. next \in Stages
    BY <1>4 DEF Stages, Asking
  <2> QED
    BY <2>1, <1>3, <1>5, Beginning DEF Begin, Formed
<1>7. Entered(c, s, u, e, row, next)
  BY <1>3, <1>6 DEF Entered
<1> QED
  BY <1>2, <1>4, <1>7

(* The stages each step of a handler leads to. *)
LEMMA GoesOnCall ==
  ASSUME Formed, NEW c \in Calls
  PROVE  /\ ClearCodes(c) => Moved(c, "store")
         /\ StoreCode(c) => Moved(c, "mail")
         /\ CountWrong(c) => Ended(c) \/ Moved(c, "recheck")
         /\ Recheck(c) => Ended(c) \/ Moved(c, "drop")
         /\ UseCode(c) => Ended(c) \/ Moved(c, "settle")
         /\ Settle(c) => Ended(c) \/ Moved(c, "kill")
         /\ RetireLinks(c) => Moved(c, "link")
         /\ ClaimLink(c) => Ended(c) \/ Moved(c, "set")
         /\ \/ MailCode(c) \/ DropCode(c) \/ KillLinks(c) \/ MailLink(c) \/ SetPassword(c)
            \/ IssueToken(c) \/ EditAdmin(c)
            => Ended(c)
<1> USE DEF Formed, At
<1>0. {"store", "mail", "recheck", "drop", "settle", "kill", "link", "set"} \subseteq Stages
  BY DEF Stages, Asking, Owning
<1>1. ClearCodes(c) => Moved(c, "store")
  BY <1>0, Moves DEF ClearCodes
<1>2. StoreCode(c) => Moved(c, "mail")
  BY <1>0, Moves DEF StoreCode
<1>3. CountWrong(c) => Ended(c) \/ Moved(c, "recheck")
  BY <1>0, Moves, Ending DEF CountWrong
<1>4. Recheck(c) => Ended(c) \/ Moved(c, "drop")
  BY <1>0, Moves, Ending DEF Recheck
<1>5. UseCode(c) => Ended(c) \/ Moved(c, "settle")
  BY <1>0, Moves, Ending DEF UseCode
<1>6. Settle(c) => Ended(c) \/ Moved(c, "kill")
  BY <1>0, Moves, Ending DEF Settle
<1>7. RetireLinks(c) => Moved(c, "link")
  BY <1>0, Moves DEF RetireLinks
<1>8. ClaimLink(c) => Ended(c) \/ Moved(c, "set")
  BY <1>0, Moves, Ending DEF ClaimLink
<1>9. \/ MailCode(c) \/ DropCode(c) \/ KillLinks(c) \/ MailLink(c) \/ SetPassword(c)
      \/ IssueToken(c) \/ EditAdmin(c)
      => Ended(c)
  BY Ending DEF MailCode, DropCode, KillLinks, MailLink, SetPassword, IssueToken, EditAdmin
<1> QED
  BY <1>1, <1>2, <1>3, <1>4, <1>5, <1>6, <1>7, <1>8, <1>9

(* The mail of a link remembers which link it carries. *)
LEMMA StoresLinkCall ==
  ASSUME Formed, NEW c \in Calls, StoreLink(c)
  PROVE  /\ call' \in [Calls -> {Free} \cup Handlers]
         /\ call'[c] # Free /\ call'[c].at = "mail link" /\ call'[c].code = sent + 1
         /\ call'[c].for = call[c].for /\ call'[c].user = call[c].user
         /\ call'[c].email = call[c].email /\ call'[c].seen = call[c].seen
         /\ \A d \in Calls : d # c => call'[d] = call[d]
<1>0. call[c] # Free
  BY DEF StoreLink, At
<1>1. call[c] \in Handlers /\ call \in [Calls -> {Free} \cup Handlers] /\ sent + 1 \in Nat
  BY <1>0 DEF Formed
<1> DEFINE h == [call[c] EXCEPT !.at = "mail link", !.code = sent + 1]
<1>2. /\ h \in Handlers /\ h.at = "mail link" /\ h.for = call[c].for /\ h.user = call[c].user
      /\ h.email = call[c].email /\ h.code = sent + 1 /\ h.seen = call[c].seen
  <2> DEFINE n == sent + 1
  <2>1. n \in Nat
    BY <1>1
  <2> HIDE DEF n
  <2>2. "mail link" \in Stages
    BY DEF Stages, Asking
  <2>3. [call[c] EXCEPT !.at = "mail link", !.code = n] \in Handlers
    BY <1>1, <2>1, <2>2 DEF Handlers
  <2> QED
    BY <1>1, <2>1, <2>3 DEF n, Handlers
<1>3. call' = [call EXCEPT ![c] = h]
  BY DEF StoreLink
<1> HIDE DEF h
<1>4. call'[c] = h /\ \A d \in Calls : d # c => call'[d] = call[d]
  BY <1>1, <1>3
<1>5. call' \in [Calls -> {Free} \cup Handlers]
  BY <1>1, <1>2, <1>3
<1> QED
  BY <1>2, <1>4, <1>5, NotFree
-----------------------------------------------------------------------------
(* What a step does to the rows, the links and the accounts *)

(* Starting a handler changes no table. *)
LEMMA StartsFrame ==
  ASSUME NEW c \in Calls, Starts(c)
  PROVE  UNCHANGED tables /\ UNCHANGED <<uses, superseded, stray>>
<1> DEFINE Goal == UNCHANGED tables /\ UNCHANGED <<uses, superseded, stray>>
<1> SUFFICES Goal
  OBVIOUS
<1> HIDE DEF Goal
<1>1. ASSUME NEW e \in Emails, SendCode(c, e) PROVE Goal
  BY <1>1 DEF SendCode, history, Goal
<1>2. ASSUME NEW u \in Accounts, NEW e \in Emails, NEW k \in Typed,
             Register(c, u, e, k) \/ BindEmail(c, u, e, k)
      PROVE  Goal
  BY <1>2 DEF Register, BindEmail, Enter, Goal
<1>3. ASSUME NEW u \in Accounts, NEW e \in Emails, SendBindCode(c, u, e) PROVE Goal
  BY <1>3 DEF SendBindCode, history, Goal
<1>4. ASSUME NEW u \in Known, RequestPasswordReset(c, u) \/ ChangePassword(c, u) \/ Login(c, u)
      PROVE  Goal
  BY <1>4 DEF RequestPasswordReset, ChangePassword, Login, history, Goal
<1>5. ASSUME NEW l \in links, ResetPassword(c, l) PROVE Goal
  BY <1>5 DEF ResetPassword, history, Goal
<1>6. ASSUME NEW o \in Admins, NEW u \in Admins, NEW change \in Editing, UpdateAdmin(c, o, u, change)
      PROVE  Goal
  BY <1>6 DEF UpdateAdmin, history, Goal
<1> QED
  BY <1>1, <1>2, <1>3, <1>4, <1>5, <1>6 DEF Starts

(* Rows stay what they are, but for answers counted; none comes back. *)
RowFate ==
  /\ codes' \subseteq Rows
  /\ \A r \in codes' : \E q \in codes :
       /\ r.code = q.code /\ r.for = q.for /\ r.email = q.email /\ r.wrong >= q.wrong
       /\ r.wrong # q.wrong => \E c \in Calls : CountWrong(c)
  /\ \A q, r \in codes' : q.code = r.code => q = r

(* Links stay what they are, and none that is used is alive again. *)
LinkFate ==
  /\ links' \subseteq LinkRows
  /\ \A l \in links' : \E k \in links :
       l.id = k.id /\ l.user = k.user /\ l.email = k.email /\ (k.used => l.used)
  /\ \A k, l \in links' : k.id = l.id => k = l

(* Deleting rows keeps the others as they are. *)
LEMMA FewerRows ==
  ASSUME Formed, Numbered, codes' \subseteq codes
  PROVE  RowFate
<1>1. codes' \subseteq Rows /\ \A r \in codes' : r.wrong \in Nat
  BY DEF Formed, Rows, AccountsConstants
<1> QED
  BY <1>1 DEF Numbered, RowFate

(* A row with one more wrong answer is a row within the limit. *)
LEMMA CountedRow ==
  ASSUME AccountsConstants, NEW r \in Rows, r.wrong < MaxWrong
  PROVE  /\ [r EXCEPT !.wrong = @ + 1] \in Rows
         /\ [r EXCEPT !.wrong = @ + 1].code = r.code
         /\ [r EXCEPT !.wrong = @ + 1].for = r.for
         /\ [r EXCEPT !.wrong = @ + 1].email = r.email
         /\ [r EXCEPT !.wrong = @ + 1].wrong = r.wrong + 1
<1> DEFINE n == r.wrong + 1
<1>1. n \in 0..MaxWrong
  BY DEF Rows, AccountsConstants
<1> HIDE DEF n
<1>2. /\ [r EXCEPT !.wrong = n] \in Rows
      /\ [r EXCEPT !.wrong = n].code = r.code
      /\ [r EXCEPT !.wrong = n].for = r.for
      /\ [r EXCEPT !.wrong = n].email = r.email
      /\ [r EXCEPT !.wrong = n].wrong = n
  BY <1>1 DEF Rows
<1>3. [r EXCEPT !.wrong = @ + 1] = [r EXCEPT !.wrong = n]
  BY DEF n
<1> QED
  BY <1>2, <1>3 DEF n

(* A row after a wrong answer: the same, or counted if it was reached. *)
LEMMA CountsRows ==
  ASSUME AccountsConstants, Formed, NEW c \in Calls, CountWrong(c), NEW r \in codes'
  PROVE  \E q \in codes :
           /\ r \in Rows /\ r.code = q.code /\ r.for = q.for /\ r.email = q.email
           /\ \/ r = q /\ ~(q \in Reached(c) /\ q.wrong < MaxWrong)
              \/ /\ q \in Reached(c) /\ q.wrong < MaxWrong /\ r.wrong = q.wrong + 1
                 /\ r = [q EXCEPT !.wrong = @ + 1]
<1>1. CASE r \in codes /\ (r \notin Reached(c) \/ r.wrong >= MaxWrong)
  <2>1. ~(r \in Reached(c) /\ r.wrong < MaxWrong)
    BY <1>1 DEF Formed, Rows, AccountsConstants
  <2> QED
    BY <1>1, <2>1 DEF Formed
<1>2. CASE r \in Counted(c)
  <2>1. PICK q \in Reached(c) : q.wrong < MaxWrong /\ r = [q EXCEPT !.wrong = @ + 1]
    BY <1>2 DEF Counted
  <2>2. q \in codes /\ q \in Rows
    BY <2>1 DEF Reached, RowsFor, Formed
  <2> QED
    BY <2>1, <2>2, CountedRow
<1> QED
  BY <1>1, <1>2 DEF CountWrong

(* Counting a wrong answer keeps the rows apart. *)
LEMMA CountsFate ==
  ASSUME AccountsConstants, Formed, Numbered, NEW c \in Calls, CountWrong(c)
  PROVE  RowFate
<1>1. codes' \subseteq Rows
  BY CountsRows
<1>2. ASSUME NEW r \in codes'
      PROVE  \E q \in codes :
               /\ r.code = q.code /\ r.for = q.for /\ r.email = q.email /\ r.wrong >= q.wrong
               /\ r.wrong # q.wrong => \E d \in Calls : CountWrong(d)
  <2>1. PICK q \in codes :
           /\ r \in Rows /\ r.code = q.code /\ r.for = q.for /\ r.email = q.email
           /\ r = q \/ r.wrong = q.wrong + 1
    BY CountsRows
  <2>2. q.wrong \in Nat
    BY DEF Formed, Rows, AccountsConstants
  <2> QED
    BY <2>1, <2>2
<1>3. ASSUME NEW r \in codes', NEW s \in codes', r.code = s.code PROVE r = s
  <2>1. PICK q \in codes : r.code = q.code /\
           (\/ r = q /\ ~(q \in Reached(c) /\ q.wrong < MaxWrong)
            \/ q \in Reached(c) /\ q.wrong < MaxWrong /\ r = [q EXCEPT !.wrong = @ + 1])
    BY CountsRows
  <2>2. PICK p \in codes : s.code = p.code /\
           (\/ s = p /\ ~(p \in Reached(c) /\ p.wrong < MaxWrong)
            \/ p \in Reached(c) /\ p.wrong < MaxWrong /\ s = [p EXCEPT !.wrong = @ + 1])
    BY CountsRows
  <2>3. p = q
    BY <1>3, <2>1, <2>2 DEF Numbered
  <2> QED
    BY <2>1, <2>2, <2>3
<1> QED
  BY <1>1, <1>2, <1>3 DEF RowFate
(* A row grows old but stays what it is. *)
LEMMA AgedRow ==
  ASSUME NEW r \in Rows, NEW q \in Ages(r)
  PROVE  q \in Rows /\ q.code = r.code /\ q.for = r.for /\ q.email = r.email /\ q.wrong = r.wrong
<1>1. q = [r EXCEPT !.recent = FALSE] \/ q = [r EXCEPT !.recent = FALSE, !.expired = TRUE]
  BY DEF Ages
<1>2. CASE q = [r EXCEPT !.recent = FALSE]
  BY <1>2 DEF Rows
<1>3. CASE q = [r EXCEPT !.recent = FALSE, !.expired = TRUE]
  BY <1>3 DEF Rows
<1> QED
  BY <1>1, <1>2, <1>3

(* A link grows old but stays what it is. *)
LEMMA AgedLink ==
  ASSUME NEW l \in LinkRows, NEW k \in Ages(l)
  PROVE  k \in LinkRows /\ k.id = l.id /\ k.user = l.user /\ k.email = l.email /\ k.used = l.used
<1>1. k = [l EXCEPT !.recent = FALSE] \/ k = [l EXCEPT !.recent = FALSE, !.expired = TRUE]
  BY DEF Ages
<1>2. CASE k = [l EXCEPT !.recent = FALSE]
  BY <1>2 DEF LinkRows
<1>3. CASE k = [l EXCEPT !.recent = FALSE, !.expired = TRUE]
  BY <1>3 DEF LinkRows
<1> QED
  BY <1>1, <1>2, <1>3

(* Rows that are not touched keep what they are. *)
LEMMA SameRows ==
  ASSUME AccountsConstants, Formed, Numbered, codes' = codes
  PROVE  RowFate
BY FewerRows

(* Deleting links keeps the others as they are. *)
LEMMA FewerLinks ==
  ASSUME Formed, Numbered, links' \subseteq links
  PROVE  LinkFate
BY DEF Formed, Numbered, LinkFate

(* Time keeps the rows and the links apart. *)
LEMMA PassesFate ==
  ASSUME AccountsConstants, Formed, Numbered, Passes
  PROVE  RowFate /\ LinkFate
<1>1. ASSUME NEW r \in codes, NEW q \in Ages(r), codes' = (codes \ {r}) \cup {q}, links' = links
      PROVE  RowFate /\ LinkFate
  <2>1. r \in Rows /\ codes \subseteq Rows /\ \A p \in Rows : p.wrong \in Nat
    BY DEF Formed, Rows, AccountsConstants
  <2>2. q \in Rows /\ q.code = r.code /\ q.for = r.for /\ q.email = r.email /\ q.wrong = r.wrong
    BY <2>1, AgedRow
  <2>3. \A p \in codes' : p = q \/ (p \in codes /\ p # r)
    BY <1>1
  <2>4. RowFate
    BY <2>1, <2>2, <2>3 DEF RowFate, Numbered
  <2> QED
    BY <1>1, <2>4, FewerLinks
<1>2. ASSUME NEW l \in links, NEW k \in Ages(l), links' = (links \ {l}) \cup {k}, codes' = codes
      PROVE  RowFate /\ LinkFate
  <2>1. l \in LinkRows /\ links \subseteq LinkRows
    BY DEF Formed
  <2>2. k \in LinkRows /\ k.id = l.id /\ k.user = l.user /\ k.email = l.email /\ k.used = l.used
    BY <2>1, AgedLink
  <2>3. \A p \in links' : p = k \/ (p \in links /\ p # l)
    BY <1>2
  <2>4. LinkFate
    BY <2>1, <2>2, <2>3 DEF LinkFate, Numbered
  <2> QED
    BY <1>2, <2>4, FewerRows
<1> QED
  BY <1>1, <1>2 DEF Passes

(* A link that counts as used is a link. *)
LEMMA UsedLink ==
  ASSUME NEW l \in LinkRows
  PROVE  /\ [l EXCEPT !.used = TRUE] \in LinkRows
         /\ [l EXCEPT !.used = TRUE].id = l.id
         /\ [l EXCEPT !.used = TRUE].user = l.user
         /\ [l EXCEPT !.used = TRUE].email = l.email
         /\ [l EXCEPT !.used = TRUE].used
BY DEF LinkRows

(* The links of one account are used, the others are as they were. *)
LEMMA RetiredLinks ==
  ASSUME Formed, NEW u, links' = Retired(u), NEW l \in links'
  PROVE  \E k \in links :
           /\ l \in LinkRows /\ l.id = k.id /\ l.user = k.user /\ l.email = k.email
           /\ IF k.user = u THEN l = [k EXCEPT !.used = TRUE] /\ l.used ELSE l = k
<1>1. PICK k \in links : l = IF k.user = u THEN [k EXCEPT !.used = TRUE] ELSE k
  BY DEF Retired
<1>2. k \in LinkRows
  BY DEF Formed
<1> QED
  BY <1>1, <1>2, UsedLink

(* Retiring an account's links keeps the links apart. *)
LEMMA RetiresFate ==
  ASSUME Formed, Numbered, NEW u, links' = Retired(u)
  PROVE  LinkFate
<1>1. links' \subseteq LinkRows
  BY RetiredLinks
<1>2. \A l \in links' : \E k \in links :
        l.id = k.id /\ l.user = k.user /\ l.email = k.email /\ (k.used => l.used)
  BY RetiredLinks
<1>3. ASSUME NEW k \in links', NEW l \in links', k.id = l.id PROVE k = l
  <2>1. PICK p \in links : k.id = p.id
           /\ IF p.user = u THEN k = [p EXCEPT !.used = TRUE] /\ k.used ELSE k = p
    BY RetiredLinks
  <2>2. PICK q \in links : l.id = q.id
           /\ IF q.user = u THEN l = [q EXCEPT !.used = TRUE] /\ l.used ELSE l = q
    BY RetiredLinks
  <2>3. p = q
    BY <1>3, <2>1, <2>2 DEF Numbered
  <2>4. CASE p.user = u
    BY <2>1, <2>2, <2>3, <2>4, Zenon
  <2>5. CASE p.user # u
    BY <2>1, <2>2, <2>3, <2>5, Zenon
  <2> QED
    BY <2>4, <2>5
<1> QED
  BY <1>1, <1>2, <1>3 DEF LinkFate

(* A link that is claimed is used, the others are as they were. *)
LEMMA ClaimsFate ==
  ASSUME Formed, Numbered, NEW c \in Calls, ClaimLink(c)
  PROVE  LinkFate
<1>1. CASE Unclaimed(c) = {}
  BY <1>1, FewerLinks DEF ClaimLink
<1>2. CASE Unclaimed(c) # {}
  <2>1. links' = (links \ Unclaimed(c)) \cup {[l EXCEPT !.used = TRUE] : l \in Unclaimed(c)}
    BY <1>2 DEF ClaimLink
  <2>2. ASSUME NEW l \in links'
        PROVE  \E k \in links :
                 /\ l \in LinkRows /\ l.id = k.id /\ l.user = k.user /\ l.email = k.email
                 /\ IF k \in Unclaimed(c) THEN l = [k EXCEPT !.used = TRUE] /\ l.used ELSE l = k
    <3>1. CASE l \in links \ Unclaimed(c)
      BY <3>1 DEF Formed
    <3>2. CASE l \in {[k EXCEPT !.used = TRUE] : k \in Unclaimed(c)}
      <4>1. PICK k \in Unclaimed(c) : l = [k EXCEPT !.used = TRUE]
        BY <3>2
      <4>2. k \in links /\ k \in LinkRows
        BY <4>1 DEF Unclaimed, Formed
      <4> QED
        BY <4>1, <4>2, UsedLink
    <3> QED
      BY <2>1, <3>1, <3>2
  <2>3. ASSUME NEW k \in links', NEW l \in links', k.id = l.id PROVE k = l
    <3>1. PICK p \in links : k.id = p.id
             /\ IF p \in Unclaimed(c) THEN k = [p EXCEPT !.used = TRUE] /\ k.used ELSE k = p
      BY <2>2
    <3>2. PICK q \in links : l.id = q.id
             /\ IF q \in Unclaimed(c) THEN l = [q EXCEPT !.used = TRUE] /\ l.used ELSE l = q
      BY <2>2
    <3>3. p = q
      BY <2>3, <3>1, <3>2 DEF Numbered
    <3>4. CASE p \in Unclaimed(c)
      BY <3>1, <3>2, <3>3, <3>4, Zenon
    <3>5. CASE p \notin Unclaimed(c)
      BY <3>1, <3>2, <3>3, <3>5, Zenon
    <3> QED
      BY <3>4, <3>5
  <2>4. \A l \in links' : \E k \in links :
          l.id = k.id /\ l.user = k.user /\ l.email = k.email /\ (k.used => l.used)
    <3> TAKE l \in links'
    <3>1. PICK k \in links :
            /\ l.id = k.id /\ l.user = k.user /\ l.email = k.email
            /\ IF k \in Unclaimed(c) THEN l = [k EXCEPT !.used = TRUE] /\ l.used ELSE l = k
      BY <2>2
    <3> QED
      BY <3>1
  <2> QED
    BY <2>2, <2>3, <2>4 DEF LinkFate
<1> QED
  BY <1>1, <1>2
(* Without a new code the rows keep what they are. *)
LEMMA RowsStep ==
  ASSUME AccountsConstants, Formed, Numbered, AccountsNext
  PROVE  (RowFate /\ sent' = sent) \/ (\E c \in Calls : StoreCode(c)) \/ (\E c \in Calls : StoreLink(c))
<1> DEFINE Goal == (RowFate /\ sent' = sent) \/ (\E c \in Calls : StoreCode(c)) \/ (\E c \in Calls : StoreLink(c))
<1> SUFFICES Goal
  OBVIOUS
<1>0. ASSUME codes' \subseteq codes, sent' = sent PROVE Goal
  BY <1>0, FewerRows
<1> HIDE DEF Goal
<1>1. ASSUME NEW c \in Calls, Starts(c) PROVE Goal
  BY <1>0, <1>1, StartsFrame DEF tables
<1>2. ASSUME NEW c \in Calls, GoesOn(c) PROVE Goal
  <2>1. CASE ClearCodes(c) \/ MailCode(c) \/ DropCode(c) \/ Recheck(c) \/ UseCode(c)
    BY <1>0, <2>1 DEF ClearCodes, MailCode, DropCode, Recheck, UseCode, tables
  <2>2. CASE Settle(c) \/ KillLinks(c) \/ RetireLinks(c) \/ MailLink(c) \/ ClaimLink(c)
    BY <1>0, <2>2 DEF Settle, KillLinks, RetireLinks, MailLink, ClaimLink
  <2>3. CASE SetPassword(c) \/ IssueToken(c) \/ EditAdmin(c)
    BY <1>0, <2>3 DEF SetPassword, IssueToken, EditAdmin
  <2>4. CASE CountWrong(c)
    BY <2>4, CountsFate DEF CountWrong, Goal
  <2>5. CASE StoreCode(c) \/ StoreLink(c)
    BY <2>5 DEF Goal
  <2> QED
    BY <1>2, <2>1, <2>2, <2>3, <2>4, <2>5 DEF GoesOn
<1>3. ASSUME NEW u \in Known, NEW e \in Emails \cup {NoEmail}, EditEmail(u, e) PROVE Goal
  BY <1>0, <1>3 DEF EditEmail
<1>4. ASSUME NEW u \in Known, ResetByAdmin(u) PROVE Goal
  BY <1>0, <1>4 DEF ResetByAdmin
<1>5. ASSUME Passes PROVE Goal
  BY <1>5, PassesFate DEF Passes, Goal
<1> QED
  BY <1>1, <1>2, <1>3, <1>4, <1>5 DEF AccountsNext

(* Without a new link the links keep what they are. *)
LEMMA LinksStep ==
  ASSUME AccountsConstants, Formed, Numbered, AccountsNext
  PROVE  LinkFate \/ (\E c \in Calls : StoreLink(c))
<1> DEFINE Goal == LinkFate \/ (\E c \in Calls : StoreLink(c))
<1> SUFFICES Goal
  OBVIOUS
<1>0. ASSUME links' \subseteq links PROVE Goal
  BY <1>0, FewerLinks
<1> HIDE DEF Goal
<1>1. ASSUME NEW c \in Calls, Starts(c) PROVE Goal
  BY <1>0, <1>1, StartsFrame DEF tables
<1>2. ASSUME NEW c \in Calls, GoesOn(c) PROVE Goal
  <2>1. CASE ClearCodes(c) \/ MailCode(c) \/ DropCode(c) \/ Recheck(c) \/ UseCode(c) \/ CountWrong(c)
    BY <1>0, <2>1 DEF ClearCodes, MailCode, DropCode, Recheck, UseCode, CountWrong, tables
  <2>2. CASE Settle(c) \/ MailLink(c) \/ StoreCode(c)
    BY <1>0, <2>2 DEF Settle, MailLink, StoreCode
  <2>3. CASE SetPassword(c) \/ IssueToken(c) \/ EditAdmin(c)
    BY <1>0, <2>3 DEF SetPassword, IssueToken, EditAdmin
  <2>4. CASE KillLinks(c) \/ RetireLinks(c)
    BY <2>4, RetiresFate DEF KillLinks, RetireLinks, Goal
  <2>5. CASE ClaimLink(c)
    BY <2>5, ClaimsFate DEF Goal
  <2>6. CASE StoreLink(c)
    BY <2>6 DEF Goal
  <2> QED
    BY <1>2, <2>1, <2>2, <2>3, <2>4, <2>5, <2>6 DEF GoesOn
<1>3. ASSUME NEW u \in Known, NEW e \in Emails \cup {NoEmail}, EditEmail(u, e) PROVE Goal
  BY <1>0, <1>3 DEF EditEmail
<1>4. ASSUME NEW u \in Known, ResetByAdmin(u) PROVE Goal
  BY <1>0, <1>4 DEF ResetByAdmin
<1>5. ASSUME Passes PROVE Goal
  BY <1>5, PassesFate DEF Goal
<1> QED
  BY <1>1, <1>2, <1>3, <1>4, <1>5 DEF AccountsNext

(* The bound leaves room for the mail a handler is about to store. *)
LEMMA Room ==
  ASSUME AccountsConstants, Formed, Numbered, NEW c \in Calls, call[c].at \in Sending
  PROVE  sent + 1 <= MaxMails /\ sent \in Nat /\ sent + 1 \in 1..MaxMails
<1>1. IsFiniteSet(Underway(Sending))
  BY FS_Subset DEF AccountsConstants, Underway
<1>2. c \in Underway(Sending)
  BY DEF Underway
<1>3. Cardinality(Underway(Sending)) \in Nat /\ Cardinality(Underway(Sending)) # 0
  BY <1>1, <1>2, FS_CardinalityType, FS_EmptySet
<1> QED
  BY <1>3 DEF Numbered, Formed, AccountsConstants

(* What a call stores. *)
NewRow(c) == [for |-> call[c].for, email |-> call[c].email, code |-> sent + 1, wrong |-> 0,
              expired |-> FALSE, recent |-> TRUE]
NewLink(c) == [id |-> sent + 1, user |-> call[c].user, email |-> call[c].email,
               used |-> FALSE, expired |-> FALSE, recent |-> TRUE]

(* The row a handler stores and what it replaces. *)
LEMMA StoresRow ==
  ASSUME AccountsConstants, Formed, Numbered, Addressed, NEW c \in Calls, StoreCode(c)
  PROVE  /\ NewRow(c) \in Rows /\ NewRow(c).for = call[c].for /\ NewRow(c).code = sent + 1
         /\ NewRow(c).wrong = 0 /\ NewRow(c).email = call[c].email
         /\ codes' = (codes \ Stored(call[c].for)) \cup {NewRow(c)}
         /\ sent' = sent + 1 /\ sent + 1 \in 1..MaxMails /\ sent \in Nat
<1>1. call[c] \in Handlers /\ call[c].at = "store" /\ call[c].at \in Sending
      /\ call[c].email \in Emails
  <2>1. call[c] # Free /\ call[c].at = "store"
    BY DEF StoreCode, At
  <2> QED
    BY <2>1 DEF Formed, Sending, Addressed, Asking
<1>2. sent + 1 \in 1..MaxMails /\ sent \in Nat
  BY <1>1, Room
<1>3. call[c].for \in Emails \cup Accounts
  BY <1>1 DEF Handlers
<1>4. NewRow(c) \in Rows
  BY <1>1, <1>2, <1>3 DEF NewRow, Rows, AccountsConstants
<1>5. codes' = (codes \ Stored(call[c].for)) \cup {NewRow(c)} /\ sent' = sent + 1
  BY DEF StoreCode, NewRow
<1>6. /\ NewRow(c).for = call[c].for /\ NewRow(c).code = sent + 1
      /\ NewRow(c).wrong = 0 /\ NewRow(c).email = call[c].email
  BY DEF NewRow
<1> QED
  BY <1>2, <1>4, <1>5, <1>6

(* The link a handler stores. *)
LEMMA StoresLink ==
  ASSUME AccountsConstants, Formed, Numbered, Addressed, NEW c \in Calls, StoreLink(c)
  PROVE  /\ NewLink(c) \in LinkRows /\ NewLink(c).user = call[c].user /\ NewLink(c).id = sent + 1
         /\ ~NewLink(c).used /\ NewLink(c).email = call[c].email /\ call[c].user \in Known
         /\ links' = links \cup {NewLink(c)}
         /\ sent' = sent + 1 /\ sent + 1 \in 1..MaxMails /\ sent \in Nat
<1>1. call[c] \in Handlers /\ call[c].at = "link" /\ call[c].at \in Sending
      /\ call[c].email \in Emails /\ call[c].user \in Known
  <2>1. call[c] # Free /\ call[c].at = "link"
    BY DEF StoreLink, At
  <2> QED
    BY <2>1 DEF Formed, Sending, Addressed, Asking, Owning
<1>2. sent + 1 \in 1..MaxMails /\ sent \in Nat
  BY <1>1, Room
<1>4. NewLink(c) \in LinkRows
  BY <1>1, <1>2 DEF NewLink, LinkRows, Formed
<1>5. links' = links \cup {NewLink(c)} /\ sent' = sent + 1
  BY DEF StoreLink, NewLink
<1>6. /\ NewLink(c).user = call[c].user /\ NewLink(c).id = sent + 1
      /\ ~NewLink(c).used /\ NewLink(c).email = call[c].email
  BY DEF NewLink
<1> QED
  BY <1>1, <1>2, <1>4, <1>5, <1>6
(* A step stores a code, stores a link, or gives out no number. *)
LEMMA TableStep ==
  ASSUME AccountsConstants, Formed, Numbered, Addressed, AccountsNext
  PROVE  \/ RowFate /\ LinkFate /\ sent' = sent
         \/ \E c \in Calls : StoreCode(c) /\ LinkFate
         \/ \E c \in Calls : StoreLink(c) /\ RowFate
<1>1. ASSUME NEW c \in Calls, StoreCode(c) PROVE LinkFate
  BY <1>1, FewerLinks DEF StoreCode
<1>2. ASSUME NEW c \in Calls, StoreLink(c) PROVE RowFate
  BY <1>2, SameRows DEF StoreLink
<1> QED
  BY <1>1, <1>2, RowsStep, LinksStep

(* One account gets a new row. *)
Edited(u, row) ==
  /\ Known' = Known /\ users' \in [Known -> UserRows] /\ row \in UserRows
  /\ users'[u] = row /\ \A v \in Known : v # u => users'[v] = users[v]

(* One account's row is written, the others stay. *)
LEMMA Edits ==
  ASSUME Formed, NEW u \in Known, NEW row \in UserRows, users' = [users EXCEPT ![u] = row]
  PROVE  Edited(u, row)
<1>1. users \in [Known -> UserRows]
  BY DEF Formed
<1>2. users' \in [Known -> UserRows]
  BY <1>1
<1>3. Known' = Known
  BY <1>1, <1>2 DEF Known
<1>4. users'[u] = row /\ \A v \in Known : v # u => users'[v] = users[v]
  BY <1>1
<1> QED
  BY <1>2, <1>3, <1>4 DEF Edited

(* An account that gets an address keeps its password and its flags. *)
LEMMA GivesEmail ==
  ASSUME Formed, NEW u \in Known, NEW e \in Emails \cup {NoEmail},
         users' = [users EXCEPT ![u].email = e]
  PROVE  \E row \in UserRows :
           /\ Edited(u, row)
           /\ row.email = e /\ row.password = users[u].password
           /\ row.on = users[u].on /\ row.super = users[u].super
<1>1. users[u] \in UserRows
  BY DEF Formed
<1> DEFINE row == [users[u] EXCEPT !.email = e]
<1>2. /\ row \in UserRows /\ row.email = e /\ row.password = users[u].password
      /\ row.on = users[u].on /\ row.super = users[u].super
  BY <1>1 DEF UserRows
<1>3. users' = [users EXCEPT ![u] = row]
  OBVIOUS
<1> HIDE DEF row
<1> QED
  BY <1>2, <1>3, Edits

(* An account that gets a password keeps its address and its flags. *)
LEMMA Rehashes ==
  ASSUME Formed, NEW u \in Known, Rehash(u)
  PROVE  \E row \in UserRows :
           /\ Edited(u, row)
           /\ row.email = users[u].email /\ row.password = passwords + 1
           /\ row.on = users[u].on /\ row.super = users[u].super
<1>1. users[u] \in UserRows
  BY DEF Formed
<1> DEFINE n == passwords + 1
           row == [users[u] EXCEPT !.password = n]
<1>2. n \in Nat /\ n = passwords + 1
  BY DEF Formed
<1>3. users' = [users EXCEPT ![u] = row]
  BY DEF Rehash
<1> HIDE DEF n
<1>4. /\ row \in UserRows /\ row.password = n /\ row.email = users[u].email
      /\ row.on = users[u].on /\ row.super = users[u].super
  BY <1>1, <1>2 DEF UserRows
<1> HIDE DEF row
<1> QED
  BY <1>2, <1>3, <1>4, Edits

(* An edit of an administrator changes one of its two flags. *)
LEMMA EditsAdmin ==
  ASSUME Formed, NEW c \in Calls, EditAdmin(c), call[c].user \in Known
  PROVE  \E row \in UserRows :
           /\ Edited(call[c].user, row) /\ call[c].at \in Editing
           /\ row.email = users[call[c].user].email
           /\ row.password = users[call[c].user].password
           /\ \/ row = users[call[c].user]
              \/ row.super # users[call[c].user].super /\ row.on = users[call[c].user].on
              \/ row.on # users[call[c].user].on /\ row.super = users[call[c].user].super
<1> DEFINE u == call[c].user
<1>1. users[u] \in UserRows /\ users \in [Known -> UserRows]
  BY DEF Formed
<1>2. ASSUME NEW b \in BOOLEAN
      PROVE  /\ [users[u] EXCEPT !.super = b] \in UserRows
             /\ [users[u] EXCEPT !.super = b].super = b
             /\ [users[u] EXCEPT !.super = b].on = users[u].on
             /\ [users[u] EXCEPT !.super = b].email = users[u].email
             /\ [users[u] EXCEPT !.super = b].password = users[u].password
             /\ [users[u] EXCEPT !.on = b] \in UserRows
             /\ [users[u] EXCEPT !.on = b].on = b
             /\ [users[u] EXCEPT !.on = b].super = users[u].super
             /\ [users[u] EXCEPT !.on = b].email = users[u].email
             /\ [users[u] EXCEPT !.on = b].password = users[u].password
  BY <1>1 DEF UserRows
<1>3. \/ users' = [users EXCEPT ![u] = [users[u] EXCEPT !.super = TRUE]]
      \/ users' = [users EXCEPT ![u] = [users[u] EXCEPT !.super = FALSE]]
      \/ users' = [users EXCEPT ![u] = [users[u] EXCEPT !.on = TRUE]]
      \/ users' = [users EXCEPT ![u] = [users[u] EXCEPT !.on = FALSE]]
      \/ users' = [users EXCEPT ![u] = users[u]]
  <2>1. users = [users EXCEPT ![u] = users[u]]
    BY <1>1
  <2>2. CASE users' = users
    BY <2>1, <2>2
  <2>3. CASE users' # users
    BY <2>3 DEF EditAdmin
  <2> QED
    BY <2>2, <2>3
<1>4. call[c].at \in Editing
  BY DEF EditAdmin, At, Editing
<1> DEFINE Result(row) ==
             /\ Edited(u, row) /\ call[c].at \in Editing
             /\ row.email = users[u].email /\ row.password = users[u].password
             /\ \/ row = users[u]
                \/ row.super # users[u].super /\ row.on = users[u].on
                \/ row.on # users[u].on /\ row.super = users[u].super
<1>5. ASSUME NEW row \in UserRows, users' = [users EXCEPT ![u] = row],
             row.email = users[u].email, row.password = users[u].password,
             row.super = users[u].super \/ row.on = users[u].on
      PROVE  \E r \in UserRows : Result(r)
  <2>1. Edited(u, row)
    BY <1>5, Edits
  <2>2. CASE row.super # users[u].super \/ row.on # users[u].on
    BY <1>4, <1>5, <2>1, <2>2
  <2>3. CASE row.super = users[u].super /\ row.on = users[u].on
    <3>1. row = users[u]
      BY <1>1, <1>5, <2>3 DEF UserRows
    <3> QED
      BY <1>4, <2>1, <3>1
  <2> QED
    BY <2>2, <2>3
<1>6. \E r \in UserRows : Result(r)
  <2> HIDE DEF Result
  <2>0. TRUE \in BOOLEAN /\ FALSE \in BOOLEAN
    OBVIOUS
  <2>1. CASE users' = [users EXCEPT ![u] = [users[u] EXCEPT !.super = TRUE]]
    BY <1>2, <1>5, <2>0, <2>1
  <2>2. CASE users' = [users EXCEPT ![u] = [users[u] EXCEPT !.super = FALSE]]
    BY <1>2, <1>5, <2>0, <2>2
  <2>3. CASE users' = [users EXCEPT ![u] = [users[u] EXCEPT !.on = TRUE]]
    BY <1>2, <1>5, <2>0, <2>3
  <2>4. CASE users' = [users EXCEPT ![u] = [users[u] EXCEPT !.on = FALSE]]
    BY <1>2, <1>5, <2>0, <2>4
  <2>5. CASE users' = [users EXCEPT ![u] = users[u]]
    BY <1>1, <1>5, <2>5
  <2> QED
    BY <1>3, <2>1, <2>2, <2>3, <2>4, <2>5
<1> QED
  BY <1>6
(* An account gets its address, or is made with it, or nothing changes. *)
LEMMA Settles ==
  ASSUME Formed, Addressed, NEW c \in Calls, Settle(c)
  PROVE  \/ Ended(c) /\ users' = users
         \/ /\ Moved(c, "kill") /\ call[c].user \in Known
            /\ call[c].email \in Emails /\ Owner(call[c].email) \ {call[c].user} = {}
            /\ users' = [users EXCEPT ![call[c].user].email = call[c].email]
         \/ /\ Ended(c) /\ call[c].user \in Accounts \ Known
            /\ call[c].email \in Emails /\ Owner(call[c].email) \ {call[c].user} = {}
            /\ Known' = Known \cup {call[c].user} /\ users' \in [Known' -> UserRows]
            /\ users'[call[c].user] = NewUser(call[c].email, 0)
            /\ \A v \in Known : users'[v] = users[v]
<1> DEFINE u == call[c].user
           e == call[c].email
<1>1. call[c] # Free /\ call[c].at = "settle"
  BY DEF Settle, At
<1>2. u \in Accounts /\ e \in Emails
  BY <1>1 DEF Addressed, Asking
<1>3. "kill" \in Stages
  BY DEF Stages, Owning
<1>4. CASE Owner(e) \ {u} # {} \/ ((u \in Known) # (call[c].for = u))
  <2>1. End(c) /\ UNCHANGED users
    BY <1>4 DEF Settle
  <2> QED
    BY <2>1, Ending DEF Formed
<1>5. CASE ~(Owner(e) \ {u} # {} \/ ((u \in Known) # (call[c].for = u)))
  <2>1. /\ users' = IF u \in Known THEN [users EXCEPT ![u].email = e]
                    ELSE [v \in Known \cup {u} |-> IF v = u THEN NewUser(e, 0) ELSE users[v]]
        /\ IF u \in Known THEN Go(c, "kill") ELSE End(c)
    BY <1>5 DEF Settle
  <2>2. CASE u \in Known
    <3>1. Moved(c, "kill")
      BY <1>1, <1>3, <2>1, <2>2, Moves DEF Formed
    <3> QED
      BY <1>2, <1>5, <2>1, <2>2, <3>1
  <2>3. CASE u \notin Known
    <3>1. Ended(c)
      BY <2>1, <2>3, Ending DEF Formed
    <3>2. NewUser(e, 0) \in UserRows
      BY <1>2 DEF NewUser, UserRows
    <3>3. users' = [v \in Known \cup {u} |-> IF v = u THEN NewUser(e, 0) ELSE users[v]]
      BY <2>1, <2>3
    <3>4. users \in [Known -> UserRows]
      BY DEF Formed
    <3>5. Known' = Known \cup {u}
      BY <3>3 DEF Known
    <3>6. users' \in [Known' -> UserRows]
      BY <3>2, <3>3, <3>4, <3>5
    <3> QED
      BY <1>2, <1>5, <2>3, <3>1, <3>3, <3>5, <3>6
  <2> QED
    BY <2>2, <2>3
<1> QED
  BY <1>4, <1>5

(* Accounts stay, and a hash is as new as the counter says. *)
UserFate ==
  /\ Known \subseteq Known' /\ Known' \subseteq Accounts
  /\ users' \in [Known' -> UserRows]
  /\ passwords' \in Nat /\ passwords <= passwords'
  /\ \A u \in Known' : users'[u].password <= passwords'

(* Writing the row of one account keeps the accounts. *)
LEMMA EditFate ==
  ASSUME Formed, Addressed, NEW u \in Known, NEW row \in UserRows, Edited(u, row),
         passwords' \in Nat, passwords <= passwords', row.password <= passwords'
  PROVE  UserFate
<1>1. \A v \in Known : users[v].password <= passwords /\ users[v].password \in Nat
  BY DEF Addressed, Formed, UserRows
<1>2. \A v \in Known' : users'[v].password <= passwords'
  BY <1>1 DEF Edited, Formed
<1> QED
  BY <1>2 DEF Edited, UserFate, Formed

(* Accounts that are not touched are kept. *)
LEMMA SameUsers ==
  ASSUME Formed, Addressed, users' = users, passwords' = passwords
  PROVE  UserFate
BY DEF Formed, Addressed, UserFate, Known

(* Every step keeps the accounts. *)
LEMMA UsersStep ==
  ASSUME AccountsConstants, Formed, Addressed, AccountsNext
  PROVE  UserFate
<1> DEFINE Goal == UserFate
<1> SUFFICES Goal
  OBVIOUS
<1>0. ASSUME users' = users, passwords' = passwords PROVE Goal
  BY <1>0, SameUsers
<1>n. passwords \in Nat /\ \A u \in Known : users[u].password <= passwords /\ users[u] \in UserRows
  BY DEF Formed, Addressed
<1>h. ASSUME NEW u \in Known, Rehash(u) PROVE Goal
  <2>1. PICK row \in UserRows : Edited(u, row) /\ row.password = passwords + 1
    BY <1>h, Rehashes
  <2>2. passwords' = passwords + 1
    BY <1>h DEF Rehash
  <2>3. passwords' \in Nat /\ passwords <= passwords' /\ row.password <= passwords'
    BY <1>n, <2>1, <2>2
  <2> QED
    BY <2>1, <2>3, EditFate
<1>e. ASSUME NEW u \in Known, NEW e \in Emails \cup {NoEmail},
             users' = [users EXCEPT ![u].email = e], passwords' = passwords
      PROVE  Goal
  <2>1. PICK row \in UserRows : Edited(u, row) /\ row.password = users[u].password
    BY <1>e, GivesEmail
  <2>2. passwords' \in Nat /\ passwords <= passwords' /\ row.password <= passwords'
    BY <1>n, <1>e, <2>1
  <2> QED
    BY <2>1, <2>2, EditFate
<1> HIDE DEF Goal
<1>1. ASSUME NEW c \in Calls, Starts(c) PROVE Goal
  BY <1>0, <1>1, StartsFrame DEF tables
<1>2. ASSUME NEW c \in Calls, GoesOn(c) PROVE Goal
  <2>1. CASE ClearCodes(c) \/ MailCode(c) \/ DropCode(c) \/ Recheck(c) \/ UseCode(c) \/ CountWrong(c)
    BY <1>0, <2>1 DEF ClearCodes, MailCode, DropCode, Recheck, UseCode, CountWrong, tables
  <2>2. CASE StoreCode(c) \/ KillLinks(c) \/ RetireLinks(c)
    BY <1>0, <2>2 DEF StoreCode, KillLinks, RetireLinks
  <2>3. CASE MailLink(c) \/ ClaimLink(c) \/ StoreLink(c) \/ IssueToken(c)
    BY <1>0, <2>3 DEF MailLink, ClaimLink, StoreLink, IssueToken
  <2>4. CASE SetPassword(c)
    <3>1. call[c] # Free /\ call[c].at = "set" /\ Rehash(call[c].user)
      BY <2>4 DEF SetPassword, At
    <3>2. call[c].user \in Known
      BY <3>1 DEF Addressed, Owning
    <3> QED
      BY <1>h, <3>1, <3>2
  <2>5. CASE EditAdmin(c)
    <3>1. call[c] # Free /\ call[c].at \in Owning /\ passwords' = passwords
      BY <2>5 DEF EditAdmin, At, Owning, Editing
    <3>2. call[c].user \in Known
      BY <3>1 DEF Addressed
    <3>3. PICK row \in UserRows :
            Edited(call[c].user, row) /\ row.password = users[call[c].user].password
      BY <2>5, <3>2, EditsAdmin
    <3>4. passwords' \in Nat /\ passwords <= passwords' /\ row.password <= passwords'
      BY <1>n, <3>1, <3>2, <3>3
    <3> QED
      BY <3>2, <3>3, <3>4, EditFate DEF Goal
  <2>6. CASE Settle(c)
    <3>0. passwords' = passwords
      BY <2>6 DEF Settle
    <3>1. CASE users' = users
      BY <1>0, <3>0, <3>1
    <3>2. CASE /\ call[c].user \in Known /\ call[c].email \in Emails
               /\ users' = [users EXCEPT ![call[c].user].email = call[c].email]
      BY <1>e, <3>0, <3>2
    <3>3. CASE /\ call[c].user \in Accounts \ Known
               /\ Known' = Known \cup {call[c].user} /\ users' \in [Known' -> UserRows]
               /\ users'[call[c].user] = NewUser(call[c].email, 0)
               /\ \A v \in Known : users'[v] = users[v]
      <4>1. \A u \in Known' : users'[u].password <= passwords'
        BY <1>n, <3>0, <3>3 DEF NewUser
      <4> QED
        BY <1>n, <3>0, <3>3, <4>1 DEF Goal, UserFate, Formed
    <3> QED
      BY <2>6, <3>1, <3>2, <3>3, Settles
  <2> QED
    BY <1>2, <2>1, <2>2, <2>3, <2>4, <2>5, <2>6 DEF GoesOn
<1>3. ASSUME NEW u \in Known, NEW e \in Emails \cup {NoEmail}, EditEmail(u, e) PROVE Goal
  BY <1>e, <1>3 DEF EditEmail
<1>4. ASSUME NEW u \in Known, ResetByAdmin(u) PROVE Goal
  BY <1>h, <1>4 DEF ResetByAdmin
<1>5. ASSUME Passes PROVE Goal
  BY <1>0, <1>5 DEF Passes
<1> QED
  BY <1>1, <1>2, <1>3, <1>4, <1>5 DEF AccountsNext
-----------------------------------------------------------------------------
(* Every step keeps the types *)

(* A handler that starts: its first stage, whom it works for and what it   *)
(* has read.                                                               *)
Fresh(at, for, user, email, code, seen) ==
  \/ /\ wrong' = wrong
     /\ \/ /\ at = "store" /\ for \in Emails /\ email \in Emails /\ seen = {}
           /\ sent + Cardinality(Underway(Sending)) < MaxMails
        \/ /\ at = "clear" /\ for = user /\ user \in Known /\ email \in Emails
           /\ seen = {r.code : r \in RowsFor(user)}
           /\ sent + Cardinality(Underway(Sending)) < MaxMails
        \/ /\ at = "retire" /\ user \in Known /\ email \in Emails /\ email = users[user].email
           /\ seen = Live(user)
           /\ sent + Cardinality(Underway(Sending)) < MaxMails
        \/ /\ at = "claim" /\ user \in Known /\ email \in Emails /\ seen = {}
           /\ \E l \in links : code = l.id
        \/ /\ at \in {"set"} \cup Editing /\ user \in Known /\ seen = {} /\ code = 0
           /\ at \in Editing => for # user
        \/ at = "issue" /\ user \in Known /\ seen = {} /\ code <= passwords
  \/ /\ at \in {"drop", "count", "use"} /\ seen = {} /\ email \in Emails /\ user \in Accounts
     /\ \E row \in RowsFor(for) :
          /\ code = row.code
          /\ at = "count" => wrong' = [wrong EXCEPT ![row.code] = Min({@ + 1, MaxWrong})]
          /\ at # "count" => wrong' = wrong

(* Every handler starts as Fresh says. *)
LEMMA StartsFresh ==
  ASSUME AccountsConstants, Formed, Numbered, Addressed, NEW c \in Calls, Starts(c)
  PROVE  \E at \in Stages, for \in Emails \cup Accounts, user \in Accounts \cup {NoEmail},
            email \in Emails \cup {NoEmail}, code \in Nat, seen \in SUBSET Nat :
           Began(c, at, for, user, email, code, seen) /\ Fresh(at, for, user, email, code, seen)
<1> DEFINE Goal ==
         \E at \in Stages, for \in Emails \cup Accounts, user \in Accounts \cup {NoEmail},
            email \in Emails \cup {NoEmail}, code \in Nat, seen \in SUBSET Nat :
           Began(c, at, for, user, email, code, seen) /\ Fresh(at, for, user, email, code, seen)
<1> SUFFICES Goal
  OBVIOUS
<1> USE DEF Fresh
<1>s. /\ {"store", "clear", "retire", "claim", "set", "issue", "drop", "count", "use"} \subseteq Stages
      /\ Editing \subseteq Stages
  BY DEF Stages, Asking, Owning
<1>b. Budget => sent + Cardinality(Underway(Sending)) < MaxMails
  BY DEF Budget, Underway
<1>k. Known \subseteq Accounts /\ 0 \in Nat /\ {} \in SUBSET Nat
      /\ \A u \in Known : users[u] \in UserRows /\ users[u].password <= passwords
  BY DEF Formed, Addressed
<1>1. ASSUME NEW e \in Emails, SendCode(c, e) PROVE Goal
  <2>1. wrong' = wrong /\ Budget
    BY <1>1 DEF SendCode, history
  <2>2. Began(c, "store", e, NoEmail, e, 0, {})
    BY <1>1, StartsCall
  <2> QED
    BY <1>s, <1>b, <1>k, <2>1, <2>2
<1>2. ASSUME NEW s \in Emails \cup Accounts, NEW u \in Accounts, NEW e \in Emails, NEW k \in Typed,
             Enter(c, s, u, e, k)
      PROVE  Goal
  <2> HIDE DEF Fresh, Goal
  <2>k. k \in Nat
    BY DEF Typed, Formed
  <2>1. PICK row \in RowsFor(s), at \in {"drop", "count", "use"} : Entered(c, s, u, e, row, at)
    BY <1>2, <2>k, Entering
  <2>2. row.code \in Nat /\ at \in Stages
    BY <1>s DEF RowsFor, Formed, Rows
  <2>3. Fresh(at, s, u, e, row.code, {}) /\ Began(c, at, s, u, e, row.code, {})
    BY <2>1 DEF Fresh, Entered
  <2> QED
    BY <1>k, <2>1, <2>2, <2>3 DEF Goal
<1>3. ASSUME NEW u \in Accounts, NEW e \in Emails, SendBindCode(c, u, e) PROVE Goal
  <2>1. wrong' = wrong /\ Budget /\ u \in Known
    BY <1>3 DEF SendBindCode, history
  <2>2. Began(c, "clear", u, u, e, 0, {r.code : r \in RowsFor(u)})
    BY <1>3, StartsCall
  <2>3. {r.code : r \in RowsFor(u)} \in SUBSET Nat
    BY DEF RowsFor, Formed, Rows
  <2> QED
    BY <1>s, <1>b, <1>k, <2>1, <2>2, <2>3
<1>4. ASSUME NEW u \in Known, RequestPasswordReset(c, u) PROVE Goal
  <2>1. wrong' = wrong /\ Budget /\ users[u].email \in Emails
    BY <1>4, <1>k DEF RequestPasswordReset, history, UserRows
  <2>2. Began(c, "retire", u, u, users[u].email, 0, Live(u))
    BY <1>4, StartsCall
  <2>3. Live(u) \in SUBSET Nat
    BY DEF Live, Formed, LinkRows
  <2> QED
    BY <1>s, <1>b, <1>k, <2>1, <2>2, <2>3
<1>5. ASSUME NEW u \in Known, ChangePassword(c, u) PROVE Goal
  <2>1. wrong' = wrong
    BY <1>5 DEF ChangePassword, history
  <2>2. Began(c, "set", u, u, NoEmail, 0, {})
    BY <1>5, StartsCall
  <2>3. "set" \notin Editing
    BY DEF Editing
  <2> QED
    BY <1>s, <1>k, <2>1, <2>2, <2>3
<1>6. ASSUME NEW u \in Known, Login(c, u) PROVE Goal
  <2>1. wrong' = wrong
    BY <1>6 DEF Login, history
  <2>2. Began(c, "issue", u, u, NoEmail, users[u].password, {})
    BY <1>6, StartsCall
  <2>3. users[u].password \in Nat
    BY <1>k DEF UserRows
  <2> QED
    BY <1>s, <1>k, <2>1, <2>2, <2>3
<1>7. ASSUME NEW l \in links, ResetPassword(c, l) PROVE Goal
  <2>1. wrong' = wrong
    BY <1>7 DEF ResetPassword, history
  <2>2. Began(c, "claim", l.user, l.user, l.email, l.id, {})
    BY <1>7, StartsCall
  <2>3. l.id \in Nat /\ l.user \in Known /\ l.email \in Emails
    BY DEF Formed, LinkRows, Addressed
  <2> QED
    BY <1>s, <1>k, <2>1, <2>2, <2>3
<1>8. ASSUME NEW o \in Admins, NEW u \in Admins, NEW change \in Editing, UpdateAdmin(c, o, u, change)
      PROVE  Goal
  <2>1. wrong' = wrong
    BY <1>8 DEF UpdateAdmin, history
  <2>2. Began(c, change, o, u, NoEmail, 0, {})
    BY <1>8, StartsCall
  <2>3. u \in Known /\ o \in Accounts
    BY <1>k DEF Addressed
  <2>4. o # u
    BY <1>8 DEF UpdateAdmin, SelfLock
  <2> QED
    BY <1>s, <1>k, <2>1, <2>2, <2>3, <2>4
<1> HIDE DEF Goal, Fresh
<1>9. ASSUME NEW u \in Accounts, NEW e \in Emails, NEW k \in Typed,
             Register(c, u, e, k) \/ BindEmail(c, u, e, k)
      PROVE  Goal
  BY <1>2, <1>9 DEF Register, BindEmail
<1> QED
  BY <1>1, <1>3, <1>4, <1>5, <1>6, <1>7, <1>8, <1>9 DEF Starts
(* The handlers stay handlers, whatever step is taken. *)
LEMMA CallsFormed ==
  ASSUME AccountsConstants, Formed, Numbered, Addressed, AccountsNext
  PROVE  call' \in [Calls -> {Free} \cup Handlers]
<1> DEFINE Goal == call' \in [Calls -> {Free} \cup Handlers]
<1> SUFFICES Goal
  OBVIOUS
<1>0. ASSUME call' = call PROVE Goal
  BY <1>0 DEF Formed
<1>m. ASSUME NEW c \in Calls, NEW at, Moved(c, at) PROVE Goal
  BY <1>m DEF Moved
<1>e. ASSUME NEW c \in Calls, Ended(c) PROVE Goal
  BY <1>e DEF Ended
<1>1. ASSUME NEW c \in Calls, Starts(c) PROVE Goal
  <2>1. PICK at \in Stages, for \in Emails \cup Accounts, user \in Accounts \cup {NoEmail},
            email \in Emails \cup {NoEmail}, code \in Nat, seen \in SUBSET Nat :
           Began(c, at, for, user, email, code, seen) /\ Fresh(at, for, user, email, code, seen)
    BY <1>1, StartsFresh
  <2> QED
    BY <2>1 DEF Began
<1>2. ASSUME NEW c \in Calls, GoesOn(c) PROVE Goal
  <2>1. CASE StoreLink(c)
    BY <2>1, StoresLinkCall
  <2>2. CASE ~StoreLink(c)
    <3>1. Ended(c) \/ \E at \in {"store", "mail", "recheck", "drop", "settle", "kill", "link", "set"} :
                         Moved(c, at)
      BY <1>2, <2>2, GoesOnCall DEF GoesOn
    <3> QED
      BY <1>e, <1>m, <3>1
  <2> QED
    BY <2>1, <2>2
<1>3. ASSUME NEW u \in Known, NEW e \in Emails \cup {NoEmail}, EditEmail(u, e) PROVE Goal
  BY <1>0, <1>3 DEF EditEmail
<1>4. ASSUME NEW u \in Known, ResetByAdmin(u) PROVE Goal
  BY <1>0, <1>4 DEF ResetByAdmin
<1>5. ASSUME Passes PROVE Goal
  BY <1>0, <1>5 DEF Passes
<1> HIDE DEF Goal
<1> QED
  BY <1>1, <1>2, <1>3, <1>4, <1>5 DEF AccountsNext

(* A call takes the code or the link it has. *)
Uses(c) ==
  /\ (UseCode(c) /\ Spent(c)) \/ (ClaimLink(c) /\ Unclaimed(c) # {})
  /\ uses' = [uses EXCEPT ![call[c].code] = @ + 1]

(* A code or link is used by the handler that has it. *)
LEMMA UsesStep ==
  ASSUME AccountsConstants, Formed, Numbered, Addressed, AccountsNext
  PROVE  \/ uses' = uses
         \/ \E c \in Calls : Uses(c)
<1> DEFINE Goal == uses' = uses \/ \E c \in Calls : Uses(c)
<1> SUFFICES Goal
  OBVIOUS
<1>0. ASSUME uses' = uses PROVE Goal
  BY <1>0
<1>u. ASSUME NEW c \in Calls, UseCode(c) PROVE Goal
  <2>1. CASE Spent(c)
    <3>1. uses' = [uses EXCEPT ![call[c].code] = @ + 1]
      BY <1>u, <2>1 DEF UseCode
    <3>2. Uses(c)
      BY <1>u, <2>1, <3>1 DEF Uses
    <3> QED
      BY <3>2
  <2>2. CASE ~Spent(c)
    BY <1>u, <2>2 DEF UseCode
  <2> QED
    BY <2>1, <2>2
<1>l. ASSUME NEW c \in Calls, ClaimLink(c) PROVE Goal
  <2>1. CASE Unclaimed(c) # {}
    <3>1. Uses(c)
      BY <1>l, <2>1 DEF ClaimLink, Uses
    <3> QED
      BY <3>1
  <2>2. CASE Unclaimed(c) = {}
    BY <1>l, <2>2 DEF ClaimLink
  <2> QED
    BY <2>1, <2>2
<1> HIDE DEF Goal
<1>1. ASSUME NEW c \in Calls, Starts(c) PROVE Goal
  BY <1>0, <1>1, StartsFrame
<1>2. ASSUME NEW c \in Calls, GoesOn(c) PROVE Goal
  <2>1. CASE ClearCodes(c) \/ MailCode(c) \/ DropCode(c) \/ Recheck(c) \/ CountWrong(c)
    BY <1>0, <2>1 DEF ClearCodes, MailCode, DropCode, Recheck, CountWrong, history
  <2>2. CASE Settle(c) \/ MailLink(c) \/ StoreCode(c) \/ StoreLink(c)
    BY <1>0, <2>2 DEF Settle, MailLink, StoreCode, StoreLink, history
  <2>3. CASE SetPassword(c) \/ IssueToken(c) \/ EditAdmin(c)
    BY <1>0, <2>3 DEF SetPassword, IssueToken, EditAdmin, history
  <2>4. CASE KillLinks(c) \/ RetireLinks(c)
    BY <1>0, <2>4 DEF KillLinks, RetireLinks, history
  <2> QED
    BY <1>2, <1>u, <1>l, <2>1, <2>2, <2>3, <2>4 DEF GoesOn
<1>3. ASSUME NEW u \in Known, NEW e \in Emails \cup {NoEmail}, EditEmail(u, e) PROVE Goal
  BY <1>0, <1>3 DEF EditEmail
<1>4. ASSUME NEW u \in Known, ResetByAdmin(u) PROVE Goal
  BY <1>0, <1>4 DEF ResetByAdmin, history
<1>5. ASSUME Passes PROVE Goal
  BY <1>0, <1>5 DEF Passes, history
<1> QED
  BY <1>1, <1>2, <1>3, <1>4, <1>5 DEF AccountsNext

(* Only a wrong answer counts as one. *)
LEMMA WrongStep ==
  ASSUME AccountsConstants, Formed, Numbered, Addressed, AccountsNext
  PROVE  wrong' = wrong \/ \E c \in Calls : Starts(c)
<1> DEFINE Goal == wrong' = wrong \/ \E c \in Calls : Starts(c)
<1> SUFFICES Goal
  OBVIOUS
<1>0. ASSUME wrong' = wrong PROVE Goal
  BY <1>0
<1>1. ASSUME NEW c \in Calls, Starts(c) PROVE Goal
  BY <1>1
<1> HIDE DEF Goal
<1>2. ASSUME NEW c \in Calls, GoesOn(c) PROVE Goal
  <2>1. CASE ClearCodes(c) \/ MailCode(c) \/ DropCode(c) \/ Recheck(c) \/ CountWrong(c) \/ UseCode(c)
    BY <1>0, <2>1 DEF ClearCodes, MailCode, DropCode, Recheck, CountWrong, UseCode, history
  <2>2. CASE Settle(c) \/ MailLink(c) \/ StoreCode(c) \/ StoreLink(c) \/ ClaimLink(c)
    BY <1>0, <2>2 DEF Settle, MailLink, StoreCode, StoreLink, ClaimLink, history
  <2>3. CASE SetPassword(c) \/ IssueToken(c) \/ EditAdmin(c)
    BY <1>0, <2>3 DEF SetPassword, IssueToken, EditAdmin, history
  <2>4. CASE KillLinks(c) \/ RetireLinks(c)
    BY <1>0, <2>4 DEF KillLinks, RetireLinks, history
  <2> QED
    BY <1>2, <2>1, <2>2, <2>3, <2>4 DEF GoesOn
<1>3. ASSUME NEW u \in Known, NEW e \in Emails \cup {NoEmail}, EditEmail(u, e) PROVE Goal
  BY <1>0, <1>3 DEF EditEmail
<1>4. ASSUME NEW u \in Known, ResetByAdmin(u) PROVE Goal
  BY <1>0, <1>4 DEF ResetByAdmin, history
<1>5. ASSUME Passes PROVE Goal
  BY <1>0, <1>5 DEF Passes, history
<1> QED
  BY <1>1, <1>2, <1>3, <1>4, <1>5 DEF AccountsNext

(* A wrong answer adds one to the count of the row that was read. *)
LEMMA WrongFate ==
  ASSUME AccountsConstants, Formed, Numbered, Addressed, AccountsNext
  PROVE  \/ wrong' = wrong
         \/ \E c \in Calls, s \in Emails \cup Accounts, u \in Accounts, e \in Emails :
              \E row \in RowsFor(s) :
                 /\ Starts(c) /\ Began(c, "count", s, u, e, row.code, {})
                 /\ wrong' = [wrong EXCEPT ![row.code] = Min({@ + 1, MaxWrong})]
<1>1. ASSUME NEW c \in Calls, Starts(c), wrong' # wrong
      PROVE  \E s \in Emails \cup Accounts, u \in Accounts, e \in Emails : \E row \in RowsFor(s) :
                 /\ Began(c, "count", s, u, e, row.code, {})
                 /\ wrong' = [wrong EXCEPT ![row.code] = Min({@ + 1, MaxWrong})]
  <2>1. PICK at \in Stages, for \in Emails \cup Accounts, user \in Accounts \cup {NoEmail},
            email \in Emails \cup {NoEmail}, code \in Nat, seen \in SUBSET Nat :
           Began(c, at, for, user, email, code, seen) /\ Fresh(at, for, user, email, code, seen)
    BY <1>1, StartsFresh
  <2>2. PICK row \in RowsFor(for) :
          /\ seen = {} /\ email \in Emails /\ user \in Accounts /\ code = row.code
          /\ at = "count" /\ wrong' = [wrong EXCEPT ![row.code] = Min({@ + 1, MaxWrong})]
    BY <1>1, <2>1 DEF Fresh
  <2>3. Began(c, "count", for, user, email, row.code, {})
    BY <2>1, <2>2
  <2> QED
    BY <2>2, <2>3
<1> QED
  BY <1>1, WrongStep
(* What is superseded: what the handler saw that stores the newer one. *)
LEMMA SupersededStep ==
  ASSUME AccountsConstants, Formed, Numbered, Addressed, AccountsNext
  PROVE  \/ superseded' = superseded
         \/ \E c \in Calls : StoreCode(c)
         \/ \E c \in Calls : StoreLink(c)
<1> DEFINE Goal == \/ superseded' = superseded
                   \/ \E c \in Calls : StoreCode(c)
                   \/ \E c \in Calls : StoreLink(c)
<1> SUFFICES Goal
  OBVIOUS
<1>0. ASSUME superseded' = superseded PROVE Goal
  BY <1>0
<1>s. ASSUME NEW c \in Calls, StoreCode(c) \/ StoreLink(c) PROVE Goal
  BY <1>s
<1> HIDE DEF Goal
<1>1. ASSUME NEW c \in Calls, Starts(c) PROVE Goal
  BY <1>0, <1>1, StartsFrame
<1>2. ASSUME NEW c \in Calls, GoesOn(c) PROVE Goal
  <2>1. CASE ClearCodes(c) \/ MailCode(c) \/ DropCode(c) \/ Recheck(c) \/ CountWrong(c) \/ UseCode(c)
    BY <1>0, <2>1 DEF ClearCodes, MailCode, DropCode, Recheck, CountWrong, UseCode, history
  <2>2. CASE Settle(c) \/ MailLink(c) \/ ClaimLink(c)
    BY <1>0, <2>2 DEF Settle, MailLink, ClaimLink, history
  <2>3. CASE SetPassword(c) \/ IssueToken(c) \/ EditAdmin(c)
    BY <1>0, <2>3 DEF SetPassword, IssueToken, EditAdmin, history
  <2>4. CASE KillLinks(c) \/ RetireLinks(c)
    BY <1>0, <2>4 DEF KillLinks, RetireLinks, history
  <2> QED
    BY <1>2, <1>s, <2>1, <2>2, <2>3, <2>4 DEF GoesOn
<1>3. ASSUME NEW u \in Known, NEW e \in Emails \cup {NoEmail}, EditEmail(u, e) PROVE Goal
  BY <1>0, <1>3 DEF EditEmail
<1>4. ASSUME NEW u \in Known, ResetByAdmin(u) PROVE Goal
  BY <1>0, <1>4 DEF ResetByAdmin, history
<1>5. ASSUME Passes PROVE Goal
  BY <1>0, <1>5 DEF Passes, history
<1> QED
  BY <1>1, <1>2, <1>3, <1>4, <1>5 DEF AccountsNext

(* A session is opened with the password and the fingerprint it was read    *)
(* with.                                                                    *)
LEMMA SessionStep ==
  ASSUME AccountsConstants, Formed, Numbered, Addressed, AccountsNext
  PROVE  \/ session' = session
         \/ /\ session' \in Tokens /\ session'.user \in Known
            /\ session'.typed = session'.ver
<1> DEFINE Goal == \/ session' = session
                   \/ /\ session' \in Tokens /\ session'.user \in Known
                      /\ session'.typed = session'.ver
<1> SUFFICES Goal
  OBVIOUS
<1>0. ASSUME session' = session PROVE Goal
  BY <1>0
<1>i. ASSUME NEW c \in Calls, IssueToken(c) PROVE Goal
  <2>1. call[c] # Free /\ call[c].at = "issue"
    BY <1>i DEF IssueToken, At
  <2>2. call[c].user \in Known /\ call[c].user \in Accounts /\ call[c].code \in Nat
    BY <2>1 DEF Addressed, Owning, Formed, Handlers
  <2>3. session' = [user |-> call[c].user, typed |-> call[c].code, ver |-> call[c].code]
    BY <1>i DEF IssueToken, SessionVer
  <2> QED
    BY <2>2, <2>3 DEF Tokens
<1> HIDE DEF Goal
<1>1. ASSUME NEW c \in Calls, Starts(c) PROVE Goal
  BY <1>0, <1>1, StartsFrame DEF tables
<1>2. ASSUME NEW c \in Calls, GoesOn(c) PROVE Goal
  <2>1. CASE ClearCodes(c) \/ MailCode(c) \/ DropCode(c) \/ Recheck(c) \/ CountWrong(c) \/ UseCode(c)
    BY <1>0, <2>1 DEF ClearCodes, MailCode, DropCode, Recheck, CountWrong, UseCode, tables
  <2>2. CASE Settle(c) \/ MailLink(c) \/ ClaimLink(c)
    BY <1>0, <2>2 DEF Settle, MailLink, ClaimLink
  <2>3. CASE SetPassword(c) \/ EditAdmin(c) \/ StoreCode(c) \/ StoreLink(c)
    BY <1>0, <2>3 DEF SetPassword, EditAdmin, StoreCode, StoreLink
  <2>4. CASE KillLinks(c) \/ RetireLinks(c)
    BY <1>0, <2>4 DEF KillLinks, RetireLinks
  <2> QED
    BY <1>2, <1>i, <2>1, <2>2, <2>3, <2>4 DEF GoesOn
<1>3. ASSUME NEW u \in Known, NEW e \in Emails \cup {NoEmail}, EditEmail(u, e) PROVE Goal
  BY <1>0, <1>3 DEF EditEmail
<1>4. ASSUME NEW u \in Known, ResetByAdmin(u) PROVE Goal
  BY <1>0, <1>4 DEF ResetByAdmin
<1>5. ASSUME Passes PROVE Goal
  BY <1>0, <1>5 DEF Passes
<1> QED
  BY <1>1, <1>2, <1>3, <1>4, <1>5 DEF AccountsNext

(* What the code of a handler at its last look is: a number given out. *)
LEMMA UsedCode ==
  ASSUME AccountsConstants, Formed, Numbered, Addressed, NEW c \in Calls, Uses(c)
  PROVE  /\ call[c] \in Handlers /\ call[c].code \in 1..sent /\ call[c].code \in 1..MaxMails
         /\ sent \in Nat
<1>1. call[c] # Free /\ call[c].at \in {"use", "claim"}
  BY DEF Uses, UseCode, ClaimLink, At
<1>2. call[c].code \in 1..sent /\ call[c] \in Handlers
  BY <1>1 DEF Numbered, Formed
<1>3. sent <= MaxMails
  <2>1. IsFiniteSet(Underway(Sending))
    BY FS_Subset DEF AccountsConstants, Underway
  <2>2. Cardinality(Underway(Sending)) \in Nat
    BY <2>1, FS_CardinalityType
  <2> QED
    BY <2>2 DEF Numbered, Formed, AccountsConstants
<1> QED
  BY <1>2, <1>3 DEF Formed, AccountsConstants

(* Every step keeps the types. *)
LEMMA FormedStep ==
  ASSUME AccountsConstants, Formed, Numbered, Addressed, AccountsNext
  PROVE  Formed'
<1>n. sent \in Nat /\ passwords \in Nat
  BY DEF Formed
<1>1. (Known \subseteq Accounts /\ users \in [Known -> UserRows] /\ passwords \in Nat)'
  BY UsersStep DEF UserFate
<1>2. (codes \subseteq Rows /\ sent \in Nat)'
  <2>1. CASE RowFate /\ sent' = sent
    BY <1>n, <2>1 DEF RowFate
  <2>2. ASSUME NEW c \in Calls, StoreCode(c) PROVE (codes \subseteq Rows /\ sent \in Nat)'
    <3>1. NewRow(c) \in Rows /\ codes' = (codes \ Stored(call[c].for)) \cup {NewRow(c)} /\ sent' = sent + 1
      BY <2>2, StoresRow
    <3> QED
      BY <1>n, <3>1 DEF Formed
  <2>3. ASSUME NEW c \in Calls, StoreLink(c), RowFate PROVE (codes \subseteq Rows /\ sent \in Nat)'
    BY <1>n, <2>3, StoresLink DEF RowFate
  <2> QED
    BY <2>1, <2>2, <2>3, TableStep
<1>3. (links \subseteq LinkRows)'
  <2>1. CASE LinkFate
    BY <2>1 DEF LinkFate
  <2>2. ASSUME NEW c \in Calls, StoreLink(c) PROVE (links \subseteq LinkRows)'
    <3>1. NewLink(c) \in LinkRows /\ links' = links \cup {NewLink(c)}
      BY <2>2, StoresLink
    <3> QED
      BY <3>1 DEF Formed
  <2> QED
    BY <2>1, <2>2, LinksStep
<1>4. (session \in {Free} \cup Tokens)'
  BY SessionStep DEF Formed, Free
<1>5. (call \in [Calls -> {Free} \cup Handlers])'
  BY CallsFormed DEF Free, Handlers
<1>6. (uses \in [1..MaxMails -> Nat])'
  <2>1. uses \in [1..MaxMails -> Nat]
    BY DEF Formed
  <2>2. ASSUME NEW c \in Calls, Uses(c) PROVE uses' \in [1..MaxMails -> Nat]
    <3> DEFINE k == call[c].code
    <3>1. k \in 1..MaxMails
      BY <2>2, UsedCode
    <3>2. uses' = [uses EXCEPT ![k] = @ + 1]
      BY <2>2 DEF Uses
    <3> HIDE DEF k
    <3> QED
      BY <2>1, <3>1, <3>2
  <2> QED
    BY <2>1, <2>2, UsesStep
<1>7. (wrong \in [1..MaxMails -> Nat])'
  <2>1. wrong \in [1..MaxMails -> Nat]
    BY DEF Formed
  <2>2. ASSUME NEW k \in Nat, wrong' = [wrong EXCEPT ![k] = Min({@ + 1, MaxWrong})]
        PROVE  wrong' \in [1..MaxMails -> Nat]
    <3>1. CASE k \in 1..MaxMails
      <4>1. wrong[k] + 1 \in Nat /\ MaxWrong \in Nat
        BY <2>1, <3>1 DEF AccountsConstants
      <4>2. Min({wrong[k] + 1, MaxWrong}) \in Nat
        BY <4>1, LeastOfTwo
      <4> QED
        BY <2>1, <2>2, <4>2
    <3>2. CASE k \notin 1..MaxMails
      BY <2>1, <2>2, <3>2
    <3> QED
      BY <3>1, <3>2
  <2>3. ASSUME NEW s \in Emails \cup Accounts, NEW row \in RowsFor(s)
        PROVE  row.code \in Nat
    BY DEF RowsFor, Formed, Rows
  <2> QED
    BY <2>1, <2>2, <2>3, WrongFate
<1>8. (superseded \subseteq Nat)'
  <2>0. superseded \subseteq Nat
    BY DEF Formed
  <2>1. ASSUME NEW c \in Calls, StoreCode(c) PROVE superseded' \subseteq Nat
    <3>1. call[c].seen \subseteq Nat
      BY <2>1 DEF StoreCode, At, Formed, Handlers
    <3>2. \A r \in codes : r.code \in Nat
      BY DEF Formed, Rows
    <3> QED
      BY <2>0, <2>1, <3>1, <3>2 DEF StoreCode, RowsFor
  <2>2. ASSUME NEW c \in Calls, StoreLink(c) PROVE superseded' \subseteq Nat
    <3>1. call[c].seen \subseteq Nat
      BY <2>2 DEF StoreLink, At, Formed, Handlers
    <3> QED
      BY <2>0, <2>2, <3>1 DEF StoreLink
  <2> QED
    BY <2>0, <2>1, <2>2, SupersededStep
<1> QED
  BY <1>1, <1>2, <1>3, <1>4, <1>5, <1>6, <1>7, <1>8 DEF Formed
-----------------------------------------------------------------------------
(* The steps of one handler *)

Edges ==
  {<<"clear", "store">>, <<"store", "mail">>, <<"count", "recheck">>, <<"recheck", "drop">>,
   <<"use", "settle">>, <<"settle", "kill">>, <<"retire", "link">>, <<"claim", "set">>}

(* The handler stands still, ends, stores a link, starts or goes on. *)
HandlerStep(d) ==
  \/ call'[d] = call[d]
  \/ call'[d] = Free
  \/ StoreLink(d)
  \/ /\ Starts(d)
     /\ \E at \in Stages, for \in Emails \cup Accounts, user \in Accounts \cup {NoEmail},
           email \in Emails \cup {NoEmail}, code \in Nat, seen \in SUBSET Nat :
           Began(d, at, for, user, email, code, seen) /\ Fresh(at, for, user, email, code, seen)
  \/ /\ GoesOn(d) /\ call[d] # Free
     /\ \E to \in Stages : /\ Moved(d, to) /\ <<call[d].at, to>> \in Edges
                           /\ to = "kill" => call[d].user \in Known

(* Every step is one of these to every handler. *)
LEMMA HandlerSteps ==
  ASSUME AccountsConstants, Formed, Numbered, Addressed, AccountsNext
  PROVE  \A d \in Calls : HandlerStep(d)
<1> TAKE d \in Calls
<1>0. ASSUME call' = call PROVE HandlerStep(d)
  BY <1>0 DEF HandlerStep
<1>1. ASSUME NEW c \in Calls, Starts(c) PROVE HandlerStep(d)
  <2>1. \E at \in Stages, for \in Emails \cup Accounts, user \in Accounts \cup {NoEmail},
            email \in Emails \cup {NoEmail}, code \in Nat, seen \in SUBSET Nat :
           Began(c, at, for, user, email, code, seen) /\ Fresh(at, for, user, email, code, seen)
    BY <1>1, StartsFresh
  <2>2. CASE c = d
    BY <1>1, <2>1, <2>2 DEF HandlerStep
  <2>3. CASE c # d
    BY <2>1, <2>3 DEF HandlerStep, Began
  <2> QED
    BY <2>2, <2>3
<1>2. ASSUME NEW c \in Calls, GoesOn(c) PROVE HandlerStep(d)
  <2>1. CASE StoreLink(c)
    <3>1. \A b \in Calls : b # c => call'[b] = call[b]
      BY <2>1, StoresLinkCall
    <3> QED
      BY <2>1, <3>1 DEF HandlerStep
  <2>2. CASE Ended(c)
    BY <2>2 DEF Ended, HandlerStep
  <2>3. CASE ~StoreLink(c) /\ ~Ended(c)
    <3>1. \E to \in Stages : /\ Moved(c, to) /\ <<call[c].at, to>> \in Edges
                             /\ call[c] # Free
                             /\ to = "kill" => call[c].user \in Known
      <4>0. {"store", "mail", "recheck", "drop", "settle", "kill", "link", "set"} \subseteq Stages
        BY DEF Stages, Asking, Owning
      <4>1. CASE ClearCodes(c)
        <5>1. Moved(c, "store") /\ call[c] # Free /\ call[c].at = "clear"
          BY <4>1, GoesOnCall DEF ClearCodes, At
        <5> QED
          BY <4>0, <5>1 DEF Edges
      <4>2. CASE StoreCode(c)
        <5>1. Moved(c, "mail") /\ call[c] # Free /\ call[c].at = "store"
          BY <4>2, GoesOnCall DEF StoreCode, At
        <5> QED
          BY <4>0, <5>1 DEF Edges
      <4>3. CASE CountWrong(c)
        <5>1. Moved(c, "recheck") /\ call[c] # Free /\ call[c].at = "count"
          BY <2>3, <4>3, GoesOnCall DEF CountWrong, At
        <5> QED
          BY <4>0, <5>1 DEF Edges
      <4>4. CASE Recheck(c)
        <5>1. Moved(c, "drop") /\ call[c] # Free /\ call[c].at = "recheck"
          BY <2>3, <4>4, GoesOnCall DEF Recheck, At
        <5> QED
          BY <4>0, <5>1 DEF Edges
      <4>5. CASE UseCode(c)
        <5>1. Moved(c, "settle") /\ call[c] # Free /\ call[c].at = "use"
          BY <2>3, <4>5, GoesOnCall DEF UseCode, At
        <5> QED
          BY <4>0, <5>1 DEF Edges
      <4>6. CASE Settle(c)
        <5>1. Moved(c, "kill") /\ call[c] # Free /\ call[c].at = "settle"
          BY <2>3, <4>6, GoesOnCall DEF Settle, At
        <5>2. call[c].user \in Known
          BY <2>3, <4>6, Settles
        <5> QED
          BY <4>0, <5>1, <5>2 DEF Edges
      <4>7. CASE RetireLinks(c)
        <5>1. Moved(c, "link") /\ call[c] # Free /\ call[c].at = "retire"
          BY <4>7, GoesOnCall DEF RetireLinks, At
        <5> QED
          BY <4>0, <5>1 DEF Edges
      <4>8. CASE ClaimLink(c)
        <5>1. Moved(c, "set") /\ call[c] # Free /\ call[c].at = "claim"
          BY <2>3, <4>8, GoesOnCall DEF ClaimLink, At
        <5> QED
          BY <4>0, <5>1 DEF Edges
      <4> QED
        BY <1>2, <2>3, <4>1, <4>2, <4>3, <4>4, <4>5, <4>6, <4>7, <4>8, GoesOnCall DEF GoesOn
    <3>2. CASE c = d
      BY <1>2, <3>1, <3>2 DEF HandlerStep
    <3>3. CASE c # d
      BY <3>1, <3>3 DEF Moved, HandlerStep
    <3> QED
      BY <3>2, <3>3
  <2> QED
    BY <2>1, <2>2, <2>3
<1>3. ASSUME NEW u \in Known, NEW e \in Emails \cup {NoEmail}, EditEmail(u, e) PROVE HandlerStep(d)
  BY <1>0, <1>3 DEF EditEmail
<1>4. ASSUME NEW u \in Known, ResetByAdmin(u) PROVE HandlerStep(d)
  BY <1>0, <1>4 DEF ResetByAdmin
<1>5. ASSUME Passes PROVE HandlerStep(d)
  BY <1>0, <1>5 DEF Passes
<1> QED
  BY <1>1, <1>2, <1>3, <1>4, <1>5 DEF AccountsNext

(* Every step keeps for whom the handlers work. *)
LEMMA AddressedStep ==
  ASSUME AccountsConstants, Formed, Numbered, Addressed, AccountsNext
  PROVE  Addressed'
<1>1. UserFate
  BY UsersStep
<1>2. (Admins \subseteq Known /\ \A u \in Known : users[u].password <= passwords)'
  BY <1>1 DEF UserFate, Addressed
<1>3. (\A l \in links : l.user \in Known)'
  <2>1. CASE LinkFate
    BY <1>1, <2>1 DEF LinkFate, UserFate, Addressed
  <2>2. ASSUME NEW c \in Calls, StoreLink(c) PROVE (\A l \in links : l.user \in Known)'
    <3>1. NewLink(c).user \in Known /\ links' = links \cup {NewLink(c)}
      BY <2>2, StoresLink
    <3> QED
      BY <1>1, <3>1 DEF UserFate, Addressed
  <2> QED
    BY <2>1, <2>2, LinksStep
<1>4. (session # Free => session.user \in Known)'
  <2>1. CASE session' = session
    BY <1>1, <2>1 DEF UserFate, Addressed, Free
  <2>2. CASE session'.user \in Known
    BY <1>1, <2>2 DEF UserFate
  <2> QED
    BY <2>1, <2>2, SessionStep
<1>5. ASSUME NEW c \in Calls, call'[c] # Free
      PROVE  /\ call'[c].at \in Asking => call'[c].email \in Emails
             /\ call'[c].at \in Owning => call'[c].user \in Known'
             /\ call'[c].at \in {"use", "settle"} => call'[c].user \in Accounts
             /\ call'[c].at = "issue" => call'[c].code <= passwords'
  <2>0. passwords \in Nat /\ passwords' \in Nat /\ passwords <= passwords' /\ Known \subseteq Known'
    BY <1>1 DEF UserFate, Formed
  <2>1. CASE call'[c] = call[c]
    <3>1. call[c] \in Handlers /\ call[c] # Free
      BY <1>5, <2>1 DEF Formed
    <3>2. call[c].code \in Nat
      BY <3>1 DEF Handlers
    <3> QED
      BY <2>0, <2>1, <3>1, <3>2 DEF Addressed
  <2>2. CASE StoreLink(c)
    <3>1. call[c] # Free /\ call[c].at = "link"
      BY <2>2 DEF StoreLink, At
    <3>2. call[c].email \in Emails /\ call[c].user \in Known
      BY <3>1 DEF Addressed, Asking, Owning
    <3>3. call'[c].at = "mail link" /\ call'[c].email = call[c].email /\ call'[c].user = call[c].user
      BY <2>2, StoresLinkCall
    <3> QED
      BY <2>0, <3>2, <3>3
  <2>3. ASSUME NEW at \in Stages, NEW for \in Emails \cup Accounts, NEW user \in Accounts \cup {NoEmail},
               NEW email \in Emails \cup {NoEmail}, NEW code \in Nat, NEW seen \in SUBSET Nat,
               Began(c, at, for, user, email, code, seen), Fresh(at, for, user, email, code, seen)
        PROVE  /\ call'[c].at \in Asking => call'[c].email \in Emails
               /\ call'[c].at \in Owning => call'[c].user \in Known'
               /\ call'[c].at \in {"use", "settle"} => call'[c].user \in Accounts
               /\ call'[c].at = "issue" => call'[c].code <= passwords'
    <3>1. /\ call'[c].at = at /\ call'[c].email = email /\ call'[c].user = user
          /\ call'[c].code = code
      BY <2>3 DEF Began
    <3>2. at \in Asking => email \in Emails
      BY <2>3 DEF Fresh, Asking, Editing
    <3>3. at \in Owning => user \in Known
      BY <2>3 DEF Fresh, Owning, Editing
    <3>4. at \in {"use", "settle"} => user \in Accounts
      BY <2>3 DEF Fresh, Editing
    <3>5. at = "issue" => code <= passwords
      BY <2>3 DEF Fresh, Editing
    <3> QED
      BY <2>0, <3>1, <3>2, <3>3, <3>4, <3>5
  <2>4. ASSUME NEW to \in Stages, call[c] # Free, Moved(c, to), <<call[c].at, to>> \in Edges,
               to = "kill" => call[c].user \in Known
        PROVE  /\ call'[c].at \in Asking => call'[c].email \in Emails
               /\ call'[c].at \in Owning => call'[c].user \in Known'
               /\ call'[c].at \in {"use", "settle"} => call'[c].user \in Accounts
               /\ call'[c].at = "issue" => call'[c].code <= passwords'
    <3>1. call'[c].at = to /\ call'[c].email = call[c].email /\ call'[c].user = call[c].user
      BY <2>4 DEF Moved
    <3>2. to \in Asking => call[c].at \in Asking
      BY <2>4 DEF Edges, Asking
    <3>3. to \in Owning => to = "kill" \/ call[c].at \in Owning
      BY <2>4 DEF Edges, Owning, Editing
    <3>4. to \in {"use", "settle"} => call[c].at \in {"use", "settle"}
      BY <2>4 DEF Edges
    <3>5. to # "issue"
      BY <2>4 DEF Edges
    <3> QED
      BY <2>0, <2>4, <3>1, <3>2, <3>3, <3>4, <3>5 DEF Addressed
  <2> QED
    BY <1>5, <2>1, <2>2, <2>3, <2>4, HandlerSteps DEF HandlerStep
<1> QED
  BY <1>2, <1>3, <1>4, <1>5 DEF Addressed, Free
-----------------------------------------------------------------------------
(* Numbers are given out once *)

(* The calls under way are finitely many. *)
LEMMA FiniteUnderway ==
  ASSUME AccountsConstants, NEW S
  PROVE  IsFiniteSet(Underway(S)) /\ Cardinality(Underway(S)) \in Nat
<1>1. IsFiniteSet(Underway(S))
  BY FS_Subset DEF AccountsConstants, Underway
<1> QED
  BY <1>1, FS_CardinalityType

(* The mails asked for and not yet stored keep within the bound. *)
LEMMA BudgetStep ==
  ASSUME AccountsConstants, Formed, Numbered, Addressed, AccountsNext
  PROVE  (sent + Cardinality(Underway(Sending)) <= MaxMails)'
<1> DEFINE U == Underway(Sending)
           V == {c \in Calls : call'[c].at \in Sending}
<1>0. U' = V
  BY DEF Underway
<1>1. IsFiniteSet(U) /\ Cardinality(U) \in Nat /\ sent \in Nat /\ MaxMails \in Nat
      /\ sent + Cardinality(U) <= MaxMails
  BY FiniteUnderway DEF Numbered, Formed, AccountsConstants
<1>2. ASSUME V \subseteq U, sent' = sent PROVE sent' + Cardinality(V) <= MaxMails
  <2>1. Cardinality(V) <= Cardinality(U) /\ Cardinality(V) \in Nat
    BY <1>1, <1>2, FS_Subset, FS_CardinalityType
  <2> QED
    BY <1>1, <1>2, <2>1
<1>f. Free.at \notin Sending
  BY DEF Free, Sending
<1>3. ASSUME NEW c \in Calls, StoreCode(c) \/ StoreLink(c) PROVE sent' + Cardinality(V) <= MaxMails
  <2>1. c \in U
    BY <1>3 DEF StoreCode, StoreLink, At, Underway, Sending
  <2>2. call'[c].at \notin Sending /\ \A d \in Calls : d # c => call'[d] = call[d]
    <3>1. CASE StoreCode(c)
      BY <3>1, GoesOnCall DEF Moved, Sending
    <3>2. CASE StoreLink(c)
      BY <3>2, StoresLinkCall DEF Sending
    <3> QED
      BY <1>3, <3>1, <3>2
  <2>3. V = U \ {c}
    BY <2>1, <2>2 DEF Underway
  <2>4. Cardinality(V) = Cardinality(U) - 1
    BY <1>1, <2>1, <2>3, FS_RemoveElement, ZenonT(30)
  <2>5. sent' = sent + 1
    BY <1>3 DEF StoreCode, StoreLink
  <2> QED
    BY <1>1, <2>4, <2>5
<1>4. ASSUME NEW c \in Calls, Starts(c) PROVE sent' + Cardinality(V) <= MaxMails
  <2>0. sent' = sent
    BY <1>4, StartsFrame DEF tables
  <2>1. PICK at \in Stages, for \in Emails \cup Accounts, user \in Accounts \cup {NoEmail},
            email \in Emails \cup {NoEmail}, code \in Nat, seen \in SUBSET Nat :
           Began(c, at, for, user, email, code, seen) /\ Fresh(at, for, user, email, code, seen)
    BY <1>4, StartsFresh
  <2>2. /\ call[c] = Free /\ call'[c].at = at
        /\ \A d \in Calls : d # c => call'[d] = call[d]
    BY <2>1 DEF Began
  <2>3. CASE at \in Sending
    <3>1. sent + Cardinality(U) < MaxMails
      BY <2>1, <2>3 DEF Fresh, Sending, Editing
    <3>2. V = U \cup {c} /\ c \notin U
      BY <1>f, <2>2, <2>3 DEF Underway
    <3>3. Cardinality(V) = Cardinality(U) + 1
      BY <1>1, <3>2, FS_AddElement
    <3> QED
      BY <1>1, <2>0, <3>1, <3>3
  <2>4. CASE at \notin Sending
    <3>1. V \subseteq U
      BY <2>2, <2>4 DEF Underway
    <3> QED
      BY <1>2, <2>0, <3>1
  <2> QED
    BY <2>3, <2>4
<1>5. ASSUME \A c \in Calls : ~StoreCode(c) /\ ~StoreLink(c) /\ ~Starts(c)
      PROVE  sent' + Cardinality(V) <= MaxMails
  <2>1. sent' = sent
    BY <1>5, RowsStep
  <2>2. ASSUME NEW d \in V PROVE d \in U
    <3>1. CASE call'[d] = call[d]
      BY <3>1 DEF Underway
    <3>2. CASE call'[d] = Free
      BY <1>f, <3>2
    <3>3. ASSUME NEW to \in Stages, Moved(d, to), <<call[d].at, to>> \in Edges PROVE d \in U
      <4>1. to \in Sending
        BY <3>3 DEF Moved
      <4>2. call[d].at \in Sending
        BY <3>3, <4>1 DEF Edges, Sending
      <4> QED
        BY <4>2 DEF Underway
    <3>4. HandlerStep(d)
      BY HandlerSteps
    <3> QED
      BY <1>5, <3>1, <3>2, <3>3, <3>4 DEF HandlerStep
  <2> QED
    BY <1>2, <2>1, <2>2
<1>6. sent' + Cardinality(V) <= MaxMails
  BY <1>3, <1>4, <1>5
<1> QED
  BY <1>0, <1>6

(* Every step keeps the numbers of codes and links apart. *)
LEMMA NumberedStep ==
  ASSUME AccountsConstants, Formed, Numbered, Addressed, AccountsNext
  PROVE  Numbered'
<1>n. sent \in Nat /\ sent' \in Nat /\ sent <= sent'
  <2>1. sent \in Nat
    BY DEF Formed
  <2>2. sent' = sent \/ sent' = sent + 1
    BY RowsStep DEF StoreCode, StoreLink
  <2> QED
    BY <2>1, <2>2
<1>r. \A r \in codes : r.code \in 1..sent
  BY DEF Numbered
<1>l. \A l \in links : l.id \in 1..sent
  BY DEF Numbered
<1>1. (\A r \in codes : r.code \in 1..sent)'
  <2>1. CASE RowFate
    <3> TAKE r \in codes'
    <3>1. PICK q \in codes : r.code = q.code
      BY <2>1 DEF RowFate
    <3> QED
      BY <1>n, <1>r, <3>1
  <2>2. ASSUME NEW c \in Calls, StoreCode(c) PROVE \A r \in codes' : r.code \in 1..sent'
    <3>1. codes' = (codes \ Stored(call[c].for)) \cup {NewRow(c)} /\ NewRow(c).code = sent + 1
          /\ sent' = sent + 1
      BY <2>2, StoresRow
    <3> QED
      BY <1>n, <1>r, <3>1
  <2> QED
    BY <2>1, <2>2, TableStep
<1>2. (\A l \in links : l.id \in 1..sent)'
  <2>1. CASE LinkFate
    <3> TAKE l \in links'
    <3>1. PICK k \in links : l.id = k.id
      BY <2>1 DEF LinkFate
    <3> QED
      BY <1>n, <1>l, <3>1
  <2>2. ASSUME NEW c \in Calls, StoreLink(c) PROVE \A l \in links' : l.id \in 1..sent'
    <3>1. links' = links \cup {NewLink(c)} /\ NewLink(c).id = sent + 1 /\ sent' = sent + 1
      BY <2>2, StoresLink
    <3> QED
      BY <1>n, <1>l, <3>1
  <2> QED
    BY <2>1, <2>2, LinksStep
<1>s. \A c \in Calls : call[c] # Free => call[c].seen \subseteq 1..sent
  BY DEF Numbered
<1>3. (superseded \subseteq 1..sent)'
  <2>0. superseded \subseteq 1..sent'
    BY <1>n DEF Numbered
  <2>1. ASSUME NEW c \in Calls, StoreCode(c) PROVE superseded' \subseteq 1..sent'
    <3>1. call[c] # Free
      BY <2>1 DEF StoreCode, At
    <3>2. call[c].seen \subseteq 1..sent'
      BY <1>n, <1>s, <3>1
    <3>3. {r.code : r \in RowsFor(call[c].for)} \subseteq 1..sent'
      BY <1>n, <1>r DEF RowsFor
    <3>4. superseded' = superseded \cup call[c].seen \cup
             (IF call[c].for \in Emails THEN {r.code : r \in RowsFor(call[c].for)} ELSE {})
      BY <2>1 DEF StoreCode
    <3> QED
      BY <2>0, <3>2, <3>3, <3>4
  <2>2. ASSUME NEW c \in Calls, StoreLink(c) PROVE superseded' \subseteq 1..sent'
    <3>1. call[c] # Free
      BY <2>2 DEF StoreLink, At
    <3>2. call[c].seen \subseteq 1..sent'
      BY <1>n, <1>s, <3>1
    <3> QED
      BY <2>0, <2>2, <3>2 DEF StoreLink
  <2> QED
    BY <2>0, <2>1, <2>2, SupersededStep
<1>4. (\A k \in 1..MaxMails : k > sent => uses[k] = 0 /\ wrong[k] = 0)'
  <2> SUFFICES ASSUME NEW k \in 1..MaxMails, k > sent' PROVE uses'[k] = 0 /\ wrong'[k] = 0
    OBVIOUS
  <2>1. k > sent /\ uses[k] = 0 /\ wrong[k] = 0 /\ k \in Nat
    BY <1>n DEF Numbered, AccountsConstants
  <2>2. uses'[k] = 0
    <3>1. ASSUME NEW c \in Calls, Uses(c) PROVE uses'[k] = 0
      <4>1. call[c].code \in 1..sent
        BY <3>1, UsedCode
      <4>2. call[c].code # k
        BY <1>n, <2>1, <4>1
      <4>3. uses' = [uses EXCEPT ![call[c].code] = @ + 1]
        BY <3>1 DEF Uses
      <4> QED
        BY <2>1, <4>2, <4>3 DEF Formed
    <3> QED
      BY <2>1, <3>1, UsesStep
  <2>3. wrong'[k] = 0
    <3>1. ASSUME NEW s \in Emails \cup Accounts, NEW row \in RowsFor(s),
                 wrong' = [wrong EXCEPT ![row.code] = Min({@ + 1, MaxWrong})]
          PROVE  wrong'[k] = 0
      <4>1. row.code # k
        BY <1>n, <1>r, <2>1 DEF RowsFor
      <4> QED
        BY <2>1, <3>1, <4>1 DEF Formed
    <3> QED
      BY <2>1, <3>1, WrongFate
  <2> QED
    BY <2>2, <2>3
<1>5. ASSUME NEW c \in Calls, call'[c] # Free
      PROVE  /\ call'[c].seen \subseteq 1..sent'
             /\ call'[c].at \in {"count", "recheck", "drop", "use", "claim"}
                  => call'[c].code \in 1..sent'
  <2> DEFINE S == {"count", "recheck", "drop", "use", "claim"}
  <2>0. 1..sent \subseteq 1..sent'
    BY <1>n
  <2>1. CASE call'[c] = call[c]
    BY <1>5, <2>0, <2>1 DEF Numbered
  <2>2. CASE StoreLink(c)
    <3>1. call[c] # Free
      BY <2>2 DEF StoreLink, At
    <3>2. call'[c].at = "mail link" /\ call'[c].seen = call[c].seen
      BY <2>2, StoresLinkCall
    <3> QED
      BY <2>0, <1>s, <3>1, <3>2
  <2>3. ASSUME NEW at \in Stages, NEW for \in Emails \cup Accounts, NEW user \in Accounts \cup {NoEmail},
               NEW email \in Emails \cup {NoEmail}, NEW code \in Nat, NEW seen \in SUBSET Nat,
               Began(c, at, for, user, email, code, seen), Fresh(at, for, user, email, code, seen)
        PROVE  call'[c].seen \subseteq 1..sent' /\ (call'[c].at \in S => call'[c].code \in 1..sent')
    <3>1. call'[c].at = at /\ call'[c].code = code /\ call'[c].seen = seen
      BY <2>3 DEF Began
    <3>2. seen = {} \/ seen = {r.code : r \in RowsFor(user)} \/ seen = Live(user)
      BY <2>3 DEF Fresh
    <3>3. seen \subseteq 1..sent
      BY <1>r, <1>l, <3>2 DEF RowsFor, Live
    <3>4. ASSUME at \in S PROVE code \in 1..sent
      <4>1. (\E row \in RowsFor(for) : code = row.code) \/ (\E l \in links : code = l.id)
        BY <2>3, <3>4 DEF Fresh, Editing
      <4> QED
        BY <1>r, <1>l, <4>1 DEF RowsFor
    <3> QED
      BY <2>0, <3>1, <3>3, <3>4
  <2>4. ASSUME NEW to \in Stages, call[c] # Free, Moved(c, to), <<call[c].at, to>> \in Edges
        PROVE  call'[c].seen \subseteq 1..sent' /\ (call'[c].at \in S => call'[c].code \in 1..sent')
    <3>1. call'[c].at = to /\ call'[c].seen = call[c].seen /\ call'[c].code = call[c].code
      BY <2>4 DEF Moved
    <3>2. to \in S => call[c].at \in S
      BY <2>4 DEF Edges
    <3> QED
      BY <2>0, <2>4, <3>1, <3>2 DEF Numbered
  <2> QED
    BY <1>5, <2>1, <2>2, <2>3, <2>4, HandlerSteps DEF HandlerStep
<1>6. (\A q, r \in codes : q.code = r.code => q = r)'
  <2>1. CASE RowFate
    BY <2>1 DEF RowFate
  <2>2. ASSUME NEW c \in Calls, StoreCode(c)
        PROVE  \A q, r \in codes' : q.code = r.code => q = r
    <3>1. codes' = (codes \ Stored(call[c].for)) \cup {NewRow(c)} /\ NewRow(c).code = sent + 1
      BY <2>2, StoresRow
    <3>2. \A r \in codes : r.code # sent + 1
      BY <1>n, <1>r
    <3> QED
      BY <3>1, <3>2 DEF Numbered
  <2> QED
    BY <2>1, <2>2, TableStep
<1>7. (\A k, l \in links : k.id = l.id => k = l)'
  <2>1. CASE LinkFate
    BY <2>1 DEF LinkFate
  <2>2. ASSUME NEW c \in Calls, StoreLink(c)
        PROVE  \A k, l \in links' : k.id = l.id => k = l
    <3>1. links' = links \cup {NewLink(c)} /\ NewLink(c).id = sent + 1
      BY <2>2, StoresLink
    <3>2. \A l \in links : l.id # sent + 1
      BY <1>n, <1>l
    <3> QED
      BY <3>1, <3>2 DEF Numbered
  <2> QED
    BY <2>1, <2>2, LinksStep
<1>8. (\A r \in codes, l \in links : r.code # l.id)'
  <2> SUFFICES ASSUME NEW r \in codes', NEW l \in links' PROVE r.code # l.id
    OBVIOUS
  <2>1. \A q \in codes, k \in links : q.code # k.id /\ q.code # sent + 1 /\ k.id # sent + 1
    BY <1>n, <1>r, <1>l DEF Numbered
  <2>2. CASE RowFate /\ LinkFate
    <3>1. PICK q \in codes : r.code = q.code
      BY <2>2 DEF RowFate
    <3>2. PICK k \in links : l.id = k.id
      BY <2>2 DEF LinkFate
    <3> QED
      BY <2>1, <3>1, <3>2
  <2>3. ASSUME NEW c \in Calls, StoreCode(c), LinkFate PROVE r.code # l.id
    <3>1. PICK k \in links : l.id = k.id
      BY <2>3 DEF LinkFate
    <3>2. codes' = (codes \ Stored(call[c].for)) \cup {NewRow(c)} /\ NewRow(c).code = sent + 1
      BY <2>3, StoresRow
    <3>3. k.id # sent + 1 /\ \A q \in codes : q.code # k.id
      BY <1>n, <1>l DEF Numbered
    <3> QED
      BY <3>1, <3>2, <3>3
  <2>4. ASSUME NEW c \in Calls, StoreLink(c), RowFate PROVE r.code # l.id
    <3>1. PICK q \in codes : r.code = q.code
      BY <2>4 DEF RowFate
    <3>2. links' = links \cup {NewLink(c)} /\ NewLink(c).id = sent + 1
      BY <2>4, StoresLink
    <3>3. q.code # sent + 1 /\ \A k \in links : q.code # k.id
      BY <1>n, <1>r DEF Numbered
    <3> QED
      BY <3>1, <3>2, <3>3
  <2> QED
    BY <2>2, <2>3, <2>4, TableStep
<1> QED
  BY <1>1, <1>2, <1>3, <1>4, <1>5, <1>6, <1>7, <1>8, BudgetStep DEF Numbered, Free
-----------------------------------------------------------------------------
(* An address has one row and one account *)

(* Every step keeps one row and one account to an address. *)
LEMMA SingleStep ==
  ASSUME AccountsConstants, Formed, Numbered, Addressed, Single, AccountsNext
  PROVE  Single'
<1>1. (\A q, r \in codes : q.for = r.for /\ q.for \in Emails => q = r)'
  <2> SUFFICES ASSUME NEW q \in codes', NEW r \in codes', q.for = r.for, q.for \in Emails
               PROVE  q = r
    OBVIOUS
  <2>1. CASE RowFate
    <3>1. PICK p \in codes : q.code = p.code /\ q.for = p.for
      BY <2>1 DEF RowFate
    <3>2. PICK s \in codes : r.code = s.code /\ r.for = s.for
      BY <2>1 DEF RowFate
    <3>3. p = s
      BY <3>1, <3>2 DEF Single
    <3> QED
      BY <2>1, <3>1, <3>2, <3>3 DEF RowFate
  <2>2. ASSUME NEW c \in Calls, StoreCode(c) PROVE q = r
    <3>1. codes' = (codes \ Stored(call[c].for)) \cup {NewRow(c)} /\ NewRow(c).for = call[c].for
      BY <2>2, StoresRow
    <3>2. ASSUME NEW p \in codes \ Stored(call[c].for), call[c].for \in Emails
          PROVE  p.for # call[c].for
      BY <3>2 DEF Stored, RowsFor
    <3> QED
      BY <3>1, <3>2 DEF Single
  <2> QED
    BY <2>1, <2>2, TableStep
<1>2. (\A u, v \in Known : users[u].email = users[v].email /\ users[u].email # NoEmail => u = v)'
  <2> DEFINE Goal == \A u, v \in Known' :
               users'[u].email = users'[v].email /\ users'[u].email # NoEmail => u = v
  <2> SUFFICES Goal
    OBVIOUS
  <2>s. \A u, v \in Known : users[u].email = users[v].email /\ users[u].email # NoEmail => u = v
    BY DEF Single
  <2>0. ASSUME users' = users PROVE Goal
    BY <2>0, <2>s DEF Known
  <2>k. ASSUME NEW u \in Known, NEW row \in UserRows, Edited(u, row), row.email = users[u].email
        PROVE  Goal
    <3>1. Known' = Known /\ \A v \in Known : users'[v].email = users[v].email
      BY <2>k DEF Edited
    <3> QED
      BY <2>s, <3>1
  <2>e. ASSUME NEW u \in Known, NEW e \in Emails \cup {NoEmail}, NEW row \in UserRows,
               Edited(u, row), row.email = e, e # NoEmail => Owner(e) \ {u} = {}
        PROVE  Goal
    <3>1. Known' = Known /\ users'[u].email = e /\ \A v \in Known : v # u => users'[v] = users[v]
      BY <2>e DEF Edited
    <3>2. e # NoEmail => \A v \in Known : v # u => users[v].email # e
      BY <2>e DEF Owner
    <3> QED
      BY <2>s, <3>1, <3>2
  <2> HIDE DEF Goal
  <2>1. ASSUME NEW c \in Calls, Starts(c) PROVE Goal
    BY <2>0, <2>1, StartsFrame DEF tables
  <2>2. ASSUME NEW c \in Calls, GoesOn(c) PROVE Goal
    <3>1. CASE ClearCodes(c) \/ MailCode(c) \/ DropCode(c) \/ Recheck(c) \/ UseCode(c) \/ CountWrong(c)
      BY <2>0, <3>1 DEF ClearCodes, MailCode, DropCode, Recheck, UseCode, CountWrong, tables
    <3>2. CASE StoreCode(c) \/ KillLinks(c) \/ RetireLinks(c)
      BY <2>0, <3>2 DEF StoreCode, KillLinks, RetireLinks
    <3>3. CASE MailLink(c) \/ ClaimLink(c) \/ StoreLink(c) \/ IssueToken(c)
      BY <2>0, <3>3 DEF MailLink, ClaimLink, StoreLink, IssueToken
    <3>4. CASE SetPassword(c)
      <4>1. call[c] # Free /\ call[c].at = "set" /\ Rehash(call[c].user)
        BY <3>4 DEF SetPassword, At
      <4>2. call[c].user \in Known
        BY <4>1 DEF Addressed, Owning
      <4> QED
        BY <2>k, <4>1, <4>2, Rehashes
    <3>5. CASE EditAdmin(c)
      <4>1. call[c] # Free /\ call[c].at \in Owning
        BY <3>5 DEF EditAdmin, At, Owning, Editing
      <4>2. call[c].user \in Known
        BY <4>1 DEF Addressed
      <4> QED
        BY <2>k, <3>5, <4>2, EditsAdmin
    <3>6. CASE Settle(c)
      <4>1. CASE users' = users
        BY <2>0, <4>1
      <4>2. CASE /\ call[c].user \in Known /\ call[c].email \in Emails
                 /\ Owner(call[c].email) \ {call[c].user} = {}
                 /\ users' = [users EXCEPT ![call[c].user].email = call[c].email]
        <5> DEFINE u == call[c].user
                   e == call[c].email
        <5>0. u \in Known /\ e \in Emails \cup {NoEmail} /\ users' = [users EXCEPT ![u].email = e]
          BY <4>2
        <5> HIDE DEF u, e
        <5>1. PICK row \in UserRows : Edited(u, row) /\ row.email = e
          BY <5>0, GivesEmail, ZenonT(30)
        <5> USE DEF u, e
        <5> QED
          BY <2>e, <4>2, <5>1
      <4>3. CASE /\ call[c].user \in Accounts \ Known /\ call[c].email \in Emails
                 /\ Owner(call[c].email) \ {call[c].user} = {}
                 /\ Known' = Known \cup {call[c].user}
                 /\ users'[call[c].user] = NewUser(call[c].email, 0)
                 /\ \A v \in Known : users'[v] = users[v]
        <5>1. users'[call[c].user].email = call[c].email
          BY <4>3 DEF NewUser
        <5>2. \A v \in Known : users[v].email # call[c].email
          BY <4>3 DEF Owner
        <5> QED
          BY <2>s, <4>3, <5>1, <5>2 DEF Goal
      <4> QED
        BY <3>6, <4>1, <4>2, <4>3, Settles
    <3> QED
      BY <2>2, <3>1, <3>2, <3>3, <3>4, <3>5, <3>6 DEF GoesOn
  <2>3. ASSUME NEW u \in Known, NEW e \in Emails \cup {NoEmail}, EditEmail(u, e) PROVE Goal
    <3>1. users' = [users EXCEPT ![u].email = e] /\ (e # NoEmail => Owner(e) \ {u} = {})
      BY <2>3 DEF EditEmail
    <3> QED
      BY <2>e, <3>1, GivesEmail
  <2>4. ASSUME NEW u \in Known, ResetByAdmin(u) PROVE Goal
    BY <2>k, <2>4, Rehashes DEF ResetByAdmin
  <2>5. ASSUME Passes PROVE Goal
    BY <2>0, <2>5 DEF Passes
  <2> QED
    BY <2>1, <2>2, <2>3, <2>4, <2>5 DEF AccountsNext
<1> QED
  BY <1>1, <1>2 DEF Single

-----------------------------------------------------------------------------
(* What is used or superseded stays dead *)

(* A number that has been given out does not come back to life. *)
LEMMA DeadStays ==
  ASSUME AccountsConstants, Formed, Numbered, Addressed, AccountsNext,
         NEW k \in 1..sent, Dead(k)
  PROVE  Dead(k)'
<1>n. sent \in Nat /\ k # sent + 1
  BY DEF Formed
<1>1. \A r \in codes' : r.code # k
  <2> TAKE r \in codes'
  <2>1. CASE RowFate
    BY <2>1 DEF RowFate, Dead
  <2>2. ASSUME NEW c \in Calls, StoreCode(c) PROVE r.code # k
    <3>1. codes' = (codes \ Stored(call[c].for)) \cup {NewRow(c)} /\ NewRow(c).code = sent + 1
      BY <2>2, StoresRow
    <3> QED
      BY <1>n, <3>1 DEF Dead
  <2> QED
    BY <2>1, <2>2, TableStep
<1>2. \A l \in links' : l.id = k => l.used
  <2> TAKE l \in links'
  <2>1. CASE LinkFate
    <3>1. PICK j \in links : l.id = j.id /\ (j.used => l.used)
      BY <2>1 DEF LinkFate
    <3> QED
      BY <3>1 DEF Dead
  <2>2. ASSUME NEW c \in Calls, StoreLink(c) PROVE l.id = k => l.used
    <3>1. links' = links \cup {NewLink(c)} /\ NewLink(c).id = sent + 1
      BY <2>2, StoresLink
    <3> QED
      BY <1>n, <3>1 DEF Dead
  <2> QED
    BY <2>1, <2>2, LinksStep
<1> QED
  BY <1>1, <1>2 DEF Dead

(* What is used was alive, and is dead after. *)
LEMMA UsesTheLiving ==
  ASSUME AccountsConstants, Formed, Numbered, Addressed, NEW c \in Calls, Uses(c),
         NEW k \in Nat, call[c].code = k
  PROVE  ~Dead(k) /\ Dead(k)'
<1>1. CASE UseCode(c) /\ Spent(c)
  <2>1. PICK r \in Reached(c) : r.code = k
    BY <1>1 DEF Spent
  <2>2. r \in codes
    BY DEF Reached, RowsFor
  <2>3. codes' = {q \in codes : q \notin Reached(c) \/ q.code # k} /\ links' = links
    BY <1>1 DEF UseCode
  <2>4. ASSUME NEW q \in codes' PROVE q.code # k
    BY <2>1, <2>2, <2>3 DEF Numbered
  <2>5. \A l \in links' : l.id # k
    BY <2>1, <2>2, <2>3 DEF Numbered
  <2> QED
    BY <2>1, <2>2, <2>4, <2>5 DEF Dead
<1>2. CASE ClaimLink(c) /\ Unclaimed(c) # {}
  <2>1. PICK l \in Unclaimed(c) : TRUE
    BY <1>2
  <2>2. l \in links /\ l.id = k /\ ~l.used
    BY <2>1 DEF Unclaimed
  <2>3. /\ links' = (links \ Unclaimed(c)) \cup {[j EXCEPT !.used = TRUE] : j \in Unclaimed(c)}
        /\ codes' = codes
    BY <1>2 DEF ClaimLink
  <2>4. ASSUME NEW j \in links', j.id = k PROVE j.used
    <3>1. CASE j \in links \ Unclaimed(c)
      BY <2>4, <3>1 DEF Unclaimed
    <3>2. CASE j \in {[i EXCEPT !.used = TRUE] : i \in Unclaimed(c)}
      <4>1. PICK i \in Unclaimed(c) : j = [i EXCEPT !.used = TRUE]
        BY <3>2
      <4>2. i \in LinkRows
        BY DEF Unclaimed, Formed
      <4> QED
        BY <4>1, <4>2, UsedLink
    <3> QED
      BY <2>3, <3>1, <3>2
  <2>5. \A r \in codes' : r.code # k
    BY <2>2, <2>3 DEF Numbered
  <2> QED
    BY <2>2, <2>4, <2>5 DEF Dead
<1> QED
  BY <1>1, <1>2 DEF Uses

(* Every step keeps what has been used from being used again. *)
LEMMA OnceStep ==
  ASSUME AccountsConstants, Formed, Numbered, Addressed, Once, AccountsNext
  PROVE  Once'
<1> SUFFICES ASSUME NEW k \in 1..MaxMails
             PROVE  uses'[k] <= 1 /\ (uses'[k] > 0 => Dead(k)')
  BY DEF Once
<1>0. uses \in [1..MaxMails -> Nat] /\ uses[k] \in Nat
  BY DEF Formed
<1>1. ASSUME uses'[k] = uses[k] PROVE uses'[k] <= 1 /\ (uses'[k] > 0 => Dead(k)')
  <2>1. uses[k] <= 1 /\ (uses[k] > 0 => Dead(k))
    BY DEF Once
  <2>2. ASSUME uses[k] > 0 PROVE Dead(k)'
    <3>1. k <= sent /\ k \in Nat
      BY <1>0, <2>2 DEF Numbered, Formed, AccountsConstants
    <3>2. k \in 1..sent
      BY <3>1 DEF Formed
    <3> QED
      BY <2>1, <2>2, <3>2, DeadStays
  <2> QED
    BY <1>1, <2>1, <2>2
<1>2. ASSUME NEW c \in Calls, Uses(c)
      PROVE  uses'[k] <= 1 /\ (uses'[k] > 0 => Dead(k)')
  <2>1. uses' = [uses EXCEPT ![call[c].code] = @ + 1]
    BY <1>2 DEF Uses
  <2>2. CASE call[c].code # k
    BY <1>0, <1>1, <2>1, <2>2
  <2>3. CASE call[c].code = k
    <3>1. ~Dead(k) /\ Dead(k)'
      <4>1. k \in Nat
        BY DEF AccountsConstants
      <4> QED
        BY <1>2, <2>3, <4>1, UsesTheLiving
    <3>2. uses[k] = 0
      BY <1>0, <3>1 DEF Once
    <3>3. uses'[k] = 1
      BY <1>0, <2>1, <2>3, <3>2
    <3> QED
      BY <3>1, <3>3
  <2> QED
    BY <2>2, <2>3
<1> QED
  BY <1>1, <1>2, UsesStep

(* Every step keeps what is superseded dead. *)
LEMMA SupersedingStep ==
  ASSUME AccountsConstants, Formed, Numbered, Addressed, Superseding, AccountsNext
  PROVE  Superseding'
<1>n. sent \in Nat /\ \A k \in 1..sent : k # sent + 1
  BY DEF Formed
<1>0. \A k \in 1..sent : Dead(k) => Dead(k)'
  BY DeadStays
<1>s. \A c \in Calls : call[c] # Free => call[c].seen \subseteq 1..sent
  BY DEF Numbered
<1>1. ASSUME NEW k \in superseded' PROVE Dead(k)'
  <2>1. CASE superseded' = superseded
    BY <1>0, <1>1, <2>1 DEF Superseding, Numbered
  <2>2. ASSUME NEW c \in Calls, StoreCode(c) PROVE Dead(k)'
    <3>0. call[c] # Free /\ call[c].at = "store"
      BY <2>2 DEF StoreCode, At
    <3>1. superseded' = superseded \cup call[c].seen \cup
             (IF call[c].for \in Emails THEN {r.code : r \in RowsFor(call[c].for)} ELSE {})
      BY <2>2 DEF StoreCode
    <3>2. CASE k \in superseded \cup call[c].seen
      <4>1. k \in 1..sent /\ Dead(k)
        BY <1>s, <3>0, <3>2 DEF Superseding, Numbered
      <4> QED
        BY <1>0, <4>1
    <3>3. CASE call[c].for \in Emails /\ k \in {r.code : r \in RowsFor(call[c].for)}
      <4>1. PICK r \in RowsFor(call[c].for) : k = r.code
        BY <3>3
      <4>2. r \in codes /\ r \in Stored(call[c].for)
        BY <3>3, <4>1 DEF RowsFor, Stored
      <4>3. codes' = (codes \ Stored(call[c].for)) \cup {NewRow(c)} /\ NewRow(c).code = sent + 1
            /\ links' = links
        BY <2>2, StoresRow DEF StoreCode
      <4>4. k \in 1..sent
        BY <4>1, <4>2 DEF Numbered
      <4>5. \A q \in codes' : q.code # k
        BY <1>n, <4>1, <4>2, <4>3, <4>4 DEF Numbered
      <4>6. \A l \in links' : l.id # k
        BY <4>1, <4>2, <4>3 DEF Numbered
      <4> QED
        BY <4>5, <4>6 DEF Dead
    <3> QED
      BY <1>1, <3>1, <3>2, <3>3
  <2>3. ASSUME NEW c \in Calls, StoreLink(c) PROVE Dead(k)'
    <3>0. call[c] # Free /\ call[c].at = "link" /\ superseded' = superseded \cup call[c].seen
      BY <2>3 DEF StoreLink, At
    <3>1. k \in 1..sent /\ Dead(k)
      BY <1>1, <1>s, <3>0 DEF Superseding, Numbered
    <3> QED
      BY <1>0, <3>1
  <2> QED
    BY <2>1, <2>2, <2>3, SupersededStep
<1>2. ASSUME NEW c \in Calls, call'[c] # Free, NEW k \in call'[c].seen
      PROVE  /\ call'[c].at = "clear" => /\ \A r \in codes' : r.code = k => r.for = call'[c].for
                                         /\ \A l \in links' : l.id # k
             /\ call'[c].at \in {"store", "link"} => Dead(k)'
             /\ call'[c].at = "retire" => /\ \A r \in codes' : r.code # k
                                          /\ \A l \in links' : l.id = k => l.user = call'[c].user
  <2> DEFINE Goal ==
             /\ call'[c].at = "clear" => /\ \A r \in codes' : r.code = k => r.for = call'[c].for
                                         /\ \A l \in links' : l.id # k
             /\ call'[c].at \in {"store", "link"} => Dead(k)'
             /\ call'[c].at = "retire" => /\ \A r \in codes' : r.code # k
                                          /\ \A l \in links' : l.id = k => l.user = call'[c].user
  <2> SUFFICES Goal
    OBVIOUS
  <2>1. CASE call'[c] = call[c]
    <3>0. call[c] # Free /\ k \in call[c].seen /\ k \in 1..sent /\ k # sent + 1
      BY <1>n, <1>s, <1>2, <2>1
    <3>1. ASSUME NEW for, \A r \in codes : r.code = k => r.for = for
          PROVE  \A r \in codes' : r.code = k => r.for = for
      <4> TAKE r \in codes'
      <4>1. CASE RowFate
        BY <3>1, <4>1 DEF RowFate
      <4>2. ASSUME NEW d \in Calls, StoreCode(d) PROVE r.code = k => r.for = for
        <5>1. codes' = (codes \ Stored(call[d].for)) \cup {NewRow(d)} /\ NewRow(d).code = sent + 1
          BY <4>2, StoresRow
        <5> QED
          BY <3>0, <3>1, <5>1
      <4> QED
        BY <4>1, <4>2, TableStep
    <3>2. ASSUME \A r \in codes : r.code # k PROVE \A r \in codes' : r.code # k
      <4> TAKE r \in codes'
      <4>1. CASE RowFate
        BY <3>2, <4>1 DEF RowFate
      <4>2. ASSUME NEW d \in Calls, StoreCode(d) PROVE r.code # k
        <5>1. codes' = (codes \ Stored(call[d].for)) \cup {NewRow(d)} /\ NewRow(d).code = sent + 1
          BY <4>2, StoresRow
        <5> QED
          BY <3>0, <3>2, <5>1
      <4> QED
        BY <4>1, <4>2, TableStep
    <3>3. ASSUME NEW user, \A l \in links : l.id = k => l.user = user
          PROVE  \A l \in links' : l.id = k => l.user = user
      <4> TAKE l \in links'
      <4>1. CASE LinkFate
        BY <3>3, <4>1 DEF LinkFate
      <4>2. ASSUME NEW d \in Calls, StoreLink(d) PROVE l.id = k => l.user = user
        <5>1. links' = links \cup {NewLink(d)} /\ NewLink(d).id = sent + 1
          BY <4>2, StoresLink
        <5> QED
          BY <3>0, <3>3, <5>1
      <4> QED
        BY <4>1, <4>2, LinksStep
    <3>4. ASSUME \A l \in links : l.id # k PROVE \A l \in links' : l.id # k
      <4> TAKE l \in links'
      <4>1. CASE LinkFate
        BY <3>4, <4>1 DEF LinkFate
      <4>2. ASSUME NEW d \in Calls, StoreLink(d) PROVE l.id # k
        <5>1. links' = links \cup {NewLink(d)} /\ NewLink(d).id = sent + 1
          BY <4>2, StoresLink
        <5> QED
          BY <3>0, <3>4, <5>1
      <4> QED
        BY <4>1, <4>2, LinksStep
    <3>5. CASE call[c].at = "clear"
      <4>1. /\ \A r \in codes : r.code = k => r.for = call[c].for
            /\ \A l \in links : l.id # k
        BY <3>0, <3>5 DEF Superseding
      <4>2. \A r \in codes' : r.code = k => r.for = call[c].for
        BY <3>1, <4>1
      <4>3. \A l \in links' : l.id # k
        BY <3>4, <4>1
      <4> QED
        BY <2>1, <3>5, <4>2, <4>3
    <3>6. CASE call[c].at \in {"store", "link"}
      <4>1. Dead(k)'
        BY <1>0, <3>0, <3>6 DEF Superseding
      <4> QED
        BY <2>1, <3>6, <4>1
    <3>7. CASE call[c].at = "retire"
      <4>1. /\ \A r \in codes : r.code # k
            /\ \A l \in links : l.id = k => l.user = call[c].user
        BY <3>0, <3>7 DEF Superseding
      <4>2. \A r \in codes' : r.code # k
        BY <3>2, <4>1
      <4>3. \A l \in links' : l.id = k => l.user = call[c].user
        BY <3>3, <4>1
      <4> QED
        BY <2>1, <3>7, <4>2, <4>3
    <3> QED
      BY <2>1, <3>5, <3>6, <3>7
  <2>2. CASE StoreLink(c)
    <3>1. call'[c].at = "mail link"
      BY <2>2, StoresLinkCall
    <3> QED
      BY <3>1
  <2>3. ASSUME Starts(c),
               NEW at \in Stages, NEW for \in Emails \cup Accounts, NEW user \in Accounts \cup {NoEmail},
               NEW email \in Emails \cup {NoEmail}, NEW code \in Nat, NEW seen \in SUBSET Nat,
               Began(c, at, for, user, email, code, seen), Fresh(at, for, user, email, code, seen)
        PROVE  Goal
    <3>0. codes' = codes /\ links' = links
      BY <2>3, StartsFrame DEF tables
    <3>1. call'[c].at = at /\ call'[c].for = for /\ call'[c].user = user /\ k \in seen
      BY <1>2, <2>3 DEF Began
    <3>2. \/ at = "clear" /\ for = user /\ seen = {r.code : r \in RowsFor(user)}
          \/ at = "retire" /\ seen = Live(user)
      BY <2>3, <3>1 DEF Fresh
    <3>3. CASE at = "clear" /\ for = user /\ seen = {r.code : r \in RowsFor(user)}
      <4>1. PICK r \in codes : k = r.code /\ r.for = user
        BY <3>1, <3>3 DEF RowsFor
      <4>2. /\ \A q \in codes : q.code = k => q.for = user
            /\ \A l \in links : l.id # k
        BY <4>1 DEF Numbered
      <4> QED
        BY <3>0, <3>1, <3>3, <4>2
    <3>4. CASE at = "retire" /\ seen = Live(user)
      <4>1. PICK l \in links : k = l.id /\ l.user = user
        BY <3>1, <3>4 DEF Live
      <4>2. /\ \A r \in codes : r.code # k
            /\ \A j \in links : j.id = k => j.user = user
        BY <4>1 DEF Numbered
      <4> QED
        BY <3>0, <3>1, <3>4, <4>2
    <3> QED
      BY <3>2, <3>3, <3>4
  <2>4. ASSUME GoesOn(c), call[c] # Free,
               NEW to \in Stages, Moved(c, to), <<call[c].at, to>> \in Edges
        PROVE  Goal
    <3>1. call'[c].at = to /\ k \in call[c].seen
      BY <1>2, <2>4 DEF Moved
    <3>2. CASE to = "store"
      <4>1. call[c].at = "clear"
        BY <2>4, <3>2 DEF Edges
      <4>2. ClearCodes(c)
        BY <2>4, <4>1 DEF GoesOn, StoreCode, MailCode, CountWrong, Recheck, DropCode, UseCode,
           Settle, KillLinks, RetireLinks, StoreLink, MailLink, ClaimLink, SetPassword, IssueToken,
           EditAdmin, At
      <4>3. codes' = codes \ Cleared(call[c].for) /\ links' = links
        BY <4>2 DEF ClearCodes
      <4>4. /\ \A r \in codes : r.code = k => r.for = call[c].for
            /\ \A l \in links : l.id # k
        BY <2>4, <3>1, <4>1 DEF Superseding
      <4>5. \A r \in codes' : r.code # k
        BY <4>3, <4>4 DEF Cleared, RowsFor
      <4>6. Dead(k)'
        BY <4>3, <4>4, <4>5 DEF Dead
      <4> QED
        BY <3>1, <3>2, <4>6
    <3>3. CASE to = "link"
      <4>1. call[c].at = "retire"
        BY <2>4, <3>3 DEF Edges
      <4>2. RetireLinks(c)
        BY <2>4, <4>1 DEF GoesOn, StoreCode, MailCode, CountWrong, Recheck, DropCode, UseCode,
           Settle, KillLinks, ClearCodes, StoreLink, MailLink, ClaimLink, SetPassword, IssueToken,
           EditAdmin, At
      <4>3. links' = Retired(call[c].user) /\ codes' = codes
        BY <4>2 DEF RetireLinks
      <4>4. /\ \A r \in codes : r.code # k
            /\ \A l \in links : l.id = k => l.user = call[c].user
        BY <2>4, <3>1, <4>1 DEF Superseding
      <4>5. ASSUME NEW l \in links', l.id = k PROVE l.used
        <5>1. PICK j \in links : l.id = j.id /\ (j.user = call[c].user => l.used)
          <6> DEFINE u == call[c].user
          <6>1. links' = Retired(u)
            BY <4>3
          <6> HIDE DEF u
          <6>2. \E j \in links :
                   /\ l \in LinkRows /\ l.id = j.id /\ l.user = j.user /\ l.email = j.email
                   /\ IF j.user = u THEN l = [j EXCEPT !.used = TRUE] /\ l.used ELSE l = j
            BY <6>1, RetiredLinks
          <6>3. \E j \in links : l.id = j.id /\ (j.user = u => l.used)
            BY <6>2
          <6> QED
            BY <6>3 DEF u
        <5> QED
          BY <4>4, <4>5, <5>1
      <4>6. Dead(k)'
        BY <4>3, <4>4, <4>5 DEF Dead
      <4> QED
        BY <3>1, <3>3, <4>6
    <3>4. CASE to # "store" /\ to # "link"
      <4>1. to \notin {"clear", "retire"}
        BY <2>4 DEF Edges
      <4> QED
        BY <3>1, <3>4, <4>1
    <3> QED
      BY <3>2, <3>3, <3>4
  <2> HIDE DEF Goal
  <2> QED
    BY <1>2, <2>1, <2>2, <2>3, <2>4, HandlerSteps DEF HandlerStep
<1> QED
  BY <1>1, <1>2 DEF Superseding, Free

(* A code or link that has been superseded is not taken any more. *)
LEMMA NewestStep ==
  ASSUME AccountsConstants, Formed, Numbered, Addressed, Superseding, AccountsNext,
         NEW k \in 1..MaxMails, k \in superseded
  PROVE  uses'[k] = uses[k]
<1>1. Dead(k)
  BY DEF Superseding
<1>2. ASSUME NEW c \in Calls, Uses(c) PROVE uses'[k] = uses[k]
  <2>1. k \in Nat
    BY DEF AccountsConstants
  <2>2. call[c].code # k
    BY <1>1, <1>2, <2>1, UsesTheLiving
  <2>3. uses' = [uses EXCEPT ![call[c].code] = @ + 1]
    BY <1>2 DEF Uses
  <2> QED
    BY <2>2, <2>3 DEF Formed
<1> QED
  BY <1>2, UsesStep
-----------------------------------------------------------------------------
(* Every wrong answer is counted *)

(* A handler that is to count, to look again, to drop a code or to retire   *)
(* links stands still until it does.                                        *)
LEMMA Waits ==
  ASSUME AccountsConstants, Formed, Numbered, Addressed, AccountsNext, NEW d \in Calls,
         call[d] # Free, call[d].at \in {"count", "recheck", "drop", "kill"},
         ~CountWrong(d), ~Recheck(d), ~DropCode(d), ~KillLinks(d)
  PROVE  call'[d] = call[d]
<1>1. ASSUME NEW c \in Calls, Starts(c) PROVE call'[d] = call[d]
  <2>1. PICK at \in Stages, for \in Emails \cup Accounts, user \in Accounts \cup {NoEmail},
            email \in Emails \cup {NoEmail}, code \in Nat, seen \in SUBSET Nat :
           Began(c, at, for, user, email, code, seen) /\ Fresh(at, for, user, email, code, seen)
    BY <1>1, StartsFresh
  <2> QED
    BY <2>1 DEF Began
<1>2. ASSUME NEW c \in Calls, GoesOn(c) PROVE call'[d] = call[d]
  <2>1. c # d
    BY <1>2 DEF GoesOn, ClearCodes, StoreCode, MailCode, UseCode, Settle, RetireLinks,
       StoreLink, MailLink, ClaimLink, SetPassword, IssueToken, EditAdmin, At
  <2>2. CASE StoreLink(c)
    BY <2>1, <2>2, StoresLinkCall
  <2>3. CASE Ended(c)
    BY <2>1, <2>3 DEF Ended
  <2>4. ASSUME NEW to, Moved(c, to) PROVE call'[d] = call[d]
    BY <2>1, <2>4 DEF Moved
  <2> QED
    BY <1>2, <2>2, <2>3, <2>4, GoesOnCall DEF GoesOn
<1>3. ASSUME NEW u \in Known, NEW e \in Emails \cup {NoEmail}, EditEmail(u, e) PROVE call' = call
  BY <1>3 DEF EditEmail
<1>4. ASSUME NEW u \in Known, ResetByAdmin(u) PROVE call' = call
  BY <1>4 DEF ResetByAdmin
<1>5. ASSUME Passes PROVE call' = call
  BY <1>5 DEF Passes
<1> QED
  BY <1>1, <1>2, <1>3, <1>4, <1>5 DEF AccountsNext

(* A row is new or was there, with fewer wrong answers only if one is       *)
(* counted in this step.                                                    *)
Was(q, r) ==
  /\ r.code = q.code /\ r.for = q.for /\ r.wrong >= q.wrong
  /\ r.wrong # q.wrong => \E c \in Calls : CountWrong(c)

(* Where the rows of the next state come from. *)
LEMMA RowBefore ==
  ASSUME AccountsConstants, Formed, Numbered, Addressed, AccountsNext, NEW r \in codes'
  PROVE  \/ \E c \in Calls : StoreCode(c) /\ r = NewRow(c)
         \/ \E q \in codes : Was(q, r)
<1>1. CASE RowFate
  <2>1. PICK q \in codes :
          /\ r.code = q.code /\ r.for = q.for /\ r.email = q.email /\ r.wrong >= q.wrong
          /\ r.wrong # q.wrong => \E c \in Calls : CountWrong(c)
    BY <1>1 DEF RowFate
  <2> QED
    BY <2>1 DEF Was
<1>2. ASSUME NEW c \in Calls, StoreCode(c)
      PROVE  r = NewRow(c) \/ \E q \in codes : Was(q, r)
  <2>1. codes' = (codes \ Stored(call[c].for)) \cup {NewRow(c)}
    BY <1>2, StoresRow
  <2>2. ASSUME r \in codes PROVE Was(r, r)
    <3>1. r.wrong \in Nat
      BY <2>2 DEF Formed, Rows, AccountsConstants
    <3> QED
      BY <3>1 DEF Was
  <2> QED
    BY <2>1, <2>2
<1> QED
  BY <1>1, <1>2, TableStep

(* The numbers of rows are within the bound. *)
LEMMA RowNumber ==
  ASSUME AccountsConstants, Formed, Numbered, NEW r \in codes
  PROVE  /\ r.code \in 1..MaxMails /\ r.code \in 1..sent /\ r.code \in Nat /\ sent \in Nat
         /\ r.wrong \in 0..MaxWrong /\ r.wrong \in Nat /\ wrong[r.code] \in Nat
<1>1. Cardinality(Underway(Sending)) \in Nat
  BY FiniteUnderway
<1>2. sent + Cardinality(Underway(Sending)) <= MaxMails /\ r.code \in 1..sent
  BY DEF Numbered
<1>3. sent \in Nat /\ MaxMails \in Nat
  BY DEF Formed, AccountsConstants
<1>4. r.code \in 1..MaxMails
  BY <1>1, <1>2, <1>3
<1>5. r.wrong \in 0..MaxWrong /\ r.wrong \in Nat
  BY DEF Formed, Rows, AccountsConstants
<1> QED
  BY <1>2, <1>3, <1>4, <1>5 DEF Formed

(* A count stops at the limit. *)
LEMMA CappedStep ==
  ASSUME AccountsConstants, Formed, Numbered, Addressed, Counting, AccountsNext,
         NEW k \in 1..MaxMails
  PROVE  wrong'[k] \in Nat /\ wrong'[k] <= MaxWrong
<1>0. wrong \in [1..MaxMails -> Nat] /\ wrong[k] \in Nat /\ wrong[k] <= MaxWrong /\ MaxWrong \in Nat
  BY DEF Formed, Counting, AccountsConstants
<1>1. ASSUME NEW j, wrong' = [wrong EXCEPT ![j] = Min({@ + 1, MaxWrong})]
      PROVE  wrong'[k] \in Nat /\ wrong'[k] <= MaxWrong
  <2>1. CASE j = k
    <3>1. wrong'[k] = Min({wrong[k] + 1, MaxWrong})
      BY <1>0, <1>1, <2>1
    <3> DEFINE n == wrong[k] + 1
    <3>2. n \in Nat
      BY <1>0
    <3> HIDE DEF n
    <3>3. Min({n, MaxWrong}) \in Nat /\ Min({n, MaxWrong}) <= MaxWrong
      BY <1>0, <3>2, LeastOfTwo
    <3> QED
      BY <3>1, <3>3 DEF n
  <2>2. CASE j # k
    BY <1>0, <1>1, <2>2
  <2> QED
    BY <2>1, <2>2
<1> QED
  BY <1>0, <1>1, WrongFate

(* A handler that counts an answer to a code has read that code's row. *)
LEMMA CountsItsOwn ==
  ASSUME AccountsConstants, Formed, Numbered, Addressed, Counting, AccountsNext,
         NEW c \in Calls, NEW r \in codes', call'[c] # Free, call'[c].at = "count",
         call'[c].code = r.code
  PROVE  call'[c].for = r.for
<1>1. CASE call'[c] = call[c]
  <2>1. call[c].code \in 1..sent /\ sent \in Nat
    BY <1>1 DEF Numbered, Formed
  <2>2. ASSUME NEW q \in codes, Was(q, r) PROVE call'[c].for = r.for
    BY <1>1, <2>2 DEF Was, Counting, At
  <2>3. ASSUME NEW d \in Calls, StoreCode(d), r = NewRow(d) PROVE FALSE
    <3>1. r.code = sent + 1
      BY <2>3, StoresRow
    <3> QED
      BY <1>1, <2>1, <3>1
  <2> QED
    BY <2>2, <2>3, RowBefore
<1>2. CASE StoreLink(c)
  BY <1>2, StoresLinkCall
<1>3. ASSUME Starts(c),
             NEW at \in Stages, NEW for \in Emails \cup Accounts, NEW user \in Accounts \cup {NoEmail},
             NEW email \in Emails \cup {NoEmail}, NEW code \in Nat, NEW seen \in SUBSET Nat,
             Began(c, at, for, user, email, code, seen), Fresh(at, for, user, email, code, seen)
      PROVE  call'[c].for = r.for
  <2>1. codes' = codes
    BY <1>3, StartsFrame DEF tables
  <2>2. at = "count" /\ call'[c].for = for /\ call'[c].code = code
    BY <1>3 DEF Began
  <2>3. PICK row \in RowsFor(for) : code = row.code
    BY <1>3, <2>2 DEF Fresh, Editing
  <2>4. row \in codes /\ row.for = for
    BY DEF RowsFor
  <2>5. r = row
    BY <2>1, <2>2, <2>3, <2>4 DEF Numbered
  <2> QED
    BY <2>2, <2>4, <2>5
<1>4. ASSUME NEW to \in Stages, Moved(c, to), <<call[c].at, to>> \in Edges PROVE FALSE
  BY <1>4 DEF Moved, Edges
<1> QED
  BY <1>1, <1>2, <1>3, <1>4, HandlerSteps DEF HandlerStep

(* The wrong answers about to be counted are finitely many. *)
LEMMA FiniteUncounted ==
  ASSUME AccountsConstants, NEW r
  PROVE  /\ IsFiniteSet(Uncounted(r)) /\ Cardinality(Uncounted(r)) \in Nat
         /\ IsFiniteSet(Uncounted(r)') /\ Cardinality(Uncounted(r)') \in Nat
<1>1. Uncounted(r) \subseteq Calls /\ Uncounted(r)' \subseteq Calls
  BY DEF Uncounted
<1> QED
  BY <1>1, FS_Subset, FS_CardinalityType DEF AccountsConstants

(* The counts still to come of a row that stays: none is lost but the one   *)
(* that is made in this step.                                               *)
LEMMA UncountedStays ==
  ASSUME AccountsConstants, Formed, Numbered, Addressed, AccountsNext,
         NEW q, NEW r, r.code = q.code, r.for = q.for,
         NEW d \in Uncounted(q), ~CountWrong(d)
  PROVE  d \in {c \in Calls : call'[c] # Free /\ call'[c].at = "count"
                              /\ call'[c].code = r.code /\ call'[c].for = r.for}
<1>1. d \in Calls /\ call[d] # Free /\ call[d].at = "count" /\ call[d].code = q.code
      /\ call[d].for = q.for
  BY DEF Uncounted, At
<1>2. ~Recheck(d) /\ ~DropCode(d) /\ ~KillLinks(d)
  BY <1>1 DEF Recheck, DropCode, KillLinks, At
<1>3. call'[d] = call[d]
  BY <1>1, <1>2, Waits
<1> QED
  BY <1>1, <1>3

(* Calls that are to count an answer after the step. *)
Coming(r) == {c \in Calls : call'[c] # Free /\ call'[c].at = "count"
                            /\ call'[c].code = r.code /\ call'[c].for = r.for}

(* So are those after the step. *)
LEMMA FiniteComing ==
  ASSUME AccountsConstants, NEW r
  PROVE  IsFiniteSet(Coming(r)) /\ Cardinality(Coming(r)) \in Nat
<1>1. Coming(r) \subseteq Calls
  BY DEF Coming
<1> QED
  BY <1>1, FS_Subset, FS_CardinalityType DEF AccountsConstants

(* What a row does not show yet of the wrong answers given to it, is about  *)
(* to be counted.                                                           *)
LEMMA CountsStep ==
  ASSUME AccountsConstants, Formed, Numbered, Addressed, Counting, AccountsNext,
         NEW r \in codes'
  PROVE  wrong'[r.code] <= r.wrong + Cardinality(Coming(r))
<1> DEFINE Goal == wrong'[r.code] <= r.wrong + Cardinality(Coming(r))
           n == Cardinality(Coming(r))
<1>f. n \in Nat /\ IsFiniteSet(Coming(r))
  BY FiniteComing
<1>w. wrong \in [1..MaxMails -> Nat] /\ MaxWrong \in Nat
  BY DEF Formed, AccountsConstants
<1>1. ASSUME NEW c \in Calls, StoreCode(c), r = NewRow(c) PROVE Goal
  <2>1. r.code = sent + 1 /\ r.wrong = 0 /\ sent + 1 \in 1..MaxMails /\ sent \in Nat /\ wrong' = wrong
    BY <1>1, StoresRow DEF StoreCode
  <2>2. wrong[sent + 1] = 0
    BY <2>1 DEF Numbered
  <2> QED
    BY <1>f, <2>1, <2>2
<1>2. ASSUME NEW q \in codes, Was(q, r) PROVE Goal
  <2> DEFINE m == Cardinality(Uncounted(q))
  <2>0. /\ q.code \in 1..MaxMails /\ q.wrong \in Nat /\ wrong[q.code] \in Nat
        /\ r.code = q.code /\ r.for = q.for /\ r.wrong >= q.wrong /\ q.wrong <= MaxWrong
    BY <1>2, RowNumber DEF Was
  <2>r. r.wrong \in Nat
    <3>1. codes' \subseteq Rows
      BY FormedStep DEF Formed
    <3> QED
      BY <3>1 DEF Rows, AccountsConstants
  <2>m. m \in Nat /\ IsFiniteSet(Uncounted(q))
    BY FiniteUncounted
  <2>o. wrong[q.code] <= q.wrong + m
    BY DEF Counting
  <2>1. ASSUME NEW c \in Calls, CountWrong(c) PROVE Goal
    <3>0. wrong' = wrong
      BY <2>1 DEF CountWrong, history
    <3>1. Uncounted(q) \ {c} \subseteq Coming(r)
      <4> SUFFICES ASSUME NEW d \in Uncounted(q), d # c PROVE d \in Coming(r)
        OBVIOUS
      <4>1. ~CountWrong(d)
        <5>1. call'[d] # call[d] => d = c
          BY <2>1, GoesOnCall DEF Ended, Moved, Uncounted
        <5>2. CountWrong(d) => call'[d] # call[d]
          <6>1. CountWrong(d) => (call[d] # Free /\ call[d].at = "count")
            BY DEF CountWrong, At
          <6>2. d \in Calls
            BY DEF Uncounted
          <6> QED
            BY <6>1, <6>2, GoesOnCall DEF Ended, Moved
        <5> QED
          BY <5>1, <5>2
      <4> QED
        BY <2>0, <4>1, UncountedStays DEF Coming
    <3>2. CASE c \notin Uncounted(q)
      <4>1. Uncounted(q) \subseteq Coming(r)
        BY <3>1, <3>2
      <4>2. m <= n
        BY <1>f, <4>1, FS_Subset
      <4> QED
        BY <1>f, <2>0, <2>r, <2>m, <2>o, <3>0, <4>2
    <3>3. CASE c \in Uncounted(q)
      <4>1. Cardinality(Uncounted(q) \ {c}) = m - 1
        BY <2>m, <3>3, FS_RemoveElement
      <4>2. m - 1 <= n
        BY <1>f, <3>1, <4>1, FS_Subset
      <4>3. q \in Reached(c)
        BY <3>3 DEF Uncounted, Reached, RowsFor
      <4>4. PICK p \in codes :
           /\ r \in Rows /\ r.code = p.code /\ r.for = p.for /\ r.email = p.email
           /\ \/ r = p /\ ~(p \in Reached(c) /\ p.wrong < MaxWrong)
              \/ /\ p \in Reached(c) /\ p.wrong < MaxWrong /\ r.wrong = p.wrong + 1
                 /\ r = [p EXCEPT !.wrong = @ + 1]
        BY <2>1, CountsRows
      <4>5. p = q
        BY <2>0, <4>4 DEF Numbered
      <4>6. CASE r = q /\ q.wrong >= MaxWrong
        <5>1. wrong'[q.code] <= MaxWrong /\ wrong'[q.code] \in Nat
          BY <2>0, CappedStep
        <5> QED
          BY <1>f, <1>w, <2>0, <4>6, <5>1
      <4>7. CASE r.wrong = q.wrong + 1
        BY <1>f, <2>0, <2>m, <2>o, <3>0, <4>2, <4>7
      <4>8. q.wrong >= MaxWrong \/ q.wrong < MaxWrong
        BY <1>w, <2>0
      <4> QED
        BY <4>3, <4>4, <4>5, <4>6, <4>7, <4>8
    <3> QED
      BY <3>2, <3>3
  <2>2. CASE wrong' = wrong /\ \A c \in Calls : ~CountWrong(c)
    <3>1. Uncounted(q) \subseteq Coming(r)
      <4> SUFFICES ASSUME NEW d \in Uncounted(q) PROVE d \in Coming(r)
        OBVIOUS
      <4>1. ~CountWrong(d)
        BY <2>2 DEF Uncounted
      <4> QED
        BY <2>0, <4>1, UncountedStays DEF Coming
    <3>2. m <= n
      BY <1>f, <3>1, FS_Subset
    <3> QED
      BY <1>f, <2>0, <2>r, <2>m, <2>o, <2>2, <3>2
  <2>3. ASSUME \A d \in Calls : ~CountWrong(d),
               NEW c \in Calls, NEW s \in Emails \cup Accounts, NEW u \in Accounts, NEW e \in Emails,
               NEW row \in RowsFor(s),
               Starts(c), Began(c, "count", s, u, e, row.code, {}),
               wrong' = [wrong EXCEPT ![row.code] = Min({@ + 1, MaxWrong})]
        PROVE  Goal
    <3>0. row \in codes /\ row.for = s
      BY DEF RowsFor
    <3>1. Uncounted(q) \subseteq Coming(r)
      <4> SUFFICES ASSUME NEW d \in Uncounted(q) PROVE d \in Coming(r)
        OBVIOUS
      <4>1. ~CountWrong(d)
        BY <2>3 DEF Uncounted
      <4> QED
        BY <2>0, <4>1, UncountedStays DEF Coming
    <3>2. m <= n
      BY <1>f, <3>1, FS_Subset
    <3>3. CASE row.code # q.code
      <4>1. wrong'[q.code] = wrong[q.code]
        BY <1>w, <2>0, <2>3, <3>3
      <4> QED
        BY <1>f, <2>0, <2>r, <2>m, <2>o, <3>2, <4>1
    <3>4. CASE row.code = q.code
      <4>1. row = q
        BY <3>0, <3>4 DEF Numbered
      <4>2. c \in Coming(r)
        BY <2>0, <2>3, <3>0, <4>1 DEF Began, Coming
      <4>3. c \notin Uncounted(q)
        BY <2>3 DEF Began, Uncounted, At
      <4>4. Cardinality(Uncounted(q) \cup {c}) = m + 1
        BY <2>m, <4>3, FS_AddElement
      <4>5. m + 1 <= n
        <5>1. Uncounted(q) \cup {c} \subseteq Coming(r)
          BY <3>1, <4>2
        <5> QED
          BY <1>f, <4>4, <5>1, FS_Subset
      <4> DEFINE k == wrong[q.code] + 1
      <4>6. wrong'[q.code] = Min({k, MaxWrong})
        BY <1>w, <2>0, <2>3, <4>1
      <4>7. k \in Nat
        BY <2>0
      <4> HIDE DEF k
      <4>8. Min({k, MaxWrong}) <= k /\ Min({k, MaxWrong}) \in Nat
        BY <1>w, <4>7, LeastOfTwo
      <4>9. wrong'[q.code] <= wrong[q.code] + 1 /\ wrong'[q.code] \in Nat
        BY <4>6, <4>8 DEF k
      <4> QED
        BY <1>f, <2>0, <2>r, <2>m, <2>o, <4>5, <4>9
    <3> QED
      BY <3>3, <3>4
  <2> QED
    <3> HIDE DEF Goal
    <3> QED
      BY <2>1, <2>2, <2>3, WrongFate
<1> HIDE DEF Goal
<1>3. Goal
  BY <1>1, <1>2, RowBefore
<1> QED
  BY <1>3 DEF Goal

(* A row with too many wrong answers is about to be dropped. *)
LEMMA DropsStep ==
  ASSUME AccountsConstants, Formed, Numbered, Addressed, Counting, AccountsNext,
         NEW r \in codes', r.wrong >= MaxWrong
  PROVE  \E c \in Calls : /\ call'[c] # Free /\ call'[c].at \in {"recheck", "drop"}
                          /\ call'[c].for = r.for
                          /\ call'[c].for \in Emails \/ r.code = call'[c].code
<1> DEFINE Doomed(c) == /\ call'[c] # Free /\ call'[c].at \in {"recheck", "drop"}
                        /\ call'[c].for = r.for
                        /\ call'[c].for \in Emails \/ r.code = call'[c].code
<1>1. ASSUME NEW c \in Calls, StoreCode(c), r = NewRow(c) PROVE FALSE
  <2>1. r.wrong = 0 /\ MaxWrong \in Nat \ {0}
    BY <1>1, StoresRow DEF AccountsConstants
  <2> QED
    BY <2>1
<1>2. ASSUME NEW q \in codes, Was(q, r) PROVE \E c \in Calls : Doomed(c)
  <2>1. CASE r.wrong = q.wrong
    <3>1. PICK c \in Calls : /\ call[c] # Free /\ call[c].at \in {"recheck", "drop"}
                             /\ Reaches(c, q)
      BY <2>1 DEF Counting
    <3>2. q \in Reached(c)
      BY <3>1 DEF Reaches, Reached, RowsFor
    <3>3. ~CountWrong(c) /\ ~KillLinks(c)
      BY <3>1 DEF CountWrong, KillLinks, At
    <3>4. ~DropCode(c)
      <4> SUFFICES ASSUME DropCode(c) PROVE FALSE
        OBVIOUS
      <4>1. codes' = codes \ Reached(c)
        BY DEF DropCode
      <4>2. r = q
        BY <1>2, <4>1 DEF Was, Numbered
      <4> QED
        BY <3>2, <4>1, <4>2
    <3>5. CASE Recheck(c)
      <4>1. Moved(c, "drop")
        <5>1. \E p \in Reached(c) : p.wrong >= MaxWrong
          BY <2>1, <3>2
        <5>2. Go(c, "drop") /\ call[c] # Free
          BY <3>1, <3>5, <5>1 DEF Recheck
        <5>3. "drop" \in Stages
          BY DEF Stages, Asking
        <5> QED
          BY <5>2, <5>3, Moves DEF Formed
      <4> QED
        BY <1>2, <3>1, <4>1 DEF Moved, Reaches, Was
    <3>6. CASE ~Recheck(c)
      <4>1. call'[c] = call[c]
        BY <3>1, <3>3, <3>4, <3>6, Waits
      <4> QED
        BY <1>2, <3>1, <4>1 DEF Reaches, Was
    <3> QED
      BY <3>5, <3>6
  <2>2. CASE r.wrong # q.wrong
    <3>1. PICK c \in Calls : CountWrong(c)
      BY <1>2, <2>2 DEF Was
    <3>2. PICK p \in codes :
           /\ r \in Rows /\ r.code = p.code /\ r.for = p.for /\ r.email = p.email
           /\ \/ r = p /\ ~(p \in Reached(c) /\ p.wrong < MaxWrong)
              \/ /\ p \in Reached(c) /\ p.wrong < MaxWrong /\ r.wrong = p.wrong + 1
                 /\ r = [p EXCEPT !.wrong = @ + 1]
      BY <3>1, CountsRows
    <3>3. p = q
      BY <1>2, <3>2 DEF Was, Numbered
    <3>4. q \in Reached(c) /\ q.wrong < MaxWrong
      BY <2>2, <3>2, <3>3
    <3>5. Counted(c) # {}
      BY <3>4 DEF Counted
    <3>6. Moved(c, "recheck")
      <4>1. Go(c, "recheck") /\ call[c] # Free
        BY <3>1, <3>5 DEF CountWrong, At
      <4>2. "recheck" \in Stages
        BY DEF Stages, Asking
      <4> QED
        BY <4>1, <4>2, Moves DEF Formed
    <3> QED
      BY <1>2, <3>4, <3>6 DEF Moved, Reached, RowsFor, Was
  <2> QED
    BY <2>1, <2>2
<1> QED
  BY <1>1, <1>2, RowBefore

(* Every step keeps the counts. *)
LEMMA CountingStep ==
  ASSUME AccountsConstants, Formed, Numbered, Addressed, Counting, AccountsNext
  PROVE  Counting'
<1>1. \A k \in 1..MaxMails : wrong'[k] <= MaxWrong
  BY CappedStep
<1>2. \A c \in Calls, r \in codes' :
        call'[c] # Free /\ call'[c].at = "count" /\ call'[c].code = r.code => call'[c].for = r.for
  BY CountsItsOwn
<1>3. \A r \in codes' : wrong'[r.code] <= r.wrong + Cardinality(Coming(r))
  BY CountsStep
<1>4. \A r \in codes' : r.wrong >= MaxWrong =>
        \E c \in Calls : /\ call'[c] # Free /\ call'[c].at \in {"recheck", "drop"}
                         /\ call'[c].for = r.for
                         /\ call'[c].for \in Emails \/ r.code = call'[c].code
  BY DropsStep
<1> QED
  BY <1>1, <1>2, <1>3, <1>4 DEF Counting, Coming, Uncounted, Reaches, At
-----------------------------------------------------------------------------
(* Old links die *)

(* What a step may do to the accounts. *)
LEMMA UsersChange ==
  ASSUME AccountsNext
  PROVE  \/ users' = users
         \/ \E c \in Calls : SetPassword(c) \/ EditAdmin(c) \/ Settle(c)
         \/ \E u \in Known : ResetByAdmin(u)
         \/ \E u \in Known, e \in Emails \cup {NoEmail} : EditEmail(u, e)
<1>1. ASSUME NEW c \in Calls, Starts(c) PROVE users' = users
  BY <1>1, StartsFrame DEF tables
<1>2. ASSUME NEW c \in Calls, GoesOn(c), ~SetPassword(c), ~EditAdmin(c), ~Settle(c)
      PROVE  users' = users
  <2>1. CASE ClearCodes(c) \/ MailCode(c) \/ DropCode(c) \/ Recheck(c) \/ UseCode(c) \/ CountWrong(c)
    BY <2>1 DEF ClearCodes, MailCode, DropCode, Recheck, UseCode, CountWrong, tables
  <2>2. CASE StoreCode(c) \/ KillLinks(c) \/ RetireLinks(c)
    BY <2>2 DEF StoreCode, KillLinks, RetireLinks
  <2>3. CASE MailLink(c) \/ ClaimLink(c) \/ StoreLink(c) \/ IssueToken(c)
    BY <2>3 DEF MailLink, ClaimLink, StoreLink, IssueToken
  <2> QED
    BY <1>2, <2>1, <2>2, <2>3 DEF GoesOn
<1>3. ASSUME Passes PROVE users' = users
  BY <1>3 DEF Passes
<1> QED
  BY <1>1, <1>2, <1>3 DEF AccountsNext

(* An account keeps its address unless it is bound to one, which leaves its *)
(* links still to be retired, or an administrator gives it one.             *)
LEMMA EmailFate ==
  ASSUME AccountsConstants, Formed, Numbered, Addressed, AccountsNext, NEW u \in Known
  PROVE  \/ users'[u].email = users[u].email
         \/ \E c \in Calls : Moved(c, "kill") /\ call[c].user = u
         \/ \E e \in Emails \cup {NoEmail} : EditEmail(u, e)
<1> DEFINE Same == users'[u].email = users[u].email
<1>r. ASSUME NEW v \in Known, Rehash(v) PROVE Same
  BY <1>r, Rehashes DEF Edited
<1>1. ASSUME users' = users PROVE Same
  BY <1>1
<1>2. ASSUME NEW c \in Calls, SetPassword(c) PROVE Same
  <2>1. call[c] # Free /\ call[c].at = "set" /\ Rehash(call[c].user)
    BY <1>2 DEF SetPassword, At
  <2>2. call[c].user \in Known
    BY <2>1 DEF Addressed, Owning
  <2> QED
    BY <1>r, <2>1, <2>2
<1>3. ASSUME NEW c \in Calls, EditAdmin(c) PROVE Same
  <2>1. call[c] # Free /\ call[c].at \in Owning
    BY <1>3 DEF EditAdmin, At, Owning, Editing
  <2>2. call[c].user \in Known
    BY <2>1 DEF Addressed
  <2>3. PICK row \in UserRows :
          Edited(call[c].user, row) /\ row.email = users[call[c].user].email
    BY <1>3, <2>2, EditsAdmin
  <2> QED
    BY <2>3 DEF Edited
<1>4. ASSUME NEW c \in Calls, Settle(c) PROVE Same \/ (Moved(c, "kill") /\ call[c].user = u)
  <2>1. CASE users' = users
    BY <2>1
  <2>2. CASE /\ Moved(c, "kill") /\ call[c].user \in Known
             /\ users' = [users EXCEPT ![call[c].user].email = call[c].email]
    <3>1. CASE call[c].user = u
      BY <2>2, <3>1
    <3>2. CASE call[c].user # u
      BY <2>2, <3>2 DEF Formed
    <3> QED
      BY <3>1, <3>2
  <2>3. CASE \A v \in Known : users'[v] = users[v]
    BY <2>3
  <2> QED
    BY <1>4, <2>1, <2>2, <2>3, Settles
<1>5. ASSUME NEW v \in Known, ResetByAdmin(v) PROVE Same
  BY <1>5, <1>r DEF ResetByAdmin
<1>6. ASSUME NEW v \in Known, NEW e \in Emails \cup {NoEmail}, EditEmail(v, e), v # u PROVE Same
  BY <1>6 DEF EditEmail, Formed
<1> QED
  BY <1>1, <1>2, <1>3, <1>4, <1>5, <1>6, UsersChange

(* A link that is known to be stray stays so. *)
LEMMA StrayStep ==
  ASSUME AccountsNext
  PROVE  stray \subseteq stray'
<1>1. ASSUME NEW c \in Calls, Starts(c) PROVE stray' = stray
  BY <1>1, StartsFrame
<1>2. ASSUME NEW c \in Calls, GoesOn(c) PROVE stray \subseteq stray'
  <2>1. CASE ClearCodes(c) \/ MailCode(c) \/ DropCode(c) \/ Recheck(c) \/ UseCode(c) \/ CountWrong(c)
    BY <2>1 DEF ClearCodes, MailCode, DropCode, Recheck, UseCode, CountWrong, history
  <2>2. CASE StoreCode(c) \/ KillLinks(c) \/ RetireLinks(c) \/ StoreLink(c)
    BY <2>2 DEF StoreCode, KillLinks, RetireLinks, StoreLink, history
  <2>3. CASE MailLink(c) \/ ClaimLink(c) \/ IssueToken(c)
    BY <2>3 DEF MailLink, ClaimLink, IssueToken, history
  <2>4. CASE SetPassword(c) \/ EditAdmin(c) \/ Settle(c)
    BY <2>4 DEF SetPassword, EditAdmin, Settle, history
  <2> QED
    BY <1>2, <2>1, <2>2, <2>3, <2>4 DEF GoesOn
<1>3. ASSUME NEW u, NEW e, EditEmail(u, e) PROVE stray \subseteq stray'
  BY <1>3 DEF EditEmail
<1>4. ASSUME NEW u, ResetByAdmin(u) PROVE stray' = stray
  BY <1>4 DEF ResetByAdmin, history
<1>5. ASSUME Passes PROVE stray' = stray
  BY <1>5 DEF Passes, history
<1> QED
  BY <1>1, <1>2, <1>3, <1>4, <1>5 DEF AccountsNext

(* Every step keeps old links dying. *)
LEMMA OldLinksStep ==
  ASSUME AccountsConstants, Formed, Numbered, Addressed, OldLinksDie, AccountsNext
  PROVE  OldLinksDie'
<1> SUFFICES ASSUME NEW l \in links', ~l.used, users'[l.user].email # l.email
             PROVE  \/ l.id \in stray'
                    \/ \E c \in Calls : /\ call'[c] # Free /\ call'[c].at = "kill"
                                        /\ call'[c].user = l.user
  BY DEF OldLinksDie, At
<1> DEFINE Goal == \/ l.id \in stray'
                   \/ \E c \in Calls : /\ call'[c] # Free /\ call'[c].at = "kill"
                                       /\ call'[c].user = l.user
<1>1. ASSUME NEW k \in links, l.id = k.id, l.user = k.user, l.email = k.email, ~k.used
      PROVE  Goal
  <2>0. k.user \in Known
    BY DEF Addressed
  <2>1. CASE users[k.user].email # k.email
    <3>1. CASE k.id \in stray
      BY <1>1, <3>1, StrayStep
    <3>2. ASSUME NEW c \in Calls, At(c, "kill"), call[c].user = k.user PROVE Goal
      <4>0. call[c] # Free /\ call[c].at = "kill"
        BY <3>2 DEF At
      <4>1. ~CountWrong(c) /\ ~Recheck(c) /\ ~DropCode(c)
        BY <4>0 DEF CountWrong, Recheck, DropCode, At
      <4>2. ~KillLinks(c)
        <5> SUFFICES ASSUME KillLinks(c) PROVE FALSE
          OBVIOUS
        <5> DEFINE u == call[c].user
        <5>1. links' = Retired(u)
          BY DEF KillLinks
        <5>2. l.user = u
          BY <1>1, <3>2
        <5> HIDE DEF u
        <5>3. PICK j \in links :
            /\ l \in LinkRows /\ l.id = j.id /\ l.user = j.user /\ l.email = j.email
            /\ IF j.user = u THEN l = [j EXCEPT !.used = TRUE] /\ l.used ELSE l = j
          BY <5>1, RetiredLinks
        <5> QED
          BY <5>2, <5>3
      <4>3. call'[c] = call[c]
        BY <4>0, <4>1, <4>2, Waits
      <4> QED
        BY <1>1, <3>2, <4>0, <4>3
    <3> QED
      BY <1>1, <2>1, <3>1, <3>2 DEF OldLinksDie
  <2>2. CASE users[k.user].email = k.email
    <3> DEFINE u == k.user
    <3>0. u \in Known /\ users'[u].email # users[u].email
      BY <1>1, <2>0, <2>2
    <3> HIDE DEF u
    <3>1. \/ \E c \in Calls : Moved(c, "kill") /\ call[c].user = u
          \/ \E e \in Emails \cup {NoEmail} : EditEmail(u, e)
      BY <3>0, EmailFate
    <3>2. ASSUME NEW c \in Calls, Moved(c, "kill"), call[c].user = u PROVE Goal
      BY <1>1, <3>2 DEF Moved, u
    <3>3. ASSUME NEW e, EditEmail(u, e) PROVE Goal
      <4>1. k.id \in Live(u)
        BY <1>1 DEF Live, u
      <4>2. stray' = stray \cup Live(u)
        BY <3>3 DEF EditEmail
      <4> QED
        BY <1>1, <4>1, <4>2
    <3> QED
      BY <3>1, <3>2, <3>3
  <2> QED
    BY <2>1, <2>2
<1>2. CASE LinkFate
  <2>1. PICK k \in links : l.id = k.id /\ l.user = k.user /\ l.email = k.email /\ (k.used => l.used)
    BY <1>2 DEF LinkFate
  <2> QED
    BY <1>1, <2>1
<1>3. ASSUME NEW c \in Calls, StoreLink(c) PROVE Goal
  <2>1. links' = links \cup {NewLink(c)}
    BY <1>3, StoresLink
  <2>2. CASE l \in links
    BY <1>1, <2>2
  <2>3. CASE l = NewLink(c)
    <3>1. l.id = sent + 1 /\ l.user = call[c].user /\ l.email = call[c].email
      BY <1>3, <2>3, StoresLink
    <3>2. /\ users' = users
          /\ stray' = IF users[call[c].user].email # call[c].email
                      THEN stray \cup {sent + 1} ELSE stray
      BY <1>3 DEF StoreLink
    <3> QED
      BY <3>1, <3>2
  <2> QED
    BY <2>1, <2>2, <2>3
<1> QED
  BY <1>2, <1>3, LinksStep

-----------------------------------------------------------------------------
(* Someone can always log in *)

(* A super administrator stays one unless it is the one being edited. *)
LEMMA SupersStay ==
  ASSUME AccountsConstants, Formed, Numbered, Addressed, AccountsNext, NEW v \in Supers
  PROVE  \/ v \in Supers'
         \/ \E c \in Underway(Editing) : EditAdmin(c) /\ call[c].user = v
<1>0. v \in Known /\ users[v].super /\ users[v].on
  BY DEF Supers
<1> DEFINE Stays == v \in Known' /\ users'[v].super /\ users'[v].on
<1>s. Stays => v \in Supers'
  BY DEF Supers
<1>r. ASSUME NEW u \in Known, Rehash(u) PROVE Stays
  <2>1. PICK row \in UserRows : /\ Edited(u, row)
                                /\ row.on = users[u].on /\ row.super = users[u].super
    BY <1>r, Rehashes
  <2> QED
    BY <1>0, <2>1 DEF Edited
<1>e. ASSUME NEW u \in Known, NEW e \in Emails \cup {NoEmail},
             users' = [users EXCEPT ![u].email = e]
      PROVE  Stays
  <2>1. PICK row \in UserRows : /\ Edited(u, row)
                                /\ row.on = users[u].on /\ row.super = users[u].super
    BY <1>e, GivesEmail
  <2> QED
    BY <1>0, <2>1 DEF Edited
<1>1. ASSUME users' = users PROVE Stays
  BY <1>0, <1>1 DEF Known
<1>2. ASSUME NEW c \in Calls, SetPassword(c) PROVE Stays
  <2>1. call[c] # Free /\ call[c].at = "set" /\ Rehash(call[c].user)
    BY <1>2 DEF SetPassword, At
  <2>2. call[c].user \in Known
    BY <2>1 DEF Addressed, Owning
  <2> QED
    BY <1>r, <2>1, <2>2
<1>3. ASSUME NEW c \in Calls, EditAdmin(c)
      PROVE  Stays \/ (c \in Underway(Editing) /\ call[c].user = v)
  <2>1. call[c] # Free /\ call[c].at \in Owning
    BY <1>3 DEF EditAdmin, At, Owning, Editing
  <2>2. call[c].user \in Known
    BY <2>1 DEF Addressed
  <2>3. PICK row \in UserRows : Edited(call[c].user, row) /\ call[c].at \in Editing
    BY <1>3, <2>2, EditsAdmin
  <2>4. CASE call[c].user = v
    BY <2>3, <2>4 DEF Underway
  <2>5. CASE call[c].user # v
    BY <1>0, <2>3, <2>5 DEF Edited
  <2> QED
    BY <2>4, <2>5
<1>4. ASSUME NEW c \in Calls, Settle(c) PROVE Stays
  <2>1. CASE users' = users
    BY <1>1, <2>1
  <2>2. CASE /\ call[c].user \in Known /\ call[c].email \in Emails
             /\ users' = [users EXCEPT ![call[c].user].email = call[c].email]
    BY <1>e, <2>2
  <2>3. CASE Known' = Known \cup {call[c].user} /\ \A u \in Known : users'[u] = users[u]
    BY <1>0, <2>3
  <2> QED
    BY <1>4, <2>1, <2>2, <2>3, Settles
<1>5. ASSUME NEW u \in Known, ResetByAdmin(u) PROVE Stays
  BY <1>5, <1>r DEF ResetByAdmin
<1>6. ASSUME NEW u \in Known, NEW e \in Emails \cup {NoEmail}, EditEmail(u, e) PROVE Stays
  BY <1>6, <1>e DEF EditEmail
<1> HIDE DEF Stays
<1> QED
  BY <1>s, <1>1, <1>2, <1>3, <1>4, <1>5, <1>6, UsersChange

(* No step makes an edit one's own. *)
LEMMA OthersStep ==
  ASSUME AccountsConstants, Formed, Numbered, Addressed, Others, AccountsNext
  PROVE  Others'
<1> SUFFICES ASSUME NEW c \in Calls, call'[c].at \in Editing
             PROVE  call'[c].for # call'[c].user
  BY DEF Others
<1>1. CASE call'[c] = call[c]
  BY <1>1 DEF Others
<1>2. CASE call'[c] = Free
  BY <1>2 DEF Free, Editing
<1>3. CASE StoreLink(c)
  <2>1. call'[c].at = "mail link"
    BY <1>3, StoresLinkCall
  <2> QED
    BY <2>1 DEF Editing
<1>4. ASSUME NEW at \in Stages, NEW for \in Emails \cup Accounts,
             NEW user \in Accounts \cup {NoEmail}, NEW email \in Emails \cup {NoEmail},
             NEW code \in Nat, NEW seen \in SUBSET Nat,
             Began(c, at, for, user, email, code, seen), Fresh(at, for, user, email, code, seen)
      PROVE  call'[c].for # call'[c].user
  <2>1. at \in Editing /\ call'[c].for = for /\ call'[c].user = user
    BY <1>4 DEF Began
  <2> QED
    BY <1>4, <2>1 DEF Fresh, Editing
<1>5. ASSUME NEW to \in Stages, Moved(c, to), <<call[c].at, to>> \in Edges PROVE FALSE
  <2>1. to \in Editing
    BY <1>5 DEF Moved
  <2> QED
    BY <1>5, <2>1 DEF Edges, Editing
<1> QED
  BY <1>1, <1>2, <1>3, <1>4, <1>5, HandlerSteps DEF HandlerStep

(* Two edits are never written in one step. *)
LEMMA OneEdit ==
  ASSUME Formed, NEW c \in Calls, NEW d \in Calls, EditAdmin(c), EditAdmin(d)
  PROVE  c = d
<1>1. Ended(c) /\ Ended(d)
  BY GoesOnCall
<1>2. call[c] # Free /\ call[d] # Free
  BY DEF EditAdmin, At
<1> QED
  BY <1>1, <1>2 DEF Ended

(* Another super administrator than the one being edited stays one. *)
LEMMA OtherStays ==
  ASSUME AccountsConstants, Formed, Numbered, Addressed, AccountsNext,
         NEW c \in Calls, EditAdmin(c), NEW v \in Supers, v # call[c].user
  PROVE  v \in Supers'
BY SupersStay, OneEdit DEF Underway

(* A super administrator loses the rank to a demotion while another is     *)
(* left, or to a suspension.                                               *)
LEMMA HowOneIsLost ==
  ASSUME Formed, NEW c \in Calls, EditAdmin(c), call[c].user \in Supers,
         call[c].user \notin Supers'
  PROVE  At(c, "disable") \/ (AnotherLeft /\ At(c, "demote"))
<1> DEFINE u == call[c].user
<1>1. u \in Known /\ users[u].super /\ users[u].on /\ users[u] \in UserRows
  BY DEF Supers, Formed
<1>2. users' # users
  BY DEF Supers, Known
<1>3. ASSUME users' = [users EXCEPT ![u] = [users[u] EXCEPT !.super = TRUE]] PROVE FALSE
  <2>1. [users[u] EXCEPT !.super = TRUE].super /\ [users[u] EXCEPT !.super = TRUE].on
    BY <1>1 DEF UserRows
  <2>2. u \in Known' /\ users'[u] = [users[u] EXCEPT !.super = TRUE]
    BY <1>1, <1>3 DEF Known
  <2> QED
    BY <2>1, <2>2 DEF Supers
<1>4. ASSUME users' = [users EXCEPT ![u] = [users[u] EXCEPT !.on = TRUE]] PROVE FALSE
  <2>1. [users[u] EXCEPT !.on = TRUE].super /\ [users[u] EXCEPT !.on = TRUE].on
    BY <1>1 DEF UserRows
  <2>2. u \in Known' /\ users'[u] = [users[u] EXCEPT !.on = TRUE]
    BY <1>1, <1>4 DEF Known
  <2> QED
    BY <2>1, <2>2 DEF Supers
<1> QED
  BY <1>2, <1>3, <1>4 DEF EditAdmin

(* The last one is lost to a suspension by somebody who has lost the power. *)
LEMMA LastOneStep ==
  ASSUME AccountsConstants, Formed, Numbered, Addressed, Others, AccountsNext,
         Supers # {}, Supers' = {}
  PROVE  \E c \in Calls : At(c, "disable") /\ call[c].for \notin Supers
<1>1. PICK v \in Supers : TRUE
  OBVIOUS
<1>2. PICK c \in Calls : EditAdmin(c) /\ call[c].user = v
  BY <1>1, SupersStay DEF Underway
<1>3. \A w \in Supers : w = v
  BY <1>2, OtherStays
<1>4. ~AnotherLeft
  <2>1. Supers = {v}
    BY <1>1, <1>3
  <2>2. Cardinality(Supers) = 1
    BY <2>1, FS_Singleton
  <2> QED
    BY <2>2 DEF AnotherLeft
<1>5. At(c, "disable")
  BY <1>1, <1>2, <1>4, HowOneIsLost
<1>6. call[c].for # v
  BY <1>2, <1>5 DEF Others, At, Editing
<1> QED
  BY <1>3, <1>5, <1>6

-----------------------------------------------------------------------------
(* Theorems *)

(* At first nothing is stored or under way, and one administrator has the   *)
(* one address there is.                                                    *)
LEMMA InitInductive ==
  ASSUME AccountsConstants, AccountsInit
  PROVE  Inductive
<1>1. PICK root \in Admins, e \in Emails :
        users = [u \in Admins |-> [NewUser(IF u = root THEN e ELSE NoEmail, 0)
                                     EXCEPT !.super = (u = root)]]
  BY DEF AccountsInit
<1>2. /\ codes = {} /\ links = {} /\ session = Free /\ call = [c \in Calls |-> Free]
      /\ sent = 0 /\ passwords = 0
      /\ uses = [k \in 1..MaxMails |-> 0] /\ wrong = [k \in 1..MaxMails |-> 0]
      /\ superseded = {} /\ stray = {}
  BY DEF AccountsInit
<1>3. Known = Admins /\ Admins \subseteq Accounts
  BY <1>1 DEF Known, AccountsConstants
<1>4. ASSUME NEW u \in Admins
      PROVE  /\ users[u] \in UserRows /\ users[u].password = 0
             /\ users[u].email = IF u = root THEN e ELSE NoEmail
  <2>1. users[u] = [NewUser(IF u = root THEN e ELSE NoEmail, 0) EXCEPT !.super = (u = root)]
    BY <1>1
  <2> DEFINE a == IF u = root THEN e ELSE NoEmail
             b == u = root
  <2>2. a \in Emails \cup {NoEmail} /\ b \in BOOLEAN
    OBVIOUS
  <2> HIDE DEF a, b
  <2>3. NewUser(a, 0) \in UserRows /\ NewUser(a, 0).password = 0 /\ NewUser(a, 0).email = a
    BY <2>2 DEF NewUser, UserRows
  <2>4. users[u] = [NewUser(a, 0) EXCEPT !.super = b]
    BY <2>1 DEF a, b
  <2>5. users[u] \in UserRows /\ users[u].password = 0 /\ users[u].email = a
    BY <2>2, <2>3, <2>4 DEF UserRows
  <2> QED
    BY <2>5 DEF a
<1>5. Formed
  <2>1. users \in [Known -> UserRows]
    BY <1>1, <1>3, <1>4
  <2> QED
    BY <1>2, <1>3, <2>1 DEF Formed
<1>6. Numbered
  <2>1. Underway(Sending) = {}
    BY <1>2 DEF Underway, Sending, Free
  <2>2. Cardinality(Underway(Sending)) = 0
    BY <2>1, FS_EmptySet
  <2> QED
    BY <1>2, <2>2 DEF Numbered, AccountsConstants
<1>7. Addressed
  BY <1>2, <1>3, <1>4 DEF Addressed
<1>8. Single
  BY <1>2, <1>3, <1>4 DEF Single
<1>9. Once
  BY <1>2 DEF Once
<1>10. Superseding
  BY <1>2 DEF Superseding
<1>11. Counting
  BY <1>2 DEF Counting, At, AccountsConstants
<1>12. OldLinksDie
  BY <1>2 DEF OldLinksDie
<1>13. Opened
  BY <1>2 DEF Opened
<1> QED
  BY <1>5, <1>6, <1>7, <1>8, <1>9, <1>10, <1>11, <1>12, <1>13 DEF Inductive

(* The invariant holds after every step. *)
LEMMA StepInductive ==
  ASSUME AccountsConstants, Inductive, [AccountsNext]_avars
  PROVE  Inductive'
<1>1. CASE AccountsNext
  <2>1. Formed /\ Numbered /\ Addressed /\ Single /\ Once /\ Superseding /\ Counting
        /\ OldLinksDie /\ Opened
    BY DEF Inductive
  <2>2. Formed' /\ Numbered' /\ Addressed'
    BY <1>1, <2>1, FormedStep, NumberedStep, AddressedStep
  <2>3. Single' /\ Once' /\ Superseding'
    BY <1>1, <2>1, SingleStep, OnceStep, SupersedingStep
  <2>4. Counting' /\ OldLinksDie'
    BY <1>1, <2>1, CountingStep, OldLinksStep
  <2>5. Opened'
    BY <1>1, <2>1, SessionStep DEF Opened, Free
  <2> QED
    BY <2>2, <2>3, <2>4, <2>5 DEF Inductive
<1>2. CASE UNCHANGED avars
  <2>1. /\ users' = users /\ codes' = codes /\ links' = links /\ session' = session
        /\ sent' = sent /\ passwords' = passwords /\ call' = call
        /\ uses' = uses /\ wrong' = wrong /\ superseded' = superseded /\ stray' = stray
    BY <1>2 DEF avars, tables, history
  <2>2. Known' = Known
    BY <2>1 DEF Known
  <2>3. Formed' /\ Numbered' /\ Addressed'
    BY <2>1, <2>2 DEF Inductive, Formed, Numbered, Addressed, Underway
  <2>4. Single' /\ Once' /\ Superseding'
    BY <2>1, <2>2 DEF Inductive, Single, Once, Superseding, Dead
  <2>5. Counting'
    BY <2>1 DEF Inductive, Counting, Uncounted, Reaches, At
  <2>6. OldLinksDie' /\ Opened'
    BY <2>1 DEF Inductive, OldLinksDie, Opened, At
  <2> QED
    BY <2>3, <2>4, <2>5, <2>6 DEF Inductive
<1> QED
  BY <1>1, <1>2

(* The invariant holds in every reachable state. *)
THEOREM AccountsInductive == AccountsSpec => []Inductive
<1> SUFFICES ASSUME AccountsConstants PROVE AccountsSpec => []Inductive
  BY AccountsConstants
<1>1. AccountsInit => Inductive
  BY InitInductive
<1>2. Inductive /\ [AccountsNext]_avars => Inductive'
  BY StepInductive
<1> QED
  BY <1>1, <1>2, PTL DEF AccountsSpec

(* A set in which any two are the same has at most one. *)
LEMMA AtMostOne ==
  ASSUME NEW S, \A x, y \in S : x = y
  PROVE  Cardinality(S) <= 1
<1>1. CASE S = {}
  BY <1>1, FS_EmptySet
<1>2. ASSUME NEW x \in S PROVE Cardinality(S) <= 1
  <2>1. S = {x}
    OBVIOUS
  <2> QED
    BY <2>1, FS_Singleton
<1> QED
  BY <1>1, <1>2

(* What the invariant says of the types. *)
LEMMA InductiveTypes ==
  ASSUME AccountsConstants, Inductive
  PROVE  AccountsTypeOK
<1>1. Formed /\ Numbered /\ Addressed /\ Single
  BY DEF Inductive
<1>2. Known \subseteq Accounts
  BY <1>1 DEF Formed
<1>3. ASSUME NEW u \in Known
      PROVE  users[u] \in [email : Emails \cup {NoEmail}, password : 0..passwords,
                           on : BOOLEAN, super : BOOLEAN]
  <2>1. users[u] \in UserRows /\ users[u].password <= passwords /\ passwords \in Nat
    BY <1>1 DEF Formed, Addressed
  <2>2. users[u].password \in 0..passwords
    BY <2>1 DEF UserRows
  <2> QED
    BY <2>1, <2>2 DEF UserRows
<1>4. codes \subseteq [for : Emails \cup Accounts, email : Emails, code : 1..sent,
                       wrong : 0..MaxWrong, expired : BOOLEAN, recent : BOOLEAN]
  BY <1>1 DEF Formed, Numbered, Rows
<1>5. links \subseteq [id : 1..sent, user : Known, email : Emails,
                       used : BOOLEAN, expired : BOOLEAN, recent : BOOLEAN]
  BY <1>1 DEF Formed, Numbered, Addressed, LinkRows
<1>6. sent \in 0..MaxMails /\ passwords \in Nat
  <2>1. Cardinality(Underway(Sending)) \in Nat
    BY FiniteUnderway
  <2> QED
    BY <1>1, <2>1 DEF Formed, Numbered, AccountsConstants
<1>7. ASSUME NEW e \in Emails PROVE Cardinality(RowsFor(e)) <= 1 /\ Cardinality(Owner(e)) <= 1
  <2>1. \A q, r \in RowsFor(e) : q = r
    BY <1>1 DEF Single, RowsFor
  <2>2. \A u, v \in Owner(e) : u = v
    BY <1>1 DEF Single, Owner, AccountsConstants
  <2> QED
    BY <2>1, <2>2, AtMostOne
<1> QED
  BY <1>2, <1>3, <1>4, <1>5, <1>6, <1>7 DEF AccountsTypeOK

(* Every table has its rows, an address has one code and one account,       *)
(* whatever calls interleave.                                               *)
THEOREM AccountsTypes == AccountsSpec => []AccountsTypeOK
<1> SUFFICES ASSUME AccountsConstants PROVE AccountsSpec => []AccountsTypeOK
  BY AccountsConstants
<1>1. Inductive => AccountsTypeOK
  BY InductiveTypes
<1> QED
  BY <1>1, AccountsInductive, PTL

(* No code and no link is taken twice (verification.go:131, reset.go:144).  *)
THEOREM CodesWorkOnce == AccountsSpec => []WorksOnce
<1>1. Inductive => WorksOnce
  BY DEF Inductive, Once, WorksOnce
<1> QED
  BY <1>1, AccountsInductive, PTL

(* A code that got too many wrong answers is gone as soon as nothing is     *)
(* under way, however many came together (verification.go:118).             *)
THEOREM GuessesAreCapped == AccountsSpec => []GuessesCapped
<1> SUFFICES ASSUME AccountsConstants PROVE AccountsSpec => []GuessesCapped
  BY AccountsConstants
<1>1. Inductive => GuessesCapped
  <2> SUFFICES ASSUME Inductive, \A c \in Calls : call[c] = Free, NEW r \in codes
               PROVE  wrong[r.code] < MaxWrong
    BY DEF GuessesCapped
  <2>1. Formed /\ Numbered /\ Counting
    BY DEF Inductive
  <2>2. Uncounted(r) = {}
    BY DEF Uncounted, At
  <2>3. Cardinality(Uncounted(r)) = 0
    BY <2>2, FS_EmptySet
  <2>4. ~(r.wrong >= MaxWrong)
    BY <2>1 DEF Counting
  <2>5. r.wrong \in Nat /\ wrong[r.code] \in Nat /\ MaxWrong \in Nat
    BY <2>1, RowNumber DEF AccountsConstants
  <2>6. wrong[r.code] <= r.wrong + Cardinality(Uncounted(r))
    BY <2>1 DEF Counting
  <2> QED
    BY <2>3, <2>4, <2>5, <2>6
<1> QED
  BY <1>1, AccountsInductive, PTL

(* A link dies with the address it was sent to, but for the two ways out    *)
(* that OldLinksDie names (emailbind.go:171).                               *)
THEOREM LinksDie == AccountsSpec => []OldLinksDie
<1>1. Inductive => OldLinksDie
  BY DEF Inductive
<1> QED
  BY <1>1, AccountsInductive, PTL

(* A session is accepted only while the password it was opened with is the  *)
(* account's (auth.go:78).                                                  *)
THEOREM SessionsKnow == AccountsSpec => []SessionKnowsPassword
<1>1. Inductive => SessionKnowsPassword
  BY DEF Inductive, Opened, Accepted, SessionKnowsPassword
<1> QED
  BY <1>1, AccountsInductive, PTL

(* A code or link that a later mail has replaced is never taken again       *)
(* (reset.go:78, emailbind.go:86).                                          *)
THEOREM OnlyNewestCounts == AccountsSpec => NewestCounts
<1> SUFFICES ASSUME AccountsConstants PROVE AccountsSpec => NewestCounts
  BY AccountsConstants
<1>1. Inductive /\ [AccountsNext]_avars =>
        [\A k \in 1..MaxMails : k \in superseded => uses'[k] = uses[k]]_avars
  <2> SUFFICES ASSUME Inductive, AccountsNext
               PROVE  \A k \in 1..MaxMails : k \in superseded => uses'[k] = uses[k]
    OBVIOUS
  <2> QED
    BY NewestStep DEF Inductive
<1> QED
  BY <1>1, AccountsInductive, PTL DEF AccountsSpec, NewestCounts

(* However edits of administrators overlap, the last super administrator    *)
(* who can log in is lost only to a suspension by one who is none any more. *)
THEOREM LastOneIsGuarded == AccountsSpec => LastOneGuarded
<1> SUFFICES ASSUME AccountsConstants PROVE AccountsSpec => LastOneGuarded
  BY AccountsConstants
<1>1. AccountsInit => Others
  BY DEF AccountsInit, Others, Free, Editing
<1>2. Inductive /\ Others /\ [AccountsNext]_avars => Others'
  <2> SUFFICES ASSUME Inductive, Others, [AccountsNext]_avars PROVE Others'
    OBVIOUS
  <2>1. CASE AccountsNext
    BY <2>1, OthersStep DEF Inductive
  <2>2. CASE UNCHANGED avars
    BY <2>2 DEF Others, avars
  <2> QED
    BY <2>1, <2>2
<1>3. Inductive /\ Others /\ [AccountsNext]_avars =>
        [Supers # {} /\ Supers' = {} =>
           \E c \in Calls : At(c, "disable") /\ call[c].for \notin Supers]_avars
  BY LastOneStep DEF Inductive
<1> QED
  BY <1>1, <1>2, <1>3, AccountsInductive, PTL DEF AccountsSpec, LastOneGuarded
=============================================================================
