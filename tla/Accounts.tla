------------------------------ MODULE Accounts ------------------------------
(***************************************************************************)
(* Accounts, the codes mailed to register and to bind an address, the      *)
(* links that reset a password, log-in sessions and the platform's         *)
(* administrators.  A handler is a sequence of statements without a        *)
(* transaction around them; calls interleave between any two.              *)
(*                                                                         *)
(* Codes and links are numbered in the order they are stored; two codes    *)
(* drawn alike are not modelled.  A password is the number of its hash,    *)
(* which is as new as its salt.                                            *)
(***************************************************************************)
EXTENDS Naturals, FiniteSets, FiniteSetsExt

CONSTANTS
  Calls,         \* calls of handlers
  Accounts, Emails,
  Admins,        \* the platform's accounts, the others are customers'
  MaxWrong,      \* maxAttempts
  MaxEdits,      \* edits of administrators under way at once
  MaxMails, MaxPasswords   \* bounds: codes and links, changes of passwords

NoEmail == "none"

(* A row of the tables of codes is for an address or for an account, never  *)
(* for something that is both                                              *)
ASSUME AccountsConstants ==
  /\ MaxWrong \in Nat \ {0} /\ MaxMails \in Nat /\ MaxPasswords \in Nat
  /\ MaxEdits \in Nat /\ Admins \subseteq Accounts
  /\ IsFiniteSet(Calls) /\ Emails \cap Accounts = {} /\ NoEmail \notin Emails

VARIABLES
  users,        \* the accounts there are
  codes,        \* verification_codes and email_bind_codes
  links,        \* password_reset_tokens
  session,      \* the latest session token
  call,         \* the handlers under way
  sent,         \* codes and links so far
  passwords,    \* hashes so far
  uses, wrong, superseded, stray   \* history

tables == <<users, codes, links, session, sent, passwords>>
history == <<uses, wrong, superseded, stray>>
avars == <<tables, call, history>>

Free == [at |-> "free"]
Sending == {"clear", "store", "retire", "link"}
Editing == {"promote", "demote", "disable", "enable"}

NewUser(e, p) == [email |-> e, password |-> p, on |-> TRUE, super |-> FALSE]

(* An administrator the first start created, another one, and their mail  *)
AccountsInit ==
  /\ \E root \in Admins, e \in Emails :
       users = [u \in Admins |-> [NewUser(IF u = root THEN e ELSE NoEmail, 0)
                                    EXCEPT !.super = (u = root)]]
  /\ codes = {} /\ links = {} /\ session = Free
  /\ call = [c \in Calls |-> Free]
  /\ sent = 0 /\ passwords = 0
  /\ uses = [k \in 1..MaxMails |-> 0] /\ wrong = [k \in 1..MaxMails |-> 0]
  /\ superseded = {} /\ stray = {}

Known == DOMAIN users
Owner(e) == {u \in Known : users[u].email = e}

Begin(c, at, for, user, email, code) ==
  /\ call[c] = Free
  /\ call' = [call EXCEPT ![c] = [at |-> at, for |-> for, user |-> user, email |-> email,
                                  code |-> code, seen |-> {}]]

At(c, at) == call[c] # Free /\ call[c].at = at
Go(c, at) == call' = [call EXCEPT ![c].at = at]
End(c) == call' = [call EXCEPT ![c] = Free]

(* The bounds, with what is under way; a claimed link is used all the same *)
MayRehash == passwords + Cardinality({c \in Calls : call[c].at = "set"}) < MaxPasswords
Budget == sent + Cardinality({c \in Calls : call[c].at \in Sending}) < MaxMails

-----------------------------------------------------------------------------
(* Codes.  A row is for an address that registers or for an account that   *)
(* binds one; an address has one row, an account should have.              *)

RowsFor(s) == {r \in codes : r.for = s}
Newest(rows) == CHOOSE r \in rows : \A q \in rows : r.code >= q.code

Beside(s) == {r \in codes : (r.for \in Emails) = (s \in Emails)}
Expired(s) == {r \in Beside(s) : r.expired}

MayResend(s) == \A r \in RowsFor(s) : r = Newest(RowsFor(s)) => ~r.recent

SendCode(c, e) ==
  /\ Budget /\ MayResend(e)
  /\ Begin(c, "store", e, NoEmail, e, 0)
  /\ UNCHANGED tables /\ UNCHANGED history

SendBindCode(c, u, e) ==
  /\ Budget /\ u \in Known /\ Owner(e) = {} /\ MayResend(u)
  /\ call[c] = Free
  /\ call' = [call EXCEPT ![c] = [at |-> "clear", for |-> u, user |-> u, email |-> e, code |-> 0,
                                  seen |-> {r.code : r \in RowsFor(u)}]]
  /\ UNCHANGED tables /\ UNCHANGED history

(* Mutation of Cleared: the account keeps its code. *)
MutCleared(s) == Expired(s)

Cleared(s) == Expired(s) \cup RowsFor(s)

ClearCodes(c) ==
  /\ At(c, "clear")
  /\ codes' = codes \ Cleared(call[c].for)
  /\ Go(c, "store")
  /\ UNCHANGED <<users, links, session, sent, passwords>> /\ UNCHANGED history

(* Mutation of Stored: a registration adds a row as a binding does. *)
MutStored(s) == {}

(* What the new row replaces: registration writes over the address's row *)
Stored(s) == IF s \in Emails THEN Expired(s) \cup RowsFor(s) ELSE {}

StoreCode(c) ==
  LET s == call[c].for IN
  /\ At(c, "store")
  /\ sent' = sent + 1
  /\ codes' = (codes \ Stored(s)) \cup
              {[for |-> s, email |-> call[c].email, code |-> sent + 1, wrong |-> 0,
                expired |-> FALSE, recent |-> TRUE]}
  /\ superseded' = superseded \cup call[c].seen \cup
                   (IF s \in Emails THEN {r.code : r \in RowsFor(s)} ELSE {})
  /\ Go(c, "mail")
  /\ UNCHANGED <<users, links, session, passwords, uses, wrong, stray>>

(* Delivered, or all that is stored for this address or account goes *)
MailCode(c) ==
  /\ At(c, "mail") /\ End(c)
  /\ codes' \in {codes, codes \ RowsFor(call[c].for)}
  /\ UNCHANGED <<users, links, session, sent, passwords>> /\ UNCHANGED history

Fits(row, e) == row.email = e

(* Verify and BindEmail read the newest row.  A registration names an      *)
(* account still to be made.                                               *)
Enter(c, s, u, e, k) ==
  /\ RowsFor(s) # {}
  /\ LET row == Newest(RowsFor(s))
         next == IF row.expired THEN "drop" ELSE IF row.code # k THEN "count" ELSE "use"
     IN  /\ row.expired \/ Fits(row, e)
         /\ Begin(c, next, s, u, e, row.code)
         /\ wrong' = IF next = "count" THEN [wrong EXCEPT ![row.code] = Min({@ + 1, MaxWrong})] ELSE wrong
  /\ UNCHANGED tables /\ UNCHANGED <<uses, superseded, stray>>

Register(c, u, e, k) == u \notin Known \cup Admins /\ Enter(c, e, u, e, k)
BindEmail(c, u, e, k) == u \in Known /\ Enter(c, u, u, e, k)

(* Rows a statement of this call reaches: by address, or by the row's id *)
Reached(c) == {r \in RowsFor(call[c].for) : call[c].for \in Emails \/ r.code = call[c].code}

(* Mutation of Counted: the count that was read earlier is written. *)
MutCounted(c) ==
  {[r EXCEPT !.wrong = 1] : r \in {q \in Reached(c) : q.wrong < MaxWrong}}

Counted(c) == {[r EXCEPT !.wrong = @ + 1] : r \in {q \in Reached(c) : q.wrong < MaxWrong}}

CountWrong(c) ==
  /\ At(c, "count")
  /\ codes' = {r \in codes : r \notin Reached(c) \/ r.wrong >= MaxWrong} \cup Counted(c)
  /\ IF Counted(c) = {} THEN End(c) ELSE Go(c, "recheck")
  /\ UNCHANGED <<users, links, session, sent, passwords>> /\ UNCHANGED history

Recheck(c) ==
  /\ At(c, "recheck")
  /\ IF \E r \in Reached(c) : r.wrong >= MaxWrong THEN Go(c, "drop") ELSE End(c)
  /\ UNCHANGED tables /\ UNCHANGED history

DropCode(c) ==
  /\ At(c, "drop") /\ End(c)
  /\ codes' = codes \ Reached(c)
  /\ UNCHANGED <<users, links, session, sent, passwords>> /\ UNCHANGED history

(* Mutation of Spent: the code need not be there any more. *)
MutSpent(c) == TRUE

(* The deletion finds the row with the code that was read *)
Spent(c) == \E r \in Reached(c) : r.code = call[c].code

UseCode(c) ==
  /\ At(c, "use")
  /\ IF Spent(c)
     THEN /\ codes' = {r \in codes : r \notin Reached(c) \/ r.code # call[c].code}
          /\ uses' = [uses EXCEPT ![call[c].code] = @ + 1]
          /\ Go(c, "settle")
     ELSE End(c) /\ UNCHANGED <<codes, uses>>
  /\ UNCHANGED <<users, links, session, sent, passwords, wrong, superseded, stray>>

(* The account is made or gets its address, unless either is taken: the    *)
(* check before and the unique index say the same.  The code is spent.     *)
Settle(c) ==
  LET u == call[c].user
      e == call[c].email
      bound == u \in Known
  IN
  /\ At(c, "settle")
  /\ IF Owner(e) \ {u} # {} \/ (bound # (call[c].for = u))
     THEN End(c) /\ UNCHANGED users
     ELSE /\ users' = IF bound THEN [users EXCEPT ![u].email = e]
                      ELSE [v \in Known \cup {u} |-> IF v = u THEN NewUser(e, 0) ELSE users[v]]
          /\ IF bound THEN Go(c, "kill") ELSE End(c)
  /\ UNCHANGED <<codes, links, session, sent, passwords>> /\ UNCHANGED history

(* Mutation of Retired: no link is touched. *)
MutRetired(u) == links

(* The account's links that are not used count as used *)
Retired(u) == {IF l.user = u THEN [l EXCEPT !.used = TRUE] ELSE l : l \in links}

KillLinks(c) ==
  /\ At(c, "kill") /\ End(c)
  /\ links' = Retired(call[c].user)
  /\ UNCHANGED <<users, codes, session, sent, passwords>> /\ UNCHANGED history

-----------------------------------------------------------------------------
(* Links.                                                                  *)

Live(u) == {l.id : l \in {k \in links : k.user = u /\ ~k.used}}

RequestPasswordReset(c, u) ==
  LET e == users[u].email
      last == {l \in links : l.email = e /\ \A k \in links : k.email = e => k.id <= l.id}
  IN
  /\ Budget /\ u \in Known /\ e # NoEmail
  /\ \A l \in last : ~l.recent
  /\ call[c] = Free
  /\ call' = [call EXCEPT ![c] = [at |-> "retire", for |-> u, user |-> u, email |-> e,
                                  code |-> 0, seen |-> Live(u)]]
  /\ UNCHANGED tables /\ UNCHANGED history

RetireLinks(c) ==
  /\ At(c, "retire") /\ Go(c, "link")
  /\ links' = Retired(call[c].user)
  /\ UNCHANGED <<users, codes, session, sent, passwords>> /\ UNCHANGED history

StoreLink(c) ==
  LET u == call[c].user IN
  /\ At(c, "link")
  /\ sent' = sent + 1
  /\ links' = links \cup {[id |-> sent + 1, user |-> u, email |-> call[c].email,
                           used |-> FALSE, expired |-> FALSE, recent |-> TRUE]}
  /\ superseded' = superseded \cup call[c].seen
  /\ stray' = IF users[u].email # call[c].email THEN stray \cup {sent + 1} ELSE stray
  /\ call' = [call EXCEPT ![c].at = "mail link", ![c].code = sent + 1]
  /\ UNCHANGED <<users, codes, session, passwords, uses, wrong>>

MailLink(c) ==
  /\ At(c, "mail link") /\ End(c)
  /\ links' \in {links, {l \in links : l.id # call[c].code}}
  /\ UNCHANGED <<users, codes, session, sent, passwords>> /\ UNCHANGED history

ResetPassword(c, l) ==
  /\ l \in links /\ ~l.used /\ ~l.expired /\ MayRehash
  /\ Begin(c, "claim", l.user, l.user, l.email, l.id)
  /\ UNCHANGED tables /\ UNCHANGED history

Unclaimed(c) == {l \in links : l.id = call[c].code /\ ~l.used}

ClaimLink(c) ==
  /\ At(c, "claim")
  /\ IF Unclaimed(c) = {} THEN End(c) /\ UNCHANGED <<links, uses>>
     ELSE /\ links' = (links \ Unclaimed(c)) \cup {[l EXCEPT !.used = TRUE] : l \in Unclaimed(c)}
          /\ uses' = [uses EXCEPT ![call[c].code] = @ + 1]
          /\ Go(c, "set")
  /\ UNCHANGED <<users, codes, session, sent, passwords, wrong, superseded, stray>>

-----------------------------------------------------------------------------
(* Passwords and sessions.                                                 *)

Rehash(u) ==
  /\ passwords' = passwords + 1
  /\ users' = [users EXCEPT ![u].password = passwords + 1]

SetPassword(c) ==
  /\ At(c, "set") /\ End(c) /\ Rehash(call[c].user)
  /\ UNCHANGED <<codes, links, session, sent>> /\ UNCHANGED history

(* The account whose session is accepted proves it knows its password *)
ChangePassword(c, u) ==
  /\ u \in Known /\ users[u].on /\ MayRehash
  /\ Begin(c, "set", u, u, NoEmail, 0)
  /\ UNCHANGED tables /\ UNCHANGED history

Login(c, u) ==
  /\ u \in Known /\ users[u].on
  /\ Begin(c, "issue", u, u, NoEmail, users[u].password)
  /\ UNCHANGED tables /\ UNCHANGED history

(* Mutation of SessionVer: of the account's row as it is now. *)
MutSessionVer(c) == users[call[c].user].password

(* The fingerprint of the row the password was checked against *)
SessionVer(c) == call[c].code

IssueToken(c) ==
  /\ At(c, "issue") /\ End(c)
  /\ session' = [user |-> call[c].user, typed |-> call[c].code, ver |-> SessionVer(c)]
  /\ UNCHANGED <<users, codes, links, sent, passwords>> /\ UNCHANGED history

(* JWTAuth *)
Accepted(s) == s # Free /\ users[s.user].on /\ users[s.user].password = s.ver

-----------------------------------------------------------------------------
(* Administrators.                                                         *)

Supers == {u \in Known : users[u].super /\ users[u].on}

SelfLock(operator, u) == operator # u

(* A super administrator, checked as the request comes in, changes an      *)
(* account; the change is written later.                                   *)
UpdateAdmin(c, operator, u, change) ==
  /\ u \in Admins /\ Cardinality({d \in Calls : call[d].at \in Editing}) < MaxEdits
  /\ operator \in Supers /\ SelfLock(operator, u)
  /\ Begin(c, change, operator, u, NoEmail, 0)
  /\ UNCHANGED tables /\ UNCHANGED history

(* Mutation of AnotherLeft: the guard of a demotion is dropped. *)
MutAnotherLeft == TRUE

AnotherLeft == Cardinality(Supers) > 1

EditAdmin(c) ==
  LET u == call[c].user IN
  /\ \/ At(c, "promote") /\ users' = [users EXCEPT ![u].super = TRUE]
     \/ At(c, "demote") /\ users' = IF AnotherLeft
                                    THEN [users EXCEPT ![u].super = FALSE] ELSE users
     \/ At(c, "disable") /\ users' = [users EXCEPT ![u].on = FALSE]
     \/ At(c, "enable") /\ users' = [users EXCEPT ![u].on = TRUE]
  /\ End(c)
  /\ UNCHANGED <<codes, links, session, sent, passwords>> /\ UNCHANGED history

(* An address given by an administrator is not asked for; links stay *)
EditEmail(u, e) ==
  /\ Supers \ {u} # {} /\ u \in Admins /\ (e # NoEmail => Owner(e) \ {u} = {})
  /\ users' = [users EXCEPT ![u].email = e]
  /\ stray' = stray \cup Live(u)
  /\ UNCHANGED <<codes, links, session, sent, passwords, call, uses, wrong, superseded>>

ResetByAdmin(u) ==
  /\ u \in Known /\ Supers \ {u} # {} /\ MayRehash
  /\ Rehash(u)
  /\ UNCHANGED <<codes, links, session, sent, call>> /\ UNCHANGED history

-----------------------------------------------------------------------------
(* Time: a mail may be sent again long before its code or link expires.    *)

Ages(row) == {[row EXCEPT !.recent = FALSE], [row EXCEPT !.recent = FALSE, !.expired = TRUE]} \ {row}

Passes ==
  /\ \/ \E r \in codes : \E q \in Ages(r) : codes' = (codes \ {r}) \cup {q} /\ UNCHANGED links
     \/ \E l \in links : \E k \in Ages(l) : links' = (links \ {l}) \cup {k} /\ UNCHANGED codes
  /\ UNCHANGED <<users, session, sent, passwords, call>> /\ UNCHANGED history

Typed == 0..sent

Starts(c) ==
  \/ \E e \in Emails : SendCode(c, e)
  \/ \E u \in Accounts, e \in Emails, k \in Typed : Register(c, u, e, k) \/ BindEmail(c, u, e, k)
  \/ \E u \in Accounts, e \in Emails : SendBindCode(c, u, e)
  \/ \E u \in Known : RequestPasswordReset(c, u) \/ ChangePassword(c, u) \/ Login(c, u)
  \/ \E l \in links : ResetPassword(c, l)
  \/ \E o, u \in Admins, change \in Editing : UpdateAdmin(c, o, u, change)

GoesOn(c) ==
  \/ ClearCodes(c) \/ StoreCode(c) \/ MailCode(c)
  \/ CountWrong(c) \/ Recheck(c) \/ DropCode(c) \/ UseCode(c) \/ Settle(c) \/ KillLinks(c)
  \/ RetireLinks(c) \/ StoreLink(c) \/ MailLink(c) \/ ClaimLink(c)
  \/ SetPassword(c) \/ IssueToken(c) \/ EditAdmin(c)

AccountsNext ==
  \/ \E c \in Calls : Starts(c) \/ GoesOn(c)
  \/ \E u \in Known, e \in Emails \cup {NoEmail} : EditEmail(u, e)
  \/ \E u \in Known : ResetByAdmin(u)
  \/ Passes

AccountsSpec == AccountsInit /\ [][AccountsNext]_avars

-----------------------------------------------------------------------------
(* Every table has its rows, and an address has one code and one account.  *)
AccountsTypeOK ==
  /\ Known \subseteq Accounts
  /\ \A u \in Known : users[u] \in
       [email : Emails \cup {NoEmail}, password : 0..passwords, on : BOOLEAN, super : BOOLEAN]
  /\ codes \subseteq [for : Emails \cup Accounts, email : Emails, code : 1..sent,
                      wrong : 0..MaxWrong, expired : BOOLEAN, recent : BOOLEAN]
  /\ links \subseteq [id : 1..sent, user : Known, email : Emails,
                      used : BOOLEAN, expired : BOOLEAN, recent : BOOLEAN]
  /\ sent \in 0..MaxMails /\ passwords \in Nat
  /\ \A e \in Emails : Cardinality(RowsFor(e)) <= 1 /\ Cardinality(Owner(e)) <= 1

(* A code or link works once, however many calls bring it at once          *)
(* (verification.go:131, reset.go:144).                                    *)
WorksOnce == \A k \in 1..MaxMails : uses[k] <= 1

(* Wrong answers to a code are counted even if they come together: when    *)
(* nothing is under way, a code that got too many is gone                  *)
(* (verification.go:118).                                                  *)
GuessesCapped ==
  (\A c \in Calls : call[c] = Free) => \A r \in codes : wrong[r.code] < MaxWrong

(* Only the newest mail counts: a code or link that was there when a later *)
(* one was asked for is never taken after that one was stored              *)
(* (reset.go:78, emailbind.go:86).                                         *)
NewestCounts ==
  [][\A k \in 1..MaxMails : k \in superseded => uses'[k] = uses[k]]_avars

(* A link does not outlive the address it was sent to, except for a link   *)
(* asked for before the account was bound to another address and stored    *)
(* after, and for an address an administrator changed (emailbind.go:171).  *)
OldLinksDie == \A l \in links :
  ~l.used /\ users[l.user].email # l.email =>
    l.id \in stray \/ \E c \in Calls : At(c, "kill") /\ call[c].user = l.user

(* A session that is accepted was opened with the password the account has *)
(* now, also if the password changed while it was opened (auth.go:78).     *)
SessionKnowsPassword ==
  Accepted(session) => session.typed = users[session.user].password

(* The last super administrator who can log in is lost only to a           *)
(* suspension by one who was a super administrator when the request came   *)
(* in and is none any more: never to a demotion, and never while whoever   *)
(* makes the change keeps the power to undo it (admins.go:163).            *)
LastOneGuarded ==
  [][Supers # {} /\ Supers' = {} =>
       \E c \in Calls : At(c, "disable") /\ call[c].for \notin Supers]_avars

(* "After a suspension or a demotion at least the operator is left as a    *)
(* super administrator in service" (admins.go:9).                          *)
NoLockout == Supers # {}
=============================================================================
