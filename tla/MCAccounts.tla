----------------------------- MODULE MCAccounts -----------------------------
(* Two administrators, a customer that registers, and two addresses.  A    *)
(* behaviour is about one of four matters, to keep their product small:    *)
(* codes that are sent, answered and used; addresses that are bound or     *)
(* given while links go to them; links that are used beside log-ins and    *)
(* changes of passwords; edits of administrators beside these.             *)
EXTENDS Accounts, TLC

CONSTANTS u1, u2, u3, e1, e2, c1, c2
Symmetry == Permutations({u1, u2}) \cup Permutations({e1, e2}) \cup Permutations({c1, c2})

VARIABLE about

Not(stages) == \A c \in Calls : call'[c].at \notin stages
Same == \A u \in Known : users'[u].on = users[u].on /\ users'[u].super = users[u].super
Keep == \A u \in Known : users'[u].email = users[u].email
Using == Editing \cup {"issue", "claim", "set"}

MCInit == AccountsInit /\ about \in {"codes", "addresses", "links", "admins"}
MCNext ==
  /\ AccountsNext /\ UNCHANGED about
  /\ CASE about = "codes" -> /\ Same /\ UNCHANGED <<passwords, links>>
                             /\ call' = call => Keep
                             /\ Not(Using \cup {"retire"})
       [] about = "addresses" -> /\ Same /\ UNCHANGED passwords
                                 /\ Not(Using \cup {"count"})
                                 /\ \A r \in codes' : r.for \notin Emails
       [] about = "links" -> Keep /\ Not(Editing \cup {"clear", "store"})
       [] about = "admins" -> Keep /\ Not({"clear", "store", "retire"})
MCSpec == MCInit /\ [][MCNext]_<<avars, about>>
=============================================================================
