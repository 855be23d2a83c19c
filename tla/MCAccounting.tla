---------------------------- MODULE MCAccounting ----------------------------
(* A behaviour is about one of four matters: two approval calls and two     *)
(* tickets over one org with one member; the balances of months, with a     *)
(* settlement a month and two instances, of which one archives; a bill of   *)
(* the second month beside them; two archivers that fail and crash over     *)
(* three rows and rest while balances are written.                          *)
EXTENDS Approvals, MonthlyClose

CONSTANTS n1, n2

MCOrgs == {"org"}
MCUsers == {"admin", "member"}
MCOrgOf == [u \in MCUsers |-> "org"]
MCAdminOf == [o \in MCOrgs |-> "admin"]

VARIABLE about

NodesServed == \A n \in Nodes : job[n].at \in {"asleep", "down"}

MCInit ==
  /\ CloseInit /\ ApprovalInit
  /\ about \in {"approvals", "balances", "bills", "archive"}

OneEach ==
  /\ now' <= 3 /\ arch'[n2] = Idle /\ faults' <= 1
  /\ \A r \in open' : r[2] = 1

Balances ==
  /\ OneEach /\ bill' = NoBill
  /\ faults' > faults => job' # job

Bills ==
  /\ OneEach
  /\ faults' > faults => bill' # bill
  /\ bill' # NoBill => bill'.month = 2 /\ bill'.opening # None
  /\ bill = NoBill \/ arch' = arch

Archive ==
  /\ manual' = 0 /\ bill' = NoBill
  /\ \A r \in open' : r[1] + r[2] <= 3
  /\ open = {} \/ <<arch, job>>' = <<arch, job>>
  /\ late' => Cardinality(charged) >= 2
  /\ faults' > faults => arch' # arch

Closing ==
  /\ CloseNext
  /\ NodesServed \/ arch' = arch \/ job' # job
  /\ \/ about = "balances" /\ Balances
     \/ about = "bills" /\ Bills
     \/ about = "archive" /\ Archive

MCNext ==
  /\ UNCHANGED about
  /\ \/ about = "approvals" /\ ApprovalNext /\ UNCHANGED cvars
     \/ Closing /\ UNCHANGED <<vars, avars>>

MCSpec == MCInit /\ [][MCNext]_<<cvars, vars, avars, about>> /\ CloseFairness
=============================================================================
