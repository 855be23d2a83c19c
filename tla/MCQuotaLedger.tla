-------------------------- MODULE MCQuotaLedger --------------------------
(* Small instances of QuotaLedger: one org with its admin and one member. *)
EXTENDS QuotaLedger, TLC

MCOrgs == {"org"}
MCUsers == {"admin", "member"}
MCOrgOf == [u \in MCUsers |-> "org"]
MCAdminOf == [o \in MCOrgs |-> "admin"]
MCOrgDeltas == {3, -1}

Symmetry == Permutations(Reqs)
=============================================================================
