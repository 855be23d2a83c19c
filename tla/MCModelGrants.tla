--------------------------- MODULE MCModelGrants ---------------------------
(* One customer.  Two vendors with a model each, or one vendor with two     *)
(* models, of which one may be opened by name and deleted.                  *)
EXTENDS ModelGrants, TLC

MCVendors == {"v1", "v2"}

TwoModels == {"m1", "m2"}
TwoHomes == [m \in TwoModels |-> IF m = "m1" THEN "v1" ELSE "v2"]
TwoServing == [m \in TwoModels |-> {TwoHomes[m]}]

OneVendor == {"v1"}
OneHome == [m \in TwoModels |-> "v1"]
OneServing == [m \in TwoModels |-> OneVendor]

Symmetry == Permutations(Users) \cup Permutations(Calls)
=============================================================================
