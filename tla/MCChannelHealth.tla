-------------------------- MODULE MCChannelHealth --------------------------
(* One vendor, one channel and its key; requests and the administrator in  *)
(* one goroutine, prober and periodic test in another.                     *)
EXTENDS ChannelHealth

MCVendors == {"v1"}
MCKeys == {"k1"}
OnePool == [k \in MCKeys |-> "v1"]
MCWorkers == {"call", "loop"}
MCJobs == [w \in MCWorkers |-> IF w = "call" THEN {"call"} ELSE {"recover", "test"}]
=============================================================================
