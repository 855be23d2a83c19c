------------------------------ MODULE MCRelay ------------------------------
(* A behaviour is about one of two matters: a request over two channels of  *)
(* one vendor and its two keys, one channel preferred; or the translation   *)
(* of a conversation and of the answer to it, when requests are over.       *)
EXTENDS Relay, Translation

CONSTANTS r1, c1, c2, k1, k2
MCVendorOf == [x \in {c1, c2, k1, k2} |-> "v"]
MCPriority == (c1 :> 1 @@ c2 :> 0)

VARIABLE about

NoRequests ==
  /\ coordinator = "mem" /\ keyOn = {} /\ chanOn = {} /\ cooling = {} /\ marked = {}
  /\ slots = [c \in Channels |-> 0] /\ others = slots
  /\ req = [r \in Requests |-> [NewRequest EXCEPT !.at = "refused", !.status = 503]]
  /\ causes = [r \in Requests |-> {}]

MCInit ==
  /\ TranslationInit
  /\ \/ about = "relay" /\ RelayInit /\ api = "chat"
     \/ about = "translation" /\ NoRequests

MCNext ==
  /\ UNCHANGED about
  /\ \/ about = "relay" /\ RelayNext /\ UNCHANGED tvars
     \/ about = "translation" /\ TranslationNext /\ UNCHANGED rvars

MCSpec == MCInit /\ [][MCNext]_<<rvars, tvars, about>> /\ \A r \in Requests : WF_rvars(GoesOn(r))
=============================================================================
