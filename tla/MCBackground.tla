---------------------------- MODULE MCBackground ----------------------------
(* Beside the requests: a customer's warnings on two instances, or two      *)
(* videos with one client and one instance that sweeps a row at a time.     *)
EXTENDS Alerts, VideoTasks

CONSTANTS n1, n2, c1, c2, t1, t2

OneOrTwoLevels == {<<>>, <<50, 100>>}

VARIABLE about

MCInit ==
  /\ AlertInit /\ VideoInit
  /\ org.limit = 2 /\ org.levels # <<>>
  /\ about \in {"warnings", "videos"} /\ (about = "videos" => org.balance = 0)

MCNext ==
  /\ UNCHANGED about
  /\ \/ about = "warnings" /\ AlertNext /\ UNCHANGED videoVars
     \/ about = "videos" /\ VideoNext /\ UNCHANGED alertVars

MCSpec ==
  /\ MCInit /\ [][MCNext]_<<alertVars, videoVars, about>>
  /\ AlertFairness /\ \E n \in Sweepers : SweepFairness(n)
=============================================================================
