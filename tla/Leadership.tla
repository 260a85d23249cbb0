----------------------------- MODULE Leadership ------------------------------
(***************************************************************************)
(* What the controllers are promised: one replica works as the leader at a *)
(* time, the next one starts after it has stopped or given up, and         *)
(* whenever nobody does somebody starts.                                   *)
(***************************************************************************)
CONSTANTS Replicas, Nobody

VARIABLE leader

Init == leader = Nobody

Start(r) == leader = Nobody /\ leader' = r

Stop == leader # Nobody /\ leader' = Nobody

Next == Stop \/ \E r \in Replicas : Start(r)

Spec == Init /\ [][Next]_leader /\ WF_leader(\E r \in Replicas : Start(r))
=============================================================================
