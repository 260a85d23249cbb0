--------------------------- MODULE ExposerContract ---------------------------
(***************************************************************************)
(* The exposer of a challenge as one thing: it is built part by part,      *)
(* comes up, may lose parts or go down, and is removed; and a challenge is *)
(* accepted only after its exposer was seen up.  Module Exposers is shown  *)
(* to implement it.  RouteController has a coarser exposer of its own, put *)
(* up in one step of sync as far as the calls succeed, which does not fall *)
(* apart.                                                                  *)
(***************************************************************************)
VARIABLES stage,      \* of the exposer
          vouched,    \* its token was seen served
          challenge   \* on the ACME server

vars == <<stage, vouched, challenge>>

Init == stage = "none" /\ vouched = FALSE /\ challenge = "pending"

Build == /\ \/ stage = "none"    /\ stage' = "partial"
            \/ stage = "partial" /\ stage' \in {"created", "up"}
            \/ stage = "created" /\ stage' = "up"
         /\ UNCHANGED <<vouched, challenge>>

Decay == /\ \/ stage = "up"      /\ stage' \in {"none", "partial", "created"}
            \/ stage = "created" /\ stage' \in {"none", "partial"}
            \/ stage = "partial" /\ stage' = "none"
         /\ UNCHANGED <<vouched, challenge>>

\* The token is fetched; what was learnt lasts to the end of the sync.
Vouch   == stage = "up" /\ vouched' = TRUE /\ UNCHANGED <<stage, challenge>>
Unvouch == vouched' = FALSE /\ UNCHANGED <<stage, challenge>>

Accept == /\ challenge = "pending" /\ vouched
          /\ challenge' = "processing" /\ vouched' = FALSE
          /\ UNCHANGED stage

\* The ACME server decides on the challenge or drops it; a later order may bring
\* the same challenge again.
Decide == challenge # "done" /\ challenge' = "done" /\ UNCHANGED <<stage, vouched>>
Reopen == challenge = "done" /\ challenge' = "pending" /\ UNCHANGED <<stage, vouched>>

Next == Build \/ Decay \/ Vouch \/ Unvouch \/ Accept \/ Decide \/ Reopen

Spec == Init /\ [][Next]_vars
=============================================================================
