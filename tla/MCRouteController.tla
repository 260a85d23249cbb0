-------------------------- MODULE MCRouteController --------------------------
(* RouteController for TLC. *)
EXTENDS RouteController

CONSTANTS h1, h2

\* The Route starts with host h1, as good as any other.
FirstHostInit == Init /\ route.host = h1

FreshLiveSpec == FirstHostInit /\ [][FreshNext]_vars /\ Fairness
=============================================================================
