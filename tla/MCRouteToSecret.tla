--------------------------- MODULE MCRouteToSecret ---------------------------
(* RouteToSecret for TLC. *)
EXTENDS RouteToSecret

CONSTANTS r1, r2, s1

\* The annotation names the Secret like the Route ("" stands for that name).
OwnNameOrNone == [r \in RouteNames |-> {r, NoName}]

\* The annotation names another Secret than the Route's name.
OtherName == [r \in RouteNames |-> {s1}]
=============================================================================
