--------------------------- MODULE IssuerSelection ---------------------------
(***************************************************************************)
(* Which issuer the provisioning loop gets for a Route                     *)
(* (pkg/controllerutils), while users edit the issuers and the account     *)
(* controller works on them.  The Route is in the namespace of the issuers.*)
(***************************************************************************)
EXTENDS AccountController

Lists == INSTANCE SequencesExt

\* Priority of a ConfigMap; what strconv.Atoi refuses counts as 0.
Prio(i) == IF ccache[i].prio = NoPrio THEN 0 ELSE ccache[i].prio

\* The function given to sort.Slice: lower number first, newer first.  Two
\* ConfigMaps may each come before the other, one by number and one by age.
LessOldest(l, r) == Prio(l) < Prio(r) \/ ccache[l].created < ccache[r].created
Less(l, r) == Prio(l) < Prio(r) \/ ccache[l].created > ccache[r].created

\* sort.Slice on up to 12 elements is an insertion sort: each element moves left
\* as long as it is less than its left neighbour.
Placed(sorted, i) ==
    LET stays == {0} \cup {k \in 1 .. Len(sorted) : ~ Less(i, sorted[k])}
        after == CHOOSE k \in stays : \A j \in stays : j <= k
    IN  SubSeq(sorted, 1, after) \o <<i>> \o SubSeq(sorted, after + 1, Len(sorted))

Sorted(list) ==
    LET run[k \in 0 .. Len(list)] ==
            IF k = 0 THEN <<>> ELSE Placed(run[k - 1], list[k])
    IN  run[Len(list)]

\* getIssuerConfigMapsForObject: the ConfigMap that the Route names, labelled or
\* not, or else every labelled one.
Candidates(name) ==
    IF name # NoName THEN {i \in {name} : ccache[i].exists}
                     ELSE {i \in Issuers : ccache[i].exists /\ ccache[i].labelled}

\* The issuers that IssuerForObject may take: the listers answer in the order of
\* a Go map, that is in any order.
Chosen(name) ==
    IF Candidates(name) = {} THEN {}
    ELSE {Sorted(list)[1] : list \in Lists!SetToSeqs(Candidates(name))}

\* IssuerForObject with issuer i returns an ACME issuer and its Secret, and the
\* Secret holds an account key.
Usable(i) ==
    LET c == ccache[i] IN
    /\ c.kind = "acme" /\ c.secretName # NoName
    /\ scache[c.secretName].exists /\ scache[c.secretName].key # 0

-----------------------------------------------------------------------------
(* Properties. *)

\* No issuer is before another by number and after it by age, and no two are alike.
Unambiguous ==
    \A l, r \in Candidates(NoName) :
        l # r => \/ Less(l, r) /\ ~ Less(r, l)
                 \/ Less(r, l) /\ ~ Less(l, r)

\* An order in flight can be continued only with the account that opened it.  As
\* long as number and age do not contradict each other, every sync of a Route
\* gets the same issuer, the newest of those with the lowest number, in whatever
\* order the lister answers.
StableChoice ==
    Unambiguous =>
        Chosen(NoName) =
            {i \in Candidates(NoName) :
                \A j \in Candidates(NoName) \ {i} :
                    \/ Prio(i) < Prio(j)
                    \/ Prio(i) = Prio(j) /\ ccache[i].created > ccache[j].created}

\* Once users and faults leave the issuers alone, every labelled ACME issuer that
\* a Route may get, by name or by precedence, is usable; unless the ACME server
\* refuses to register accounts, or a Secret with the name is somebody else's.
IssuersUsable ==
    <>[](\/ limited
         \/ \A name \in Issuers \cup {NoName} : \A i \in Chosen(name) :
               \/ Usable(i)
               \/ ~ ccache[i].labelled \/ ccache[i].kind # "acme"
               \/ secrets[Named(i, ccache[i]).secretName].key = 0
                    /\ secrets[Named(i, ccache[i]).secretName].exists)
=============================================================================
