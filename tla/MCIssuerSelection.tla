-------------------------- MODULE MCIssuerSelection --------------------------
EXTENDS IssuerSelection

CONSTANTS a, i1  \* a member of Contacts, a member of Issuers

\* One issuer without priority annotation; the others are older and have one, or
\* are absent.
MCManifests ==
    LET c == [exists |-> TRUE, labelled |-> TRUE, kind |-> "acme", prio |-> NoPrio,
              created |-> 1, secretName |-> NoName, contacts |-> a, uri |-> 0]
    IN  [i \in Issuers |-> IF i = i1 THEN {c}
                           ELSE {[c EXCEPT !.prio = 1, !.created = 0],
                                 [c EXCEPT !.exists = FALSE]}]
=============================================================================
