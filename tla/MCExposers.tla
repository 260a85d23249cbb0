----------------------------- MODULE MCExposers ------------------------------
EXTENDS Exposers

\* CPU of an exposer, in thousandths.
MCAsked == [request |-> 5, limit |-> 100]

\* Minima below, between and above request and limit; maxima likewise; ratios with
\* and without remainder.  The API server takes no item that contradicts itself.
MCRangeItems ==
    {it \in [min   : {0, 7, 50, 150},
             max   : {NoMax, 60, 120, 200},
             ratio : {0, 1000, 1500, 3000, 4000, 7000}] :
        it.max # NoMax => it.min <= it.max /\ it.ratio * it.min <= 1000 * it.max}

\* A namespace that lets the exposer run (25 of 100), and one that refuses it.
MCRangeLists ==
    {<<[min |-> 7, max |-> 120, ratio |-> 4000]>>, <<[min |-> 0, max |-> 60, ratio |-> 0]>>}
=============================================================================
