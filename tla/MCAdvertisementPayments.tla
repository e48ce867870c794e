---------------------- MODULE MCAdvertisementPayments ----------------------
EXTENDS AdvertisementPayments, TLC

CONSTANTS o1, o2, p1, p2, basic, plus

Symmetry == Permutations(Orders) \cup Permutations(Procs) \cup Permutations(Products)

\* A payment attempt fails, or the price changes between two checkouts, not both: neither is a
\* step that has to happen, so the fairness stays what it is.
OneTrouble ==
    (\E e \in sent' : e.kind = "failed") => \A o \in Orders : order'[o].product \in {None, basic}

TroubleSpec == Init /\ [][Next /\ OneTrouble]_vars /\ Fairness
=============================================================================
