------------------------------ MODULE MCMembers -----------------------------
(* The instances of Members that TLC checks; the configurations give the    *)
(* constants.                                                               *)
EXTENDS Members

\* Bound: of a crash, a failed call, another service's copy and an update (which
\* stores nothing), two in one run.
TwoExtras ==
    crashes + faults + Cardinality(Sent("update", "own"))
        + Cardinality({e \in Events : e.origin = "foreign" /\ place[e] # "unpublished"}) <= 2
=============================================================================
