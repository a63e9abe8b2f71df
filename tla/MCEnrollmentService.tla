------------------------ MODULE MCEnrollmentService ------------------------
EXTENDS EnrollmentService, TLC
CONSTANT kU

MCProcs == Threads \cup Shells
MCHosts == 1..4
MCGateway == 1
\* One hand-written peer, whose key a request may also present.
MCUnmanaged == {[owner |-> None, key |-> kU, ips |-> {2}]}
Symmetric == Permutations(Threads) \cup Permutations(Shells)
                \cup Permutations(Tokens) \cup Permutations(Keys \ {kU})

\* Behaviours in which operations overlap only as requests do that nobody refuses:
\* enrolments with keys of their own, nothing having failed or died.
Busy == {p \in Procs : proc[p] # None}
OnlyEnrolmentsOverlap ==
    Cardinality(Busy) > 1 =>
        /\ failed = {} /\ crashes = 0
        /\ \A p \in Busy : proc[p].op = "enroll" /\ proc[p].key # kU
=============================================================================
