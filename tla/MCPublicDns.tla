---------------------------- MODULE MCPublicDns ----------------------------
EXTENDS PublicDns, TLC
CONSTANTS d1, d2, d3

MCProcs == Threads \cup Shells
MCHosts == 1..4
MCGateway == 1
\* Name 1 is operational, and d3 has the identifier of that name.
MCNames == 1..3
MCOperational == {1}
MCHostName == [d \in Devices |-> IF d = d1 THEN 2 ELSE IF d = d2 THEN 3 ELSE 1]
Symmetric == Permutations(Tokens) \cup Permutations(Threads) \cup Permutations(Keys)
=============================================================================
