------------------------- MODULE MCClientInstaller -------------------------
EXTENDS ClientInstaller, TLC
CONSTANTS d1, d2, c1

MCHosts == 1..3
MCGateway == 1
\* Both machines may be given a name other than their host name.
MCHostName == [c \in Clients |-> IF c = c1 THEN d1 ELSE d2]
MCManual == {[server |-> GatewayKey, address |-> 3, endpoint |-> None]}
MCNoManual == {}
Symmetric == Permutations(Tokens) \cup Permutations(Keys)
=============================================================================
