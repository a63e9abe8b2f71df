---------------------------- MODULE MCDeployment ----------------------------
EXTENDS Deployment, TLC
CONSTANTS a, b

MCLabels == {"vpn", "register", "enroll"}
\* The default name of one domain, and another name in the other.
MCTargets == {Name("register", a), Name("enroll", b)}
Symmetric == Permutations(Keys)
\* An edit and a kill do not happen in one behaviour; a failure may come with either.
FewMishaps == kills + edits <= 1
=============================================================================
