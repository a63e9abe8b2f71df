-------------------------- MODULE EnrollmentLedger --------------------------
(***************************************************************************)
(* What the device registry promises to everyone who uses it, without      *)
(* transactions: one atomic step spends one enrolment token and, in the    *)
(* same instant, either enters a fresh device under a key and an address   *)
(* nobody holds, or confirms a device that is still enabled under its own  *)
(* key.  Nothing is ever deleted, and a revoked device stays revoked.      *)
(* Registry.tla, which runs the code's transactions step by step, is       *)
(* proved to implement this module.                                        *)
(***************************************************************************)
CONSTANTS
    Devices,    \* device identifiers
    Keys,       \* WireGuard public keys
    Tokens,     \* enrolment tokens, by their hashes
    Hosts,      \* usable host addresses of GWAY_WG_NETWORK
    Gateway,    \* GWAY_GATEWAY_ADDRESS
    None

VARIABLES
    devices,    \* the committed rows of table devices
    tokens      \* the committed rows of table enrollment_tokens

vars == <<devices, tokens>>

\* A row of table devices and a row of table enrollment_tokens.  The hostname
\* is a function of the device identifier and the time stamps are left out.
Row == [key: Keys, addr: Hosts, enabled: BOOLEAN]
TokenRow == [scope: Devices \cup {None}, consumed: BOOLEAN]

Init ==
    /\ devices = [d \in Devices |-> None]
    /\ tokens = [t \in Tokens |-> None]

Issue(t, scope) ==
    /\ tokens[t] = None
    /\ tokens' = [tokens EXCEPT ![t] = [scope |-> scope, consumed |-> FALSE]]
    /\ UNCHANGED devices

Spend(t, d) ==
    /\ tokens[t] # None
    /\ ~tokens[t].consumed
    /\ tokens[t].scope \in {None, d}
    /\ tokens' = [tokens EXCEPT ![t].consumed = TRUE]

\* A device that has no row gets one: its key and its address are new.
Enter(d, k, a) ==
    /\ devices[d] = None
    /\ a # Gateway
    /\ \A e \in Devices : devices[e] # None => devices[e].key # k /\ devices[e].addr # a
    /\ devices' = [devices EXCEPT ![d] = [key |-> k, addr |-> a, enabled |-> TRUE]]

\* A device that has one keeps it, and must present the key of its row.
Confirm(d, k) ==
    /\ devices[d] # None
    /\ devices[d].enabled
    /\ devices[d].key = k
    /\ UNCHANGED devices

Enroll(d, k, t) ==
    /\ Spend(t, d)
    /\ \/ \E a \in Hosts : Enter(d, k, a)
       \/ Confirm(d, k)

Revoke(d) ==
    /\ devices[d] # None
    /\ devices' = [devices EXCEPT ![d].enabled = FALSE]
    /\ UNCHANGED tokens

Next ==
    \/ \E t \in Tokens, s \in Devices \cup {None} : Issue(t, s)
    \/ \E d \in Devices, k \in Keys, t \in Tokens : Enroll(d, k, t)
    \/ \E d \in Devices : Revoke(d)

Spec == Init /\ [][Next]_vars
=============================================================================
