----------------------------- MODULE AtomicZone -----------------------------
(***************************************************************************)
(* What "reconcile operational names and registry-owned device records     *)
(* atomically" promises of the public zone: it changes one registry-owned  *)
(* name at a time, or all of them at once to what the registry says, and   *)
(* an operation that raises does not change it.                            *)
(***************************************************************************)
CONSTANTS Devices, Names, Operational, HostName, Ours, Nothing, None

VARIABLES
    zone,       \* the record set of each name
    devices     \* the rows of the registry

\* The zone sync_devices aims at: names of no row stay as they are.
Reconciled ==
    [n \in Names |->
        IF n \in Operational \/ \E d \in Devices :
              devices[d] # None /\ devices[d].enabled /\ HostName[d] = n
        THEN Ours
        ELSE IF \E d \in Devices : devices[d] # None /\ HostName[d] = n
        THEN Nothing
        ELSE zone[n]]

\* A name appears with the commit of its row, or for a row that is enabled.
Ensure(d) ==
    /\ HostName[d] \notin Operational
    /\ devices'[d] # None /\ devices'[d].enabled
    /\ zone' = [zone EXCEPT ![HostName[d]] = Ours]

Delete(d) ==
    /\ HostName[d] \notin Operational
    /\ devices[d] # None
    /\ zone' = [zone EXCEPT ![HostName[d]] = Nothing]

Sync == zone' = Reconciled

Next == Sync \/ \E d \in Devices : Ensure(d) \/ Delete(d)
=============================================================================
