------------------------------ MODULE Gateways ------------------------------
(***************************************************************************)
(* The names every part of one gateway shares.                             *)
(***************************************************************************)
EXTENDS Naturals

CONSTANTS
    Devices,    \* device identifiers
    Keys,       \* WireGuard public keys
    Hosts,      \* ip_network.hosts(): every address but network and broadcast
    Gateway,    \* GWAY_GATEWAY_ADDRESS, the gateway's own address
    Procs,      \* request threads of the service and administrators' commands
    None

ASSUME GatewaysAssumption ==
    /\ Hosts \subseteq Nat
    /\ None \notin Devices
=============================================================================
