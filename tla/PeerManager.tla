---------------------------- MODULE PeerManager ----------------------------
(***************************************************************************)
(* PeerManager (peer_manager.py): the persistent WireGuard configuration   *)
(* and the running interface, changed by ensure_peer and remove_peer.      *)
(*                                                                         *)
(* Both calls read the whole file, strip the managed block of one device   *)
(* from the text they read, change the interface with `wg set`, and        *)
(* replace the file.  Nothing locks it between the read and the            *)
(* replacement, so a call is three steps and calls of several processes    *)
(* interleave.  Each read and each replacement is atomic (os.replace).     *)
(*                                                                         *)
(* The file is the set of its [Peer] blocks; a block without an owner has  *)
(* no managed markers.  Order and blank lines are abstracted, except that  *)
(* they decide whether a text with the same blocks is written back.        *)
(***************************************************************************)
EXTENDS Gateways

CONSTANT Unmanaged      \* the peers an administrator wrote into the file

Block == [owner: Devices \cup {None}, key: Keys, ips: SUBSET Hosts]
Peer == [key: Keys, ips: SUBSET Hosts]

ASSUME PeerManagerAssumption ==
    /\ Unmanaged \subseteq [owner: {None}, key: Keys, ips: SUBSET Hosts]
    /\ \A b, c \in Unmanaged : b.key = c.key => b = c

VARIABLES
    conf,       \* the blocks of /etc/wireguard/gway.conf
    live,       \* the peers of the running interface
    call        \* the peer-manager call each process is in, or None

peerVars == <<conf, live, call>>

\* base: the blocks that were read, without those of dev; same: writing them
\* back with the call's own block changes no block.
Call == [op: {"ensure", "remove"}, step: {"read", "live", "write"},
         dev: Devices, key: Keys, addr: Hosts \cup {None},
         base: SUBSET Block, same: BOOLEAN]

ASSUME CallAssumption == None \notin Call

PeersTypeOK ==
    /\ conf \in SUBSET Block
    /\ live \in SUBSET Peer
    /\ call \in [Procs -> Call \cup {None}]

PeersInit ==
    /\ conf = Unmanaged
    /\ live = {[key |-> b.key, ips |-> b.ips] : b \in Unmanaged}
    /\ call = [p \in Procs |-> None]

-----------------------------------------------------------------------------
\* _strip_managed_block
Strip(blocks, d) == {b \in blocks : b.owner # d}

ManagedBlock(d, k, a) == [owner |-> d, key |-> k, ips |-> {a}]

\* reserved_networks: the AllowedIPs of every block, whoever wrote it.
MutReservedNetworks == UNION {b.ips : b \in {c \in conf : c.owner # None}}
ReservedNetworks == UNION {b.ips : b \in conf}

\* `wg set peer k allowed-ips a` gives k that address alone, and takes it from
\* whichever peer had it: an address routes to one peer.
WgSet(peers, k, a) ==
    {[q EXCEPT !.ips = @ \ {a}] : q \in {r \in peers : r.key # k}}
        \cup {[key |-> k, ips |-> {a}]}

WgRemove(peers, k) == {q \in peers : q.key # k}

Clashes(blocks, k) == \E b \in blocks : b.key = k

At(p, op, step) == call[p] # None /\ call[p].op = op /\ call[p].step = step

-----------------------------------------------------------------------------
EnsureCall(p, d, k, a) ==
    call' = [call EXCEPT ![p] =
        [op |-> "ensure", step |-> "read", dev |-> d, key |-> k, addr |-> a,
         base |-> {}, same |-> FALSE]]

RemoveCall(p, d, k) ==
    call' = [call EXCEPT ![p] =
        [op |-> "remove", step |-> "read", dev |-> d, key |-> k, addr |-> None,
         base |-> {}, same |-> FALSE]]

Desired(p) == call[p].base \cup {ManagedBlock(call[p].dev, call[p].key, call[p].addr)}

\* ensure_peer reads, and refuses a key that another block already has.
MutEnsureRead(p) ==
    /\ At(p, "ensure", "read")
    /\ LET base == Strip(conf, call[p].dev)
           block == ManagedBlock(call[p].dev, call[p].key, call[p].addr)
       IN  call' = [call EXCEPT ![p].step = "live", ![p].base = base,
                                ![p].same = (conf = base \cup {block})]
    /\ UNCHANGED <<conf, live>>
EnsureRead(p) ==
    /\ At(p, "ensure", "read")
    /\ LET base == Strip(conf, call[p].dev)
           block == ManagedBlock(call[p].dev, call[p].key, call[p].addr)
       IN  /\ ~Clashes(base, call[p].key)
           /\ call' = [call EXCEPT ![p].step = "live", ![p].base = base,
                                   ![p].same = (conf = base \cup {block})]
    /\ UNCHANGED <<conf, live>>

EnsureClash(p) ==
    /\ At(p, "ensure", "read")
    /\ Clashes(Strip(conf, call[p].dev), call[p].key)

EnsureLive(p) ==
    /\ At(p, "ensure", "live")
    /\ live' = WgSet(live, call[p].key, call[p].addr)
    /\ call' = [call EXCEPT ![p].step = "write"]
    /\ UNCHANGED conf

\* The file is replaced unless the text is the one that was read.
EnsureWrite(p) ==
    /\ At(p, "ensure", "write")
    /\ \/ conf' = Desired(p)
       \/ call[p].same /\ UNCHANGED conf
    /\ call' = [call EXCEPT ![p] = None]
    /\ UNCHANGED live

RemoveRead(p) ==
    /\ At(p, "remove", "read")
    /\ LET base == Strip(conf, call[p].dev)
       IN  call' = [call EXCEPT ![p].step = "live", ![p].base = base,
                                ![p].same = (conf = base)]
    /\ UNCHANGED <<conf, live>>

RemoveLive(p) ==
    /\ At(p, "remove", "live")
    /\ live' = WgRemove(live, call[p].key)
    /\ call' = [call EXCEPT ![p].step = "write"]
    /\ UNCHANGED conf

\* Without a block of the device in what was read there is nothing to write.
RemoveWrite(p) ==
    /\ At(p, "remove", "write")
    /\ conf' = IF call[p].same THEN conf ELSE call[p].base
    /\ call' = [call EXCEPT ![p] = None]
    /\ UNCHANGED live

\* An exception, whether the file, the interface or the clash raised it, or
\* the death of the processes in S: the steps in hand have no effect.
CallsEnd(S) ==
    /\ call' = [p \in Procs |-> IF p \in S THEN None ELSE call[p]]
    /\ UNCHANGED <<conf, live>>

CallStep(p) ==
    \/ EnsureRead(p) \/ EnsureLive(p) \/ EnsureWrite(p)
    \/ RemoveRead(p) \/ RemoveLive(p) \/ RemoveWrite(p)

\* A call, which may be the answer to the exception that ended the last one.
CallBegins(p) ==
    /\ \E d \in Devices, k \in Keys :
          \/ \E a \in Hosts : EnsureCall(p, d, k, a)
          \/ RemoveCall(p, d, k)
    /\ UNCHANGED <<conf, live>>

PeersNext ==
    \/ \E p \in Procs : CallBegins(p) \/ CallStep(p)
    \/ \E S \in SUBSET Procs : CallsEnd(S)

PeersSpec == PeersInit /\ [][PeersNext]_peerVars

-----------------------------------------------------------------------------
(***************************************************************************)
(* Properties.                                                             *)
(***************************************************************************)

\* Exactly the administrator's own blocks, at most one block for a device, and
\* no key in two blocks.
Sound(blocks) ==
    /\ {b \in blocks : b.owner = None} = Unmanaged
    /\ \A b, c \in blocks :
          /\ b.key = c.key => b = c
          /\ b.owner = c.owner /\ b.owner # None => b = c

\* However calls interleave, the file keeps the administrator's blocks as they
\* were, never has two blocks for one device, and never has one key in two
\* blocks.  A lost update may drop or revive a block, but not break the file.
ConfigurationSound == Sound(conf)
=============================================================================
