------------------------- MODULE PeerManagerProofs -------------------------
(***************************************************************************)
(* The WireGuard configuration stays sound under any interleaving of any   *)
(* number of callers.  No lock is needed for it: every text that is ever   *)
(* written was computed from one text that was read, and both calls turn a *)
(* sound text into a sound text.  BasesSound says that of the text each    *)
(* unfinished call still holds.                                            *)
(***************************************************************************)
EXTENDS PeerManager, TLAPS

\* A call that has read holds a sound text without the block of its device,
\* and an ensure_peer has found no other block with its key.
BasesSound ==
    \A p \in Procs : call[p] # None =>
        /\ call[p].op = "ensure" => call[p].addr \in Hosts
        /\ call[p].step # "read" =>
              /\ Sound(call[p].base)
              /\ \A b \in call[p].base : b.owner # call[p].dev
              /\ call[p].op = "ensure" => ~Clashes(call[p].base, call[p].key)

PInv ==
    /\ PeersTypeOK
    /\ ConfigurationSound
    /\ BasesSound

USE DEF Block, Peer, Call

LEMMA StripIsSound ==
    ASSUME NEW blocks \in SUBSET Block, Sound(blocks), NEW d \in Devices
    PROVE  /\ Strip(blocks, d) \in SUBSET Block
           /\ Sound(Strip(blocks, d))
           /\ \A b \in Strip(blocks, d) : b.owner # d
BY GatewaysAssumption DEF Strip, Sound

LEMMA AddingIsSound ==
    ASSUME NEW blocks \in SUBSET Block, Sound(blocks),
           NEW d \in Devices, NEW k \in Keys, NEW a \in Hosts,
           \A b \in blocks : b.owner # d, ~Clashes(blocks, k)
    PROVE  /\ blocks \cup {ManagedBlock(d, k, a)} \in SUBSET Block
           /\ Sound(blocks \cup {ManagedBlock(d, k, a)})
<1> DEFINE new == ManagedBlock(d, k, a)
<1>1. new \in Block /\ new.owner = d /\ new.key = k
  BY DEF ManagedBlock
<1>2. d # None
  BY GatewaysAssumption
<1> HIDE DEF new
<1>3. {b \in blocks \cup {new} : b.owner = None} = Unmanaged
  BY <1>1, <1>2 DEF Sound
<1>4. ASSUME NEW b \in blocks \cup {new}, NEW c \in blocks \cup {new}
      PROVE  /\ b.key = c.key => b = c
             /\ b.owner = c.owner /\ b.owner # None => b = c
  BY <1>1 DEF Sound, Clashes
<1> QED BY <1>1, <1>3, <1>4 DEF Sound, new

LEMMA WgKeepsTypes ==
    ASSUME NEW peers \in SUBSET Peer, NEW k \in Keys, NEW a \in Hosts
    PROVE  WgSet(peers, k, a) \in SUBSET Peer
BY DEF WgSet

LEMMA PeersInitEstablishes == PeersInit => PInv
BY PeerManagerAssumption, GatewaysAssumption
   DEF PeersInit, PInv, PeersTypeOK, ConfigurationSound, Sound, BasesSound

-----------------------------------------------------------------------------
(* One lemma per kind of step.                                             *)

LEMMA BeginningPreserves ==
    ASSUME PInv, NEW p \in Procs, CallBegins(p)
    PROVE  PInv'
<1> USE GatewaysAssumption, CallAssumption
<1> DEFINE Fresh(c) == /\ call' = [call EXCEPT ![p] = c]
                       /\ c.step = "read"
                       /\ c.op = "ensure" => c.addr \in Hosts
<1>1. PICK new \in Call : Fresh(new)
  <2>1. PICK d \in Devices, k \in Keys :
           (\E a \in Hosts : EnsureCall(p, d, k, a)) \/ RemoveCall(p, d, k)
    BY DEF CallBegins
  <2>2. ASSUME NEW a \in Hosts, EnsureCall(p, d, k, a)
        PROVE  \E c \in Call : Fresh(c)
    <3> DEFINE new == [op |-> "ensure", step |-> "read", dev |-> d, key |-> k,
                       addr |-> a, base |-> {}, same |-> FALSE]
    <3>1. new \in Call /\ new.step = "read" /\ new.addr \in Hosts
      OBVIOUS
    <3>2. call' = [call EXCEPT ![p] = new]
      BY <2>2 DEF EnsureCall
    <3> HIDE DEF new
    <3> QED BY <3>1, <3>2
  <2>3. ASSUME RemoveCall(p, d, k)
        PROVE  \E c \in Call : Fresh(c)
    <3> DEFINE new == [op |-> "remove", step |-> "read", dev |-> d, key |-> k,
                       addr |-> None, base |-> {}, same |-> FALSE]
    <3>1. new \in Call /\ new.step = "read" /\ new.op # "ensure"
      OBVIOUS
    <3>2. call' = [call EXCEPT ![p] = new]
      BY <2>3 DEF RemoveCall
    <3> HIDE DEF new
    <3> QED BY <3>1, <3>2
  <2> QED BY <2>1, <2>2, <2>3
<1>2. UNCHANGED <<conf, live>>
  BY DEF CallBegins
<1>3. PeersTypeOK'
  BY <1>1, <1>2 DEF PInv, PeersTypeOK
<1>4. \A q \in Procs : call'[q] = IF q = p THEN new ELSE call[q]
  BY <1>1 DEF PInv, PeersTypeOK
<1>5. BasesSound'
  BY <1>1, <1>4 DEF PInv, BasesSound
<1>6. ConfigurationSound'
  BY <1>2 DEF PInv, ConfigurationSound
<1> QED BY <1>3, <1>5, <1>6 DEF PInv

LEMMA ReadingPreserves ==
    ASSUME PInv, NEW p \in Procs, EnsureRead(p) \/ RemoveRead(p)
    PROVE  PInv'
<1> USE GatewaysAssumption, CallAssumption
<1> DEFINE base == Strip(conf, call[p].dev)
<1>1. /\ call[p] \in Call /\ call[p] # None
      /\ UNCHANGED <<conf, live>>
  BY DEF PInv, PeersTypeOK, EnsureRead, RemoveRead, At
<1>2. PICK same \in BOOLEAN :
         call' = [call EXCEPT ![p].step = "live", ![p].base = base, ![p].same = same]
  BY DEF EnsureRead, RemoveRead
<1>3. base \in SUBSET Block /\ Sound(base) /\ \A b \in base : b.owner # call[p].dev
  BY <1>1, StripIsSound DEF PInv, PeersTypeOK, ConfigurationSound
<1>4. call[p].op = "ensure" => ~Clashes(base, call[p].key)
  BY DEF EnsureRead, RemoveRead, At
<1>5. /\ \A q \in Procs \ {p} : call'[q] = call[q]
      /\ call'[p].op = call[p].op /\ call'[p].dev = call[p].dev
      /\ call'[p].key = call[p].key /\ call'[p].addr = call[p].addr
      /\ call'[p].base = base
  BY <1>1, <1>2 DEF PInv, PeersTypeOK
<1>6. PeersTypeOK'
  BY <1>1, <1>2, <1>3 DEF PInv, PeersTypeOK
<1>7. BasesSound'
  BY <1>1, <1>3, <1>4, <1>5 DEF PInv, BasesSound
<1>8. ConfigurationSound'
  BY <1>1 DEF PInv, ConfigurationSound
<1> QED BY <1>6, <1>7, <1>8 DEF PInv

LEMMA InterfacePreserves ==
    ASSUME PInv, NEW p \in Procs, EnsureLive(p) \/ RemoveLive(p)
    PROVE  PInv'
<1> USE GatewaysAssumption, CallAssumption
<1>1. /\ call[p] \in Call /\ call[p] # None /\ call[p].step = "live"
      /\ call' = [call EXCEPT ![p].step = "write"]
      /\ UNCHANGED conf
  BY DEF PInv, PeersTypeOK, EnsureLive, RemoveLive, At
<1>2. live' \in SUBSET Peer
  <2>1. CASE EnsureLive(p)
    <3>1. call[p].addr \in Hosts /\ call[p].key \in Keys /\ live \in SUBSET Peer
      BY <1>1, <2>1 DEF PInv, PeersTypeOK, BasesSound, EnsureLive, At
    <3> QED BY <2>1, <3>1, WgKeepsTypes DEF EnsureLive
  <2>2. CASE RemoveLive(p)
    BY <2>2 DEF RemoveLive, WgRemove, PInv, PeersTypeOK
  <2> QED BY <2>1, <2>2
<1>3. \A q \in Procs : call'[q] =
         IF q = p THEN [call[p] EXCEPT !.step = "write"] ELSE call[q]
  BY <1>1 DEF PInv, PeersTypeOK
<1>4. PeersTypeOK'
  BY <1>1, <1>2 DEF PInv, PeersTypeOK
<1>5. BasesSound'
  BY <1>1, <1>3 DEF PInv, BasesSound
<1>6. ConfigurationSound'
  BY <1>1 DEF PInv, ConfigurationSound
<1> QED BY <1>4, <1>5, <1>6 DEF PInv

LEMMA WritingPreserves ==
    ASSUME PInv, NEW p \in Procs, EnsureWrite(p) \/ RemoveWrite(p)
    PROVE  PInv'
<1> USE GatewaysAssumption, CallAssumption
<1> DEFINE c == call[p]
<1>1. /\ c \in Call /\ c # None /\ c.step = "write"
      /\ call' = [call EXCEPT ![p] = None]
      /\ UNCHANGED live
  BY DEF PInv, PeersTypeOK, EnsureWrite, RemoveWrite, At
<1>2. Sound(c.base) /\ \A b \in c.base : b.owner # c.dev
  BY <1>1 DEF PInv, BasesSound
<1>3. conf' \in SUBSET Block /\ ConfigurationSound'
  <2>1. CASE UNCHANGED conf
    BY <2>1 DEF PInv, PeersTypeOK, ConfigurationSound
  <2>2. CASE EnsureWrite(p) /\ conf' = Desired(p)
    BY <1>1, <1>2, <2>2, AddingIsSound
       DEF EnsureWrite, At, Desired, PInv, BasesSound, ConfigurationSound
  <2>3. CASE RemoveWrite(p) /\ conf' = c.base
    BY <1>1, <1>2, <2>3 DEF ConfigurationSound
  <2> QED BY <2>1, <2>2, <2>3 DEF EnsureWrite, RemoveWrite
<1>4. PeersTypeOK'
  BY <1>1, <1>3 DEF PInv, PeersTypeOK
<1>5. BasesSound'
  BY <1>1 DEF PInv, BasesSound, PeersTypeOK
<1> QED BY <1>3, <1>4, <1>5 DEF PInv

LEMMA EndingPreserves ==
    ASSUME PInv, NEW S \in SUBSET Procs, CallsEnd(S)
    PROVE  PInv'
BY DEF PInv, CallsEnd, PeersTypeOK, BasesSound, ConfigurationSound

LEMMA PeersStutterPreserves == PInv /\ UNCHANGED peerVars => PInv'
BY DEF PInv, peerVars, PeersTypeOK, BasesSound, ConfigurationSound

LEMMA PeersStepPreserves == PInv /\ [PeersNext]_peerVars => PInv'
BY BeginningPreserves, ReadingPreserves, InterfacePreserves, WritingPreserves,
   EndingPreserves, PeersStutterPreserves DEF PeersNext, CallStep

LEMMA PeersInvariance == PeersSpec => []PInv
BY PeersInitEstablishes, PeersStepPreserves, PTL DEF PeersSpec

-----------------------------------------------------------------------------
\* The file and the interface stay in their types.
THEOREM PeersTypeCorrect == PeersSpec => []PeersTypeOK
<1>1. PInv => PeersTypeOK
  BY DEF PInv
<1> QED BY <1>1, PeersInvariance, PTL

\* Whatever calls interleave and wherever they fail, the administrator's own
\* blocks stay, a device has one block, and a key is in one block.
THEOREM ConfigurationIsSound == PeersSpec => []ConfigurationSound
<1>1. PInv => ConfigurationSound
  BY DEF PInv
<1> QED BY <1>1, PeersInvariance, PTL
=============================================================================
