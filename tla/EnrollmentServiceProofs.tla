----------------------- MODULE EnrollmentServiceProofs ----------------------
(***************************************************************************)
(* Every step of the gateway is a step of the registry and a step of the   *)
(* peer manager, or leaves them alone.  So the theorems about those two    *)
(* modules hold of the whole gateway, with any number of request threads,  *)
(* commands, failures and deaths.  From them follows RangesRespected:      *)
(* although an enrolment reads the configuration before it owns the write  *)
(* lock, no device is given an address of an administrator's own peer.     *)
(*                                                                         *)
(* The second half is about the stores: what the registry, the file, the   *)
(* interface and the hosts file say of a device agrees once operations     *)
(* have returned (AInv, HInv), where one operation at a time changes the   *)
(* gateway.  A call of the peer manager writes the file from what it read, *)
(* so its inductive invariant follows the call from its read to its write. *)
(***************************************************************************)
EXTENDS EnrollmentService, RegistryProofs, PeerManagerProofs, FiniteSetTheorems

ServiceTypeOK ==
    /\ hosts \in SUBSET Entry
    /\ proc \in [Procs -> Operation \cup {None}]
    /\ failed \in SUBSET Stages
    /\ crashes \in 0..MaxCrashes

\* What the operation of p promises about the calls it is going to make.
Controlled(p) ==
    /\ proc[p] # None =>
          /\ proc[p].op = "enroll" =>
                proc[p].dev \in Devices /\ proc[p].key \in Keys /\ proc[p].token \in Tokens
          /\ proc[p].op = "revoke" /\ proc[p].at \in {"peer", "revoke"} =>
                proc[p].dev \in Enrolled /\ proc[p].key \in Keys
    /\ call[p] # None =>
          /\ proc[p] # None
          /\ proc[p].at = "peer"
          /\ call[p].op = "ensure" => proc[p].op \in {"enroll", "restore"}
          /\ call[p].op = "remove" => proc[p].op \in {"undo", "revoke"}

ControlSound == \A p \in Procs : Controlled(p)

\* An enrolment that waits for the lock has the administrator's ranges in hand,
\* and the draft of one that has it is inside none of them.
Ranged(p) ==
    \A b \in Unmanaged :
        /\ proc[p] # None /\ proc[p].op = "enroll" /\ proc[p].at = "prepare"
              => b.ips \subseteq proc[p].reserved
        /\ txn[p] # None => txn[p].row.addr \notin b.ips

RangesKept == RangesRespected /\ \A p \in Procs : Ranged(p)

SInv ==
    /\ IInv
    /\ PInv
    /\ ServiceTypeOK
    /\ ControlSound
    /\ RangesKept

USE DEF Row, TokenRow, Txn, Block, Peer, Call, Entry, Operation, Stages

LEMMA ServiceInitEstablishes == Init => SInv
<1> SUFFICES ASSUME Init PROVE SInv
  OBVIOUS
<1> USE GatewaysAssumption, ServiceAssumption
<1>1. IInv /\ PInv
  BY InitEstablishes, PeersInitEstablishes DEF Init
<1>2. ServiceTypeOK
  BY DEF Init, ServiceTypeOK
<1>3. ControlSound /\ RangesKept
  BY DEF Init, RegistryInit, PeersInit, ControlSound, Controlled, RangesKept, Ranged,
         RangesRespected, Enrolled
<1> QED BY <1>1, <1>2, <1>3 DEF SInv

-----------------------------------------------------------------------------
(* Steps of the gateway seen by the registry.                              *)

LEMMA PrepareIsARegistryStep ==
    ASSUME SInv, NEW p \in Procs, Prepare(p)
    PROVE  RegistryNext
<1> USE OperationAssumption
<1>1. /\ proc[p].dev \in Devices /\ proc[p].key \in Keys /\ proc[p].token \in Tokens
      /\ proc[p].reserved \in SUBSET Hosts
  BY DEF SInv, ControlSound, Controlled, ServiceTypeOK, Prepare, Doing
<1>2. BeginEnrollment(p, proc[p].dev, proc[p].key, proc[p].token, proc[p].reserved)
  BY DEF Prepare
<1> QED BY <1>1, <1>2 DEF RegistryNext

\* At most one transaction is open, so a death ends one or none.
LEMMA DeathIsARegistryStep ==
    ASSUME SInv, NEW S \in SUBSET Procs, Dies(S)
    PROVE  [RegistryNext]_regVars
<1> USE RegistryAssumption
<1>1. CASE \A p \in S : txn[p] = None
  <2>1. txn' = txn
    BY <1>1 DEF Dies, SInv, IInv, RegistryTypeOK
  <2> QED BY <2>1 DEF Dies, regVars
<1>2. CASE \E p \in S : txn[p] # None
  <2>1. PICK p \in S : txn[p] # None
    BY <1>2
  <2>2. \A q \in Procs : q # p => txn[q] = None
    BY <2>1 DEF SInv, IInv, OneWriter
  <2>3. txn' = [txn EXCEPT ![p] = None]
    BY <2>1, <2>2 DEF Dies, SInv, IInv, RegistryTypeOK
  <2>4. Rollback(p)
    BY <2>1, <2>3 DEF Rollback, Dies
  <2> QED BY <2>1, <2>4 DEF RegistryNext
<1> QED BY <1>1, <1>2

LEMMA StepIsARegistryStep ==
    ASSUME SInv, Next
    PROVE  [RegistryNext]_regVars
<1>1. ASSUME NEW p \in Procs, Abort(p)
      PROVE  RegistryNext
  BY <1>1 DEF Abort, RegistryNext
<1>2. ASSUME NEW p \in Procs, DisableRow(p)
      PROVE  RegistryNext
  <2>1. proc[p].dev \in Devices
    BY <1>2 DEF DisableRow, Doing, SInv, ControlSound, Controlled, Enrolled
  <2> QED BY <1>2, <2>1 DEF DisableRow, RegistryNext
<1>3. ASSUME NEW p \in Procs, Steps(p)
      PROVE  [RegistryNext]_regVars
  <2>1. CASE Prepare(p)
    BY <2>1, PrepareIsARegistryStep
  <2>2. CASE Commit(p)
    BY <2>2 DEF Commit, RegistryNext
  <2>3. CASE EnrollFails(p) \/ EnsureRaises(p)
    BY <2>3, <1>1 DEF EnrollFails, EnsureRaises
  <2>4. CASE DisableRow(p)
    BY <2>4, <1>2
  <2>5. CASE ReadReservations(p) \/ Reject(p) \/ SyncHostsInside(p) \/ PeerStep(p)
    BY <2>5 DEF ReadReservations, Reject, SyncHostsInside, PeerStep
  <2>6. CASE Ensured(p) \/ Removed(p) \/ RemoveRaises(p) \/ DisableFails(p)
    BY <2>6 DEF Ensured, Removed, RemoveRaises, DisableFails, RestorePeer
  <2>7. CASE ListDevices(p) \/ SyncHosts(p) \/ SyncHostsFails(p)
    BY <2>7 DEF ListDevices, SyncHosts, SyncHostsFails
  <2> QED BY <1>3, <2>1, <2>2, <2>3, <2>4, <2>5, <2>6, <2>7 DEF Steps
<1>4. ASSUME NEW p \in Procs, Kill(p) \/ Crash
      PROVE  [RegistryNext]_regVars
  BY <1>4, DeathIsARegistryStep, ServiceAssumption DEF Kill, Crash
<1>5. ASSUME NEW p \in Procs,
             \/ \E d \in Devices, k \in Keys, t \in Tokens : Receive(p, d, k, t)
             \/ \E d \in Devices : StartRevoke(p, d)
             \/ StartSyncHosts(p)
      PROVE  UNCHANGED regVars
  BY <1>5 DEF Receive, StartRevoke, StartSyncHosts
<1>6. ASSUME NEW t \in Tokens,
             (\E scope \in Devices \cup {None} : IssueToken(t, scope)) \/ PassTime(t)
      PROVE  RegistryNext
  BY <1>6 DEF IssueToken, PassTime, RegistryNext
<1>7. CASE Crash
  BY <1>7, DeathIsARegistryStep, ServiceAssumption DEF Crash
<1> QED BY <1>3, <1>4, <1>5, <1>6, <1>7 DEF Next

-----------------------------------------------------------------------------
(* Steps of the gateway seen by the peer manager.                          *)

\* The draft a prepared enrolment goes on with, which is in no range of the
\* administrator's: an address just allocated avoids the ranges in hand.
LEMMA PreparedDraft ==
    ASSUME SInv, NEW p \in Procs, Prepare(p)
    PROVE  /\ txn'[p] \in Txn
           /\ \A q \in Procs \ {p} : txn'[q] = txn[q]
           /\ \A b \in Unmanaged : txn'[p].row.addr \notin b.ips
<1> USE OperationAssumption, RegistryAssumption
<1> DEFINE d == proc[p].dev
           reserved == proc[p].reserved
<1>1. d \in Devices /\ proc[p].key \in Keys /\ proc[p].token \in Tokens
  BY DEF SInv, ControlSound, Controlled, Prepare, Doing
<1>2. PICK draft \in Txn :
         /\ txn' = [txn EXCEPT ![p] = draft]
         /\ IF draft.created
            THEN draft.row.addr \notin reserved
            ELSE devices[d] # None /\ draft.row = devices[d]
  BY <1>1, BeginDraft DEF Prepare, SInv
<1>3. txn'[p] = draft /\ \A q \in Procs \ {p} : txn'[q] = txn[q]
  BY <1>2 DEF SInv, IInv, RegistryTypeOK
<1>4. ASSUME NEW b \in Unmanaged
      PROVE  draft.row.addr \notin b.ips
  <2>1. CASE draft.created
    BY <1>2, <2>1 DEF SInv, RangesKept, Ranged, Prepare, Doing
  <2>2. CASE ~draft.created
    BY <1>1, <1>2, <2>2 DEF SInv, RangesKept, RangesRespected, Enrolled
  <2> QED BY <2>1, <2>2
<1> QED BY <1>3, <1>4

LEMMA PrepareIsAPeersStep ==
    ASSUME SInv, NEW p \in Procs, Prepare(p)
    PROVE  PeersNext
<1>1. /\ proc[p].dev \in Devices /\ proc[p].key \in Keys
      /\ EnsureCall(p, proc[p].dev, proc[p].key, txn'[p].row.addr)
      /\ UNCHANGED <<conf, live>>
  BY OperationAssumption DEF SInv, ControlSound, Controlled, Prepare, Doing
<1>2. txn'[p].row.addr \in Hosts
  BY PreparedDraft
<1> QED BY <1>1, <1>2 DEF PeersNext, CallBegins

\* The peer that is put back is that of a device the registry still has.
LEMMA RestoreIsAPeersStep ==
    ASSUME SInv, NEW p \in Procs, RestorePeer(p), proc[p].dev \in Enrolled,
           proc[p].key \in Keys
    PROVE  PeersNext
<1>1. proc[p].dev \in Devices /\ devices[proc[p].dev].addr \in Hosts
  BY DEF Enrolled, SInv, IInv, RegistryTypeOK
<1> QED BY <1>1 DEF RestorePeer, PeersNext, CallBegins

LEMMA AbortIsAPeersStep ==
    ASSUME SInv, NEW p \in Procs, Abort(p), proc[p] # None
    PROVE  PeersNext
<1>1. proc[p].dev \in Devices /\ proc[p].key \in Keys
  BY DEF Abort, SInv, ControlSound, Controlled
<1>2. CallBegins(p) \/ CallsEnd({p})
  BY <1>1 DEF Abort, CallBegins
<1> QED BY <1>2 DEF PeersNext

LEMMA StepIsAPeersStep ==
    ASSUME SInv, Next
    PROVE  [PeersNext]_peerVars
<1>1. ASSUME NEW p \in Procs, Steps(p)
      PROVE  [PeersNext]_peerVars
  <2>1. CASE Prepare(p)
    BY <2>1, PrepareIsAPeersStep
  <2>2. CASE EnrollFails(p)
    BY <2>2, AbortIsAPeersStep DEF EnrollFails, Doing
  <2>3. CASE PeerStep(p)
    BY <2>3 DEF PeerStep, PeersNext, CallStep
  <2>4. CASE Ensured(p) \/ Removed(p)
    BY <2>4 DEF Ensured, Removed, PeersNext, CallStep
  <2>5. CASE EnsureRaises(p)
    <3>1. proc[p] # None
      BY <2>5 DEF EnsureRaises, SInv, ControlSound, Controlled
    <3>2. CASE proc[p].op = "enroll"
      BY <2>5, <3>1, <3>2, AbortIsAPeersStep DEF EnsureRaises
    <3>3. CASE proc[p].op # "enroll"
      BY <2>5, <3>3 DEF EnsureRaises, PeersNext
    <3> QED BY <3>2, <3>3
  <2>6. CASE RemoveRaises(p)
    <3>1. CASE proc[p].op = "undo"
      BY <2>6, <3>1 DEF RemoveRaises, PeersNext
    <3>2. CASE proc[p].op # "undo"
      <4>1. proc[p].dev \in Enrolled /\ proc[p].key \in Keys
        BY <2>6, <3>2 DEF RemoveRaises, SInv, ControlSound, Controlled
      <4> QED BY <2>6, <3>2, <4>1, RestoreIsAPeersStep DEF RemoveRaises
    <3> QED BY <3>1, <3>2
  <2>7. CASE DisableFails(p)
    <3>1. proc[p].dev \in Enrolled /\ proc[p].key \in Keys
      BY <2>7 DEF DisableFails, Doing, SInv, ControlSound, Controlled
    <3> QED BY <2>7, <3>1, RestoreIsAPeersStep DEF DisableFails
  <2>8. CASE ReadReservations(p) \/ Reject(p) \/ SyncHostsInside(p) \/ Commit(p)
    BY <2>8 DEF ReadReservations, Reject, SyncHostsInside, Commit
  <2>9. CASE DisableRow(p) \/ ListDevices(p) \/ SyncHosts(p) \/ SyncHostsFails(p)
    BY <2>9 DEF DisableRow, ListDevices, SyncHosts, SyncHostsFails
  <2> QED BY <1>1, <2>1, <2>2, <2>3, <2>4, <2>5, <2>6, <2>7, <2>8, <2>9 DEF Steps
<1>2. ASSUME NEW p \in Procs, NEW d \in Devices, StartRevoke(p, d)
      PROVE  [PeersNext]_peerVars
  <2>1. devices[d].key \in Keys
    BY <1>2 DEF StartRevoke, SInv, IInv, RegistryTypeOK
  <2>2. CASE devices[d].enabled
    BY <1>2, <2>1, <2>2 DEF StartRevoke, PeersNext, CallBegins
  <2>3. CASE ~devices[d].enabled
    BY <1>2, <2>3 DEF StartRevoke, peerVars
  <2> QED BY <2>2, <2>3
<1>3. ASSUME NEW p \in Procs,
             \/ \E d \in Devices, k \in Keys, t \in Tokens : Receive(p, d, k, t)
             \/ StartSyncHosts(p)
      PROVE  UNCHANGED peerVars
  BY <1>3 DEF Receive, StartSyncHosts
<1>4. ASSUME NEW t \in Tokens,
             (\E scope \in Devices \cup {None} : IssueToken(t, scope)) \/ PassTime(t)
      PROVE  UNCHANGED peerVars
  BY <1>4 DEF IssueToken, PassTime
<1>5. ASSUME NEW p \in Procs, Kill(p)
      PROVE  PeersNext
  BY <1>5 DEF Kill, Dies, PeersNext
<1>6. CASE Crash
  BY <1>6, ServiceAssumption DEF Crash, Dies, PeersNext
<1> QED BY <1>1, <1>2, <1>3, <1>4, <1>5, <1>6 DEF Next

-----------------------------------------------------------------------------
(* The records of the operations.                                          *)

LEMMA ComponentsPreserve ==
    ASSUME SInv, Next
    PROVE  IInv' /\ PInv' /\ Enrolled \subseteq Enrolled'
<1>1. IInv' /\ PInv'
  BY StepIsARegistryStep, StepIsAPeersStep, StepPreserves, PeersStepPreserves DEF SInv
<1>2. ASSUME NEW e \in Enrolled
      PROVE  e \in Enrolled'
  <2>1. devices'[e] # None
    BY StepIsARegistryStep, StepKeepsRows DEF SInv
  <2> QED BY <2>1 DEF Enrolled
<1> QED BY <1>1, <1>2

LEMMA GoesFacts ==
    ASSUME ServiceTypeOK, NEW p \in Procs, proc[p] # None,
           NEW op \in {"enroll", "undo", "revoke", "restore", "hosts"},
           NEW at \in {"reserve", "prepare", "peer", "hosts", "commit", "revoke", "list", "sync"},
           Goes(p, op, at)
    PROVE  /\ proc' \in [Procs -> Operation \cup {None}]
           /\ \A q \in Procs \ {p} : proc'[q] = proc[q]
           /\ proc'[p] \in Operation
           /\ proc'[p].op = op /\ proc'[p].at = at
           /\ proc'[p].dev = proc[p].dev /\ proc'[p].key = proc[p].key
           /\ proc'[p].token = proc[p].token
BY DEF ServiceTypeOK, Goes

LEMMA ReturnsFacts ==
    ASSUME ServiceTypeOK, NEW p \in Procs, Returns(p)
    PROVE  /\ proc' \in [Procs -> Operation \cup {None}]
           /\ \A q \in Procs \ {p} : proc'[q] = proc[q]
           /\ proc'[p] = None
BY DEF ServiceTypeOK, Returns

LEMMA EntriesAreTyped ==
    ASSUME NEW rows \in [Devices -> Row \cup {None}]
    PROVE  Entries(rows) \in SUBSET Entry
BY DEF Entries

\* The view a transaction renders is a table of rows.
LEMMA ViewIsTyped ==
    ASSUME IInv, NEW p \in Procs
    PROVE  View(p) \in [Devices -> Row \cup {None}]
<1>1. txn[p] # None => txn[p].dev \in Devices /\ txn[p].row \in Row
  BY DEF IInv, RegistryTypeOK
<1> QED BY <1>1 DEF View, IInv, RegistryTypeOK

\* Rows change by a commit, which installs a draft, and by a revocation, which
\* leaves the address alone.
LEMMA RangesStay ==
    ASSUME SInv, [RegistryNext]_regVars
    PROVE  RangesRespected'
<1> USE RegistryAssumption
<1> SUFFICES ASSUME NEW d \in Enrolled', NEW b \in Unmanaged
             PROVE  devices'[d].addr \notin b.ips
  BY DEF RangesRespected
<1>1. d \in Devices
  BY DEF Enrolled
<1>2. CASE d \in Enrolled
  BY <1>2, StepKeepsRows DEF SInv, RangesKept, RangesRespected
<1>3. CASE d \notin Enrolled
  <2>1. devices'[d] # devices[d]
    BY <1>1, <1>3 DEF Enrolled
  <2>2. CASE \E p \in Procs : CommitEnrollment(p)
    <3>1. PICK p \in Procs : CommitEnrollment(p)
      BY <2>2
    <3>2. txn[p] \in Txn /\ txn[p] # None
      BY <3>1 DEF SInv, IInv, RegistryTypeOK, CommitEnrollment
    <3>3. devices'[d] = txn[p].row
      BY <1>1, <2>1, <3>1, <3>2 DEF CommitEnrollment, View, SInv, IInv, RegistryTypeOK
    <3> QED BY <3>2, <3>3 DEF SInv, RangesKept, Ranged
  <2>3. CASE \E e \in Devices : RevokeRow(e)
    <3>1. PICK e \in Devices : RevokeRow(e)
      BY <2>3
    <3>2. d = e
      BY <1>1, <2>1, <3>1 DEF RevokeRow, SInv, IInv, RegistryTypeOK
    <3> QED BY <1>1, <1>3, <3>1, <3>2 DEF RevokeRow, Enrolled
  <2>4. UNCHANGED devices \/ (\E p \in Procs : CommitEnrollment(p))
           \/ (\E e \in Devices : RevokeRow(e))
    BY DEF RegistryNext, regVars, BeginEnrollment, Rollback, CreateToken, Expire
  <2> QED BY <2>1, <2>2, <2>3, <2>4
<1> QED BY <1>2, <1>3

-----------------------------------------------------------------------------
(* A step of one operation leaves the others alone and keeps its promises. *)

Local(p) ==
    /\ ServiceTypeOK'
    /\ \A q \in Procs \ {p} :
          proc'[q] = proc[q] /\ call'[q] = call[q] /\ txn'[q] = txn[q]
    /\ Controlled(p)'
    /\ Ranged(p)'

LEMMA FailureIsTyped ==
    ASSUME ServiceTypeOK, NEW stage \in Stages, Fails(stage)
    PROVE  failed' \in SUBSET Stages
BY DEF ServiceTypeOK, Fails

LEMMA ReceiveIsLocal ==
    ASSUME SInv, NEW p \in Procs, NEW d \in Devices, NEW k \in Keys, NEW t \in Tokens,
           Receive(p, d, k, t)
    PROVE  Local(p)
<1> USE OperationAssumption
<1>1. /\ proc' \in [Procs -> Operation \cup {None}]
      /\ \A q \in Procs \ {p} : proc'[q] = proc[q]
      /\ proc'[p].op = "enroll" /\ proc'[p].at = "reserve"
      /\ proc'[p].dev = d /\ proc'[p].key = k /\ proc'[p].token = t
      /\ proc'[p] \in Operation
  <2>1. Starts(p, "enroll", "reserve", d, k, t) /\ ServiceTypeOK
    BY DEF Receive, SInv
  <2> DEFINE new == [op |-> "enroll", at |-> "reserve", dev |-> d, key |-> k, token |-> t,
                     reserved |-> {}, entries |-> {}]
  <2>2. new \in Operation
    OBVIOUS
  <2>3. proc' = [proc EXCEPT ![p] = new]
    BY <2>1 DEF Starts
  <2> QED BY <2>1, <2>2, <2>3 DEF ServiceTypeOK
<1>2. proc[p] = None
  BY DEF Receive, Idle
<1>3. UNCHANGED <<regVars, peerVars, hosts, failed, crashes>>
  BY DEF Receive
<1>4. call[p] = None
  BY <1>2 DEF SInv, ControlSound, Controlled
<1>5. Controlled(p)'
  BY <1>1, <1>3, <1>4 DEF Controlled, peerVars
<1>6. Ranged(p)'
  BY <1>1, <1>3 DEF Ranged, SInv, RangesKept, regVars
<1> QED BY <1>1, <1>3, <1>5, <1>6 DEF Local, ServiceTypeOK, SInv, peerVars, regVars

LEMMA ReadReservationsIsLocal ==
    ASSUME SInv, NEW p \in Procs, ReadReservations(p)
    PROVE  Local(p)
<1> USE OperationAssumption
<1>1. ReservedNetworks \in SUBSET Hosts /\ \A b \in Unmanaged : b.ips \subseteq ReservedNetworks
  BY DEF ReservedNetworks, SInv, PInv, PeersTypeOK, ConfigurationSound, Sound
<1>2. /\ proc[p] # None /\ proc[p].op = "enroll" /\ proc[p].at = "reserve"
      /\ proc' = [proc EXCEPT ![p].at = "prepare", ![p].reserved = ReservedNetworks]
      /\ UNCHANGED <<regVars, peerVars, hosts, failed, crashes>>
  BY DEF ReadReservations, Doing
<1>3. /\ proc' \in [Procs -> Operation \cup {None}]
      /\ \A q \in Procs \ {p} : proc'[q] = proc[q]
      /\ proc'[p] \in Operation
      /\ proc'[p].op = "enroll" /\ proc'[p].reserved = ReservedNetworks
      /\ proc'[p].dev = proc[p].dev /\ proc'[p].key = proc[p].key
      /\ proc'[p].token = proc[p].token
  BY <1>1, <1>2 DEF SInv, ServiceTypeOK
<1>4. call[p] = None
  BY <1>2 DEF SInv, ControlSound, Controlled
<1>5. Controlled(p)'
  BY <1>2, <1>3, <1>4 DEF SInv, ControlSound, Controlled, peerVars
<1>6. Ranged(p)'
  BY <1>1, <1>2, <1>3 DEF Ranged, SInv, RangesKept, regVars
<1> QED BY <1>2, <1>3, <1>5, <1>6 DEF Local, ServiceTypeOK, SInv, peerVars, regVars

LEMMA PrepareIsLocal ==
    ASSUME SInv, NEW p \in Procs, Prepare(p)
    PROVE  Local(p)
<1> USE OperationAssumption, CallAssumption
<1>1. /\ proc[p] # None /\ proc[p].op = "enroll"
      /\ EnsureCall(p, proc[p].dev, proc[p].key, txn'[p].row.addr)
      /\ Goes(p, "enroll", "peer")
      /\ UNCHANGED <<hosts, failed, crashes>>
  BY DEF Prepare, Doing
<1>2. /\ proc' \in [Procs -> Operation \cup {None}]
      /\ \A q \in Procs \ {p} : proc'[q] = proc[q]
      /\ proc'[p] \in Operation
      /\ proc'[p].op = "enroll" /\ proc'[p].at = "peer"
      /\ proc'[p].dev = proc[p].dev /\ proc'[p].key = proc[p].key
      /\ proc'[p].token = proc[p].token
  BY <1>1, GoesFacts DEF SInv
<1>3. call'[p].op = "ensure" /\ \A q \in Procs \ {p} : call'[q] = call[q]
  BY <1>1 DEF EnsureCall, SInv, PInv, PeersTypeOK
<1>4. Controlled(p)'
  BY <1>1, <1>2, <1>3 DEF SInv, ControlSound, Controlled
<1>5. Ranged(p)' /\ \A q \in Procs \ {p} : txn'[q] = txn[q]
  BY <1>2, PreparedDraft DEF Ranged
<1> QED BY <1>1, <1>2, <1>3, <1>4, <1>5 DEF Local, ServiceTypeOK, SInv

\* Steps of an enrolment, of its undoing and of the others that end in Goes.
LEMMA GoingIsLocal ==
    ASSUME SInv, NEW p \in Procs, proc[p] # None,
           NEW op \in {"enroll", "undo", "revoke", "restore", "hosts"},
           NEW at \in {"peer", "hosts", "commit", "revoke", "list", "sync"},
           Goes(p, op, at),
           op = "enroll" => proc[p].op = "enroll",
           op = "revoke" /\ at \in {"peer", "revoke"} =>
              proc[p].dev \in Enrolled' /\ proc[p].key \in Keys,
           call'[p] # None =>
              /\ at = "peer"
              /\ call'[p].op = "ensure" => op \in {"enroll", "restore"}
              /\ call'[p].op = "remove" => op \in {"undo", "revoke"},
           \A q \in Procs \ {p} : call'[q] = call[q] /\ txn'[q] = txn[q],
           txn'[p] \in {txn[p], None},
           hosts' \in SUBSET Entry, failed' \in SUBSET Stages, UNCHANGED crashes
    PROVE  Local(p)
<1> USE OperationAssumption
<1>1. /\ proc' \in [Procs -> Operation \cup {None}]
      /\ \A q \in Procs \ {p} : proc'[q] = proc[q]
      /\ proc'[p] \in Operation
      /\ proc'[p].op = op /\ proc'[p].at = at
      /\ proc'[p].dev = proc[p].dev /\ proc'[p].key = proc[p].key
      /\ proc'[p].token = proc[p].token
  <2>1. ServiceTypeOK
    BY DEF SInv
  <2>2. at \in {"reserve", "prepare", "peer", "hosts", "commit", "revoke", "list", "sync"}
    OBVIOUS
  <2>3. proc' = [proc EXCEPT ![p].op = op, ![p].at = at, ![p].reserved = {}]
    BY DEF Goes
  <2>4. proc[p] \in Operation /\ proc \in [Procs -> Operation \cup {None}]
    BY <2>1 DEF ServiceTypeOK
  <2> DEFINE new == [proc[p] EXCEPT !.op = op, !.at = at, !.reserved = {}]
  <2>5. new \in Operation
    BY <2>2, <2>4
  <2>6. proc' = [proc EXCEPT ![p] = new]
    BY <2>3, <2>4
  <2>7. proc'[p] = new
    BY <2>4, <2>6
  <2>8. new.op = op /\ new.at = at /\ new.dev = proc[p].dev
        /\ new.key = proc[p].key /\ new.token = proc[p].token
    BY <2>4
  <2>9. proc' \in [Procs -> Operation \cup {None}] /\ \A q \in Procs \ {p} : proc'[q] = proc[q]
    BY <2>4, <2>5, <2>6
  <2> QED BY <2>5, <2>7, <2>8, <2>9
<1>2. Controlled(p)'
  BY <1>1 DEF SInv, ControlSound, Controlled
<1>3. Ranged(p)'
  BY <1>1 DEF SInv, RangesKept, Ranged
<1> QED BY <1>1, <1>2, <1>3 DEF Local, ServiceTypeOK, SInv

\* Steps that end the operation.
LEMMA ReturningIsLocal ==
    ASSUME SInv, NEW p \in Procs, Returns(p), call'[p] = None,
           \A q \in Procs \ {p} : call'[q] = call[q] /\ txn'[q] = txn[q],
           txn'[p] \in {txn[p], None},
           hosts' \in SUBSET Entry, failed' \in SUBSET Stages, UNCHANGED crashes
    PROVE  Local(p)
<1>1. /\ proc' \in [Procs -> Operation \cup {None}]
      /\ \A q \in Procs \ {p} : proc'[q] = proc[q]
      /\ proc'[p] = None
  BY ReturnsFacts DEF SInv
<1> QED BY <1>1 DEF Local, ServiceTypeOK, SInv, Controlled, RangesKept, Ranged

\* What an exception of an enrolment leaves behind.
LEMMA AbortIsLocal ==
    ASSUME SInv, Next, NEW p \in Procs, proc[p] # None, Abort(p), failed' \in SUBSET Stages
    PROVE  Local(p)
<1> USE CallAssumption
<1>1. txn' = [txn EXCEPT ![p] = None] /\ UNCHANGED <<hosts, crashes>>
  BY DEF Abort, Rollback
<1>2. txn'[p] = None /\ \A q \in Procs \ {p} : txn'[q] = txn[q]
  BY <1>1 DEF SInv, IInv, RegistryTypeOK
<1>3. hosts' \in SUBSET Entry /\ UNCHANGED crashes
  BY <1>1 DEF SInv, ServiceTypeOK
<1>4. CASE txn[p].created
  <2>1. RemoveCall(p, proc[p].dev, proc[p].key) /\ Goes(p, "undo", "peer")
    BY <1>4 DEF Abort
  <2>2. call'[p].op = "remove" /\ \A q \in Procs \ {p} : call'[q] = call[q]
    BY <2>1 DEF RemoveCall, SInv, PInv, PeersTypeOK
  <2> QED BY <1>2, <1>3, <2>1, <2>2, GoingIsLocal
<1>5. CASE ~txn[p].created
  <2>1. CallsEnd({p}) /\ Goes(p, "undo", "list")
    BY <1>5 DEF Abort
  <2>2. call'[p] = None /\ \A q \in Procs \ {p} : call'[q] = call[q]
    BY <2>1 DEF CallsEnd
  <2> QED BY <1>2, <1>3, <2>1, <2>2, GoingIsLocal
<1> QED BY <1>4, <1>5

\* Putting the peer back, after a revocation failed.
LEMMA RestoreIsLocal ==
    ASSUME SInv, NEW p \in Procs, proc[p] # None, RestorePeer(p), failed' \in SUBSET Stages
    PROVE  Local(p)
<1>1. /\ Goes(p, "restore", "peer")
      /\ UNCHANGED <<regVars, hosts, crashes>>
      /\ EnsureCall(p, proc[p].dev, proc[p].key, devices[proc[p].dev].addr)
  BY DEF RestorePeer
<1>2. call'[p].op = "ensure" /\ \A q \in Procs \ {p} : call'[q] = call[q]
  BY <1>1 DEF EnsureCall, SInv, PInv, PeersTypeOK
<1>3. hosts' \in SUBSET Entry /\ txn' = txn
  BY <1>1 DEF SInv, ServiceTypeOK, regVars
<1> QED BY <1>1, <1>2, <1>3, GoingIsLocal

LEMMA EnrollStepsAreLocal ==
    ASSUME SInv, Next, NEW p \in Procs,
           Reject(p) \/ SyncHostsInside(p) \/ Commit(p) \/ EnrollFails(p)
    PROVE  Local(p)
<1>1. CASE Reject(p)
  <2>1. /\ proc[p] # None /\ proc[p].at # "peer"
        /\ Goes(p, "undo", "list")
        /\ UNCHANGED <<regVars, peerVars, hosts, crashes>>
    BY <1>1 DEF Reject, Doing
  <2>2. failed' \in SUBSET Stages /\ hosts' \in SUBSET Entry
    BY <1>1, <2>1, FailureIsTyped DEF Reject, SInv, ServiceTypeOK
  <2>3. call' = call /\ txn' = txn /\ call[p] = None
    BY <2>1 DEF peerVars, regVars, SInv, ControlSound, Controlled
  <2> QED BY <2>1, <2>2, <2>3, GoingIsLocal
<1>2. CASE SyncHostsInside(p)
  <2>1. /\ proc[p] # None /\ proc[p].at # "peer" /\ proc[p].op = "enroll"
        /\ Goes(p, "enroll", "commit")
        /\ hosts' = Entries(View(p))
        /\ UNCHANGED <<regVars, peerVars, failed, crashes>>
    BY <1>2 DEF SyncHostsInside, Doing
  <2>2. hosts' \in SUBSET Entry /\ failed' \in SUBSET Stages
    BY <2>1, ViewIsTyped, EntriesAreTyped DEF SInv, ServiceTypeOK
  <2>3. call' = call /\ txn' = txn /\ call[p] = None
    BY <2>1 DEF peerVars, regVars, SInv, ControlSound, Controlled
  <2> QED BY <2>1, <2>2, <2>3, GoingIsLocal
<1>3. CASE Commit(p)
  <2>1. /\ proc[p] # None /\ proc[p].at # "peer"
        /\ Returns(p)
        /\ txn' = [txn EXCEPT ![p] = None]
        /\ UNCHANGED <<peerVars, hosts, failed, crashes>>
    BY <1>3 DEF Commit, Doing, CommitEnrollment
  <2>2. call' = call /\ call[p] = None
    BY <2>1 DEF peerVars, SInv, ControlSound, Controlled
  <2>3. txn'[p] = None /\ \A q \in Procs \ {p} : txn'[q] = txn[q]
    BY <2>1 DEF SInv, IInv, RegistryTypeOK
  <2>4. hosts' \in SUBSET Entry /\ failed' \in SUBSET Stages /\ UNCHANGED crashes
    BY <2>1 DEF SInv, ServiceTypeOK
  <2> QED BY <2>1, <2>2, <2>3, <2>4, ReturningIsLocal
<1>4. CASE EnrollFails(p)
  <2>1. proc[p] # None /\ Abort(p) /\ failed' \in SUBSET Stages
    BY <1>4, FailureIsTyped DEF EnrollFails, Doing, SInv
  <2> QED BY <2>1, AbortIsLocal
<1> QED BY <1>1, <1>2, <1>3, <1>4

LEMMA PeerStepsAreLocal ==
    ASSUME SInv, Next, NEW p \in Procs, PeerStep(p) \/ Ensured(p) \/ Removed(p)
    PROVE  Local(p)
<1> USE CallAssumption
<1>1. CASE PeerStep(p)
  <2>1. /\ proc' = proc /\ txn' = txn /\ hosts' = hosts /\ failed' = failed
        /\ crashes' = crashes
        /\ call[p] # None
    BY <1>1 DEF PeerStep, regVars, serviceVars, EnsureRead, EnsureLive, RemoveRead,
                RemoveLive, At
  <2>2. /\ \A q \in Procs \ {p} : call'[q] = call[q]
        /\ call'[p].op = call[p].op
    <3>1. call[p] \in Call /\ call \in [Procs -> Call \cup {None}]
      BY <2>1 DEF SInv, PInv, PeersTypeOK
    <3>2. CASE EnsureRead(p) \/ RemoveRead(p)
      <4>1. PICK base, same : call' = [call EXCEPT ![p].step = "live", ![p].base = base, ![p].same = same]
        BY <3>2 DEF EnsureRead, RemoveRead
      <4> QED BY <3>1, <4>1
    <3>3. CASE EnsureLive(p) \/ RemoveLive(p)
      BY <3>1, <3>3 DEF EnsureLive, RemoveLive
    <3> QED BY <1>1, <3>2, <3>3 DEF PeerStep
  <2>3. Controlled(p)'
    <3>1. Controlled(p)
      BY DEF SInv, ControlSound
    <3>2. Enrolled \subseteq Enrolled'
      BY ComponentsPreserve
    <3> QED BY <2>1, <2>2, <3>1, <3>2 DEF Controlled
  <2>4. Ranged(p)'
    BY <2>1 DEF SInv, RangesKept, Ranged
  <2> QED BY <2>1, <2>2, <2>3, <2>4 DEF Local, SInv, ServiceTypeOK
<1>2. CASE Ensured(p) \/ Removed(p)
  <2>1. /\ call[p] # None
        /\ call' = [call EXCEPT ![p] = None]
        /\ UNCHANGED <<regVars, hosts, failed, crashes>>
    BY <1>2 DEF Ensured, Removed, EnsureWrite, RemoveWrite, At
  <2>2. /\ proc[p] # None
        /\ call'[p] = None /\ \A q \in Procs \ {p} : call'[q] = call[q]
    BY <2>1 DEF SInv, PInv, PeersTypeOK, ControlSound, Controlled
  <2>3. txn' = txn /\ hosts' \in SUBSET Entry /\ failed' \in SUBSET Stages /\ UNCHANGED crashes
    BY <2>1 DEF regVars, SInv, ServiceTypeOK
  <2>4. CASE Returns(p)
    BY <2>2, <2>3, <2>4, ReturningIsLocal
  <2>5. CASE Goes(p, "enroll", "hosts") /\ proc[p].op = "enroll"
    BY <2>2, <2>3, <2>5, GoingIsLocal
  <2>6. CASE Goes(p, "undo", "list")
    BY <2>2, <2>3, <2>6, GoingIsLocal
  <2>7. CASE Removed(p) /\ proc[p].op # "undo" /\ Goes(p, "revoke", "revoke")
    <3>1. call[p].op = "remove"
      BY <2>7 DEF Removed, RemoveWrite, At
    <3>2. proc[p].dev \in Enrolled /\ proc[p].key \in Keys
      BY <2>1, <2>7, <3>1 DEF SInv, ControlSound, Controlled
    <3>3. proc[p].dev \in Enrolled'
      BY <3>2, ComponentsPreserve
    <3> QED BY <2>2, <2>3, <2>7, <3>2, <3>3, GoingIsLocal
  <2> QED BY <1>2, <2>4, <2>5, <2>6, <2>7 DEF Ensured, Removed
<1> QED BY <1>1, <1>2

LEMMA PeerFailuresAreLocal ==
    ASSUME SInv, Next, NEW p \in Procs,
           EnsureRaises(p) \/ RemoveRaises(p) \/ DisableFails(p)
    PROVE  Local(p)
<1>1. failed' \in SUBSET Stages
  BY FailureIsTyped DEF EnsureRaises, RemoveRaises, DisableFails, SInv, ServiceTypeOK
<1>2. proc[p] # None
  BY DEF EnsureRaises, RemoveRaises, DisableFails, Doing, SInv, ControlSound, Controlled
<1>3. CASE Abort(p)
  BY <1>1, <1>2, <1>3, AbortIsLocal
<1>4. CASE RestorePeer(p)
  BY <1>1, <1>2, <1>4, RestoreIsLocal
<1>5. CASE CallsEnd({p}) /\ UNCHANGED <<regVars, hosts, crashes>>
           /\ (Returns(p) \/ Goes(p, "undo", "list"))
  <2>1. call'[p] = None /\ \A q \in Procs \ {p} : call'[q] = call[q]
    BY <1>5 DEF CallsEnd
  <2>2. txn' = txn /\ hosts' \in SUBSET Entry /\ UNCHANGED crashes
    BY <1>5 DEF regVars, SInv, ServiceTypeOK
  <2>3. CASE Returns(p)
    BY <1>1, <2>1, <2>2, <2>3, ReturningIsLocal
  <2>4. CASE Goes(p, "undo", "list")
    BY <1>1, <1>2, <2>1, <2>2, <2>4, GoingIsLocal
  <2> QED BY <1>5, <2>3, <2>4
<1> QED BY <1>3, <1>4, <1>5 DEF EnsureRaises, RemoveRaises, DisableFails

LEMMA ListAndSyncAreLocal ==
    ASSUME SInv, Next, NEW p \in Procs,
           DisableRow(p) \/ ListDevices(p) \/ SyncHosts(p) \/ SyncHostsFails(p)
    PROVE  Local(p)
<1>1. /\ proc[p] # None /\ proc[p].at # "peer"
      /\ UNCHANGED <<peerVars, crashes, txn>>
  BY DEF DisableRow, ListDevices, SyncHosts, SyncHostsFails, Doing, RevokeRow, regVars
<1>2. call' = call /\ call[p] = None /\ txn' = txn
  BY <1>1 DEF peerVars, SInv, ControlSound, Controlled
<1>3. proc[p] \in Operation /\ Entries(devices) \in SUBSET Entry
  BY <1>1, EntriesAreTyped DEF SInv, ServiceTypeOK, IInv, RegistryTypeOK
<1>4. hosts' \in SUBSET Entry /\ failed' \in SUBSET Stages
  BY <1>3, FailureIsTyped
     DEF DisableRow, ListDevices, SyncHosts, SyncHostsFails, SInv, ServiceTypeOK
<1>5. CASE DisableRow(p)
  BY <1>1, <1>2, <1>4, <1>5, GoingIsLocal DEF DisableRow
<1>6. CASE SyncHosts(p) \/ SyncHostsFails(p)
  BY <1>1, <1>2, <1>4, <1>6, ReturningIsLocal DEF SyncHosts, SyncHostsFails
<1>7. CASE ListDevices(p)
  <2>1. proc' = [proc EXCEPT ![p].at = "sync", ![p].entries = Entries(devices)]
    BY <1>7 DEF ListDevices
  <2> DEFINE new == [proc[p] EXCEPT !.at = "sync", !.entries = Entries(devices)]
  <2>2. new \in Operation /\ new.op = proc[p].op /\ new.at = "sync" /\ new.dev = proc[p].dev
        /\ new.key = proc[p].key /\ new.token = proc[p].token
    BY <1>3
  <2>3. /\ proc' = [proc EXCEPT ![p] = new]
        /\ proc \in [Procs -> Operation \cup {None}]
    BY <2>1 DEF SInv, ServiceTypeOK
  <2>4. /\ proc' \in [Procs -> Operation \cup {None}]
        /\ \A q \in Procs \ {p} : proc'[q] = proc[q]
        /\ proc'[p] = new
    BY <2>2, <2>3
  <2>5. Controlled(p)'
    BY <1>1, <1>2, <2>2, <2>4 DEF SInv, ControlSound, Controlled
  <2>6. Ranged(p)'
    BY <1>2, <2>2, <2>4 DEF SInv, RangesKept, Ranged
  <2> QED BY <1>1, <1>2, <1>4, <2>4, <2>5, <2>6 DEF Local, ServiceTypeOK, SInv
<1> QED BY <1>5, <1>6, <1>7

\* An administrator's command begins.
LEMMA CommandsBeginLocally ==
    ASSUME SInv, Next, NEW p \in Procs,
           (\E d \in Devices : StartRevoke(p, d)) \/ StartSyncHosts(p)
    PROVE  Local(p)
<1> USE OperationAssumption
<1>1. PICK op \in {"revoke", "hosts"}, at \in {"peer", "list"},
           d \in Devices \cup {None}, k \in Keys \cup {None} :
         /\ Starts(p, op, at, d, k, None)
         /\ at = "peer" => op = "revoke" /\ d \in Enrolled /\ k \in Keys /\ RemoveCall(p, d, k)
         /\ at = "list" => UNCHANGED call
  <2>1. CASE StartSyncHosts(p)
    BY <2>1 DEF StartSyncHosts, peerVars
  <2>2. CASE \E d \in Devices : StartRevoke(p, d)
    <3>1. PICK d \in Devices : StartRevoke(p, d)
      BY <2>2
    <3>2. d \in Enrolled /\ devices[d].key \in Keys
      BY <3>1 DEF StartRevoke, Enrolled, SInv, IInv, RegistryTypeOK
    <3>3. CASE devices[d].enabled
      BY <3>1, <3>2, <3>3 DEF StartRevoke
    <3>4. CASE ~devices[d].enabled
      BY <3>1, <3>4 DEF StartRevoke
    <3> QED BY <3>3, <3>4
  <2> QED BY <2>1, <2>2
<1>2. /\ UNCHANGED <<regVars, hosts, failed, crashes>>
      /\ proc[p] = None
  BY DEF StartRevoke, StartSyncHosts, Idle
<1>3. call[p] = None
  BY <1>2 DEF SInv, ControlSound, Controlled
<1> DEFINE new == [op |-> op, at |-> at, dev |-> d, key |-> k, token |-> None,
                   reserved |-> {}, entries |-> {}]
<1>4. /\ new \in Operation /\ new.op = op /\ new.at = at
      /\ new.dev = d /\ new.key = k
  OBVIOUS
<1>5. proc' = [proc EXCEPT ![p] = new] /\ proc \in [Procs -> Operation \cup {None}]
  BY <1>1 DEF Starts, SInv, ServiceTypeOK
<1> HIDE DEF new
<1>6. /\ proc' \in [Procs -> Operation \cup {None}]
      /\ \A q \in Procs \ {p} : proc'[q] = proc[q]
      /\ proc'[p] = new
  BY <1>4, <1>5
<1>7. /\ \A q \in Procs \ {p} : call'[q] = call[q]
      /\ at = "list" => call'[p] = None
      /\ at = "peer" => call'[p].op = "remove"
  BY <1>1, <1>3 DEF RemoveCall, SInv, PInv, PeersTypeOK
<1>8. Enrolled \subseteq Enrolled'
  BY ComponentsPreserve
<1>9. Controlled(p)'
  BY <1>1, <1>4, <1>6, <1>7, <1>8 DEF Controlled
<1>10. Ranged(p)'
  BY <1>2, <1>4, <1>6 DEF SInv, RangesKept, Ranged, regVars
<1> QED BY <1>2, <1>6, <1>7, <1>9, <1>10 DEF Local, ServiceTypeOK, SInv, regVars

LEMMA StepsAreLocal ==
    ASSUME SInv, Next, NEW p \in Procs,
           \/ Steps(p)
           \/ \E d \in Devices, k \in Keys, t \in Tokens : Receive(p, d, k, t)
           \/ (\E d \in Devices : StartRevoke(p, d)) \/ StartSyncHosts(p)
    PROVE  Local(p)
<1>1. CASE Steps(p)
  <2>1. CASE ReadReservations(p)
    BY <2>1, ReadReservationsIsLocal
  <2>2. CASE Prepare(p)
    BY <2>2, PrepareIsLocal
  <2>3. CASE Reject(p) \/ SyncHostsInside(p) \/ Commit(p) \/ EnrollFails(p)
    BY <2>3, EnrollStepsAreLocal
  <2>4. CASE PeerStep(p) \/ Ensured(p) \/ Removed(p)
    BY <2>4, PeerStepsAreLocal
  <2>5. CASE EnsureRaises(p) \/ RemoveRaises(p) \/ DisableFails(p)
    BY <2>5, PeerFailuresAreLocal
  <2>6. CASE DisableRow(p) \/ ListDevices(p) \/ SyncHosts(p) \/ SyncHostsFails(p)
    BY <2>6, ListAndSyncAreLocal
  <2> QED BY <1>1, <2>1, <2>2, <2>3, <2>4, <2>5, <2>6 DEF Steps
<1>2. ASSUME NEW d \in Devices, NEW k \in Keys, NEW t \in Tokens, Receive(p, d, k, t)
      PROVE  Local(p)
  BY <1>2, ReceiveIsLocal
<1>3. CASE (\E d \in Devices : StartRevoke(p, d)) \/ StartSyncHosts(p)
  BY <1>3, CommandsBeginLocally
<1> QED BY <1>1, <1>2, <1>3

\* A step that is local to one operation preserves the whole invariant.
LEMMA LocalStepPreserves ==
    ASSUME SInv, Next, NEW p \in Procs, Local(p)
    PROVE  SInv'
<1>1. IInv' /\ PInv' /\ Enrolled \subseteq Enrolled'
  BY ComponentsPreserve
<1>2. RangesRespected'
  BY StepIsARegistryStep, RangesStay
<1>3. ASSUME NEW q \in Procs \ {p}
      PROVE  Controlled(q)' /\ Ranged(q)'
  <2>1. proc'[q] = proc[q] /\ call'[q] = call[q] /\ txn'[q] = txn[q]
    BY DEF Local
  <2>2. Controlled(q) /\ Ranged(q)
    BY DEF SInv, ControlSound, RangesKept
  <2>3. Controlled(q)'
    BY <1>1, <2>1, <2>2 DEF Controlled
  <2>4. Ranged(q)'
    BY <2>1, <2>2 DEF Ranged
  <2> QED BY <2>3, <2>4
<1>4. ControlSound' /\ (\A q \in Procs : Ranged(q)')
  BY <1>3 DEF Local, ControlSound
<1> QED BY <1>1, <1>2, <1>4 DEF SInv, RangesKept, Local

LEMMA DeathPreserves ==
    ASSUME SInv, Next, NEW S \in SUBSET Procs, Dies(S)
    PROVE  SInv'
<1> USE ServiceAssumption
<1>1. IInv' /\ PInv' /\ Enrolled \subseteq Enrolled'
  BY ComponentsPreserve
<1>2. RangesRespected'
  BY StepIsARegistryStep, RangesStay
<1>3. ServiceTypeOK'
  BY DEF Dies, SInv, ServiceTypeOK
<1>4. ASSUME NEW q \in Procs
      PROVE  Controlled(q)' /\ Ranged(q)'
  <2>1. \/ proc'[q] = None /\ call'[q] = None /\ txn'[q] = None
        \/ proc'[q] = proc[q] /\ call'[q] = call[q] /\ txn'[q] = txn[q]
    BY DEF Dies, CallsEnd
  <2>2. Controlled(q) /\ Ranged(q)
    BY DEF SInv, ControlSound, RangesKept
  <2>3. Controlled(q)'
    BY <1>1, <2>1, <2>2 DEF Controlled
  <2>4. Ranged(q)'
    BY <2>1, <2>2 DEF Ranged
  <2> QED BY <2>3, <2>4
<1> QED BY <1>1, <1>2, <1>3, <1>4 DEF SInv, ControlSound, RangesKept

LEMMA OutsideStepPreserves ==
    ASSUME SInv, Next, UNCHANGED <<peerVars, serviceVars, txn>>
    PROVE  SInv'
<1>1. IInv' /\ PInv' /\ Enrolled \subseteq Enrolled'
  BY ComponentsPreserve
<1>2. RangesRespected'
  BY StepIsARegistryStep, RangesStay
<1>3. ServiceTypeOK'
  BY DEF SInv, ServiceTypeOK, serviceVars
<1>4. ControlSound'
  BY <1>1 DEF SInv, ControlSound, Controlled, serviceVars, peerVars
<1>5. \A q \in Procs : Ranged(q)'
  BY DEF SInv, RangesKept, Ranged, serviceVars
<1> QED BY <1>1, <1>2, <1>3, <1>4, <1>5 DEF SInv, RangesKept

LEMMA ServiceStepPreserves ==
    ASSUME SInv, [Next]_vars
    PROVE  SInv'
<1>1. CASE UNCHANGED vars
  <2> USE <1>1 DEF vars, regVars, peerVars, serviceVars, SInv
  <2>1. IInv'
    BY StepPreserves
  <2>2. PInv'
    BY PeersStepPreserves
  <2>3. ServiceTypeOK'
    BY DEF ServiceTypeOK
  <2>4. ControlSound'
    BY DEF ControlSound, Controlled, Enrolled
  <2>5. RangesKept'
    BY DEF RangesKept, RangesRespected, Ranged, Enrolled
  <2> QED BY <2>1, <2>2, <2>3, <2>4, <2>5
<1>2. CASE Next
  <2>1. ASSUME NEW p \in Procs,
               \/ Steps(p)
               \/ \E d \in Devices, k \in Keys, t \in Tokens : Receive(p, d, k, t)
               \/ (\E d \in Devices : StartRevoke(p, d)) \/ StartSyncHosts(p)
        PROVE  SInv'
    BY <1>2, <2>1, StepsAreLocal, LocalStepPreserves
  <2>2. ASSUME NEW S \in SUBSET Procs, Dies(S)
        PROVE  SInv'
    BY <1>2, <2>2, DeathPreserves
  <2>3. ASSUME NEW p \in Procs, Kill(p)
        PROVE  SInv'
    BY <2>2, <2>3 DEF Kill
  <2>4. CASE Crash
    BY <2>2, <2>4, ServiceAssumption DEF Crash
  <2>5. ASSUME NEW t \in Tokens,
               (\E scope \in Devices \cup {None} : IssueToken(t, scope)) \/ PassTime(t)
        PROVE  SInv'
    BY <1>2, <2>5, OutsideStepPreserves DEF IssueToken, PassTime, CreateToken, Expire
  <2> QED BY <1>2, <2>1, <2>3, <2>4, <2>5 DEF Next
<1> QED BY <1>1, <1>2

LEMMA ServiceInvariant == Spec => []SInv
<1>1. Init => SInv
  BY ServiceInitEstablishes
<1>2. SInv /\ [Next]_vars => SInv'
  BY ServiceStepPreserves
<1> QED BY <1>1, <1>2, PTL DEF Spec

-----------------------------------------------------------------------------
(***************************************************************************)
(* Theorems.                                                               *)
(***************************************************************************)

\* Every variable of the gateway keeps its type: no operation goes on with a
\* device, a key or an address that it never had.
THEOREM ServiceTypeCorrect == Spec => []TypeOK
<1>1. SInv => TypeOK
  BY DEF SInv, IInv, PInv, ServiceTypeOK, TypeOK
<1> QED BY <1>1, ServiceInvariant, PTL

\* What the service and the commands do to the two tables is what Registry.tla
\* allows: BEGIN, commit and rollback are never mixed up, whatever fails.
THEOREM ServiceUsesRegistry == Spec => UsesRegistry
<1>1. Init => RegistryInit
  BY DEF Init
<1>2. SInv /\ [Next]_vars => [RegistryNext]_regVars
  <2> SUFFICES ASSUME SInv, [Next]_vars PROVE [RegistryNext]_regVars
    OBVIOUS
  <2>1. CASE UNCHANGED vars
    BY <2>1 DEF vars, regVars
  <2> QED BY <2>1, StepIsARegistryStep
<1> QED BY <1>1, <1>2, ServiceInvariant, PTL DEF Spec, UsesRegistry, RegistrySpec

\* What they do to the peers is what PeerManager.tla allows.
THEOREM ServiceUsesPeerManager == Spec => UsesPeerManager
<1>1. Init => PeersInit
  BY DEF Init
<1>2. SInv /\ [Next]_vars => [PeersNext]_peerVars
  <2> SUFFICES ASSUME SInv, [Next]_vars PROVE [PeersNext]_peerVars
    OBVIOUS
  <2>1. CASE UNCHANGED vars
    BY <2>1 DEF vars, peerVars
  <2> QED BY <2>1, StepIsAPeersStep
<1> QED BY <1>1, <1>2, ServiceInvariant, PTL DEF Spec, UsesPeerManager, PeersSpec

\* No enrolment gives a device an address of an administrator's own peer, with
\* any number of requests, commands, failures and deaths: the configuration is
\* read before the write lock is taken, but no call ever loses such a peer.
THEOREM ServiceRangesRespected == Spec => []RangesRespected
<1>1. SInv => RangesRespected
  BY DEF SInv, RangesKept
<1> QED BY <1>1, ServiceInvariant, PTL

\* Concurrent requests and commands never break the WireGuard configuration.
THEOREM ServiceConfigurationIsSound == Spec => []ConfigurationSound
<1> QED BY ServiceUsesPeerManager, ConfigurationIsSound, PTL DEF UsesPeerManager

\* The draft an enrolment holds while it changes the gateway still fits the
\* tables when it commits, whatever the administrators did in the meantime.
THEOREM ServiceDraftIsValid == Spec => []DraftStaysValid
<1> QED BY ServiceUsesRegistry, DraftIsValid, PTL DEF UsesRegistry

\* The gateway as a whole implements the enrolment ledger: one token, one
\* enrolment, and a revoked device stays revoked.
THEOREM ServiceImplementsLedger == Spec => ImplementsLedger
<1> QED BY ServiceUsesRegistry, RegistryImplementsLedger, PTL DEF UsesRegistry

-----------------------------------------------------------------------------
(***************************************************************************)
(* The stores agree.  Two promises of the code depend on who changes the   *)
(* gateway at a time.  Commands and requests run one after the other       *)
(* (Serial), or requests overlap and none fails: then the write lock is    *)
(* what keeps the changes of the unlocked file apart.                      *)
(***************************************************************************)
OnlyRequests == Shells = {} /\ MaxFailures = 0 /\ Unmanaged = {}

\* An operation from its BEGIN, or from its first change, to its last change.
Changing(p) == proc[p] # None /\ proc[p].at \in {"peer", "hosts", "commit", "revoke"}

InTransaction(p) ==
    proc[p] # None /\ proc[p].op = "enroll" /\ proc[p].at \in {"peer", "hosts", "commit"}

Revoking(p) ==
    /\ proc[p] # None
    /\ \/ proc[p].op = "restore"
       \/ proc[p].op = "revoke" /\ proc[p].at \in {"peer", "revoke"}

\* The operation of p, its transaction and its call are about the same device.
Matches(p) ==
    /\ proc[p] # None =>
          /\ proc[p].at \in {"reserve", "prepare", "hosts", "commit"} => proc[p].op = "enroll"
          /\ proc[p].at = "revoke" => proc[p].op = "revoke"
          /\ proc[p].at = "peer" => proc[p].op # "hosts"
          /\ proc[p].op = "restore" => proc[p].at = "peer"
    /\ txn[p] # None <=> InTransaction(p)
    /\ InTransaction(p) => txn[p].dev = proc[p].dev /\ txn[p].row.key = proc[p].key
    /\ call[p] # None <=> proc[p] # None /\ proc[p].at = "peer"
    /\ call[p] # None =>
          /\ call[p].dev = proc[p].dev /\ call[p].key = proc[p].key
          /\ proc[p].op = "enroll" => call[p].op = "ensure" /\ call[p].addr = txn[p].row.addr
          /\ proc[p].op = "restore" =>
                call[p].op = "ensure" /\ call[p].addr = devices[proc[p].dev].addr
          /\ proc[p].op \in {"undo", "revoke"} => call[p].op = "remove"
    /\ Revoking(p) => proc[p].dev \in Enrolled /\ devices[proc[p].dev].key = proc[p].key

Matched == \A p \in Procs : Matches(p)

OneRuns == \A p, q \in Procs : proc[p] # None /\ proc[q] # None => p = q
OneChanges == \A p, q \in Procs : Changing(p) /\ Changing(q) => p = q

\* A device has its peer in the file and on the interface, or neither.
Connected(d, k, a) == ManagedBlock(d, k, a) \in conf /\ [key |-> k, ips |-> {a}] \in live
Gone(d, k) == (\A b \in conf : b.owner # d) /\ (\A q \in live : q.key # k)

\* What the operation of p, which alone changes the gateway, has achieved.
Achieved(p) ==
    /\ InTransaction(p) /\ proc[p].at # "peer" =>
          Connected(proc[p].dev, proc[p].key, txn[p].row.addr)
    /\ proc[p].op = "undo" =>
          proc[p].dev \notin Enrolled /\ \A e \in Enrolled : devices[e].key # proc[p].key
    /\ Revoking(p) => Enabled(proc[p].dev)
    /\ proc[p].op = "revoke" /\ proc[p].at = "revoke" => Gone(proc[p].dev, proc[p].key)
    /\ call[p] # None /\ call[p].step # "read" =>
          /\ call[p].base = Strip(conf, call[p].dev)
          /\ call[p].same =>
                conf = IF call[p].op = "ensure" THEN Desired(p) ELSE call[p].base
    /\ call[p] # None /\ call[p].step = "write" =>
          IF call[p].op = "ensure"
          THEN [key |-> call[p].key, ips |-> {call[p].addr}] \in live
          ELSE \A q \in live : q.key # call[p].key

\* A block with the name or the key of an enrolled device is its own.
OwnBlocks ==
    \A d \in Enrolled, b \in conf : b.owner = d \/ b.key = devices[d].key =>
        b = ManagedBlock(d, devices[d].key, devices[d].addr)

RevokedAreGone == \A d \in Devices : Revoked(d) => Gone(d, devices[d].key)

Apart ==
    /\ OneChanges
    /\ \A p \in Procs : Changing(p) => Achieved(p)
    /\ OwnBlocks
    /\ RevokedAreGone

\* Where nothing died and at most one stage failed: what is enabled is
\* connected unless its own revocation is under way, a block without an enabled
\* device is that of the operation in progress, and a peer is put back only
\* after the one failure there is.
EnabledAreConnected ==
    \A d \in Devices : Enabled(d) =>
        \/ Connected(d, devices[d].key, devices[d].addr)
        \/ \E p \in Procs : Revoking(p) /\ proc[p].dev = d

InProgress(e) ==
    \E p \in Procs :
        /\ Changing(p) /\ proc[p].dev = e
        /\ \/ proc[p].op = "enroll" /\ proc[p].at # "peer"
           \/ proc[p].op = "undo" /\ failed # {}

BlocksHaveDevices ==
    \A b \in conf : b.owner # None => Enabled(b.owner) \/ InProgress(b.owner)

RestoringFailed ==
    \A p \in Procs : proc[p] # None /\ proc[p].op = "restore" => failed # {}

Strict == EnabledAreConnected /\ BlocksHaveDevices /\ RestoringFailed

OnlyEnrollments == \A p \in Procs : Changing(p) => proc[p].op = "enroll"

AInv ==
    /\ SInv
    /\ Matched
    /\ Serial => OneRuns
    /\ OnlyRequests /\ crashes = 0 => OnlyEnrollments
    /\ Serial \/ crashes = 0 => Apart
    /\ MaxFailures <= 1 /\ crashes = 0 => Strict

-----------------------------------------------------------------------------
(* Facts about what the steps are made of.                                 *)

LEMMA WgSetFacts ==
    ASSUME NEW peers \in SUBSET Peer, NEW k \in Keys, NEW a \in Hosts
    PROVE  /\ [key |-> k, ips |-> {a}] \in WgSet(peers, k, a)
           /\ \A k2 : k2 # k /\ (\A q \in peers : q.key # k2) =>
                 \A q \in WgSet(peers, k, a) : q.key # k2
           /\ \A k2, a2 : k2 # k /\ a2 # a /\ [key |-> k2, ips |-> {a2}] \in peers =>
                 [key |-> k2, ips |-> {a2}] \in WgSet(peers, k, a)
<1>1. ASSUME NEW k2, k2 # k, \A q \in peers : q.key # k2, NEW q \in WgSet(peers, k, a)
      PROVE  q.key # k2
  <2>1. CASE q = [key |-> k, ips |-> {a}]
    BY <1>1, <2>1
  <2>2. CASE \E r \in peers : q = [r EXCEPT !.ips = @ \ {a}]
    BY <1>1, <2>2
  <2> QED BY <1>1, <2>1, <2>2 DEF WgSet
<1>2. ASSUME NEW k2, NEW a2, k2 # k, a2 # a, [key |-> k2, ips |-> {a2}] \in peers
      PROVE  [key |-> k2, ips |-> {a2}] \in WgSet(peers, k, a)
  <2> DEFINE r == [key |-> k2, ips |-> {a2}]
  <2>1. r = [r EXCEPT !.ips = @ \ {a}]
    <3>1. {a2} \ {a} = {a2}
      BY <1>2
    <3> QED BY <3>1
  <2>2. r.key # k
    BY <1>2
  <2> QED BY <1>2, <2>1, <2>2 DEF WgSet
<1>3. [key |-> k, ips |-> {a}] \in WgSet(peers, k, a)
  BY DEF WgSet
<1> QED BY <1>1, <1>2, <1>3

\* A second failure needs a bound above one.
LEMMA OneFailure ==
    ASSUME ServiceTypeOK, NEW stage \in Stages, Fails(stage)
    PROVE  /\ failed' # {} /\ MaxFailures # 0
           /\ MaxFailures <= 1 => failed = {}
<1>1. IsFiniteSet(Stages)
  <2>1. IsFiniteSet({"peer"})
    BY FS_Singleton
  <2>2. IsFiniteSet({"peer"} \cup {"hosts"})
    BY <2>1, FS_AddElement
  <2>3. IsFiniteSet(({"peer"} \cup {"hosts"}) \cup {"registry"})
    BY <2>2, FS_AddElement
  <2>4. Stages = ({"peer"} \cup {"hosts"}) \cup {"registry"}
    OBVIOUS
  <2> QED BY <2>3, <2>4
<1>2. IsFiniteSet(failed)
  BY <1>1, FS_Subset DEF ServiceTypeOK
<1>3. Cardinality(failed) \in Nat /\ (Cardinality(failed) = 0 <=> failed = {})
  BY <1>2, FS_CardinalityType, FS_EmptySet
<1>4. Cardinality(failed) < MaxFailures /\ failed' = failed \cup {stage}
  BY DEF Fails
<1> QED BY <1>3, <1>4, ServiceAssumption

-----------------------------------------------------------------------------
(* A step of the operation of p, seen from the others.                     *)

Sole(p) == \A q \in Procs \ {p} : ~Changing(q)

\* What each step has to keep.
Keeps(p) ==
    /\ Matches(p)'
    /\ OnlyRequests /\ crashes' = 0 => (Changing(p)' => proc'[p].op = "enroll")
    /\ Serial \/ crashes' = 0 => Apart'
    /\ MaxFailures <= 1 /\ crashes' = 0 => Strict'

LEMMA ChangingIsSole ==
    ASSUME AInv, NEW p \in Procs, Changing(p), Serial \/ crashes = 0
    PROVE  Apart /\ Sole(p) /\ Achieved(p)
BY DEF AInv, Apart, OneChanges, Sole

LEMMA RevokingIsChanging ==
    ASSUME AInv, NEW p \in Procs, Revoking(p)
    PROVE  Changing(p)
BY DEF AInv, Matched, Matches, Revoking, Changing

\* Operations apart from the one that steps cannot tell the difference.
LEMMA SoleApart ==
    ASSUME NEW p \in Procs, Local(p), Sole(p), Changing(p)' => Achieved(p)',
           OwnBlocks', RevokedAreGone'
    PROVE  Apart'
<1>1. ASSUME NEW q \in Procs, Changing(q)'
      PROVE  q = p
  BY <1>1 DEF Local, Sole, Changing
<1> QED BY <1>1 DEF Apart, OneChanges

\* A step outside the changes of the gateway.
LEMMA UntouchedKeeps ==
    ASSUME AInv, NEW p \in Procs, Local(p),
           UNCHANGED <<devices, txn, conf, live, call, crashes>>, failed \subseteq failed',
           ~Changing(p),
           proc'[p] # None =>
              \/ proc'[p].at \in {"reserve", "prepare"} /\ proc'[p].op = "enroll"
              \/ proc'[p].at \in {"list", "sync"} /\ proc'[p].op # "restore"
    PROVE  Keeps(p)
<1>1. ~Changing(p)'
  BY DEF Changing
<1>2. Matches(p)'
  <2>1. txn[p] = None /\ call[p] = None
    BY DEF AInv, Matched, Matches, InTransaction, Changing
  <2> QED BY <2>1 DEF Matches, InTransaction, Revoking
<1>3. \A q \in Procs \ {p} : proc'[q] = proc[q]
  BY DEF Local
<1>4. Apart => Apart'
  <2> SUFFICES ASSUME Apart PROVE Apart'
    OBVIOUS
  <2>1. OneChanges'
    BY <1>1, <1>3 DEF Apart, OneChanges, Changing
  <2>2. OwnBlocks' /\ RevokedAreGone'
    BY DEF Apart, OwnBlocks, RevokedAreGone, Enrolled, Revoked, Gone
  <2>3. ASSUME NEW q \in Procs, Changing(q)'
        PROVE  Achieved(q)'
    <3>1. q # p /\ proc'[q] = proc[q] /\ Changing(q)
      BY <1>1, <1>3, <2>3 DEF Changing
    <3>2. Achieved(q)
      BY <3>1 DEF Apart
    <3> QED BY <3>1, <3>2 DEF Achieved, InTransaction, Connected, Enrolled, Revoking, Enabled,
                             Gone, Desired
  <2> QED BY <2>1, <2>2, <2>3 DEF Apart
<1>5. Strict => Strict'
  <2> SUFFICES ASSUME Strict PROVE Strict'
    OBVIOUS
  <2>1. ASSUME NEW q \in Procs, Changing(q)
        PROVE  proc'[q] = proc[q]
    BY <1>3, <2>1
  <2>2. EnabledAreConnected'
    BY <2>1, RevokingIsChanging DEF Strict, EnabledAreConnected, Enabled, Connected, Revoking
  <2>3. BlocksHaveDevices'
    BY <2>1 DEF Strict, BlocksHaveDevices, InProgress, Enabled, Changing
  <2>4. RestoringFailed'
    <3> SUFFICES ASSUME NEW q \in Procs, proc'[q] # None, proc'[q].op = "restore"
                 PROVE  failed' # {}
      BY DEF RestoringFailed
    <3>1. q # p
      OBVIOUS
    <3>2. failed # {}
      BY <1>3, <3>1 DEF Strict, RestoringFailed
    <3> QED BY <3>2
  <2> QED BY <2>2, <2>3, <2>4 DEF Strict
<1> QED BY <1>1, <1>2, <1>4, <1>5 DEF Keeps, AInv

LEMMA OutsideStepsKeep ==
    ASSUME AInv, Next, NEW p \in Procs,
           \/ \E d \in Devices, k \in Keys, t \in Tokens : Receive(p, d, k, t)
           \/ StartSyncHosts(p)
           \/ ReadReservations(p) \/ Reject(p)
           \/ ListDevices(p) \/ SyncHosts(p) \/ SyncHostsFails(p)
    PROVE  Keeps(p)
<1> USE OperationAssumption
<1>1. Local(p)
  BY StepsAreLocal DEF AInv, Steps
<1>2. /\ UNCHANGED <<devices, txn, conf, live, call, crashes>> /\ failed \subseteq failed'
      /\ proc[p] = None \/ proc[p].at \in {"reserve", "prepare", "list", "sync"}
  BY DEF Receive, StartSyncHosts, ReadReservations, Reject, ListDevices, SyncHosts,
         SyncHostsFails, regVars, peerVars, Fails, Doing, Idle
<1>3. proc \in [Procs -> Operation \cup {None}]
  BY DEF AInv, SInv, ServiceTypeOK
<1>4. CASE (\E d \in Devices, k \in Keys, t \in Tokens : Receive(p, d, k, t)) \/ StartSyncHosts(p)
  <2>1. \/ proc'[p].op = "enroll" /\ proc'[p].at = "reserve"
        \/ proc'[p].op = "hosts" /\ proc'[p].at = "list"
    BY <1>3, <1>4 DEF Receive, StartSyncHosts, Starts
  <2> QED BY <1>1, <1>2, <2>1, UntouchedKeeps DEF Changing
<1>5. CASE ReadReservations(p)
  <2>1. proc'[p].op = "enroll" /\ proc'[p].at = "prepare"
    BY <1>3, <1>5 DEF ReadReservations, Doing
  <2> QED BY <1>1, <1>2, <2>1, UntouchedKeeps DEF Changing
<1>6. CASE Reject(p)
  <2>1. proc[p] # None /\ Goes(p, "undo", "list")
    BY <1>6 DEF Reject, Doing
  <2>2. proc'[p].op = "undo" /\ proc'[p].at = "list"
    BY <2>1, GoesFacts DEF AInv, SInv
  <2> QED BY <1>1, <1>2, <2>2, UntouchedKeeps DEF Changing
<1>7. CASE ListDevices(p)
  <2>1. proc[p] # None /\ proc[p].at = "list"
        /\ proc'[p].op = proc[p].op /\ proc'[p].at = "sync"
    BY <1>3, <1>7 DEF ListDevices
  <2>2. proc[p].op # "restore"
    BY <2>1 DEF AInv, Matched, Matches
  <2> QED BY <1>1, <1>2, <2>1, <2>2, UntouchedKeeps DEF Changing
<1>8. CASE SyncHosts(p) \/ SyncHostsFails(p)
  <2>1. proc'[p] = None
    BY <1>8, ReturnsFacts DEF SyncHosts, SyncHostsFails, AInv, SInv
  <2> QED BY <1>1, <1>2, <2>1, UntouchedKeeps DEF Changing
<1> QED BY <1>4, <1>5, <1>6, <1>7, <1>8

-----------------------------------------------------------------------------
(* An operation begins to change the gateway.                              *)

LEMMA BeginsSole ==
    ASSUME AInv, Serial \/ OnlyRequests, Serial \/ crashes = 0, NEW p \in Procs,
           Prepare(p) \/ \E d \in Devices : StartRevoke(p, d)
    PROVE  Sole(p)
<1>1. CASE Serial
  <2>1. \A q \in Procs \ {p} : proc[q] = None
    BY <1>1 DEF AInv, OneRuns, Prepare, Doing, StartRevoke, Idle, Quiet
  <2> QED BY <2>1 DEF Sole, Changing
<1>2. CASE ~Serial
  <2>1. Prepare(p)
    BY <1>2 DEF OnlyRequests, StartRevoke
  <2>2. ASSUME NEW q \in Procs, Changing(q)
        PROVE  FALSE
    <3>1. proc[q].op = "enroll"
      BY <1>2, <2>2 DEF AInv, OnlyEnrollments
    <3>2. InTransaction(q)
      BY <2>2, <3>1 DEF AInv, Matched, Matches, Changing, InTransaction
    <3>3. txn[q] # None
      BY <3>2 DEF AInv, Matched, Matches
    <3> QED BY <2>1, <3>3 DEF Prepare, BeginEnrollment, WriteLockFree
  <2> QED BY <2>2 DEF Sole
<1> QED BY <1>1, <1>2

LEMMA EnsureCallFacts ==
    ASSUME PeersTypeOK, NEW p \in Procs, NEW d \in Devices, NEW k \in Keys, NEW a \in Hosts,
           EnsureCall(p, d, k, a)
    PROVE  /\ call'[p] # None
           /\ call'[p].op = "ensure" /\ call'[p].step = "read"
           /\ call'[p].dev = d /\ call'[p].key = k /\ call'[p].addr = a
<1> DEFINE new == [op |-> "ensure", step |-> "read", dev |-> d, key |-> k, addr |-> a,
                   base |-> {}, same |-> FALSE]
<1>1. new \in Call
  OBVIOUS
<1>2. call'[p] = new
  BY DEF EnsureCall, PeersTypeOK
<1>3. new.op = "ensure" /\ new.step = "read" /\ new.dev = d /\ new.key = k /\ new.addr = a
  OBVIOUS
<1> HIDE DEF new
<1> QED BY <1>1, <1>2, <1>3, CallAssumption

LEMMA RemoveCallFacts ==
    ASSUME PeersTypeOK, NEW p \in Procs, NEW d \in Devices, NEW k \in Keys,
           RemoveCall(p, d, k)
    PROVE  /\ call'[p] # None
           /\ call'[p].op = "remove" /\ call'[p].step = "read"
           /\ call'[p].dev = d /\ call'[p].key = k
<1> DEFINE new == [op |-> "remove", step |-> "read", dev |-> d, key |-> k, addr |-> None,
                   base |-> {}, same |-> FALSE]
<1>1. new \in Call
  OBVIOUS
<1>2. call'[p] = new
  BY DEF RemoveCall, PeersTypeOK
<1>3. new.op = "remove" /\ new.step = "read" /\ new.dev = d /\ new.key = k
  OBVIOUS
<1> HIDE DEF new
<1> QED BY <1>1, <1>2, <1>3, CallAssumption

\* A call has begun; nothing has changed yet.
LEMMA BeginningKeeps ==
    ASSUME AInv, NEW p \in Procs, Local(p), Matches(p)',
           UNCHANGED <<devices, conf, live, failed, crashes>>,
           Serial \/ crashes = 0 => Sole(p),
           ~Changing(p), proc'[p] # None,
           proc'[p].op # "restore" /\ (OnlyRequests => proc'[p].op = "enroll"),
           Serial \/ crashes = 0 => Achieved(p)'
    PROVE  Keeps(p)
<1>1. \A q \in Procs \ {p} : proc'[q] = proc[q]
  BY DEF Local
<1>2. ASSUME Serial \/ crashes = 0
      PROVE  Apart'
  <2>1. OwnBlocks' /\ RevokedAreGone'
    BY <1>2 DEF AInv, Apart, OwnBlocks, RevokedAreGone, Enrolled, Revoked, Gone
  <2> QED BY <1>2, <2>1, SoleApart
<1>3. ASSUME MaxFailures <= 1, crashes = 0
      PROVE  Strict'
  <2>1. ASSUME NEW q \in Procs, Changing(q)
        PROVE  q # p /\ proc'[q] = proc[q]
    BY <1>1, <2>1
  <2>2. EnabledAreConnected'
    BY <1>3, <2>1, RevokingIsChanging
       DEF AInv, Strict, EnabledAreConnected, Enabled, Connected, Revoking
  <2>3. BlocksHaveDevices'
    BY <1>3, <2>1 DEF AInv, Strict, BlocksHaveDevices, InProgress, Enabled, Changing
  <2>4. RestoringFailed'
    BY <1>1, <1>3 DEF AInv, Strict, RestoringFailed
  <2> QED BY <2>2, <2>3, <2>4 DEF Strict
<1> QED BY <1>2, <1>3 DEF Keeps

LEMMA PrepareKeeps ==
    ASSUME AInv, Serial \/ OnlyRequests, Next, NEW p \in Procs, Prepare(p)
    PROVE  Keeps(p)
<1> USE OperationAssumption, RegistryAssumption
<1> DEFINE d == proc[p].dev
           k == proc[p].key
<1>1. /\ proc[p] # None /\ proc[p].op = "enroll" /\ proc[p].at = "prepare"
      /\ d \in Devices /\ k \in Keys /\ proc[p].token \in Tokens
  BY DEF Prepare, Doing, AInv, SInv, ControlSound, Controlled
<1>2. Local(p)
  BY PrepareIsLocal DEF AInv
<1>3. /\ BeginEnrollment(p, d, k, proc[p].token, proc[p].reserved)
      /\ EnsureCall(p, d, k, txn'[p].row.addr)
      /\ Goes(p, "enroll", "peer")
      /\ UNCHANGED <<devices, conf, live, failed, crashes>>
  BY DEF Prepare, BeginEnrollment
<1>4. PICK draft \in Txn :
         /\ txn' = [txn EXCEPT ![p] = draft]
         /\ draft.dev = d
         /\ IF draft.created THEN draft.row.key = k
                             ELSE devices[d] # None /\ draft.row = devices[d]
  BY <1>1, <1>3, BeginDraft DEF AInv, SInv
<1>5. txn'[p] = draft
  BY <1>4 DEF AInv, SInv, IInv, RegistryTypeOK
<1>6. draft.row.key = k /\ draft.row.addr \in Hosts
  <2>1. devices[d] # None => devices[d].key = k
    BY <1>3 DEF BeginEnrollment, Refused, IdentityConflict
  <2> QED BY <1>4, <2>1
<1>7. /\ proc'[p] # None /\ proc'[p].op = "enroll" /\ proc'[p].at = "peer"
      /\ proc'[p].dev = d /\ proc'[p].key = k
  BY <1>1, <1>3, GoesFacts DEF AInv, SInv
<1>8. /\ call'[p] # None /\ call'[p].op = "ensure" /\ call'[p].step = "read"
      /\ call'[p].dev = d /\ call'[p].key = k /\ call'[p].addr = draft.row.addr
  BY <1>1, <1>3, <1>5, <1>6, EnsureCallFacts DEF AInv, SInv, PInv
<1>9. Matches(p)'
  BY <1>4, <1>5, <1>6, <1>7, <1>8 DEF Matches, InTransaction, Revoking
<1>10. Achieved(p)'
  BY <1>7, <1>8 DEF Achieved, InTransaction, Revoking
<1>11. ~Changing(p)
  BY <1>1 DEF Changing
<1> QED BY <1>2, <1>3, <1>7, <1>9, <1>10, <1>11, BeginsSole, BeginningKeeps

LEMMA StartRevokeKeeps ==
    ASSUME AInv, Serial \/ OnlyRequests, Next, NEW p \in Procs, NEW d \in Devices,
           StartRevoke(p, d)
    PROVE  Keeps(p)
<1> USE OperationAssumption
<1>1. Local(p)
  BY StepsAreLocal DEF AInv
<1>2. /\ proc[p] = None /\ p \in Shells /\ d \in Enrolled
      /\ UNCHANGED <<devices, txn, conf, live, failed, crashes>>
  BY DEF StartRevoke, Idle, regVars, Enrolled
<1>3. ~Changing(p) /\ txn[p] = None /\ call[p] = None
  BY <1>2 DEF Changing, AInv, Matched, Matches, InTransaction
<1>4. devices[d].key \in Keys /\ proc \in [Procs -> Operation \cup {None}]
  BY <1>2 DEF Enrolled, AInv, SInv, IInv, RegistryTypeOK, ServiceTypeOK
<1>5. CASE ~devices[d].enabled
  <2>1. proc'[p].op = "revoke" /\ proc'[p].at = "list" /\ call' = call
    BY <1>4, <1>5 DEF StartRevoke, Starts
  <2> QED BY <1>1, <1>2, <1>3, <2>1, UntouchedKeeps
<1>6. CASE devices[d].enabled
  <2> DEFINE k == devices[d].key
             new == [op |-> "revoke", at |-> "peer", dev |-> d, key |-> k, token |-> None,
                     reserved |-> {}, entries |-> {}]
  <2>1. proc'[p] = new /\ new \in Operation /\ RemoveCall(p, d, k)
    BY <1>4, <1>6 DEF StartRevoke, Starts
  <2>2. /\ proc'[p] # None /\ proc'[p].op = "revoke" /\ proc'[p].at = "peer"
        /\ proc'[p].dev = d /\ proc'[p].key = k
    BY <2>1
  <2>3. /\ call'[p] # None /\ call'[p].op = "remove" /\ call'[p].step = "read"
        /\ call'[p].dev = d /\ call'[p].key = k
    BY <1>4, <2>1, RemoveCallFacts DEF AInv, SInv, PInv
  <2>4. Matches(p)'
    BY <1>2, <1>3, <2>2, <2>3 DEF Matches, InTransaction, Revoking, Enrolled
  <2>5. Achieved(p)'
    BY <1>2, <1>6, <2>2, <2>3 DEF Achieved, InTransaction, Revoking, Enabled, Enrolled
  <2>6. ~OnlyRequests
    BY <1>2 DEF OnlyRequests
  <2> QED BY <1>1, <1>2, <1>3, <2>2, <2>4, <2>5, <2>6, BeginsSole, BeginningKeeps
<1> QED BY <1>5, <1>6

-----------------------------------------------------------------------------
(* The steps of a transaction and of a revocation on the tables.           *)

LEMMA SyncHostsInsideKeeps ==
    ASSUME AInv, Next, NEW p \in Procs, SyncHostsInside(p)
    PROVE  Keeps(p)
<1>1. /\ proc[p] # None /\ proc[p].op = "enroll" /\ proc[p].at = "hosts"
      /\ Goes(p, "enroll", "commit")
      /\ UNCHANGED <<devices, txn, conf, live, call, failed, crashes>>
  BY DEF SyncHostsInside, Doing, regVars, peerVars
<1>2. Local(p)
  BY EnrollStepsAreLocal DEF AInv
<1>3. /\ proc'[p] \in Operation /\ proc'[p].op = "enroll" /\ proc'[p].at = "commit"
      /\ proc'[p].dev = proc[p].dev /\ proc'[p].key = proc[p].key
  BY <1>1, GoesFacts DEF AInv, SInv
<1>4. proc'[p] # None
  BY <1>3, OperationAssumption
<1>5. Changing(p) /\ Changing(p)'
  BY <1>1, <1>3, <1>4 DEF Changing
<1>6. Matches(p)'
  BY <1>1, <1>3, <1>4 DEF AInv, Matched, Matches, InTransaction, Revoking
<1>7. \A q \in Procs \ {p} : proc'[q] = proc[q]
  BY <1>2 DEF Local
<1>8. ASSUME Serial \/ crashes = 0
      PROVE  Apart'
  <2>1. Apart /\ Sole(p) /\ Achieved(p)
    BY <1>5, <1>8, ChangingIsSole
  <2>2. OwnBlocks' /\ RevokedAreGone'
    BY <1>1, <2>1 DEF Apart, OwnBlocks, RevokedAreGone, Enrolled, Revoked, Gone
  <2>3. Achieved(p)'
    <3>1. Connected(proc[p].dev, proc[p].key, txn[p].row.addr)
      BY <1>1, <2>1 DEF Achieved, InTransaction
    <3>2. call'[p] = None
      BY <1>1 DEF AInv, Matched, Matches
    <3> QED BY <1>1, <1>3, <3>1, <3>2 DEF Achieved, Connected, Revoking
  <2> QED BY <1>2, <2>1, <2>2, <2>3, SoleApart
<1>9. ASSUME MaxFailures <= 1, crashes = 0
      PROVE  Strict'
  <2>1. EnabledAreConnected'
    BY <1>1, <1>7, <1>9 DEF AInv, Strict, EnabledAreConnected, Enabled, Connected, Revoking
  <2>2. BlocksHaveDevices'
    BY <1>1, <1>3, <1>4, <1>7, <1>9
       DEF AInv, Strict, BlocksHaveDevices, InProgress, Enabled, Changing
  <2>3. RestoringFailed'
    BY <1>1, <1>3, <1>7, <1>9 DEF AInv, Strict, RestoringFailed
  <2> QED BY <2>1, <2>2, <2>3 DEF Strict
<1> QED BY <1>1, <1>3, <1>6, <1>8, <1>9 DEF Keeps

\* A commit installs the draft, which is the row itself where one existed.
LEMMA CommitEffect ==
    ASSUME SInv, NEW p \in Procs, CommitEnrollment(p)
    PROVE  /\ txn[p] \in Txn /\ txn[p] # None /\ txn[p].row.enabled
           /\ devices'[txn[p].dev] = txn[p].row
           /\ \A e \in Devices : e # txn[p].dev => devices'[e] = devices[e]
<1>1. txn[p] \in Txn /\ txn[p] # None
  BY DEF SInv, IInv, RegistryTypeOK, CommitEnrollment
<1>2. txn[p].row.enabled /\ (~txn[p].created => devices[txn[p].dev] = txn[p].row)
  BY <1>1 DEF SInv, IInv, DraftStaysValid
<1>3. devices' = View(p) /\ devices \in [Devices -> Row \cup {None}]
  BY DEF CommitEnrollment, SInv, IInv, RegistryTypeOK
<1> QED BY <1>1, <1>2, <1>3 DEF View

LEMMA CommitKeeps ==
    ASSUME AInv, Next, NEW p \in Procs, Commit(p)
    PROVE  Keeps(p)
<1> USE RegistryAssumption
<1> DEFINE d == proc[p].dev
           k == proc[p].key
           row == txn[p].row
<1>1. /\ proc[p] # None /\ proc[p].op = "enroll" /\ proc[p].at = "commit"
      /\ CommitEnrollment(p) /\ Returns(p)
      /\ UNCHANGED <<conf, live, call, failed, crashes>>
  BY DEF Commit, Doing, peerVars
<1>2. Local(p)
  BY EnrollStepsAreLocal DEF AInv
<1>3. proc'[p] = None /\ ~Changing(p)'
  BY <1>1, ReturnsFacts DEF AInv, SInv, Changing
<1>4. Changing(p) /\ InTransaction(p)
  BY <1>1 DEF Changing, InTransaction
<1>5. /\ row \in Row /\ row # None /\ row.enabled /\ row.key = k /\ d \in Devices
      /\ devices'[d] = row /\ \A e \in Devices : e # d => devices'[e] = devices[e]
  BY <1>1, <1>4, CommitEffect DEF AInv, Matched, Matches
<1>6. txn'[p] = None
  BY <1>1 DEF CommitEnrollment, AInv, SInv, IInv, RegistryTypeOK
<1>7. Matches(p)'
  BY <1>1, <1>3, <1>6 DEF AInv, Matched, Matches, InTransaction, Revoking
<1>8. \A q \in Procs \ {p} : proc'[q] = proc[q]
  BY <1>2 DEF Local
<1> HIDE DEF row
<1>9. ASSUME Serial \/ crashes = 0
      PROVE  Connected(d, k, row.addr) /\ Apart /\ Sole(p)
  BY <1>1, <1>4, <1>9, ChangingIsSole DEF Achieved, row
<1>10. ASSUME Serial \/ crashes = 0
       PROVE  Apart'
  <2>1. RevokedAreGone'
    <3> SUFFICES ASSUME NEW e \in Devices, Revoked(e)' PROVE Gone(e, devices[e].key)'
      BY DEF RevokedAreGone
    <3>1. e # d /\ Revoked(e)
      BY <1>5 DEF Revoked
    <3> QED BY <1>1, <1>5, <1>9, <1>10, <3>1 DEF Apart, RevokedAreGone, Gone
  <2>2. OwnBlocks'
    <3> SUFFICES ASSUME NEW e \in Devices, devices'[e] # None, NEW b \in conf,
                        b.owner = e \/ b.key = devices'[e].key
                 PROVE  b = ManagedBlock(e, devices'[e].key, devices'[e].addr)
      BY <1>1 DEF OwnBlocks, Enrolled
    <3>1. CASE e = d
      <4> DEFINE m == ManagedBlock(d, k, row.addr)
      <4>1. m \in conf /\ m.owner = d /\ m.key = k
        BY <1>9, <1>10 DEF Connected, ManagedBlock
      <4>2. Sound(conf) /\ d # None
        BY <1>5, GatewaysAssumption DEF AInv, SInv, PInv, ConfigurationSound
      <4>3. b = m
        <5> HIDE DEF m
        <5> QED BY <1>5, <3>1, <4>1, <4>2 DEF Sound
      <4> QED BY <1>5, <3>1, <4>3
    <3>2. CASE e # d
      BY <1>5, <1>9, <1>10, <3>2 DEF Apart, OwnBlocks, Enrolled
    <3> QED BY <3>1, <3>2
  <2> QED BY <1>2, <1>3, <1>9, <1>10, <2>1, <2>2, SoleApart
<1>11. ASSUME MaxFailures <= 1, crashes = 0
       PROVE  Strict'
  <2>1. ASSUME NEW q \in Procs, Revoking(q)
        PROVE  Revoking(q)' /\ proc'[q] = proc[q]
    BY <1>1, <1>8, <2>1 DEF Revoking
  <2>2. EnabledAreConnected'
    <3> SUFFICES ASSUME NEW e \in Devices, Enabled(e)'
                 PROVE  \/ Connected(e, devices[e].key, devices[e].addr)'
                        \/ \E q \in Procs : Revoking(q)' /\ proc'[q].dev = e
      BY DEF EnabledAreConnected
    <3>1. CASE e = d
      BY <1>1, <1>5, <1>9, <1>11, <3>1 DEF Connected
    <3>2. CASE e # d
      <4>1. Enabled(e) /\ devices'[e] = devices[e]
        BY <1>5, <3>2 DEF Enabled
      <4>2. \/ Connected(e, devices[e].key, devices[e].addr)
            \/ \E q \in Procs : Revoking(q) /\ proc[q].dev = e
        BY <1>11, <4>1 DEF AInv, Strict, EnabledAreConnected
      <4> QED BY <1>1, <2>1, <4>1, <4>2 DEF Connected
    <3> QED BY <3>1, <3>2
  <2>3. BlocksHaveDevices'
    <3> SUFFICES ASSUME NEW b \in conf, b.owner # None
                 PROVE  Enabled(b.owner)' \/ InProgress(b.owner)'
      BY <1>1 DEF BlocksHaveDevices
    <3>1. b.owner \in Devices
      BY DEF AInv, SInv, PInv, PeersTypeOK
    <3>2. CASE b.owner = d
      BY <1>5, <3>2 DEF Enabled
    <3>3. CASE b.owner # d
      <4>1. ~InProgress(b.owner)
        BY <1>9, <1>11, <3>3 DEF Sole, InProgress
      <4>2. Enabled(b.owner)
        BY <1>11, <4>1 DEF AInv, Strict, BlocksHaveDevices
      <4> QED BY <1>5, <3>1, <3>3, <4>2 DEF Enabled
    <3> QED BY <3>2, <3>3
  <2>4. RestoringFailed'
    BY <1>1, <1>3, <1>8, <1>11 DEF AInv, Strict, RestoringFailed
  <2> QED BY <2>2, <2>3, <2>4 DEF Strict
<1> QED BY <1>1, <1>3, <1>7, <1>10, <1>11 DEF Keeps

LEMMA DisableRowKeeps ==
    ASSUME AInv, Next, NEW p \in Procs, DisableRow(p)
    PROVE  Keeps(p)
<1> USE RegistryAssumption
<1> DEFINE d == proc[p].dev
<1>1. /\ proc[p] # None /\ proc[p].op = "revoke" /\ proc[p].at = "revoke"
      /\ Goes(p, "revoke", "list")
      /\ devices' = [devices EXCEPT ![d].enabled = FALSE]
      /\ UNCHANGED <<txn, conf, live, call, failed, crashes>>
  BY DEF DisableRow, Doing, peerVars, RevokeRow
<1>2. Local(p)
  BY ListAndSyncAreLocal DEF AInv
<1>3. proc'[p] # None /\ proc'[p].op = "revoke" /\ proc'[p].at = "list"
  BY <1>1, GoesFacts, OperationAssumption DEF AInv, SInv
<1>4. Changing(p) /\ Revoking(p) /\ ~Changing(p)'
  BY <1>1, <1>3 DEF Changing, Revoking
<1>5. d \in Enrolled /\ d \in Devices /\ devices[d].key = proc[p].key
  BY <1>4 DEF AInv, Matched, Matches, Enrolled
<1>6. /\ devices'[d] # None /\ ~devices'[d].enabled
      /\ devices'[d].key = devices[d].key /\ devices'[d].addr = devices[d].addr
      /\ \A e \in Devices : e # d => devices'[e] = devices[e]
  <2> DEFINE new == [devices[d] EXCEPT !.enabled = FALSE]
  <2>1. devices \in [Devices -> Row \cup {None}] /\ devices[d] \in Row
    BY <1>5 DEF AInv, SInv, IInv, RegistryTypeOK, Enrolled
  <2>2. new \in Row /\ ~new.enabled /\ new.key = devices[d].key /\ new.addr = devices[d].addr
    BY <2>1
  <2>3. devices' = [devices EXCEPT ![d] = new]
    BY <1>1, <2>1
  <2> QED BY <1>5, <2>1, <2>2, <2>3
<1>7. Matches(p)'
  BY <1>1, <1>3 DEF AInv, Matched, Matches, InTransaction, Revoking
<1>8. \A q \in Procs \ {p} : proc'[q] = proc[q]
  BY <1>2 DEF Local
<1>9. ASSUME Serial \/ crashes = 0
      PROVE  Apart /\ Sole(p) /\ Gone(d, devices[d].key)
  BY <1>1, <1>4, <1>5, <1>9, ChangingIsSole DEF Achieved
<1>10. ASSUME Serial \/ crashes = 0
       PROVE  Apart'
  <2>1. RevokedAreGone'
    <3> SUFFICES ASSUME NEW e \in Devices, Revoked(e)' PROVE Gone(e, devices[e].key)'
      BY DEF RevokedAreGone
    <3>1. CASE e = d
      BY <1>1, <1>6, <1>9, <1>10, <3>1 DEF Gone
    <3>2. CASE e # d
      BY <1>1, <1>6, <1>9, <1>10, <3>2 DEF Apart, RevokedAreGone, Revoked, Gone
    <3> QED BY <3>1, <3>2
  <2>2. OwnBlocks'
    BY <1>1, <1>5, <1>6, <1>9, <1>10 DEF Apart, OwnBlocks, Enrolled
  <2> QED BY <1>2, <1>4, <1>9, <1>10, <2>1, <2>2, SoleApart
<1>11. ASSUME MaxFailures <= 1, crashes = 0
       PROVE  Strict'
  <2>1. \A q \in Procs : Changing(q) => q = p
    BY <1>9, <1>11 DEF Sole
  <2>2. ASSUME NEW e \in Devices, Enabled(e)'
        PROVE  Connected(e, devices[e].key, devices[e].addr)'
    <3>1. e # d /\ Enabled(e) /\ devices'[e] = devices[e]
      BY <1>6, <2>2 DEF Enabled
    <3>2. ~ \E q \in Procs : Revoking(q) /\ proc[q].dev = e
      BY <2>1, <3>1, RevokingIsChanging
    <3> QED BY <1>1, <1>11, <3>1, <3>2 DEF AInv, Strict, EnabledAreConnected, Connected
  <2>3. ASSUME NEW b \in conf, b.owner # None
        PROVE  Enabled(b.owner)'
    <3>1. b.owner \in Devices /\ b.owner # d
      BY <1>9, <1>11, <2>3 DEF Gone, AInv, SInv, PInv, PeersTypeOK
    <3>2. ~InProgress(b.owner)
      BY <2>1, <3>1 DEF InProgress
    <3>3. Enabled(b.owner)
      BY <1>11, <2>3, <3>2 DEF AInv, Strict, BlocksHaveDevices
    <3> QED BY <1>6, <3>1, <3>3 DEF Enabled
  <2>4. RestoringFailed'
    BY <1>1, <1>3, <1>8, <1>11 DEF AInv, Strict, RestoringFailed
  <2> QED BY <1>1, <2>2, <2>3, <2>4 DEF Strict, EnabledAreConnected, BlocksHaveDevices
<1> QED BY <1>1, <1>4, <1>7, <1>10, <1>11 DEF Keeps

-----------------------------------------------------------------------------
(* An operation is undone.                                                 *)

\* The draft of a transaction is apart from the rows, or it is the row.
LEMMA DraftIsApart ==
    ASSUME AInv, NEW p \in Procs, InTransaction(p)
    PROVE  /\ proc[p].dev \in Devices /\ proc[p].key \in Keys
           /\ txn[p].row.addr \in Hosts
           /\ \A e \in Enrolled : e # proc[p].dev =>
                 devices[e].key # proc[p].key /\ devices[e].addr # txn[p].row.addr
           /\ txn[p].created <=> proc[p].dev \notin Enrolled
           /\ ~txn[p].created =>
                 /\ devices[proc[p].dev].key = proc[p].key
                 /\ devices[proc[p].dev].addr = txn[p].row.addr
                 /\ Enabled(proc[p].dev)
<1> USE RegistryAssumption
<1>1. /\ txn[p] \in Txn /\ txn[p] # None
      /\ txn[p].dev = proc[p].dev /\ txn[p].row.key = proc[p].key
  BY DEF AInv, Matched, Matches, SInv, IInv, RegistryTypeOK
<1>2. proc[p].dev \in Devices /\ proc[p].key \in Keys /\ txn[p].row.addr \in Hosts
  BY <1>1
<1>3. CASE txn[p].created
  BY <1>1, <1>2, <1>3 DEF AInv, SInv, IInv, DraftStaysValid, Enrolled
<1>4. CASE ~txn[p].created
  <2>1. devices[proc[p].dev] = txn[p].row /\ txn[p].row.enabled /\ txn[p].row # None
    BY <1>1, <1>4 DEF AInv, SInv, IInv, DraftStaysValid
  <2>2. proc[p].dev \in Enrolled
    BY <1>2, <2>1 DEF Enrolled
  <2>3. \A e \in Enrolled : e # proc[p].dev =>
           devices[e].key # proc[p].key /\ devices[e].addr # txn[p].row.addr
    BY <1>1, <2>1, <2>2 DEF AInv, SInv, IInv, UniqueIdentity
  <2> QED BY <1>1, <1>2, <1>4, <2>1, <2>2, <2>3 DEF Enabled
<1> QED BY <1>1, <1>3, <1>4

LEMMA AbortKeeps ==
    ASSUME AInv, Next, NEW p \in Procs, proc[p] # None, Abort(p), Local(p),
           failed \subseteq failed',
           proc[p].at # "peer" => failed' # {},
           ~(OnlyRequests /\ crashes = 0)
    PROVE  Keeps(p)
<1> DEFINE d == proc[p].dev
           k == proc[p].key
<1>1. /\ proc[p].op = "enroll" /\ txn[p] # None
      /\ UNCHANGED <<devices, conf, live, crashes>>
      /\ txn'[p] = None
  BY DEF Abort, Rollback, CallsEnd, AInv, SInv, IInv, RegistryTypeOK
<1>2. InTransaction(p) /\ Changing(p)
  BY <1>1 DEF AInv, Matched, Matches, InTransaction, Changing
<1>3. \/ /\ txn[p].created /\ RemoveCall(p, d, k) /\ Goes(p, "undo", "peer")
      \/ /\ ~txn[p].created /\ call'[p] = None /\ Goes(p, "undo", "list")
  BY DEF Abort, CallsEnd
<1>4. /\ proc'[p] # None /\ proc'[p].op = "undo" /\ proc'[p].dev = d /\ proc'[p].key = k
      /\ proc'[p].at = IF txn[p].created THEN "peer" ELSE "list"
  BY <1>3, GoesFacts, OperationAssumption DEF AInv, SInv
<1>5. /\ call'[p] # None <=> txn[p].created
      /\ call'[p] # None =>
            /\ call'[p].op = "remove" /\ call'[p].step = "read"
            /\ call'[p].dev = d /\ call'[p].key = k
  <2>1. CASE txn[p].created
    BY <1>2, <1>3, <2>1, DraftIsApart, RemoveCallFacts DEF AInv, SInv, PInv
  <2>2. CASE ~txn[p].created
    BY <1>3, <2>2
  <2> QED BY <2>1, <2>2
<1>6. Matches(p)'
  BY <1>1, <1>4, <1>5 DEF Matches, InTransaction, Revoking
<1>7. \A q \in Procs \ {p} : proc'[q] = proc[q]
  BY DEF Local
<1>8. ASSUME Serial \/ crashes = 0
      PROVE  Apart'
  <2>1. Apart /\ Sole(p)
    BY <1>2, <1>8, ChangingIsSole
  <2>2. OwnBlocks' /\ RevokedAreGone'
    BY <1>1, <2>1 DEF Apart, OwnBlocks, RevokedAreGone, Enrolled, Revoked, Gone
  <2>3. Changing(p)' => Achieved(p)'
    <3> SUFFICES ASSUME Changing(p)' PROVE Achieved(p)'
      OBVIOUS
    <3>1. txn[p].created
      BY <1>4 DEF Changing
    <3>2. d \notin Enrolled /\ \A e \in Enrolled : devices[e].key # k
      BY <1>2, <3>1, DraftIsApart
    <3> QED BY <1>1, <1>4, <1>5, <3>2 DEF Achieved, InTransaction, Revoking, Enrolled
  <2> QED BY <2>1, <2>2, <2>3, SoleApart
<1>9. ASSUME MaxFailures <= 1, crashes = 0
      PROVE  Strict'
  <2>1. ASSUME NEW q \in Procs, Revoking(q)
        PROVE  Revoking(q)' /\ proc'[q] = proc[q]
    BY <1>1, <1>7, <2>1 DEF Revoking
  <2>2. EnabledAreConnected'
    BY <1>1, <1>9, <2>1 DEF AInv, Strict, EnabledAreConnected, Enabled, Connected
  <2>3. ASSUME NEW b \in conf, b.owner # None
        PROVE  Enabled(b.owner)' \/ InProgress(b.owner)'
    <3>1. CASE Enabled(b.owner)
      BY <1>1, <3>1 DEF Enabled
    <3>2. CASE ~Enabled(b.owner)
      <4>1. InProgress(b.owner)
        BY <1>9, <2>3, <3>2 DEF AInv, Strict, BlocksHaveDevices
      <4>2. b.owner = d /\ proc[p].at # "peer"
        BY <1>1, <1>2, <1>9, <4>1, ChangingIsSole DEF Sole, InProgress
      <4>3. txn[p].created
        BY <1>2, <3>2, <4>2, DraftIsApart
      <4>4. Changing(p)'
        BY <1>4, <4>3 DEF Changing
      <4> QED BY <1>4, <4>2, <4>4 DEF InProgress
    <3> QED BY <3>1, <3>2
  <2>4. BlocksHaveDevices'
    BY <1>1, <2>3 DEF BlocksHaveDevices
  <2>5. RestoringFailed'
    <3> SUFFICES ASSUME NEW q \in Procs, proc'[q] # None, proc'[q].op = "restore"
                 PROVE  failed' # {}
      BY DEF RestoringFailed
    <3>1. q # p
      BY <1>4
    <3> QED BY <1>7, <1>9, <3>1 DEF AInv, Strict, RestoringFailed
  <2> QED BY <2>2, <2>4, <2>5 DEF Strict
<1> QED BY <1>1, <1>6, <1>8, <1>9 DEF Keeps

LEMMA RestorePeerKeeps ==
    ASSUME AInv, Next, NEW p \in Procs, proc[p] # None, RestorePeer(p), Local(p),
           proc[p].op = "revoke", Revoking(p),
           failed \subseteq failed',
           Serial \/ crashes = 0 => failed' # {}
    PROVE  Keeps(p)
<1> DEFINE d == proc[p].dev
           k == proc[p].key
           a == devices[d].addr
<1>1. /\ EnsureCall(p, d, k, a) /\ Goes(p, "restore", "peer")
      /\ UNCHANGED <<devices, txn, conf, live, crashes>>
  BY DEF RestorePeer, regVars
<1>2. Changing(p) /\ txn[p] = None
  BY RevokingIsChanging DEF AInv, Matched, Matches, InTransaction
<1>3. d \in Enrolled /\ d \in Devices /\ devices[d].key = k /\ k \in Keys /\ a \in Hosts
  BY DEF AInv, Matched, Matches, SInv, IInv, RegistryTypeOK, Enrolled
<1>4. /\ proc'[p] # None /\ proc'[p].op = "restore" /\ proc'[p].at = "peer"
      /\ proc'[p].dev = d /\ proc'[p].key = k
  BY <1>1, GoesFacts, OperationAssumption DEF AInv, SInv
<1>5. /\ call'[p] # None /\ call'[p].op = "ensure" /\ call'[p].step = "read"
      /\ call'[p].dev = d /\ call'[p].key = k /\ call'[p].addr = a
  BY <1>1, <1>3, EnsureCallFacts DEF AInv, SInv, PInv
<1>6. Matches(p)' /\ Revoking(p)' /\ Changing(p)'
  BY <1>1, <1>2, <1>3, <1>4, <1>5 DEF Matches, InTransaction, Revoking, Changing, Enrolled
<1>7. \A q \in Procs \ {p} : proc'[q] = proc[q]
  BY DEF Local
<1>8. ASSUME Serial \/ crashes = 0
      PROVE  Apart'
  <2>1. Apart /\ Sole(p) /\ Enabled(d)
    BY <1>2, <1>8, ChangingIsSole DEF Achieved
  <2>2. OwnBlocks' /\ RevokedAreGone'
    BY <1>1, <2>1 DEF Apart, OwnBlocks, RevokedAreGone, Enrolled, Revoked, Gone
  <2>3. Achieved(p)'
    BY <1>1, <1>4, <1>5, <2>1 DEF Achieved, InTransaction, Revoking, Enabled
  <2> QED BY <2>1, <2>2, <2>3, SoleApart
<1>9. ASSUME MaxFailures <= 1, crashes = 0
      PROVE  Strict'
  <2>1. ASSUME NEW q \in Procs, Revoking(q)
        PROVE  Revoking(q)' /\ proc'[q].dev = proc[q].dev
    BY <1>4, <1>6, <1>7, <2>1 DEF Revoking
  <2>2. EnabledAreConnected'
    BY <1>1, <1>9, <2>1 DEF AInv, Strict, EnabledAreConnected, Enabled, Connected
  <2>3. ASSUME NEW e, InProgress(e)
        PROVE  InProgress(e)'
    BY <1>7, <2>3 DEF InProgress, Changing
  <2>4. BlocksHaveDevices'
    BY <1>1, <1>9, <2>3 DEF AInv, Strict, BlocksHaveDevices, Enabled
  <2>5. RestoringFailed'
    BY <1>9 DEF RestoringFailed
  <2> QED BY <2>2, <2>4, <2>5 DEF Strict
<1>10. ~(OnlyRequests /\ crashes = 0)
  BY <1>2 DEF AInv, OnlyEnrollments
<1> QED BY <1>1, <1>6, <1>8, <1>9, <1>10 DEF Keeps

-----------------------------------------------------------------------------
(* The steps of a call.                                                    *)

\* A call that is alone touches no key and no address of another row, and of
\* its own row only what the row says.
LEMMA CallIsApart ==
    ASSUME AInv, Serial \/ crashes = 0, NEW p \in Procs, call[p] # None
    PROVE  /\ Changing(p) /\ Apart /\ Sole(p) /\ Achieved(p)
           /\ call[p] \in Call
           /\ call[p].dev = proc[p].dev /\ call[p].key = proc[p].key
           /\ call[p].dev \in Devices /\ call[p].key \in Keys
           /\ \A e \in Enrolled : e # call[p].dev => devices[e].key # call[p].key
           /\ call[p].dev \in Enrolled =>
                 devices[call[p].dev].key = call[p].key /\ Enabled(call[p].dev)
           /\ call[p].op = "ensure" =>
                 /\ call[p].addr \in Hosts
                 /\ proc[p].op \in {"enroll", "restore"}
                 /\ \A e \in Enrolled : e # call[p].dev => devices[e].addr # call[p].addr
                 /\ call[p].dev \in Enrolled => devices[call[p].dev].addr = call[p].addr
           /\ call[p].op = "remove" =>
                 /\ proc[p].op \in {"undo", "revoke"}
                 /\ call[p].dev \in Enrolled => Revoking(p)
<1> DEFINE d == call[p].dev
           k == call[p].key
<1>1. /\ call[p] \in Call /\ d \in Devices /\ k \in Keys
      /\ call[p].op = "ensure" => call[p].addr \in Hosts
  BY DEF AInv, SInv, PInv, PeersTypeOK, BasesSound
<1>2. /\ proc[p] # None /\ proc[p].at = "peer" /\ d = proc[p].dev /\ k = proc[p].key
      /\ proc[p].op \in {"enroll", "undo", "revoke", "restore"}
      /\ proc[p].op = "enroll" => call[p].op = "ensure" /\ call[p].addr = txn[p].row.addr
      /\ proc[p].op = "restore" => call[p].op = "ensure" /\ call[p].addr = devices[d].addr
      /\ proc[p].op \in {"undo", "revoke"} => call[p].op = "remove"
  BY OperationAssumption DEF AInv, Matched, Matches, SInv, ServiceTypeOK
<1>3. Changing(p) /\ Apart /\ Sole(p) /\ Achieved(p)
  BY <1>2, ChangingIsSole DEF Changing
<1>4. CASE proc[p].op = "enroll"
  BY <1>1, <1>2, <1>3, <1>4, DraftIsApart DEF InTransaction
<1>5. CASE proc[p].op = "undo"
  BY <1>1, <1>2, <1>3, <1>5 DEF Achieved
<1>6. CASE proc[p].op \in {"revoke", "restore"}
  <2>1. Revoking(p)
    BY <1>2, <1>6 DEF Revoking
  <2>2. d \in Enrolled /\ devices[d].key = k /\ Enabled(d)
    BY <1>2, <1>3, <2>1 DEF Achieved, AInv, Matched, Matches
  <2>3. \A e \in Enrolled : e # d => devices[e].key # k /\ devices[e].addr # devices[d].addr
    BY <2>2 DEF AInv, SInv, IInv, UniqueIdentity
  <2> QED BY <1>1, <1>2, <1>3, <1>6, <2>1, <2>2, <2>3
<1> QED BY <1>2, <1>4, <1>5, <1>6

LEMMA ReadEffect ==
    ASSUME AInv, NEW p \in Procs, EnsureRead(p) \/ RemoveRead(p)
    PROVE  /\ UNCHANGED <<conf, live>> /\ call[p] # None /\ call'[p] \in Call
           /\ call'[p].op = call[p].op /\ call'[p].step = "live"
           /\ call'[p].dev = call[p].dev /\ call'[p].key = call[p].key
           /\ call'[p].addr = call[p].addr
           /\ call'[p].base = Strip(conf, call[p].dev)
           /\ call'[p].same =>
                 conf = IF call[p].op = "ensure"
                        THEN Strip(conf, call[p].dev)
                                \cup {ManagedBlock(call[p].dev, call[p].key, call[p].addr)}
                        ELSE Strip(conf, call[p].dev)
<1> DEFINE base == Strip(conf, call[p].dev)
           block == ManagedBlock(call[p].dev, call[p].key, call[p].addr)
<1>1. /\ call[p] # None /\ call[p] \in Call /\ call \in [Procs -> Call \cup {None}]
      /\ conf \in SUBSET Block /\ UNCHANGED <<conf, live>>
  BY DEF AInv, SInv, PInv, PeersTypeOK, EnsureRead, RemoveRead, At
<1>2. base \in SUBSET Block
  BY <1>1 DEF Strip
<1>3. PICK same \in BOOLEAN :
         /\ call' = [call EXCEPT ![p].step = "live", ![p].base = base, ![p].same = same]
         /\ same => conf = IF call[p].op = "ensure" THEN base \cup {block} ELSE base
  BY DEF EnsureRead, RemoveRead, At
<1> HIDE DEF base, block
<1> DEFINE new == [call[p] EXCEPT !.step = "live", !.base = base, !.same = same]
<1>4. /\ new \in Call /\ new.op = call[p].op /\ new.step = "live"
      /\ new.dev = call[p].dev /\ new.key = call[p].key /\ new.addr = call[p].addr
      /\ new.base = base /\ new.same = same
  BY <1>1, <1>2
<1>5. call'[p] = new
  BY <1>1, <1>3
<1> HIDE DEF new
<1> QED BY <1>1, <1>3, <1>4, <1>5 DEF base, block

LEMMA InterfaceEffect ==
    ASSUME AInv, NEW p \in Procs, EnsureLive(p) \/ RemoveLive(p)
    PROVE  /\ conf' = conf /\ call[p] # None /\ call'[p] \in Call
           /\ call'[p].op = call[p].op /\ call'[p].step = "write"
           /\ call'[p].dev = call[p].dev /\ call'[p].key = call[p].key
           /\ call'[p].addr = call[p].addr
           /\ call'[p].base = call[p].base /\ call'[p].same = call[p].same
<1>1. /\ call[p] # None /\ call[p] \in Call /\ call \in [Procs -> Call \cup {None}]
      /\ conf' = conf /\ call' = [call EXCEPT ![p].step = "write"]
  BY DEF AInv, SInv, PInv, PeersTypeOK, EnsureLive, RemoveLive, At
<1> DEFINE new == [call[p] EXCEPT !.step = "write"]
<1>2. /\ new \in Call /\ new.op = call[p].op /\ new.step = "write"
      /\ new.dev = call[p].dev /\ new.key = call[p].key /\ new.addr = call[p].addr
      /\ new.base = call[p].base /\ new.same = call[p].same
  BY <1>1
<1>3. call'[p] = new
  BY <1>1
<1> HIDE DEF new
<1> QED BY <1>1, <1>2, <1>3

\* A step inside a call leaves the operation where it is.
LEMMA PeerStepMatches ==
    ASSUME AInv, Next, NEW p \in Procs, PeerStep(p)
    PROVE  /\ Local(p) /\ Matches(p)' /\ call[p] # None /\ Changing(p)
           /\ UNCHANGED <<devices, txn, proc, failed, crashes>>
<1>1. /\ Local(p) /\ proc[p] # None /\ proc[p].at = "peer"
      /\ UNCHANGED <<devices, txn, proc, failed, crashes>>
  BY PeerStepsAreLocal DEF AInv, PeerStep, regVars, serviceVars
<1>2. call[p] # None /\ Changing(p)
  BY <1>1 DEF AInv, Matched, Matches, Changing
<1>3. /\ call'[p].op = call[p].op /\ call'[p].dev = call[p].dev
      /\ call'[p].key = call[p].key /\ call'[p].addr = call[p].addr
      /\ call'[p] # None
  BY ReadEffect, InterfaceEffect, CallAssumption DEF PeerStep
<1>4. Matches(p)'
  BY <1>1, <1>2, <1>3 DEF AInv, Matched, Matches, InTransaction, Revoking, Enrolled
<1> QED BY <1>1, <1>2, <1>4

\* Reading changes nothing but what the call knows.
LEMMA ReadKeeps ==
    ASSUME AInv, Next, NEW p \in Procs, PeerStep(p), EnsureRead(p) \/ RemoveRead(p)
    PROVE  Keeps(p)
<1>1. /\ Local(p) /\ Matches(p)' /\ Changing(p)
      /\ UNCHANGED <<devices, txn, proc, failed, crashes>>
  BY PeerStepMatches
<1>2. UNCHANGED <<conf, live>> /\ call[p] # None
  BY ReadEffect
<1>3. ASSUME Serial \/ crashes = 0
      PROVE  Apart'
  <2>1. Apart /\ Sole(p) /\ Achieved(p)
    BY <1>1, <1>3, ChangingIsSole
  <2>2. OwnBlocks' /\ RevokedAreGone'
    BY <1>1, <1>2, <2>1 DEF Apart, OwnBlocks, RevokedAreGone, Enrolled, Revoked, Gone
  <2>3. proc[p].at = "peer"
    BY <1>2 DEF AInv, Matched, Matches
  <2>4. Achieved(p)'
    BY <1>1, <1>2, <2>1, <2>3, ReadEffect
       DEF Achieved, InTransaction, Revoking, Enabled, Enrolled, Desired
  <2> QED BY <1>1, <2>1, <2>2, <2>4, SoleApart
<1>4. ASSUME MaxFailures <= 1, crashes = 0
      PROVE  Strict'
  BY <1>1, <1>2, <1>4
     DEF AInv, Strict, EnabledAreConnected, BlocksHaveDevices, RestoringFailed, Enabled,
         Connected, Revoking, InProgress, Changing
<1> QED BY <1>1, <1>3, <1>4 DEF Keeps, AInv, OnlyEnrollments, Changing

LEMMA InterfaceKeeps ==
    ASSUME AInv, Next, NEW p \in Procs, PeerStep(p), EnsureLive(p) \/ RemoveLive(p)
    PROVE  Keeps(p)
<1> DEFINE d == call[p].dev
           k == call[p].key
           a == call[p].addr
<1>1. /\ Local(p) /\ Matches(p)' /\ Changing(p)
      /\ UNCHANGED <<devices, txn, proc, failed, crashes>>
  BY PeerStepMatches
<1>2. conf' = conf /\ call[p] # None /\ live \in SUBSET Peer /\ k \in Keys
      /\ proc[p].at = "peer"
  BY InterfaceEffect DEF AInv, SInv, PInv, PeersTypeOK, Matched, Matches
<1>3. ASSUME Serial \/ crashes = 0
      PROVE  /\ \A k2 : k2 # k /\ (\A q \in live : q.key # k2) => \A q \in live' : q.key # k2
             /\ \A e \in Enrolled : e # d =>
                   /\ devices[e].key # k
                   /\ [key |-> devices[e].key, ips |-> {devices[e].addr}] \in live =>
                         [key |-> devices[e].key, ips |-> {devices[e].addr}] \in live'
             /\ IF call[p].op = "ensure"
                THEN /\ [key |-> k, ips |-> {a}] \in live'
                     /\ d \in Enrolled => devices[d].key = k /\ devices[d].addr = a /\ Enabled(d)
                ELSE /\ \A q \in live' : q.key # k
                     /\ d \in Enrolled =>
                           devices[d].key = k /\ Enabled(d) /\ Revoking(p) /\ proc[p].dev = d
  <2>1. CASE EnsureLive(p)
    <3>1. call[p].op = "ensure" /\ live' = WgSet(live, k, a)
      BY <2>1 DEF EnsureLive, At
    <3>2. /\ a \in Hosts
          /\ \A e \in Enrolled : e # d => devices[e].key # k /\ devices[e].addr # a
          /\ d \in Enrolled => devices[d].key = k /\ devices[d].addr = a /\ Enabled(d)
      BY <1>2, <1>3, <3>1, CallIsApart
    <3>3. /\ [key |-> k, ips |-> {a}] \in live'
          /\ \A k2 : k2 # k /\ (\A q \in live : q.key # k2) => \A q \in live' : q.key # k2
          /\ \A k2, a2 : k2 # k /\ a2 # a /\ [key |-> k2, ips |-> {a2}] \in live =>
                [key |-> k2, ips |-> {a2}] \in live'
      <4>1. live \in SUBSET Peer /\ k \in Keys /\ a \in Hosts
        BY <1>2, <3>2
      <4> HIDE DEF k, a
      <4>2. /\ [key |-> k, ips |-> {a}] \in WgSet(live, k, a)
            /\ \A k2 : k2 # k /\ (\A q \in live : q.key # k2) =>
                  \A q \in WgSet(live, k, a) : q.key # k2
            /\ \A k2, a2 : k2 # k /\ a2 # a /\ [key |-> k2, ips |-> {a2}] \in live =>
                  [key |-> k2, ips |-> {a2}] \in WgSet(live, k, a)
        BY <4>1, WgSetFacts
      <4> QED BY <3>1, <4>2
    <3>4. \A e \in Enrolled : e # d =>
             /\ devices[e].key # k
             /\ [key |-> devices[e].key, ips |-> {devices[e].addr}] \in live =>
                   [key |-> devices[e].key, ips |-> {devices[e].addr}] \in live'
      BY <3>2, <3>3
    <3> QED BY <3>1, <3>2, <3>3, <3>4
  <2>2. CASE RemoveLive(p)
    <3>1. call[p].op = "remove" /\ live' = {q \in live : q.key # k}
      BY <2>2 DEF RemoveLive, At, WgRemove
    <3>2. /\ \A e \in Enrolled : e # d => devices[e].key # k
          /\ d \in Enrolled =>
                devices[d].key = k /\ Enabled(d) /\ Revoking(p) /\ proc[p].dev = d
      BY <1>2, <1>3, <3>1, CallIsApart
    <3> QED BY <3>1, <3>2
  <2> QED BY <2>1, <2>2
<1>4. ASSUME Serial \/ crashes = 0
      PROVE  Apart'
  <2>1. Apart /\ Sole(p) /\ Achieved(p) /\ call[p] \in Call
    BY <1>2, <1>4, CallIsApart
  <2>2. OwnBlocks'
    BY <1>1, <1>2, <2>1 DEF Apart, OwnBlocks, Enrolled
  <2>3. RevokedAreGone'
    <3> SUFFICES ASSUME NEW e \in Devices, Revoked(e)
                 PROVE  (\A b \in conf : b.owner # e) /\ \A q \in live' : q.key # devices[e].key
      BY <1>1, <1>2 DEF RevokedAreGone, Revoked, Gone
    <3>1. (\A b \in conf : b.owner # e) /\ \A q \in live : q.key # devices[e].key
      BY <2>1 DEF Apart, RevokedAreGone, Gone
    <3>2. e \in Enrolled
      BY DEF Revoked, Enrolled
    <3>3. CASE devices[e].key = k /\ call[p].op # "ensure"
      BY <1>3, <1>4, <3>1, <3>3
    <3>4. CASE devices[e].key # k
      BY <1>3, <1>4, <3>1, <3>4
    <3>5. CASE devices[e].key = k /\ call[p].op = "ensure"
      BY <1>3, <1>4, <3>2, <3>5 DEF Revoked, Enabled
    <3> QED BY <3>3, <3>4, <3>5
  <2>4. Achieved(p)'
    <3>1. IF call[p].op = "ensure" THEN [key |-> k, ips |-> {a}] \in live'
                                   ELSE \A q \in live' : q.key # k
      BY <1>3, <1>4
    <3>2. /\ call'[p] \in Call
          /\ call'[p].op = call[p].op /\ call'[p].step = "write"
          /\ call'[p].dev = d /\ call'[p].key = k /\ call'[p].addr = a
          /\ call'[p].base = call[p].base /\ call'[p].same = call[p].same
      BY InterfaceEffect
    <3>3. call[p].step # "read"
      BY DEF EnsureLive, RemoveLive, At
    <3> QED BY <1>1, <1>2, <2>1, <3>1, <3>2, <3>3
            DEF Achieved, InTransaction, Revoking, Enabled, Enrolled, Desired
  <2> QED BY <1>1, <2>1, <2>2, <2>3, <2>4, SoleApart
<1>5. ASSUME MaxFailures <= 1, crashes = 0
      PROVE  Strict'
  <2>1. ASSUME NEW e \in Devices, Enabled(e)
        PROVE  \/ Connected(e, devices[e].key, devices[e].addr)'
               \/ \E q \in Procs : Revoking(q)' /\ proc'[q].dev = e
    <3>1. CASE \E q \in Procs : Revoking(q) /\ proc[q].dev = e
      BY <1>1, <3>1 DEF Revoking
    <3>2. CASE Connected(e, devices[e].key, devices[e].addr)
      <4>1. e \in Enrolled
        BY <2>1 DEF Enabled, Enrolled
      <4>2. [key |-> devices[e].key, ips |-> {devices[e].addr}] \in live
        BY <3>2 DEF Connected
      <4>3. CASE e # d
        <5>1. [key |-> devices[e].key, ips |-> {devices[e].addr}] \in live'
          BY <1>3, <1>5, <4>1, <4>2, <4>3
        <5> QED BY <1>1, <1>2, <3>2, <5>1 DEF Connected
      <4>4. CASE e = d /\ call[p].op = "ensure"
        <5>1. [key |-> devices[e].key, ips |-> {devices[e].addr}] \in live'
          BY <1>3, <1>5, <4>1, <4>4
        <5> QED BY <1>1, <1>2, <3>2, <5>1 DEF Connected
      <4>5. CASE e = d /\ call[p].op # "ensure"
        <5>1. Revoking(p) /\ proc[p].dev = e
          BY <1>3, <1>5, <4>1, <4>5
        <5> QED BY <1>1, <5>1 DEF Revoking
      <4> QED BY <4>3, <4>4, <4>5
    <3> QED BY <1>5, <2>1, <3>1, <3>2 DEF AInv, Strict, EnabledAreConnected
  <2>2. EnabledAreConnected'
    BY <1>1, <2>1 DEF EnabledAreConnected, Enabled
  <2>3. BlocksHaveDevices' /\ RestoringFailed'
    BY <1>1, <1>2, <1>5
       DEF AInv, Strict, BlocksHaveDevices, RestoringFailed, Enabled, InProgress, Changing
  <2> QED BY <2>2, <2>3 DEF Strict
<1> QED BY <1>1, <1>4, <1>5 DEF Keeps, AInv, OnlyEnrollments, Changing

\* What a call writes is the file without the block of its device, and with the
\* new one: no other call has written since it read.
LEMMA WriteEffect ==
    ASSUME AInv, Next, NEW p \in Procs, Ensured(p) \/ Removed(p)
    PROVE  /\ Local(p) /\ call[p] # None /\ call'[p] = None
           /\ UNCHANGED <<devices, txn, live, failed, crashes>>
           /\ Ensured(p) => call[p].op = "ensure"
           /\ Removed(p) => call[p].op = "remove"
           /\ Serial \/ crashes = 0 =>
                 /\ Ensured(p) =>
                       /\ conf' = Strip(conf, call[p].dev)
                             \cup {ManagedBlock(call[p].dev, call[p].key, call[p].addr)}
                       /\ [key |-> call[p].key, ips |-> {call[p].addr}] \in live
                 /\ Removed(p) =>
                       /\ conf' = Strip(conf, call[p].dev)
                       /\ \A q \in live : q.key # call[p].key
<1>1. /\ Local(p) /\ call[p] # None /\ call'[p] = None
      /\ UNCHANGED <<devices, txn, live, failed, crashes>>
  BY PeerStepsAreLocal
     DEF Ensured, Removed, EnsureWrite, RemoveWrite, At, regVars, AInv, SInv, PInv, PeersTypeOK
<1>2. Ensured(p) => call[p].op = "ensure" /\ call[p].step = "write"
  BY DEF Ensured, EnsureWrite, At
<1>3. Removed(p) => call[p].op = "remove" /\ call[p].step = "write"
  BY DEF Removed, RemoveWrite, At
<1>4. ASSUME Serial \/ crashes = 0
      PROVE  Achieved(p)
  BY <1>1, <1>4, CallIsApart
<1>5. ASSUME Serial \/ crashes = 0, Ensured(p)
      PROVE  /\ conf' = Strip(conf, call[p].dev)
                   \cup {ManagedBlock(call[p].dev, call[p].key, call[p].addr)}
             /\ [key |-> call[p].key, ips |-> {call[p].addr}] \in live
  <2>1. /\ call[p].base = Strip(conf, call[p].dev)
        /\ call[p].same => conf = Desired(p)
        /\ [key |-> call[p].key, ips |-> {call[p].addr}] \in live
    BY <1>1, <1>2, <1>4, <1>5 DEF Achieved
  <2>2. conf' = Desired(p)
    BY <1>5, <2>1 DEF Ensured, EnsureWrite
  <2> QED BY <2>1, <2>2 DEF Desired
<1>6. ASSUME Serial \/ crashes = 0, Removed(p)
      PROVE  conf' = Strip(conf, call[p].dev) /\ \A q \in live : q.key # call[p].key
  <2>1. /\ call[p].base = Strip(conf, call[p].dev)
        /\ call[p].same => conf = call[p].base
        /\ \A q \in live : q.key # call[p].key
    BY <1>1, <1>3, <1>4, <1>6 DEF Achieved
  <2>2. conf' = call[p].base
    BY <1>6, <2>1 DEF Removed, RemoveWrite
  <2> QED BY <2>1, <2>2
<1> QED BY <1>1, <1>2, <1>3, <1>5, <1>6

LEMMA EnsuredKeeps ==
    ASSUME AInv, Next, NEW p \in Procs, Ensured(p)
    PROVE  Keeps(p)
<1> DEFINE d == call[p].dev
           k == call[p].key
           a == call[p].addr
           m == ManagedBlock(d, k, a)
<1>1. /\ Local(p) /\ call[p] # None /\ call'[p] = None /\ call[p].op = "ensure"
      /\ UNCHANGED <<devices, txn, live, failed, crashes>>
  BY WriteEffect
<1>2. /\ proc[p] # None /\ proc[p].at = "peer" /\ Changing(p)
      /\ d = proc[p].dev /\ k = proc[p].key
      /\ proc[p].op = "enroll" => a = txn[p].row.addr
  BY <1>1 DEF AInv, Matched, Matches, Changing
<1>3. proc[p].op \in {"enroll", "restore"}
  BY <1>1, <1>2 DEF AInv, SInv, ControlSound, Controlled
<1>4. IF proc[p].op = "enroll"
      THEN /\ proc'[p] # None /\ proc'[p].op = "enroll" /\ proc'[p].at = "hosts"
           /\ proc'[p].dev = d /\ proc'[p].key = k
      ELSE proc'[p] = None
  BY <1>2, GoesFacts, ReturnsFacts, OperationAssumption DEF Ensured, AInv, SInv
<1>5. Matches(p)'
  BY <1>1, <1>2, <1>3, <1>4 DEF AInv, Matched, Matches, InTransaction, Revoking
<1>6. \A q \in Procs \ {p} : proc'[q] = proc[q]
  BY <1>1 DEF Local
<1>7. ASSUME Serial \/ crashes = 0
      PROVE  /\ Apart /\ Sole(p) /\ d \in Devices
             /\ conf' = Strip(conf, d) \cup {m} /\ m.owner = d /\ m.key = k
             /\ [key |-> k, ips |-> {a}] \in live
             /\ \A e \in Enrolled : e # d => devices[e].key # k
             /\ d \in Enrolled => devices[d].key = k /\ devices[d].addr = a /\ Enabled(d)
  <2>1. m.owner = d /\ m.key = k
    BY DEF ManagedBlock
  <2> HIDE DEF m
  <2>2. conf' = Strip(conf, d) \cup {m} /\ [key |-> k, ips |-> {a}] \in live
    BY <1>7, WriteEffect DEF m
  <2> QED BY <1>1, <1>7, <2>1, <2>2, CallIsApart
<1>8. ASSUME Serial \/ crashes = 0
      PROVE  Apart'
  <2>1. OwnBlocks'
    <3> SUFFICES ASSUME NEW e \in Enrolled, NEW b \in conf',
                        b.owner = e \/ b.key = devices[e].key
                 PROVE  b = ManagedBlock(e, devices[e].key, devices[e].addr)
      BY <1>1 DEF OwnBlocks, Enrolled
    <3>1. CASE b = m
      <4>1. e = d
        BY <1>7, <1>8, <3>1
      <4> QED BY <1>7, <1>8, <3>1, <4>1
    <3>2. CASE b # m
      <4>1. b \in conf
        BY <1>7, <1>8, <3>2 DEF Strip
      <4> QED BY <1>7, <1>8, <4>1 DEF Apart, OwnBlocks
    <3> QED BY <3>1, <3>2
  <2>2. RevokedAreGone'
    <3> SUFFICES ASSUME NEW e \in Devices, Revoked(e)
                 PROVE  (\A b \in conf' : b.owner # e) /\ \A q \in live : q.key # devices[e].key
      BY <1>1 DEF RevokedAreGone, Revoked, Gone
    <3>1. (\A b \in conf : b.owner # e) /\ \A q \in live : q.key # devices[e].key
      BY <1>7, <1>8 DEF Apart, RevokedAreGone, Gone
    <3>2. e # d
      BY <1>7, <1>8 DEF Revoked, Enabled, Enrolled
    <3> QED BY <1>7, <1>8, <3>1, <3>2 DEF Strip
  <2>3. Changing(p)' => Achieved(p)'
    <3> SUFFICES ASSUME Changing(p)' PROVE Achieved(p)'
      OBVIOUS
    <3>1. proc[p].op = "enroll"
      BY <1>4 DEF Changing
    <3>2. m \in conf' /\ [key |-> k, ips |-> {a}] \in live'
      BY <1>1, <1>7, <1>8
    <3>3. ~Revoking(p)'
      BY <1>4, <3>1 DEF Revoking
    <3>4. Connected(proc[p].dev, proc[p].key, txn[p].row.addr)'
      BY <1>1, <1>2, <1>4, <3>1, <3>2 DEF Connected
    <3> QED BY <1>1, <1>4, <3>1, <3>3, <3>4 DEF Achieved
  <2> QED BY <1>1, <1>7, <1>8, <2>1, <2>2, <2>3, SoleApart
<1>9. ASSUME MaxFailures <= 1, crashes = 0
      PROVE  Strict'
  <2>1. ASSUME NEW e \in Devices, Enabled(e)
        PROVE  Connected(e, devices[e].key, devices[e].addr)'
    <3>1. CASE e = d
      BY <1>1, <1>7, <1>9, <2>1, <3>1 DEF Connected, Enabled, Enrolled
    <3>2. CASE e # d
      <4>1. ~ \E q \in Procs : Revoking(q) /\ proc[q].dev = e
        BY <1>2, <1>7, <1>9, <3>2, RevokingIsChanging DEF Sole
      <4>2. Connected(e, devices[e].key, devices[e].addr)
        BY <1>9, <2>1, <4>1 DEF AInv, Strict, EnabledAreConnected
      <4>3. ManagedBlock(e, devices[e].key, devices[e].addr).owner = e
        BY DEF ManagedBlock
      <4> QED BY <1>1, <1>7, <1>9, <3>2, <4>2, <4>3 DEF Connected, Strip
    <3> QED BY <3>1, <3>2
  <2>2. ASSUME NEW b \in conf', b.owner # None
        PROVE  Enabled(b.owner)' \/ InProgress(b.owner)'
    <3>1. CASE b = m
      <4>1. CASE proc[p].op = "enroll"
        <5>1. Changing(p)'
          BY <1>4, <4>1 DEF Changing
        <5> QED BY <1>4, <1>7, <1>9, <3>1, <4>1, <5>1 DEF InProgress
      <4>2. CASE proc[p].op = "restore"
        <5>1. Enabled(d)
          BY <1>2, <1>9, <4>2, ChangingIsSole DEF Achieved, Revoking
        <5> QED BY <1>1, <1>7, <1>9, <3>1, <5>1 DEF Enabled
      <4> QED BY <1>3, <4>1, <4>2
    <3>2. CASE b # m
      <4>1. b \in conf
        BY <1>7, <1>9, <3>2 DEF Strip
      <4>2. ~InProgress(b.owner)
        BY <1>2, <1>3, <1>7, <1>9 DEF InProgress, Sole
      <4>3. Enabled(b.owner)
        BY <1>9, <2>2, <4>1, <4>2 DEF AInv, Strict, BlocksHaveDevices
      <4> QED BY <1>1, <4>3 DEF Enabled
    <3> QED BY <3>1, <3>2
  <2>3. RestoringFailed'
    BY <1>1, <1>4, <1>6, <1>9 DEF AInv, Strict, RestoringFailed
  <2>4. EnabledAreConnected'
    BY <1>1, <2>1 DEF EnabledAreConnected, Enabled
  <2>5. BlocksHaveDevices'
    BY <2>2 DEF BlocksHaveDevices
  <2> QED BY <2>3, <2>4, <2>5 DEF Strict
<1> QED BY <1>1, <1>4, <1>5, <1>8, <1>9 DEF Keeps, Changing

LEMMA RemovedKeeps ==
    ASSUME AInv, Next, NEW p \in Procs, Removed(p)
    PROVE  Keeps(p)
<1> DEFINE d == call[p].dev
           k == call[p].key
<1>1. /\ Local(p) /\ call[p] # None /\ call'[p] = None /\ call[p].op = "remove"
      /\ UNCHANGED <<devices, txn, live, failed, crashes>>
  BY WriteEffect
<1>2. /\ proc[p] # None /\ proc[p].at = "peer" /\ Changing(p)
      /\ d = proc[p].dev /\ k = proc[p].key
  BY <1>1 DEF AInv, Matched, Matches, Changing
<1>3. proc[p].op \in {"undo", "revoke"}
  BY <1>1, <1>2 DEF AInv, SInv, ControlSound, Controlled
<1>4. /\ proc'[p] # None /\ proc'[p].dev = d /\ proc'[p].key = k
      /\ proc'[p].op = proc[p].op
      /\ proc'[p].at = IF proc[p].op = "undo" THEN "list" ELSE "revoke"
  BY <1>2, <1>3, GoesFacts, OperationAssumption DEF Removed, AInv, SInv
<1>5. Matches(p)'
  BY <1>1, <1>2, <1>3, <1>4 DEF AInv, Matched, Matches, InTransaction, Revoking, Enrolled
<1>6. \A q \in Procs \ {p} : proc'[q] = proc[q]
  BY <1>1 DEF Local
<1>7. ASSUME Serial \/ crashes = 0
      PROVE  /\ Apart /\ Sole(p) /\ Achieved(p)
             /\ conf' = Strip(conf, d) /\ \A q \in live : q.key # k
             /\ d \in Enrolled => Revoking(p)
  BY <1>1, <1>7, WriteEffect, CallIsApart
<1>8. ASSUME Serial \/ crashes = 0
      PROVE  Apart'
  <2>1. OwnBlocks' /\ RevokedAreGone'
    BY <1>1, <1>7, <1>8
       DEF Apart, OwnBlocks, RevokedAreGone, Enrolled, Revoked, Gone, Strip
  <2>2. Changing(p)' => Achieved(p)'
    <3> SUFFICES ASSUME Changing(p)' PROVE Achieved(p)'
      OBVIOUS
    <3>1. proc[p].op = "revoke"
      BY <1>3, <1>4 DEF Changing
    <3>2. Revoking(p)
      BY <1>2, <3>1 DEF Revoking
    <3>3. Enabled(d)
      BY <1>2, <1>7, <1>8, <3>2 DEF Achieved
    <3>4. (\A b \in conf' : b.owner # d) /\ \A q \in live' : q.key # k
      BY <1>1, <1>7, <1>8 DEF Strip
    <3>5. Gone(proc[p].dev, proc[p].key)' /\ Enabled(proc[p].dev)'
      BY <1>1, <1>4, <3>3, <3>4 DEF Gone, Enabled
    <3> QED BY <1>1, <1>4, <3>1, <3>5 DEF Achieved, InTransaction
  <2> QED BY <1>1, <1>7, <1>8, <2>1, <2>2, SoleApart
<1>9. ASSUME MaxFailures <= 1, crashes = 0
      PROVE  Strict'
  <2>1. ASSUME NEW e \in Devices, Enabled(e)
        PROVE  \/ Connected(e, devices[e].key, devices[e].addr)'
               \/ \E q \in Procs : Revoking(q)' /\ proc'[q].dev = e
    <3>1. CASE e = d
      <4>1. Revoking(p)
        BY <1>7, <1>9, <2>1, <3>1 DEF Enabled, Enrolled
      <4>2. Revoking(p)'
        BY <1>3, <1>4, <4>1 DEF Revoking
      <4> QED BY <1>4, <3>1, <4>2
    <3>2. CASE e # d
      <4>1. ~ \E q \in Procs : Revoking(q) /\ proc[q].dev = e
        BY <1>2, <1>7, <1>9, <3>2, RevokingIsChanging DEF Sole
      <4>2. Connected(e, devices[e].key, devices[e].addr)
        BY <1>9, <2>1, <4>1 DEF AInv, Strict, EnabledAreConnected
      <4>3. ManagedBlock(e, devices[e].key, devices[e].addr).owner = e
        BY DEF ManagedBlock
      <4> QED BY <1>1, <1>7, <1>9, <3>2, <4>2, <4>3 DEF Connected, Strip
    <3> QED BY <3>1, <3>2
  <2>2. ASSUME NEW b \in conf', b.owner # None
        PROVE  Enabled(b.owner)'
    <3>1. b \in conf /\ b.owner # d
      BY <1>7, <1>9 DEF Strip
    <3>2. ~InProgress(b.owner)
      BY <1>2, <1>7, <1>9, <3>1 DEF InProgress, Sole
    <3>3. Enabled(b.owner)
      BY <1>9, <2>2, <3>1, <3>2 DEF AInv, Strict, BlocksHaveDevices
    <3> QED BY <1>1, <3>3 DEF Enabled
  <2>3. RestoringFailed'
    BY <1>1, <1>3, <1>4, <1>6, <1>9 DEF AInv, Strict, RestoringFailed
  <2>4. EnabledAreConnected'
    BY <1>1, <2>1 DEF EnabledAreConnected, Enabled
  <2>5. BlocksHaveDevices'
    BY <2>2 DEF BlocksHaveDevices
  <2> QED BY <2>3, <2>4, <2>5 DEF Strict
<1>10. ~(OnlyRequests /\ crashes = 0)
  BY <1>2, <1>3 DEF AInv, OnlyEnrollments
<1> QED BY <1>1, <1>5, <1>8, <1>9, <1>10 DEF Keeps

-----------------------------------------------------------------------------
(* Stages that fail, deaths, and the invariant.                            *)

\* The key of a call that is alone is in no other block, where nothing died and
\* at most one stage failed.
LEMMA OnlyStrangersClash ==
    ASSUME AInv, MaxFailures <= 1, crashes = 0, NEW p \in Procs, EnsureClash(p)
    PROVE  call[p].dev \notin Enrolled /\ Unmanaged # {}
<1> DEFINE d == call[p].dev
           k == call[p].key
<1>1. call[p] # None /\ call[p].op = "ensure"
  BY DEF EnsureClash, At
<1>2. PICK b \in conf : b.owner # d /\ b.key = k
  BY DEF EnsureClash, Clashes, Strip
<1>3. /\ Apart /\ Sole(p) /\ proc[p].op \in {"enroll", "restore"} /\ proc[p].dev = d
      /\ \A e \in Enrolled : e # d => devices[e].key # k
      /\ d \in Enrolled => devices[d].key = k
  BY <1>1, CallIsApart
<1>4. \A e \in Enrolled : (b.owner = e \/ b.key = devices[e].key) =>
         b.owner = e /\ b.key = devices[e].key
  BY <1>3 DEF Apart, OwnBlocks, ManagedBlock
<1>5. d \notin Enrolled
  BY <1>2, <1>3, <1>4
<1>6. b.owner \notin Enrolled
  BY <1>2, <1>3, <1>4
<1>7. ~InProgress(b.owner)
  BY <1>2, <1>3 DEF InProgress, Sole
<1>8. b.owner # None => Enabled(b.owner)
  BY <1>7 DEF AInv, Strict, BlocksHaveDevices
<1>9. b.owner = None
  <2>1. b.owner \in Devices \cup {None}
    BY DEF AInv, SInv, PInv, PeersTypeOK
  <2> QED BY <1>6, <1>8, <2>1 DEF Enabled, Enrolled
<1>10. Unmanaged # {}
  BY <1>9 DEF AInv, SInv, PInv, ConfigurationSound, Sound
<1> QED BY <1>5, <1>10

\* An operation ends its call and has nothing more to change.
LEMMA GivingUpKeeps ==
    ASSUME AInv, NEW p \in Procs, Local(p), call'[p] = None, txn[p] = None,
           UNCHANGED <<devices, txn, conf, live, crashes>>, failed \subseteq failed',
           Changing(p),
           \/ proc'[p] = None
           \/ proc'[p].op = "undo" /\ proc'[p].at = "list",
           MaxFailures <= 1 /\ crashes = 0 => proc[p].op = "undo" /\ failed = {}
    PROVE  Keeps(p)
<1>1. Matches(p)' /\ ~Changing(p)'
  BY DEF Matches, InTransaction, Revoking, Changing
<1>2. \A q \in Procs \ {p} : proc'[q] = proc[q]
  BY DEF Local
<1>3. ASSUME Serial \/ crashes = 0
      PROVE  Apart'
  <2>1. Apart /\ Sole(p)
    BY <1>3, ChangingIsSole
  <2>2. OwnBlocks' /\ RevokedAreGone'
    BY <2>1 DEF Apart, OwnBlocks, RevokedAreGone, Enrolled, Revoked, Gone
  <2> QED BY <1>1, <2>1, <2>2, SoleApart
<1>4. ASSUME MaxFailures <= 1, crashes = 0
      PROVE  Strict'
  <2>1. ASSUME NEW q \in Procs, Revoking(q)
        PROVE  Revoking(q)' /\ proc'[q] = proc[q]
    BY <1>2, <1>4, <2>1 DEF Revoking
  <2>2. EnabledAreConnected'
    BY <1>4, <2>1 DEF AInv, Strict, EnabledAreConnected, Enabled, Connected
  <2>3. \A e : ~InProgress(e)
    BY <1>4, ChangingIsSole DEF InProgress, Sole
  <2>4. BlocksHaveDevices'
    BY <1>4, <2>3 DEF AInv, Strict, BlocksHaveDevices, Enabled
  <2>5. RestoringFailed'
    <3> SUFFICES ASSUME NEW q \in Procs, proc'[q] # None, proc'[q].op = "restore"
                 PROVE  failed' # {}
      BY DEF RestoringFailed
    <3>1. q # p
      OBVIOUS
    <3>2. failed # {}
      BY <1>2, <1>4, <3>1 DEF AInv, Strict, RestoringFailed
    <3> QED BY <3>2
  <2> QED BY <2>2, <2>4, <2>5 DEF Strict
<1> QED BY <1>1, <1>3, <1>4 DEF Keeps

LEMMA FailedStages ==
    ASSUME AInv, NEW stage \in Stages, Fails(stage)
    PROVE  /\ failed \subseteq failed' /\ failed' # {}
           /\ ~OnlyRequests
           /\ MaxFailures <= 1 => failed = {}
<1>1. failed \subseteq failed'
  BY DEF Fails
<1> QED BY <1>1, OneFailure DEF OnlyRequests, AInv, SInv

LEMMA EnrollFailsKeeps ==
    ASSUME AInv, Next, NEW p \in Procs, EnrollFails(p)
    PROVE  Keeps(p)
<1>1. Local(p) /\ proc[p] # None /\ Abort(p)
  BY EnrollStepsAreLocal DEF EnrollFails, Doing, AInv
<1>2. PICK stage \in Stages : Fails(stage)
  BY DEF EnrollFails
<1> QED BY <1>1, <1>2, FailedStages, AbortKeeps

LEMMA EnsureRaisesKeeps ==
    ASSUME AInv, Next, NEW p \in Procs, EnsureRaises(p)
    PROVE  Keeps(p)
<1>1. /\ Local(p) /\ call[p] # None /\ call[p].op = "ensure"
      /\ \/ EnsureClash(p) /\ UNCHANGED failed
         \/ Fails("peer")
  BY PeerFailuresAreLocal DEF EnsureRaises, AInv
<1>2. proc[p] # None /\ proc[p].at = "peer" /\ Changing(p) /\ proc[p].op \in {"enroll", "restore"}
  BY <1>1 DEF AInv, Matched, Matches, Changing, SInv, ControlSound, Controlled
<1>3. failed \subseteq failed'
  BY <1>1, FailedStages
<1>4. CASE proc[p].op = "enroll"
  <2>1. Abort(p)
    BY <1>4 DEF EnsureRaises
  <2>2. ~(OnlyRequests /\ crashes = 0)
    <3> SUFFICES ASSUME OnlyRequests, crashes = 0 PROVE FALSE
      OBVIOUS
    <3>1. EnsureClash(p)
      BY <1>1, FailedStages
    <3>2. Unmanaged # {}
      BY <3>1, OnlyStrangersClash DEF OnlyRequests
    <3> QED BY <3>2 DEF OnlyRequests
  <2> QED BY <1>1, <1>2, <1>3, <2>1, <2>2, AbortKeeps
<1>5. CASE proc[p].op = "restore"
  <2>1. Returns(p) /\ CallsEnd({p}) /\ UNCHANGED <<devices, txn, crashes>>
    BY <1>5 DEF EnsureRaises, regVars
  <2>2. proc'[p] = None /\ call'[p] = None /\ UNCHANGED <<conf, live>>
    BY <2>1, ReturnsFacts DEF CallsEnd, AInv, SInv
  <2>3. txn[p] = None /\ Revoking(p)
    BY <1>2, <1>5 DEF AInv, Matched, Matches, InTransaction, Revoking
  <2>4. ASSUME MaxFailures <= 1, crashes = 0
        PROVE  FALSE
    <3>1. failed # {}
      BY <1>2, <1>5, <2>4 DEF AInv, Strict, RestoringFailed
    <3>2. EnsureClash(p)
      BY <1>1, <2>4, <3>1, FailedStages
    <3>3. call[p].dev \in Enrolled
      BY <1>1, <2>3 DEF AInv, Matched, Matches
    <3> QED BY <2>4, <3>2, <3>3, OnlyStrangersClash
  <2> QED BY <1>1, <1>2, <1>3, <2>1, <2>2, <2>3, <2>4, GivingUpKeeps
<1> QED BY <1>2, <1>4, <1>5

LEMMA RemoveRaisesKeeps ==
    ASSUME AInv, Next, NEW p \in Procs, RemoveRaises(p)
    PROVE  Keeps(p)
<1>1. Local(p) /\ call[p] # None /\ call[p].op = "remove" /\ Fails("peer")
  BY PeerFailuresAreLocal DEF RemoveRaises, AInv
<1>2. proc[p] # None /\ proc[p].at = "peer" /\ Changing(p) /\ proc[p].op \in {"undo", "revoke"}
  BY <1>1 DEF AInv, Matched, Matches, Changing, SInv, ControlSound, Controlled
<1>3. failed \subseteq failed' /\ failed' # {} /\ (MaxFailures <= 1 => failed = {})
  BY <1>1, FailedStages
<1>4. CASE proc[p].op = "undo"
  <2>1. Goes(p, "undo", "list") /\ CallsEnd({p}) /\ UNCHANGED <<devices, txn, crashes>>
    BY <1>4 DEF RemoveRaises, regVars
  <2>2. /\ proc'[p].op = "undo" /\ proc'[p].at = "list"
        /\ call'[p] = None /\ UNCHANGED <<conf, live>>
    BY <1>2, <2>1, GoesFacts DEF CallsEnd, AInv, SInv
  <2>3. txn[p] = None
    BY <1>2, <1>4 DEF AInv, Matched, Matches, InTransaction
  <2> QED BY <1>1, <1>2, <1>3, <1>4, <2>1, <2>2, <2>3, GivingUpKeeps
<1>5. CASE proc[p].op = "revoke"
  <2>1. RestorePeer(p) /\ Revoking(p)
    BY <1>2, <1>5 DEF RemoveRaises, Revoking
  <2> QED BY <1>1, <1>2, <1>3, <1>5, <2>1, RestorePeerKeeps
<1> QED BY <1>2, <1>4, <1>5

LEMMA DisableFailsKeeps ==
    ASSUME AInv, Next, NEW p \in Procs, DisableFails(p)
    PROVE  Keeps(p)
<1>1. /\ Local(p) /\ proc[p] # None /\ proc[p].op = "revoke" /\ proc[p].at = "revoke"
      /\ RestorePeer(p)
      /\ \/ ~WriteLockFree /\ UNCHANGED failed
         \/ Fails("registry")
  BY PeerFailuresAreLocal DEF DisableFails, Doing, AInv
<1>2. Changing(p) /\ Revoking(p)
  BY <1>1 DEF Changing, Revoking
<1>3. failed \subseteq failed'
  BY <1>1, FailedStages
<1>4. ASSUME Serial \/ crashes = 0
      PROVE  failed' # {}
  <2>1. WriteLockFree
    <3> SUFFICES ASSUME NEW q \in Procs, txn[q] # None PROVE FALSE
      BY DEF WriteLockFree
    <3>1. InTransaction(q)
      BY DEF AInv, Matched, Matches
    <3>2. q = p
      BY <1>2, <1>4, <3>1, ChangingIsSole DEF Sole, InTransaction, Changing
    <3> QED BY <1>1, <3>1, <3>2 DEF InTransaction
  <2> QED BY <1>1, <2>1, FailedStages
<1> QED BY <1>1, <1>2, <1>3, <1>4, RestorePeerKeeps

LEMMA DeathKeepsAgreement ==
    ASSUME AInv, Next, NEW S \in SUBSET Procs, Dies(S)
    PROVE  AInv'
<1>1. SInv'
  BY DeathPreserves DEF AInv
<1>2. /\ UNCHANGED <<devices, conf, live>> /\ crashes' # 0
      /\ \A q \in Procs : IF q \in S
                          THEN proc'[q] = None /\ txn'[q] = None /\ call'[q] = None
                          ELSE proc'[q] = proc[q] /\ txn'[q] = txn[q] /\ call'[q] = call[q]
  BY ServiceAssumption DEF Dies, CallsEnd, AInv, SInv, ServiceTypeOK
<1>3. Matched'
  <2> SUFFICES ASSUME NEW q \in Procs PROVE Matches(q)'
    BY DEF Matched
  <2>1. CASE q \in S
    BY <1>2, <2>1 DEF Matches, InTransaction, Revoking
  <2>2. CASE q \notin S
    <3>1. Matches(q)
      BY DEF AInv, Matched
    <3> QED BY <1>2, <2>2, <3>1 DEF Matches, InTransaction, Revoking, Enrolled
  <2> QED BY <2>1, <2>2
<1>4. ASSUME Serial
      PROVE  OneRuns' /\ Apart'
  <2>1. OneRuns'
    BY <1>2, <1>4 DEF AInv, OneRuns
  <2>2. OneChanges' /\ OwnBlocks' /\ RevokedAreGone'
    BY <1>2, <1>4
       DEF AInv, Apart, OneChanges, Changing, OwnBlocks, RevokedAreGone, Enrolled, Revoked, Gone
  <2>3. ASSUME NEW q \in Procs, Changing(q)'
        PROVE  Achieved(q)'
    <3>1. proc'[q] = proc[q] /\ txn'[q] = txn[q] /\ call'[q] = call[q] /\ Changing(q)
      BY <1>2, <2>3 DEF Changing
    <3>2. Achieved(q)
      BY <1>4, <3>1 DEF AInv, Apart
    <3> QED BY <1>2, <3>1, <3>2 DEF Achieved, InTransaction, Connected, Enrolled, Revoking,
                                    Enabled, Gone, Desired
  <2> QED BY <2>1, <2>2, <2>3 DEF Apart
<1> QED BY <1>1, <1>2, <1>3, <1>4 DEF AInv

LEMMA OutsideKeepsAgreement ==
    ASSUME AInv, SInv', UNCHANGED <<devices, txn, peerVars, serviceVars>>
    PROVE  AInv'
<1>1. UNCHANGED <<conf, live, call, proc, failed, crashes>>
  BY DEF peerVars, serviceVars
<1>2. Matched' /\ (Serial => OneRuns')
  BY <1>1 DEF AInv, Matched, Matches, OneRuns, InTransaction, Revoking, Enrolled
<1>3. Apart => Apart'
  BY <1>1 DEF Apart, OneChanges, Changing, Achieved, OwnBlocks, RevokedAreGone, Enrolled, Revoked,
              Gone, InTransaction, Connected, Revoking, Enabled, Desired
<1>4. Strict => Strict'
  BY <1>1 DEF Strict, EnabledAreConnected, BlocksHaveDevices, RestoringFailed, InProgress,
              Changing, Enabled, Connected, Revoking
<1>5. OnlyEnrollments => OnlyEnrollments'
  BY <1>1 DEF OnlyEnrollments, Changing
<1> QED BY <1>1, <1>2, <1>3, <1>4, <1>5 DEF AInv

\* Matches of an operation apart from the one that steps.
LEMMA OthersStayMatched ==
    ASSUME AInv, Next, NEW p \in Procs, Local(p), NEW q \in Procs \ {p}
    PROVE  Matches(q)'
<1>1. proc'[q] = proc[q] /\ txn'[q] = txn[q] /\ call'[q] = call[q]
  BY DEF Local
<1>2. Matches(q)
  BY DEF AInv, Matched
<1>3. \A e \in Enrolled : /\ e \in Enrolled'
                          /\ devices'[e].key = devices[e].key
                          /\ devices'[e].addr = devices[e].addr
  <2>1. IInv /\ [RegistryNext]_regVars
    BY StepIsARegistryStep DEF AInv, SInv
  <2> QED BY <2>1, StepKeepsRows DEF Enrolled
<1>4. proc[q] # None /\ proc[q].op = "restore" => Revoking(q)
  BY DEF Revoking
<1> QED BY <1>1, <1>2, <1>3, <1>4 DEF Matches, InTransaction, Revoking

LEMMA KeepingPreserves ==
    ASSUME AInv, Next, NEW p \in Procs, Local(p), Keeps(p), Serial => OneRuns',
           crashes' = crashes
    PROVE  AInv'
<1>1. SInv'
  BY LocalStepPreserves DEF AInv
<1>2. Matched'
  BY OthersStayMatched DEF Keeps, Matched
<1>3. ASSUME OnlyRequests, crashes' = 0
      PROVE  OnlyEnrollments'
  <2>1. \A q \in Procs \ {p} : proc'[q] = proc[q]
    BY DEF Local
  <2>2. OnlyEnrollments
    BY <1>3 DEF AInv
  <2> QED BY <1>3, <2>1, <2>2 DEF Keeps, OnlyEnrollments, Changing
<1> QED BY <1>1, <1>2, <1>3 DEF Keeps, AInv

LEMMA StepsKeep ==
    ASSUME AInv, Serial \/ OnlyRequests, Next, NEW p \in Procs, Steps(p)
    PROVE  Keeps(p)
<1>1. CASE ReadReservations(p) \/ Reject(p) \/ ListDevices(p) \/ SyncHosts(p) \/ SyncHostsFails(p)
  BY <1>1, OutsideStepsKeep
<1>2. CASE Prepare(p) \/ SyncHostsInside(p) \/ Commit(p) \/ EnrollFails(p)
  BY <1>2, PrepareKeeps, SyncHostsInsideKeeps, CommitKeeps, EnrollFailsKeeps
<1>3. CASE PeerStep(p)
  BY <1>3, ReadKeeps, InterfaceKeeps DEF PeerStep
<1>4. CASE Ensured(p) \/ Removed(p)
  BY <1>4, EnsuredKeeps, RemovedKeeps
<1>5. CASE EnsureRaises(p) \/ RemoveRaises(p)
  BY <1>5, EnsureRaisesKeeps, RemoveRaisesKeeps
<1>6. CASE DisableRow(p) \/ DisableFails(p)
  BY <1>6, DisableRowKeeps, DisableFailsKeeps
<1> QED BY <1>1, <1>2, <1>3, <1>4, <1>5, <1>6 DEF Steps

\* Every step is made by an operation that is running.
LEMMA StepsNeedAnOperation ==
    ASSUME AInv, NEW p \in Procs, Steps(p)
    PROVE  proc[p] # None /\ crashes' = crashes
<1>1. call[p] # None => proc[p] # None
  BY DEF AInv, Matched, Matches
<1>2. CASE ReadReservations(p) \/ Prepare(p) \/ Reject(p) \/ SyncHostsInside(p) \/ Commit(p)
  BY <1>2 DEF ReadReservations, Prepare, Reject, SyncHostsInside, Commit, Doing
<1>3. CASE EnrollFails(p) \/ DisableRow(p) \/ DisableFails(p)
  BY <1>3 DEF EnrollFails, DisableRow, DisableFails, Doing, Abort, RestorePeer
<1>4. CASE PeerStep(p)
  BY <1>4 DEF PeerStep, serviceVars
<1>5. CASE Ensured(p) \/ Removed(p)
  BY <1>1, <1>5 DEF Ensured, Removed, EnsureWrite, RemoveWrite, At
<1>6. CASE EnsureRaises(p) \/ RemoveRaises(p)
  BY <1>1, <1>6 DEF EnsureRaises, RemoveRaises, Abort, RestorePeer
<1>7. CASE ListDevices(p) \/ SyncHosts(p) \/ SyncHostsFails(p)
  BY <1>7 DEF ListDevices, SyncHosts, SyncHostsFails
<1> QED BY <1>2, <1>3, <1>4, <1>5, <1>6, <1>7 DEF Steps

LEMMA AgreementBegins == Init => AInv
<1> SUFFICES ASSUME Init PROVE AInv
  OBVIOUS
<1> USE GatewaysAssumption, ServiceAssumption
<1>1. SInv
  BY ServiceInitEstablishes
<1>2. /\ \A p \in Procs : proc[p] = None /\ txn[p] = None /\ call[p] = None
      /\ \A d \in Devices : devices[d] = None
      /\ conf = Unmanaged /\ failed = {}
  BY DEF Init, RegistryInit, PeersInit
<1>3. Matched /\ OneRuns /\ OnlyEnrollments
  BY <1>2 DEF Matched, Matches, OneRuns, OnlyEnrollments, Changing, InTransaction, Revoking
<1>4. Apart
  BY <1>2 DEF Apart, OneChanges, Changing, OwnBlocks, Enrolled, RevokedAreGone, Revoked
<1>5. Strict
  <2>1. EnabledAreConnected /\ RestoringFailed
    BY <1>2 DEF EnabledAreConnected, Enabled, RestoringFailed
  <2>2. BlocksHaveDevices
    BY <1>2, PeerManagerAssumption DEF BlocksHaveDevices
  <2> QED BY <2>1, <2>2 DEF Strict
<1> QED BY <1>1, <1>3, <1>4, <1>5 DEF AInv

LEMMA AgreementStepPreserves ==
    ASSUME AInv, Serial \/ OnlyRequests, [Next]_vars
    PROVE  AInv'
<1>1. CASE UNCHANGED vars
  <2>1. SInv'
    BY ServiceStepPreserves DEF AInv
  <2> QED BY <1>1, <2>1, OutsideKeepsAgreement DEF vars, regVars
<1>2. CASE Next
  <2>1. ASSUME NEW p \in Procs, Steps(p)
        PROVE  AInv'
    <3>1. Local(p)
      BY <1>2, <2>1, StepsAreLocal DEF AInv
    <3>2. Keeps(p)
      BY <1>2, <2>1, StepsKeep
    <3>3. proc[p] # None /\ crashes' = crashes
      BY <2>1, StepsNeedAnOperation
    <3>4. Serial => OneRuns'
      BY <3>1, <3>3 DEF AInv, OneRuns, Local
    <3> QED BY <1>2, <3>1, <3>2, <3>3, <3>4, KeepingPreserves
  <2>2. ASSUME NEW p \in Procs,
               \/ \E d \in Devices, k \in Keys, t \in Tokens : Receive(p, d, k, t)
               \/ (\E d \in Devices : StartRevoke(p, d)) \/ StartSyncHosts(p)
        PROVE  AInv'
    <3>1. Local(p)
      BY <1>2, <2>2, StepsAreLocal DEF AInv
    <3>2. Keeps(p)
      BY <1>2, <2>2, OutsideStepsKeep, StartRevokeKeeps
    <3>3. (Serial => Quiet) /\ crashes' = crashes
      BY <2>2 DEF Receive, StartRevoke, StartSyncHosts, Idle
    <3>4. Serial => OneRuns'
      BY <3>1, <3>3 DEF OneRuns, Quiet, Local
    <3> QED BY <1>2, <3>1, <3>2, <3>3, <3>4, KeepingPreserves
  <2>3. ASSUME NEW p \in Procs, Kill(p)
        PROVE  AInv'
    BY <1>2, <2>3, DeathKeepsAgreement DEF Kill
  <2>4. CASE Crash
    BY <1>2, <2>4, DeathKeepsAgreement, ServiceAssumption DEF Crash
  <2>5. ASSUME NEW t \in Tokens,
               (\E scope \in Devices \cup {None} : IssueToken(t, scope)) \/ PassTime(t)
        PROVE  AInv'
    <3>1. UNCHANGED <<devices, txn, peerVars, serviceVars>>
      BY <2>5 DEF IssueToken, PassTime, CreateToken, Expire
    <3>2. SInv'
      BY <1>2, ServiceStepPreserves DEF AInv
    <3> QED BY <3>1, <3>2, OutsideKeepsAgreement
  <2> QED BY <1>2, <2>1, <2>2, <2>3, <2>4, <2>5 DEF Next
<1> QED BY <1>1, <1>2

LEMMA AgreementInvariant ==
    ASSUME Serial \/ OnlyRequests
    PROVE  Spec => []AInv
<1>1. Init => AInv
  BY AgreementBegins
<1>2. AInv /\ [Next]_vars => AInv'
  BY AgreementStepPreserves
<1> QED BY <1>1, <1>2, PTL DEF Spec

\* Where operations run one at a time, revoked means disconnected: a device
\* whose row is disabled has no block of its own in the file and its key is on
\* no peer of the interface, whatever failed and whatever died.
THEOREM SerialRevokedIsIsolated == Serial => (Spec => []RevokedIsIsolated)
<1> SUFFICES ASSUME Serial PROVE Spec => []RevokedIsIsolated
  OBVIOUS
<1>1. AInv => RevokedIsIsolated
  <2> SUFFICES ASSUME AInv PROVE RevokedIsIsolated
    OBVIOUS
  <2>1. RevokedAreGone
    BY DEF AInv, Apart
  <2> QED BY <2>1 DEF RevokedIsIsolated, RevokedAreGone, Gone
<1> QED BY <1>1, AgreementInvariant, PTL

\* One at a time, and with at most one stage that fails, enabled means
\* connected: revoke_device puts back what it removed before it gave up.
THEOREM SerialEnabledIsConnected ==
    Serial /\ MaxFailures <= 1 => (Spec => []EnabledIsConnected)
<1> SUFFICES ASSUME Serial, MaxFailures <= 1 PROVE Spec => []EnabledIsConnected
  OBVIOUS
<1>1. AInv => EnabledIsConnected
  <2> SUFFICES ASSUME AInv, Quiet, crashes = 0, NEW d \in Devices, Enabled(d)
               PROVE  Connected(d, devices[d].key, devices[d].addr)
    BY DEF EnabledIsConnected, Connected
  <2>1. EnabledAreConnected
    BY DEF AInv, Strict
  <2> QED BY <2>1 DEF EnabledAreConnected, Quiet, Revoking
<1> QED BY <1>1, AgreementInvariant, PTL

\* Requests that overlap need no administrator to wait: while none of them
\* fails, the write lock alone keeps their changes of the file apart, and every
\* device they enrolled is connected.
THEOREM RequestsEnabledIsConnected == OnlyRequests => (Spec => []EnabledIsConnected)
<1> SUFFICES ASSUME OnlyRequests PROVE Spec => []EnabledIsConnected
  OBVIOUS
<1>1. AInv => EnabledIsConnected
  <2> SUFFICES ASSUME AInv, Quiet, crashes = 0, NEW d \in Devices, Enabled(d)
               PROVE  Connected(d, devices[d].key, devices[d].addr)
    BY DEF EnabledIsConnected, Connected
  <2>1. EnabledAreConnected
    BY DEF AInv, Strict, OnlyRequests
  <2> QED BY <2>1 DEF EnabledAreConnected, Quiet, Revoking
<1> QED BY <1>1, AgreementInvariant, PTL

\* One at a time, and with at most one stage that fails, an enrolment that is
\* undone leaves no peer behind: every managed block is an enabled device's.
THEOREM SerialNoOrphanPeer == Serial /\ MaxFailures <= 1 => (Spec => []NoOrphanPeer)
<1> SUFFICES ASSUME Serial, MaxFailures <= 1 PROVE Spec => []NoOrphanPeer
  OBVIOUS
<1>1. AInv => NoOrphanPeer
  <2> SUFFICES ASSUME AInv, Quiet, crashes = 0, NEW b \in conf, b.owner # None
               PROVE  Enabled(b.owner)
    BY DEF NoOrphanPeer
  <2>1. BlocksHaveDevices
    BY DEF AInv, Strict
  <2> QED BY <2>1 DEF BlocksHaveDevices, InProgress, Quiet, Changing
<1> QED BY <1>1, AgreementInvariant, PTL

-----------------------------------------------------------------------------
(* The hosts file, where operations run one at a time.                     *)

\* What the operation of p has rendered, or is about to.
Rendered(p) ==
    /\ proc[p].op \in {"enroll", "restore"} /\ proc[p].at # "commit" =>
          hosts = Entries(devices)
    /\ proc[p].op = "revoke" /\ proc[p].at \in {"peer", "revoke"} =>
          hosts = Entries(devices)
    /\ proc[p].at = "commit" => hosts = Entries(View(p))
    /\ proc[p].at = "sync" => proc[p].entries = Entries(devices)

HInv ==
    crashes = 0 /\ "hosts" \notin failed =>
        /\ Quiet => hosts = Entries(devices)
        /\ \A p \in Procs : proc[p] # None => Rendered(p)

\* What a step of p has to establish.
Renders(p) ==
    crashes' = 0 /\ "hosts" \notin failed' =>
        /\ proc'[p] = None => hosts' = Entries(devices)'
        /\ proc'[p] # None => Rendered(p)'

LEMMA EnrollmentRenders ==
    ASSUME AInv, HInv, Next, NEW p \in Procs,
           \/ ReadReservations(p) \/ Prepare(p) \/ Reject(p)
           \/ SyncHostsInside(p) \/ Commit(p) \/ EnrollFails(p)
    PROVE  Renders(p)
<1> SUFFICES ASSUME crashes' = 0, "hosts" \notin failed'
             PROVE  /\ proc'[p] = None => hosts' = Entries(devices)'
                    /\ proc'[p] # None => Rendered(p)'
  BY DEF Renders
<1>1. ServiceTypeOK /\ proc \in [Procs -> Operation \cup {None}]
  BY DEF AInv, SInv, ServiceTypeOK
<1>2. proc[p] # None /\ crashes = 0 /\ failed \subseteq failed'
  BY StepsNeedAnOperation
     DEF Steps, ReadReservations, Prepare, Reject, SyncHostsInside, Commit, EnrollFails, Fails
<1>3. Rendered(p)
  BY <1>2 DEF HInv
<1>4. CASE ReadReservations(p)
  <2>1. /\ proc[p].op = "enroll" /\ proc[p].at = "reserve" /\ UNCHANGED <<hosts, devices>>
        /\ proc'[p].op = "enroll" /\ proc'[p].at = "prepare"
    BY <1>1, <1>4 DEF ReadReservations, Doing, regVars
  <2>2. proc'[p] # None
    <3>1. proc[p] \in Operation
      BY <1>1, <1>2
    <3>2. ReservedNetworks \in SUBSET Hosts
      BY DEF ReservedNetworks, AInv, SInv, PInv, PeersTypeOK
    <3>3. proc'[p] \in Operation
      BY <1>1, <1>4, <3>1, <3>2 DEF ReadReservations
    <3> QED BY <3>3, OperationAssumption
  <2> QED BY <1>3, <2>1, <2>2 DEF Rendered, Entries
<1>5. CASE Prepare(p)
  <2>1. /\ proc[p].op = "enroll" /\ proc[p].at = "prepare" /\ UNCHANGED <<hosts, devices>>
        /\ Goes(p, "enroll", "peer")
    BY <1>5 DEF Prepare, Doing, BeginEnrollment
  <2>2. proc'[p] \in Operation /\ proc'[p].op = "enroll" /\ proc'[p].at = "peer"
    BY <1>1, <1>2, <2>1, GoesFacts
  <2> QED BY <1>3, <2>1, <2>2, OperationAssumption DEF Rendered, Entries
<1>6. CASE Reject(p)
  <2>1. Goes(p, "undo", "list")
    BY <1>6 DEF Reject
  <2>2. proc'[p] \in Operation /\ proc'[p].op = "undo" /\ proc'[p].at = "list"
    BY <1>1, <1>2, <2>1, GoesFacts
  <2> QED BY <2>2, OperationAssumption DEF Rendered
<1>7. CASE SyncHostsInside(p)
  <2>1. Goes(p, "enroll", "commit") /\ hosts' = Entries(View(p)) /\ UNCHANGED <<devices, txn>>
    BY <1>7 DEF SyncHostsInside, regVars
  <2>2. proc'[p] \in Operation /\ proc'[p].op = "enroll" /\ proc'[p].at = "commit"
    BY <1>1, <1>2, <2>1, GoesFacts
  <2>3. Entries(View(p))' = Entries(View(p))
    BY <2>1 DEF Entries, View
  <2> QED BY <2>1, <2>2, <2>3, OperationAssumption DEF Rendered
<1>8. CASE Commit(p)
  <2>1. proc[p].at = "commit" /\ devices' = View(p) /\ hosts' = hosts /\ Returns(p)
    BY <1>8 DEF Commit, Doing, CommitEnrollment
  <2>2. proc'[p] = None
    BY <1>1, <2>1, ReturnsFacts
  <2>3. hosts = Entries(View(p))
    BY <1>3, <2>1 DEF Rendered
  <2>4. Entries(devices)' = Entries(View(p))
    BY <2>1 DEF Entries
  <2> QED BY <2>1, <2>2, <2>3, <2>4
<1>9. CASE EnrollFails(p)
  <2>1. Abort(p)
    BY <1>9 DEF EnrollFails
  <2>2. Goes(p, "undo", "peer") \/ Goes(p, "undo", "list")
    BY <2>1 DEF Abort
  <2>3. proc'[p] \in Operation /\ proc'[p].op = "undo" /\ proc'[p].at \in {"peer", "list"}
    BY <1>1, <1>2, <2>2, GoesFacts
  <2> QED BY <2>3, OperationAssumption DEF Rendered
<1> QED BY <1>4, <1>5, <1>6, <1>7, <1>8, <1>9

LEMMA PeersRender ==
    ASSUME AInv, HInv, Next, NEW p \in Procs,
           \/ PeerStep(p) \/ Ensured(p) \/ Removed(p) \/ EnsureRaises(p) \/ RemoveRaises(p)
           \/ DisableFails(p)
    PROVE  Renders(p)
<1> SUFFICES ASSUME crashes' = 0, "hosts" \notin failed'
             PROVE  /\ proc'[p] = None => hosts' = Entries(devices)'
                    /\ proc'[p] # None => Rendered(p)'
  BY DEF Renders
<1>1. ServiceTypeOK
  BY DEF AInv, SInv
<1>2. proc[p] # None /\ crashes = 0
  BY StepsNeedAnOperation DEF Steps
<1>3. failed \subseteq failed'
  BY DEF PeerStep, Ensured, Removed, EnsureRaises, RemoveRaises, DisableFails, Fails, serviceVars
<1>4. Rendered(p)
  BY <1>2, <1>3 DEF HInv
<1>5. ASSUME \/ proc[p].op \in {"enroll", "restore"} /\ proc[p].at = "peer"
             \/ proc[p].op = "revoke" /\ proc[p].at \in {"peer", "revoke"},
             UNCHANGED <<hosts, devices>>,
             proc'[p] = None \/ proc'[p].at \in {"peer", "hosts", "revoke"}
      PROVE  /\ proc'[p] = None => hosts' = Entries(devices)'
             /\ proc'[p] # None => Rendered(p)'
  <2>1. hosts = Entries(devices)
    BY <1>4, <1>5 DEF Rendered
  <2>2. Entries(devices)' = Entries(devices)
    BY <1>5 DEF Entries
  <2> QED BY <1>5, <2>1, <2>2 DEF Rendered
<1>6. ASSUME Goes(p, "undo", "list") \/ Goes(p, "undo", "peer")
      PROVE  /\ proc'[p] = None => hosts' = Entries(devices)'
             /\ proc'[p] # None => Rendered(p)'
  <2>1. proc'[p] \in Operation /\ proc'[p].op = "undo" /\ proc'[p].at \in {"peer", "list"}
    BY <1>1, <1>2, <1>6, GoesFacts
  <2> QED BY <2>1, OperationAssumption DEF Rendered
<1>7. CASE PeerStep(p)
  <2>1. UNCHANGED <<hosts, devices, txn, proc>>
    BY <1>7 DEF PeerStep, regVars, serviceVars
  <2> QED BY <1>2, <1>4, <2>1 DEF Rendered, Entries, View
<1>8. CASE Ensured(p) \/ (EnsureRaises(p) /\ proc[p].op # "enroll")
  <2>1. UNCHANGED <<hosts, devices>>
    BY <1>8 DEF Ensured, EnsureRaises, regVars
  <2>2. Goes(p, "enroll", "hosts") \/ Returns(p)
    BY <1>8 DEF Ensured, EnsureRaises
  <2>3. call[p] # None /\ call[p].op = "ensure"
    BY <1>8 DEF Ensured, EnsureWrite, At, EnsureRaises
  <2>4. proc[p].at = "peer" /\ proc[p].op \in {"enroll", "restore"}
    BY <1>8, <2>3 DEF AInv, SInv, ControlSound, Controlled
  <2>5. proc'[p] = None \/ proc'[p].at = "hosts"
    BY <1>1, <1>2, <2>2, GoesFacts, ReturnsFacts
  <2> QED BY <1>5, <2>1, <2>4, <2>5
<1>9. CASE EnsureRaises(p) /\ proc[p].op = "enroll"
  BY <1>6, <1>9 DEF EnsureRaises, Abort
<1>10. CASE (Removed(p) \/ RemoveRaises(p)) /\ proc[p].op = "undo"
  BY <1>6, <1>10 DEF Removed, RemoveRaises
<1>11. CASE (Removed(p) \/ RemoveRaises(p)) /\ proc[p].op # "undo"
  <2>1. UNCHANGED <<hosts, devices>>
    BY <1>11 DEF Removed, RemoveRaises, RestorePeer, regVars
  <2>2. call[p] # None /\ call[p].op = "remove"
    BY <1>11 DEF Removed, RemoveWrite, At, RemoveRaises
  <2>3. proc[p].at = "peer" /\ proc[p].op = "revoke"
    BY <1>11, <2>2 DEF AInv, SInv, ControlSound, Controlled
  <2>4. Goes(p, "revoke", "revoke") \/ Goes(p, "restore", "peer")
    BY <1>11 DEF Removed, RemoveRaises, RestorePeer
  <2>5. proc'[p].at \in {"revoke", "peer"}
    BY <1>1, <1>2, <2>4, GoesFacts
  <2> QED BY <1>5, <2>1, <2>3, <2>5
<1>12. CASE DisableFails(p)
  <2>1. /\ proc[p].op = "revoke" /\ proc[p].at = "revoke" /\ UNCHANGED <<hosts, devices>>
        /\ Goes(p, "restore", "peer")
    BY <1>12 DEF DisableFails, Doing, RestorePeer, regVars
  <2>2. proc'[p].at = "peer"
    BY <1>1, <1>2, <2>1, GoesFacts
  <2> QED BY <1>5, <2>1, <2>2
<1> QED BY <1>7, <1>8, <1>9, <1>10, <1>11, <1>12

LEMMA OthersRender ==
    ASSUME AInv, HInv, Next, NEW p \in Procs,
           DisableRow(p) \/ ListDevices(p) \/ SyncHosts(p) \/ SyncHostsFails(p)
    PROVE  Renders(p)
<1> SUFFICES ASSUME crashes' = 0, "hosts" \notin failed'
             PROVE  /\ proc'[p] = None => hosts' = Entries(devices)'
                    /\ proc'[p] # None => Rendered(p)'
  BY DEF Renders
<1>1. ServiceTypeOK /\ proc \in [Procs -> Operation \cup {None}]
  BY DEF AInv, SInv, ServiceTypeOK
<1>2. proc[p] # None /\ crashes = 0
  BY StepsNeedAnOperation DEF Steps
<1>3. ~SyncHostsFails(p) /\ failed' = failed
  BY DEF DisableRow, ListDevices, SyncHosts, SyncHostsFails, Fails
<1>4. Rendered(p)
  BY <1>2, <1>3 DEF HInv
<1>5. CASE DisableRow(p)
  <2>1. Goes(p, "revoke", "list")
    BY <1>5 DEF DisableRow
  <2>2. proc'[p] \in Operation /\ proc'[p].op = "revoke" /\ proc'[p].at = "list"
    BY <1>1, <1>2, <2>1, GoesFacts
  <2> QED BY <2>2, OperationAssumption DEF Rendered
<1>6. CASE ListDevices(p)
  <2>1. UNCHANGED <<hosts, devices>> /\ proc[p].at = "list" /\ proc'[p].op = proc[p].op
        /\ proc'[p].at = "sync" /\ proc'[p].entries = Entries(devices)
    BY <1>1, <1>6 DEF ListDevices, regVars
  <2>2. Entries(devices)' = Entries(devices)
    BY <2>1 DEF Entries
  <2>3. proc'[p] # None
    <3>1. proc[p] \in Operation
      BY <1>1, <1>2
    <3>2. Entries(devices) \in SUBSET Entry
      BY EntriesAreTyped DEF AInv, SInv, IInv, RegistryTypeOK
    <3>3. proc'[p] \in Operation
      BY <1>1, <1>6, <3>1, <3>2 DEF ListDevices
    <3> QED BY <3>3, OperationAssumption
  <2> QED BY <1>4, <2>1, <2>2, <2>3 DEF Rendered
<1>7. CASE SyncHosts(p)
  <2>1. /\ proc[p].at = "sync" /\ devices' = devices /\ hosts' = proc[p].entries
        /\ Returns(p)
    BY <1>7 DEF SyncHosts, regVars
  <2>2. proc'[p] = None
    BY <1>1, <2>1, ReturnsFacts
  <2>3. hosts' = Entries(devices) /\ Entries(devices)' = Entries(devices)
    BY <1>4, <2>1 DEF Rendered, Entries
  <2> QED BY <2>2, <2>3
<1> QED BY <1>3, <1>5, <1>6, <1>7

LEMMA BeginningRenders ==
    ASSUME AInv, HInv, NEW p \in Procs, Quiet,
           \/ \E d \in Devices, k \in Keys, t \in Tokens : Receive(p, d, k, t)
           \/ (\E d \in Devices : StartRevoke(p, d)) \/ StartSyncHosts(p)
    PROVE  Renders(p)
<1>1. proc \in [Procs -> Operation \cup {None}]
  BY DEF AInv, SInv, ServiceTypeOK
<1>2. UNCHANGED <<hosts, devices, failed, crashes>>
  BY DEF Receive, StartRevoke, StartSyncHosts, regVars
<1>3. PICK op, at, d, k, t : Starts(p, op, at, d, k, t)
                             /\ <<op, at>> \in {<<"enroll", "reserve">>, <<"revoke", "peer">>,
                                                <<"revoke", "list">>, <<"hosts", "list">>}
  BY DEF Receive, StartRevoke, StartSyncHosts
<1>4. proc'[p].at \notin {"commit", "sync"}
  BY <1>1, <1>3 DEF Starts
<1>5. ASSUME crashes' = 0, "hosts" \notin failed'
      PROVE  hosts' = Entries(devices)'
  BY <1>2, <1>5 DEF HInv, Entries
<1> QED BY <1>4, <1>5 DEF Renders, Rendered

LEMMA HostsStepPreserves ==
    ASSUME AInv, HInv, Serial, [Next]_vars
    PROVE  HInv'
<1>1. ASSUME UNCHANGED <<devices, txn, hosts, proc, failed, crashes>>
      PROVE  HInv'
  <2>1. Entries(devices)' = Entries(devices) /\ Quiet' = Quiet
    BY <1>1 DEF Entries, Quiet
  <2>2. ASSUME NEW q \in Procs, Rendered(q)
        PROVE  Rendered(q)'
    <3>1. Entries(View(q))' = Entries(View(q))
      BY <1>1 DEF Entries, View
    <3> QED BY <1>1, <2>1, <2>2, <3>1 DEF Rendered
  <2> QED BY <1>1, <2>1, <2>2 DEF HInv
<1>2. ASSUME NEW p \in Procs, Renders(p), \A q \in Procs \ {p} : proc'[q] = None
      PROVE  HInv'
  BY <1>2 DEF Renders, HInv, Quiet
<1>3. ASSUME NEW p \in Procs, Next, Steps(p)
      PROVE  HInv'
  <2>1. Renders(p)
    BY <1>3, EnrollmentRenders, PeersRender, OthersRender DEF Steps
  <2>2. proc[p] # None /\ Local(p)
    BY <1>3, StepsNeedAnOperation, StepsAreLocal DEF AInv
  <2>3. \A q \in Procs \ {p} : proc'[q] = None
    BY <2>2 DEF AInv, OneRuns, Local
  <2> QED BY <1>2, <2>1, <2>3
<1>4. ASSUME NEW p \in Procs, Next,
             \/ \E d \in Devices, k \in Keys, t \in Tokens : Receive(p, d, k, t)
             \/ (\E d \in Devices : StartRevoke(p, d)) \/ StartSyncHosts(p)
      PROVE  HInv'
  <2>1. Quiet
    BY <1>4 DEF Receive, StartRevoke, StartSyncHosts, Idle
  <2>2. Renders(p)
    BY <1>4, <2>1, BeginningRenders
  <2>3. Local(p)
    BY <1>4, StepsAreLocal DEF AInv
  <2>4. \A q \in Procs \ {p} : proc'[q] = None
    BY <2>1, <2>3 DEF Quiet, Local
  <2> QED BY <1>2, <2>2, <2>4
<1>5. ASSUME NEW S, Dies(S)
      PROVE  HInv'
  <2>1. crashes' # 0
    BY <1>5, ServiceAssumption DEF Dies, AInv, SInv, ServiceTypeOK
  <2> QED BY <2>1 DEF HInv
<1>6. ASSUME NEW t \in Tokens,
             (\E scope \in Devices \cup {None} : IssueToken(t, scope)) \/ PassTime(t)
      PROVE  HInv'
  BY <1>1, <1>6 DEF IssueToken, PassTime, CreateToken, Expire, serviceVars
<1>7. CASE UNCHANGED vars
  BY <1>1, <1>7 DEF vars, regVars, serviceVars
<1> QED BY <1>3, <1>4, <1>5, <1>6, <1>7 DEF Next, Kill, Crash

\* One at a time, the private names are never left behind the registry: unless
\* rendering the hosts file failed, or something died, it names exactly the
\* enabled devices once every operation has returned.
THEOREM SerialHostsAreCurrent == Serial => (Spec => []HostsAreCurrent)
<1> SUFFICES ASSUME Serial PROVE Spec => []HostsAreCurrent
  OBVIOUS
<1>1. Init => HInv
  BY DEF Init, HInv, RegistryInit, Entries
<1>2. AInv /\ HInv /\ [Next]_vars => HInv'
  BY HostsStepPreserves
<1>3. HInv => HostsAreCurrent
  <2>1. Entries(devices) =
           {[dev |-> d, addr |-> devices[d].addr] : d \in {e \in Devices : Enabled(e)}}
    BY DEF Entries, Enabled
  <2> QED BY <2>1 DEF HInv, HostsAreCurrent
<1> QED BY <1>1, <1>2, <1>3, AgreementInvariant, PTL DEF Spec
=============================================================================
