------------------------- MODULE EnrollmentService -------------------------
(***************************************************************************)
(* One gateway at work: the enrolment service (server/enroll_api.py), a    *)
(* thread per request, and the commands of administrators (admin_ops.py),  *)
(* over the registry, the WireGuard peers and the hosts file.              *)
(*                                                                         *)
(* An operation is a process with a record: op says which code it is in,   *)
(* at which step comes next.                                               *)
(*     enroll   the body of EnrollmentService.enroll                       *)
(*     undo     its except clause, after the registry rolled back          *)
(*     revoke   revoke_device                                              *)
(*     restore  its except clause, which ensures the peer again            *)
(*     hosts    sync_hosts                                                 *)
(* While the record is at "peer" the process is inside PeerManager.        *)
(*                                                                         *)
(* Public DNS is one stage here, which succeeds or raises: its records are *)
(* not part of this module.                                                *)
(***************************************************************************)
EXTENDS Registry, PeerManager, FiniteSets

CONSTANTS
    Threads,        \* request threads of the service
    Shells,         \* administrators' commands
    Serial,         \* TRUE: an operation starts only when none is running
    MaxFailures,    \* bound on the stages that fail
    MaxCrashes      \* bound on deaths of the service or of a command

ASSUME ServiceAssumption ==
    /\ Threads \cup Shells = Procs
    /\ Threads \cap Shells = {}
    /\ Serial \in BOOLEAN
    /\ MaxFailures \in Nat
    /\ MaxCrashes \in Nat

VARIABLES
    hosts,      \* the managed block of the hosts file: device, address
    proc,       \* the operation each process is in, or None
    failed,     \* the stages that have failed so far
    crashes     \* deaths so far

serviceVars == <<hosts, proc, failed, crashes>>
vars == <<regVars, peerVars, serviceVars>>

Stages == {"peer", "hosts", "registry"}
Entry == [dev: Devices, addr: Hosts]
Operation ==
    [op: {"enroll", "undo", "revoke", "restore", "hosts"},
     at: {"reserve", "prepare", "peer", "hosts", "commit", "revoke", "list", "sync"},
     dev: Devices \cup {None}, key: Keys \cup {None}, token: Tokens \cup {None},
     reserved: SUBSET Hosts, entries: SUBSET Entry]

ASSUME OperationAssumption == None \notin Operation

TypeOK ==
    /\ RegistryTypeOK
    /\ PeersTypeOK
    /\ hosts \in SUBSET Entry
    /\ proc \in [Procs -> Operation \cup {None}]
    /\ failed \in SUBSET Stages
    /\ crashes \in 0..MaxCrashes

Init ==
    /\ RegistryInit
    /\ PeersInit
    /\ hosts = {}
    /\ proc = [p \in Procs |-> None]
    /\ failed = {}
    /\ crashes = 0

-----------------------------------------------------------------------------
Quiet == \A p \in Procs : proc[p] = None

Idle(p) == proc[p] = None /\ (Serial => Quiet)

Doing(p, op, at) == proc[p] # None /\ proc[p].op = op /\ proc[p].at = at

Starts(p, op, at, d, k, t) ==
    proc' = [proc EXCEPT ![p] =
        [op |-> op, at |-> at, dev |-> d, key |-> k, token |-> t,
         reserved |-> {}, entries |-> {}]]

\* Only what the rest of the operation reads is kept.
Goes(p, op, at) ==
    proc' = [proc EXCEPT ![p].op = op, ![p].at = at, ![p].reserved = {}]

Returns(p) == proc' = [proc EXCEPT ![p] = None]

\* The lines HostsManager.sync renders: the enabled rows it is given.
MutEntries(rows) ==
    {[dev |-> d, addr |-> rows[d].addr] : d \in {e \in Devices : rows[e] # None}}
Entries(rows) ==
    {[dev |-> d, addr |-> rows[d].addr] :
        d \in {e \in Devices : rows[e] # None /\ rows[e].enabled}}

\* Each stage fails at most once, and MaxFailures bounds how many do.
Fails(stage) ==
    /\ stage \notin failed
    /\ Cardinality(failed) < MaxFailures
    /\ failed' = failed \cup {stage}

-----------------------------------------------------------------------------
(* Enrolment.                                                              *)

Receive(p, d, k, t) ==
    /\ p \in Threads
    /\ Idle(p)
    /\ Starts(p, "enroll", "reserve", d, k, t)
    /\ UNCHANGED <<regVars, peerVars, hosts, failed, crashes>>

\* peers.reserved_networks() is read before the transaction begins.
ReadReservations(p) ==
    /\ Doing(p, "enroll", "reserve")
    /\ proc' = [proc EXCEPT ![p].at = "prepare", ![p].reserved = ReservedNetworks]
    /\ UNCHANGED <<regVars, peerVars, hosts, failed, crashes>>

Prepare(p) ==
    /\ Doing(p, "enroll", "prepare")
    /\ BeginEnrollment(p, proc[p].dev, proc[p].key, proc[p].token, proc[p].reserved)
    /\ EnsureCall(p, proc[p].dev, proc[p].key, txn'[p].row.addr)
    /\ Goes(p, "enroll", "peer")
    /\ UNCHANGED <<conf, live, hosts, failed, crashes>>

\* Nothing was created: only the hosts file is rendered again.
Reject(p) ==
    /\ \/ /\ Doing(p, "enroll", "prepare")
          /\ WriteLockFree => Refused(proc[p].dev, proc[p].key, proc[p].token, proc[p].reserved)
          /\ UNCHANGED failed
       \/ /\ Doing(p, "enroll", "reserve")
          /\ Fails("peer")
    /\ Goes(p, "undo", "list")
    /\ UNCHANGED <<regVars, peerVars, hosts, crashes>>

\* The hosts file is rendered from the transaction's own view of the rows.
SyncHostsInside(p) ==
    /\ Doing(p, "enroll", "hosts")
    /\ hosts' = Entries(View(p))
    /\ Goes(p, "enroll", "commit")
    /\ UNCHANGED <<regVars, peerVars, failed, crashes>>

\* consume_token and COMMIT, after DNS.
MutCommit(p) ==
    /\ Doing(p, "enroll", "commit")
    /\ devices' = View(p)
    /\ txn' = [txn EXCEPT ![p] = None]
    /\ Returns(p)
    /\ UNCHANGED <<tokens, expired, peerVars, hosts, failed, crashes>>
Commit(p) ==
    /\ Doing(p, "enroll", "commit")
    /\ CommitEnrollment(p)
    /\ Returns(p)
    /\ UNCHANGED <<peerVars, hosts, failed, crashes>>

\* An exception inside the transaction: the registry rolls back, and then the
\* peer is removed if this request had created the row.
MutAbort(p) ==
    /\ proc[p].op = "enroll"
    /\ Rollback(p)
    /\ RemoveCall(p, proc[p].dev, proc[p].key) /\ UNCHANGED <<conf, live>>
    /\ Goes(p, "undo", "peer")
    /\ UNCHANGED <<hosts, crashes>>
MutAbortKeepsPeer(p) ==
    /\ proc[p].op = "enroll"
    /\ Rollback(p)
    /\ CallsEnd({p})
    /\ Goes(p, "undo", "list")
    /\ UNCHANGED <<hosts, crashes>>
Abort(p) ==
    /\ proc[p].op = "enroll"
    /\ Rollback(p)
    /\ IF txn[p].created
       THEN /\ RemoveCall(p, proc[p].dev, proc[p].key) /\ UNCHANGED <<conf, live>>
            /\ Goes(p, "undo", "peer")
       ELSE /\ CallsEnd({p})
            /\ Goes(p, "undo", "list")
    /\ UNCHANGED <<hosts, crashes>>

\* A hosts file that cannot be written; then a DNS failure, a name DNS
\* refuses, or a commit that fails.
EnrollFails(p) ==
    /\ \/ Doing(p, "enroll", "hosts") /\ Fails("hosts")
       \/ Doing(p, "enroll", "commit") /\ Fails("registry")
    /\ Abort(p)

-----------------------------------------------------------------------------
(* Inside PeerManager, for enrolments, their undoing and revocations.      *)

PeerStep(p) ==
    /\ proc[p] # None
    /\ proc[p].at = "peer"
    /\ EnsureRead(p) \/ EnsureLive(p) \/ RemoveRead(p) \/ RemoveLive(p)
    /\ UNCHANGED <<regVars, serviceVars>>

Ensured(p) ==
    /\ EnsureWrite(p)
    /\ IF proc[p].op = "enroll" THEN Goes(p, "enroll", "hosts") ELSE Returns(p)
    /\ UNCHANGED <<regVars, hosts, failed, crashes>>

Removed(p) ==
    /\ RemoveWrite(p)
    /\ IF proc[p].op = "undo" THEN Goes(p, "undo", "list") ELSE Goes(p, "revoke", "revoke")
    /\ UNCHANGED <<regVars, hosts, failed, crashes>>

\* ensure_peer raised: an enrolment is undone, a restoration gives up.
EnsureRaises(p) ==
    /\ call[p] # None /\ call[p].op = "ensure"
    /\ \/ EnsureClash(p) /\ UNCHANGED failed
       \/ Fails("peer")
    /\ IF proc[p].op = "enroll"
       THEN Abort(p)
       ELSE CallsEnd({p}) /\ Returns(p) /\ UNCHANGED <<regVars, hosts, crashes>>

\* revoke_device failed before its row was disabled: the peer is put back.
RestorePeer(p) ==
    /\ EnsureCall(p, proc[p].dev, proc[p].key, devices[proc[p].dev].addr)
    /\ Goes(p, "restore", "peer")
    /\ UNCHANGED <<regVars, conf, live, hosts, crashes>>

\* remove_peer raised: an undoing goes on, a revocation puts the peer back.
RemoveRaises(p) ==
    /\ call[p] # None /\ call[p].op = "remove"
    /\ Fails("peer")
    /\ IF proc[p].op = "undo"
       THEN /\ CallsEnd({p})
            /\ Goes(p, "undo", "list")
            /\ UNCHANGED <<regVars, hosts, crashes>>
       ELSE RestorePeer(p)

-----------------------------------------------------------------------------
(* Revocation, and the private names both sides render.                    *)

\* get_device, and the branch on whether the row is still enabled.
MutStartRevoke(p, d) ==
    /\ p \in Shells
    /\ Idle(p)
    /\ devices[d] # None
    /\ IF devices[d].enabled
       THEN /\ RevokeRow(d)
            /\ Starts(p, "revoke", "peer", d, devices[d].key, None)
            /\ RemoveCall(p, d, devices[d].key)
       ELSE /\ Starts(p, "revoke", "list", d, None, None)
            /\ UNCHANGED <<regVars, call>>
    /\ UNCHANGED <<conf, live, hosts, failed, crashes>>
StartRevoke(p, d) ==
    /\ p \in Shells
    /\ Idle(p)
    /\ devices[d] # None
    /\ IF devices[d].enabled
       THEN Starts(p, "revoke", "peer", d, devices[d].key, None) /\ RemoveCall(p, d, devices[d].key)
       ELSE Starts(p, "revoke", "list", d, None, None) /\ UNCHANGED call
    /\ UNCHANGED <<regVars, conf, live, hosts, failed, crashes>>

MutDisableRow(p) ==
    /\ Doing(p, "revoke", "revoke")
    /\ devices' = [devices EXCEPT ![proc[p].dev].enabled = FALSE]
    /\ Goes(p, "revoke", "list")
    /\ UNCHANGED <<tokens, expired, txn, peerVars, hosts, failed, crashes>>
DisableRow(p) ==
    /\ Doing(p, "revoke", "revoke")
    /\ RevokeRow(proc[p].dev)
    /\ Goes(p, "revoke", "list")
    /\ UNCHANGED <<peerVars, hosts, failed, crashes>>

\* The 30 seconds for the lock run out, or the transaction fails.
DisableFails(p) ==
    /\ Doing(p, "revoke", "revoke")
    /\ \/ ~WriteLockFree /\ UNCHANGED failed
       \/ Fails("registry")
    /\ RestorePeer(p)

StartSyncHosts(p) ==
    /\ p \in Shells
    /\ Idle(p)
    /\ Starts(p, "hosts", "list", None, None, None)
    /\ UNCHANGED <<regVars, peerVars, hosts, failed, crashes>>

\* list_devices(), whose rows are rendered in a later step.
ListDevices(p) ==
    /\ proc[p] # None
    /\ proc[p].at = "list"
    /\ proc' = [proc EXCEPT ![p].at = "sync", ![p].entries = Entries(devices)]
    /\ UNCHANGED <<regVars, peerVars, hosts, failed, crashes>>

MutSyncHosts(p) ==
    /\ proc[p] # None
    /\ proc[p].at = "sync"
    /\ hosts' = proc[p].entries
    /\ UNCHANGED <<regVars, peerVars, proc, failed, crashes>>
SyncHosts(p) ==
    /\ proc[p] # None
    /\ proc[p].at = "sync"
    /\ hosts' = proc[p].entries
    /\ Returns(p)
    /\ UNCHANGED <<regVars, peerVars, failed, crashes>>

\* Logged by an undoing, a warning of a revocation, an error of sync_hosts.
SyncHostsFails(p) ==
    /\ proc[p] # None
    /\ proc[p].at \in {"list", "sync"}
    /\ Fails("hosts")
    /\ Returns(p)
    /\ UNCHANGED <<regVars, peerVars, hosts, crashes>>

-----------------------------------------------------------------------------
(* Tokens, time, and deaths.                                               *)

IssueToken(t, scope) ==
    /\ CreateToken(t, scope)
    /\ UNCHANGED <<peerVars, serviceVars>>

PassTime(t) ==
    /\ Expire(t)
    /\ UNCHANGED <<peerVars, serviceVars>>

\* The death of the processes in S closes their connections, which rolls their
\* transactions back; nothing else is undone.
MutDies(S) ==
    /\ crashes < MaxCrashes
    /\ \E p \in S : proc[p] # None
    /\ crashes' = crashes + 1
    /\ proc' = [p \in Procs |-> IF p \in S THEN None ELSE proc[p]]
    /\ txn' = [p \in Procs |-> IF p \in S THEN None ELSE txn[p]]
    /\ call' = [p \in Procs |-> IF p \in S THEN None ELSE call[p]]
    /\ conf' = IF \E p \in S : call[p] # None /\ call[p].step = "write" THEN {} ELSE conf
    /\ UNCHANGED <<live, devices, tokens, expired, hosts, failed>>
Dies(S) ==
    /\ crashes < MaxCrashes
    /\ \E p \in S : proc[p] # None
    /\ crashes' = crashes + 1
    /\ proc' = [p \in Procs |-> IF p \in S THEN None ELSE proc[p]]
    /\ txn' = [p \in Procs |-> IF p \in S THEN None ELSE txn[p]]
    /\ CallsEnd(S)
    /\ UNCHANGED <<devices, tokens, expired, hosts, failed>>

Crash == Dies(Threads)
Kill(p) == p \in Shells /\ Dies({p})

-----------------------------------------------------------------------------
Steps(p) ==
    \/ ReadReservations(p) \/ Prepare(p) \/ Reject(p)
    \/ SyncHostsInside(p) \/ Commit(p) \/ EnrollFails(p)
    \/ PeerStep(p) \/ Ensured(p) \/ Removed(p) \/ EnsureRaises(p) \/ RemoveRaises(p)
    \/ DisableRow(p) \/ DisableFails(p)
    \/ ListDevices(p) \/ SyncHosts(p) \/ SyncHostsFails(p)

Next ==
    \/ \E p \in Procs :
          \/ \E d \in Devices, k \in Keys, t \in Tokens : Receive(p, d, k, t)
          \/ \E d \in Devices : StartRevoke(p, d)
          \/ StartSyncHosts(p)
          \/ Steps(p)
          \/ Kill(p)
    \/ \E t \in Tokens, scope \in Devices \cup {None} : IssueToken(t, scope)
    \/ \E t \in Tokens : PassTime(t)
    \/ Crash

Spec == Init /\ [][Next]_vars

\* A thread or a command that has something to do keeps running.
FairSpec == Spec /\ \A p \in Procs : WF_vars(Steps(p))

-----------------------------------------------------------------------------
(***************************************************************************)
(* Properties.                                                             *)
(***************************************************************************)
Enabled(d) == devices[d] # None /\ devices[d].enabled
Revoked(d) == devices[d] # None /\ ~devices[d].enabled

\* Once every operation has returned, a device the registry calls enabled has
\* its peer, under its own key and address, in the file and on the interface,
\* whichever stage of which operation failed, unless something died: a
\* revocation that dies may have removed the peer of a row still enabled.
EnabledIsConnected ==
    Quiet /\ crashes = 0 => \A d \in Devices : Enabled(d) =>
        /\ ManagedBlock(d, devices[d].key, devices[d].addr) \in conf
        /\ [key |-> devices[d].key, ips |-> {devices[d].addr}] \in live

\* Once every operation has returned, nothing connects a revoked device: no
\* block of its own in the file, and its key on no peer of the interface,
\* whatever failed or died before the row was disabled.
RevokedIsIsolated ==
    Quiet => \A d \in Devices : Revoked(d) =>
        /\ \A b \in conf : b.owner # d
        /\ \A q \in live : q.key # devices[d].key

\* An enrolment that fails leaves no peer behind: every managed block belongs
\* to a device the registry enabled.  A service that dies cannot remove its own.
NoOrphanPeer ==
    Quiet /\ crashes = 0 => \A b \in conf : b.owner # None => Enabled(b.owner)

\* Unless rendering the hosts file failed, or what would have rendered it died,
\* it names exactly the enabled devices once every operation has returned.
HostsAreCurrent ==
    Quiet /\ crashes = 0 /\ "hosts" \notin failed =>
        hosts = {[dev |-> d, addr |-> devices[d].addr] : d \in {e \in Devices : Enabled(e)}}

\* No device is ever given an address that an administrator's own peer uses,
\* although the file is read before the transaction that allocates.
RangesRespected ==
    \A d \in Enrolled, b \in Unmanaged : devices[d].addr \notin b.ips

\* The peers the administrator configured by hand stay on the interface.
UnmanagedStayConnected ==
    \A b \in Unmanaged : [key |-> b.key, ips |-> b.ips] \in live

\* Every operation returns and gives the write lock back, whatever the others
\* do while it waits.
EveryOperationReturns ==
    \A p \in Procs : proc[p] # None ~> proc[p] = None /\ txn[p] = None

\* What happens to the tables is the registry's own doing, and what happens to
\* the peers is the peer manager's: their theorems hold of the whole gateway.
UsesRegistry == RegistrySpec
UsesPeerManager == PeersSpec
=============================================================================
