----------------------------- MODULE PublicDns -----------------------------
(***************************************************************************)
(* The public names of the gateway: what enrolments (server/enroll_api.py) *)
(* and the administrators' commands (admin_ops.py, server/install.sh) do   *)
(* to the zone, beside what they do to the registry.                       *)
(*                                                                         *)
(* WireGuard peers and the hosts file are in EnrollmentService.tla; here   *)
(* they are a stage of an enrolment that may raise.  Addresses in use      *)
(* outside the registry are left out for the same reason.                  *)
(***************************************************************************)
EXTENDS Registry, DnsManager

CONSTANTS
    HostName,       \* the public name of each device
    Threads,        \* request threads of the service
    Shells,         \* administrators' commands
    Serial,         \* TRUE: an operation starts only when none is running
    MaxFailures     \* bound on the requests and stages that raise

ASSUME PublicDnsAssumption ==
    /\ HostName \in [Devices -> Names]
    /\ \A d, e \in Devices : HostName[d] = HostName[e] => d = e
    /\ Threads \cup Shells = Procs
    /\ Threads \cap Shells = {}
    /\ Serial \in BOOLEAN
    /\ MaxFailures \in Nat

VARIABLES
    configured,     \* server.env names a provider: what a command reads
    serving,        \* the running service was started with that provider
    proc,           \* the operation each process is in, or None
    failures,       \* what has raised so far
    dropped         \* names an administrator deleted by hand

envVars == <<configured, serving>>
vars == <<regVars, dnsVars, envVars, proc, failures, dropped>>

Target == [name: Names, want: {Ours, Nothing}]
Mutation == [name: Names, previous: Records]    \* of those that changed a name
Operation ==
    [op: {"enroll", "revoke", "sync", "install", "ensure", "delete"},
     at: {"prepare", "stages", "dns", "commit", "disable", "cleanup", "next", "restore"},
     dev: Devices \cup {None}, key: Keys \cup {None}, token: Tokens \cup {None},
     todo: SUBSET Target, done: SUBSET Mutation]

ASSUME OperationAssumption == None \notin Operation

PublicDnsTypeOK ==
    /\ RegistryTypeOK
    /\ DnsTypeOK
    /\ configured \in BOOLEAN
    /\ serving \in BOOLEAN
    /\ proc \in [Procs -> Operation \cup {None}]
    /\ failures \in 0..MaxFailures
    /\ dropped \in SUBSET Names

Init ==
    /\ RegistryInit
    /\ DnsInit
    /\ configured = FALSE
    /\ serving = FALSE
    /\ proc = [p \in Procs |-> None]
    /\ failures = 0
    /\ dropped = {}

-----------------------------------------------------------------------------
Quiet == \A p \in Procs : proc[p] = None

Idle(p) == proc[p] = None /\ (Serial => Quiet)

Doing(p, op, at) == proc[p] # None /\ proc[p].op = op /\ proc[p].at = at

Starts(p, op, at, d, k, t, todo) ==
    proc' = [proc EXCEPT ![p] =
        [op |-> op, at |-> at, dev |-> d, key |-> k, token |-> t, todo |-> todo, done |-> {}]]

Goes(p, at) == proc' = [proc EXCEPT ![p].at = at]

Returns(p) == proc' = [proc EXCEPT ![p] = None]

Fails == failures < MaxFailures /\ failures' = failures + 1

\* validate_device_hostname
Collides(d) == HostName[d] \in Operational

-----------------------------------------------------------------------------
(* Enrolment, after the token and the request were accepted.               *)

Receive(p, d, k, t) ==
    /\ p \in Threads
    /\ Idle(p)
    /\ Starts(p, "enroll", "prepare", d, k, t, {})
    /\ UNCHANGED <<regVars, dnsVars, envVars, failures, dropped>>

Prepare(p) ==
    /\ Doing(p, "enroll", "prepare")
    /\ BeginEnrollment(p, proc[p].dev, proc[p].key, proc[p].token, {})
    /\ Goes(p, "stages")
    /\ UNCHANGED <<dnsVars, envVars, failures, dropped>>

Reject(p) ==
    /\ Doing(p, "enroll", "prepare")
    /\ WriteLockFree => Refused(proc[p].dev, proc[p].key, proc[p].token, {})
    /\ Returns(p)
    /\ UNCHANGED <<regVars, dnsVars, envVars, failures, dropped>>

\* A service without a provider skips DNS.
MutNameDevice(p) ==
    /\ Doing(p, "enroll", "stages")
    /\ Goes(p, "commit")
    /\ UNCHANGED <<regVars, dnsVars, envVars, failures, dropped>>
NameDevice(p) ==
    /\ Doing(p, "enroll", "stages")
    /\ \/ /\ serving /\ ~Collides(proc[p].dev)
          /\ EnsureRecord(p, HostName[proc[p].dev])
          /\ Goes(p, "dns")
       \/ /\ ~serving
          /\ Goes(p, "commit")
          /\ UNCHANGED dns
    /\ UNCHANGED <<regVars, zone, envVars, failures, dropped>>

\* The peer or the hosts file raised, or the name is an operational one.
StageRaises(p) ==
    /\ Doing(p, "enroll", "stages")
    /\ \/ serving /\ Collides(proc[p].dev) /\ UNCHANGED failures
       \/ Fails
    /\ Rollback(p)
    /\ Returns(p)
    /\ UNCHANGED <<dnsVars, envVars, dropped>>

Commit(p) ==
    /\ Doing(p, "enroll", "commit")
    /\ CommitEnrollment(p)
    /\ Returns(p)
    /\ UNCHANGED <<dnsVars, envVars, failures, dropped>>

\* The registry rolls back before dns.restore is called.
CommitRaises(p) ==
    /\ Doing(p, "enroll", "commit")
    /\ Fails
    /\ Rollback(p)
    /\ IF proc[p].done = {} THEN Returns(p) ELSE Goes(p, "restore")
    /\ UNCHANGED <<dnsVars, envVars, dropped>>

-----------------------------------------------------------------------------
(* Revocation.  Its peer is gone when it comes to the registry.            *)

StartRevoke(p, d) ==
    /\ p \in Shells
    /\ Idle(p)
    /\ devices[d] # None
    /\ Starts(p, "revoke", IF devices[d].enabled THEN "disable" ELSE "cleanup", d, None, None, {})
    /\ UNCHANGED <<regVars, dnsVars, envVars, failures, dropped>>

DisableRow(p) ==
    /\ Doing(p, "revoke", "disable")
    /\ RevokeRow(proc[p].dev)
    /\ Goes(p, "cleanup")
    /\ UNCHANGED <<dnsVars, envVars, failures, dropped>>

DisableRaises(p) ==
    /\ Doing(p, "revoke", "disable")
    /\ \/ ~WriteLockFree /\ UNCHANGED failures
       \/ Fails
    /\ Returns(p)
    /\ UNCHANGED <<regVars, dnsVars, envVars, dropped>>

\* _cleanup_dns_after_revoke: best effort, and never for an operational name.
CleanUp(p) ==
    /\ Doing(p, "revoke", "cleanup")
    /\ IF configured /\ ~Collides(proc[p].dev)
       THEN DeleteRecord(p, HostName[proc[p].dev]) /\ Goes(p, "dns")
       ELSE Returns(p) /\ UNCHANGED dns
    /\ UNCHANGED <<regVars, zone, envVars, failures, dropped>>

-----------------------------------------------------------------------------
(* DNS commands, which need a configured provider.                         *)

StartEnsure(p, d) ==
    /\ p \in Shells
    /\ Idle(p)
    /\ configured
    /\ devices[d] # None /\ devices[d].enabled /\ ~Collides(d)
    /\ Starts(p, "ensure", "dns", d, None, None, {})
    /\ EnsureRecord(p, HostName[d])
    /\ UNCHANGED <<regVars, zone, envVars, failures, dropped>>

\* The row may be revoked, but its name must not be an operational one.
MutStartDelete(p, d) ==
    /\ p \in Shells
    /\ Idle(p)
    /\ configured
    /\ devices[d] # None
    /\ Starts(p, "delete", "dns", d, None, None, {})
    /\ DeleteRecord(p, HostName[d])
    /\ dropped' = dropped \cup {HostName[d]}
    /\ UNCHANGED <<regVars, zone, envVars, failures>>
StartDelete(p, d) ==
    /\ p \in Shells
    /\ Idle(p)
    /\ configured
    /\ devices[d] # None /\ ~Collides(d)
    /\ Starts(p, "delete", "dns", d, None, None, {})
    /\ DeleteRecord(p, HostName[d])
    /\ dropped' = dropped \cup {HostName[d]}
    /\ UNCHANGED <<regVars, zone, envVars, failures>>

\* list_devices, and the validation of every row before the first request: one
\* colliding name and sync_devices raises.
MutTargets ==
    {[name |-> n, want |-> Ours] : n \in Operational}
        \cup {[name |-> HostName[d], want |-> Ours] : d \in Enrolled}
Targets ==
    {[name |-> n, want |-> Ours] : n \in Operational}
        \cup {[name |-> HostName[d], want |-> IF devices[d].enabled THEN Ours ELSE Nothing] :
                 d \in Enrolled}

StartSync(p, op) ==
    /\ p \in Shells
    /\ Idle(p)
    /\ configured
    /\ \A d \in Enrolled : ~Collides(d)
    /\ Starts(p, op, "next", None, None, None, Targets)
    /\ UNCHANGED <<regVars, dnsVars, envVars, failures, dropped>>

SyncNext(p) ==
    /\ proc[p] # None
    /\ proc[p].at = "next"
    /\ \E e \in proc[p].todo :
          /\ \A f \in proc[p].todo : e.name <= f.name
          /\ DnsBegins(p, e.name, e.want)
          /\ proc' = [proc EXCEPT ![p].at = "dns", ![p].todo = @ \ {e}]
    /\ UNCHANGED <<regVars, zone, envVars, failures, dropped>>

SyncDone(p) ==
    /\ Doing(p, "sync", "next")
    /\ proc[p].todo = {}
    /\ Returns(p)
    /\ UNCHANGED <<regVars, dnsVars, envVars, failures, dropped>>

\* The service is started without stopping the one that runs.
MutInstallDone(p) ==
    /\ Doing(p, "install", "next")
    /\ proc[p].todo = {}
    /\ serving' = TRUE
    /\ Returns(p)
    /\ UNCHANGED <<regVars, dnsVars, configured, failures, dropped>>
\* server/install.sh goes on only when the sync succeeded, and restarts the
\* service: requests in flight die with it.
InstallDone(p) ==
    /\ Doing(p, "install", "next")
    /\ proc[p].todo = {}
    /\ serving' = TRUE
    /\ proc' = [q \in Procs |-> IF q \in Threads \cup {p} THEN None ELSE proc[q]]
    /\ txn' = [q \in Procs |-> IF q \in Threads THEN None ELSE txn[q]]
    /\ dns' = [q \in Procs |-> IF q \in Threads THEN None ELSE dns[q]]
    /\ UNCHANGED <<devices, tokens, expired, zone, configured, failures, dropped>>

-----------------------------------------------------------------------------
(* Requests to the provider, for whoever made them.                        *)

\* ensure_record or delete_record returned, with a mutation if it changed.
DnsReturns(p) ==
    /\ \/ /\ AlreadyThere(p)
          /\ CASE proc[p].op = "enroll" -> Goes(p, "commit")
               [] proc[p].op \in {"sync", "install"} -> Goes(p, "next")
               [] OTHER -> Returns(p)
       \/ /\ PutRecords(p)
          /\ LET m == [name |-> dns[p].name, previous |-> dns[p].previous]
             IN  CASE proc[p].op = "enroll" ->
                        proc' = [proc EXCEPT ![p].at = "commit", ![p].done = {m}]
                   [] proc[p].op \in {"sync", "install"} ->
                        proc' = [proc EXCEPT ![p].at = "next", ![p].done = @ \cup {m}]
                   [] OTHER -> Returns(p)
    /\ UNCHANGED <<regVars, envVars, failures, dropped>>

DnsStep(p) ==
    /\ \/ GetRecords(p) /\ UNCHANGED failures
       \/ PutRaises(p) /\ Fails
    /\ UNCHANGED <<regVars, envVars, proc, dropped>>

\* The call raised.
DnsRaises(p) ==
    /\ \/ GetRaises(p) /\ Fails
       \/ Revert(p) /\ UNCHANGED failures
       \/ RevertRaises(p) /\ Fails
    /\ IF proc[p].done = {} THEN Returns(p) ELSE Goes(p, "restore")
    /\ IF proc[p].op = "enroll" THEN Rollback(p) ELSE UNCHANGED regVars
    /\ UNCHANGED <<envVars, dropped>>

\* restore of one mutation, the last one first; what it raises is swallowed.
RestoreMutation(p) ==
    /\ proc[p] # None
    /\ proc[p].at = "restore"
    /\ \E m \in proc[p].done :
          /\ \A n \in proc[p].done : n.name <= m.name
          /\ \/ Sets(m.name, m.previous) /\ UNCHANGED failures
             \/ Loses(m.name, m.previous) /\ Fails
          /\ IF proc[p].done = {m}
             THEN Returns(p)
             ELSE proc' = [proc EXCEPT ![p].done = @ \ {m}]
    /\ UNCHANGED <<regVars, dns, envVars, dropped>>

-----------------------------------------------------------------------------
\* An administrator names a provider in server.env.
Configure ==
    /\ ~configured
    /\ configured' = TRUE
    /\ UNCHANGED <<regVars, dnsVars, serving, proc, failures, dropped>>

IssueToken(t, scope) ==
    /\ CreateToken(t, scope)
    /\ UNCHANGED <<dnsVars, envVars, proc, failures, dropped>>

Steps(p) ==
    \/ Prepare(p) \/ Reject(p) \/ NameDevice(p) \/ StageRaises(p) \/ Commit(p) \/ CommitRaises(p)
    \/ DisableRow(p) \/ DisableRaises(p) \/ CleanUp(p)
    \/ SyncNext(p) \/ SyncDone(p) \/ InstallDone(p)
    \/ DnsReturns(p) \/ DnsStep(p) \/ DnsRaises(p) \/ RestoreMutation(p)

Next ==
    \/ \E p \in Procs :
          \/ \E d \in Devices, k \in Keys, t \in Tokens : Receive(p, d, k, t)
          \/ \E d \in Devices : StartRevoke(p, d) \/ StartEnsure(p, d) \/ StartDelete(p, d)
          \/ \E op \in {"sync", "install"} : StartSync(p, op)
          \/ Steps(p)
    \/ Configure
    \/ \E t \in Tokens, scope \in Devices \cup {None} : IssueToken(t, scope)

Spec == Init /\ [][Next]_vars

-----------------------------------------------------------------------------
(***************************************************************************)
(* Properties.                                                             *)
(***************************************************************************)

\* The zone without the changes of operations that may still be undone.
SettledZone ==
    [n \in Names |->
        LET Undone(p) ==
                {m.previous : m \in {m \in proc[p].done : m.name = n}}
                    \cup {dns[q].previous : q \in {q \in {p} : AtDns(q, "revert") /\ dns[q].name = n}}
            before == UNION {Undone(p) : p \in {q \in Procs : proc[q] # None}}
        IN  IF before = {} THEN zone[n] ELSE CHOOSE r \in before : TRUE]

\* An operation changes its names together or, when one request of it raises,
\* applied or not, not at all; a second that raises may keep the first from
\* being undone.
Atomic == INSTANCE AtomicZone WITH zone <- SettledZone
ChangesAreAtomic == [][failures' <= 1 => Atomic!Next]_SettledZone

\* Once every operation has returned, and unless a request raised, the public
\* name of a revoked device is gone.
RevokedIsUnnamed ==
    configured /\ Quiet /\ failures = 0 =>
        \A d \in Enrolled : ~devices[d].enabled /\ ~Collides(d) => zone[HostName[d]] # Ours

\* Once every operation has returned, and whatever raised, an enabled device of
\* a service with a provider has its public name, unless it was deleted by hand.
EnabledIsNamed ==
    serving /\ Quiet =>
        \A d \in Enrolled : devices[d].enabled /\ HostName[d] \notin dropped =>
            zone[HostName[d]] = Ours

\* When a service with a provider commits a new device, no request having raised,
\* the device has its public name already: what the installer restarts, it
\* restarts with the requests that had skipped DNS.
EnrolledIsNamed ==
    [][serving /\ failures' = 0 =>
          \A d \in Devices : devices[d] = None /\ devices'[d] # None =>
              zone[HostName[d]] = Ours]_vars

\* Whatever the identifiers of devices, only a sync or the installer ever changes
\* an operational name: enrolments, revocations and the commands for one device,
\* and what they undo, leave it alone.
OperationalNamesStay ==
    [][\A o \in Operational : zone'[o] # zone[o] =>
          \E p \in Procs : proc[p] # None /\ proc[p].op \in {"sync", "install"}]_vars
=============================================================================
