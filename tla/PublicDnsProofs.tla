--------------------------- MODULE PublicDnsProofs ---------------------------
(***************************************************************************)
(* For every set of devices, names, threads and commands, and any number   *)
(* of requests that raise: the types of the zone and of the operations,    *)
(* the registry under them, and what the zone keeps through all of it.     *)
(*                                                                         *)
(* No property of the zone is inductive, for a request comes many steps    *)
(* after the read it was decided on.  TypeInv ties every call and every    *)
(* transaction to its operation; RowInv says that what an operation read   *)
(* of a row stays true, because rows are for ever; CommitInv carries the   *)
(* name of a device from the request that set it to the commit.            *)
(*                                                                         *)
(* The last three theorems are about operations that do not overlap, for   *)
(* nothing in the code keeps what they say when they do: NamedInv says     *)
(* what an operation under way may still change, UnnamedInv who has still  *)
(* to remove the name of a revoked device, and UndoInv that what an        *)
(* operation would put back is what it found.                              *)
(***************************************************************************)
EXTENDS PublicDns, RegistryProofs

\* sync and the installer go through a list of names; every other operation is
\* about one device.
Reconciles(o) == o.op \in {"sync", "install"}

\* What process p holds at each point of an operation o: a DNS call c exactly
\* at "dns", for the name of its device, and a transaction x from prepare to
\* commit.
Shape(p, o, c, x) ==
    IF o = None THEN c = None /\ x = None
    ELSE /\ c # None <=> o.at = "dns"
         /\ x # None <=> o.op = "enroll" /\ o.at \in {"stages", "dns", "commit"}
         /\ x # None => x.dev = o.dev
         /\ Reconciles(o) => p \in Shells /\ o.at \in {"next", "dns", "restore"}
         /\ ~Reconciles(o) =>
               /\ o.dev \in Devices
               /\ o.at # "next"
               /\ o.todo = {}
               /\ c # None =>
                     /\ c.name = HostName[o.dev]
                     /\ ~Collides(o.dev)
                     /\ c.want = IF o.op \in {"enroll", "ensure"} THEN Ours ELSE Nothing
               /\ \A m \in o.done : m.name = HostName[o.dev] /\ ~Collides(o.dev)
         /\ IF o.op = "enroll"
            THEN p \in Threads /\ o.key \in Keys /\ o.token \in Tokens
            ELSE ~Reconciles(o) => p \in Shells /\ o.done = {} /\ o.at # "restore"

ShapeInv == \A p \in Procs : Shape(p, proc[p], dns[p], txn[p])

Types ==
    /\ DnsTypeOK
    /\ configured \in BOOLEAN
    /\ serving \in BOOLEAN
    /\ proc \in [Procs -> Operation \cup {None}]
    /\ failures \in 0..MaxFailures
    /\ dropped \in SUBSET Names

TypeInv == IInv /\ Types /\ ShapeInv

LEMMA InitTypes == Init => TypeInv
<1> USE GatewaysAssumption, PublicDnsAssumption
<1> SUFFICES ASSUME Init PROVE TypeInv
  OBVIOUS
<1>1. IInv
  BY InitEstablishes DEF Init
<1>2. Types
  <2>1. zone \in [Names -> Records]
    BY DEF Init, DnsInit, Records
  <2>2. dns \in [Procs -> DnsCall \cup {None}] /\ proc \in [Procs -> Operation \cup {None}]
    BY DEF Init, DnsInit
  <2>3. failures \in 0..MaxFailures /\ dropped \in SUBSET Names
    BY DEF Init
  <2> QED BY <2>1, <2>2, <2>3 DEF Init, Types, DnsTypeOK
<1>3. ShapeInv
  BY DEF Init, ShapeInv, Shape, DnsInit, RegistryInit
<1> QED BY <1>1, <1>2, <1>3 DEF TypeInv

-----------------------------------------------------------------------------
(* What the steps of one process leave where they were.                    *)

\* The other processes.
Elsewhere(p) ==
    \A q \in Procs \ {p} : proc'[q] = proc[q] /\ dns'[q] = dns[q] /\ txn'[q] = txn[q]

\* Process p goes on with its operation, at x.
Moved(p, x) ==
    /\ proc'[p] \in Operation
    /\ proc'[p].op = proc[p].op
    /\ proc'[p].at = x
    /\ proc'[p].dev = proc[p].dev
    /\ proc'[p].key = proc[p].key
    /\ proc'[p].token = proc[p].token

Points == {"prepare", "stages", "dns", "commit", "disable", "cleanup", "next", "restore"}

LEMMA GoesMoves ==
    ASSUME Types, NEW p \in Procs, proc[p] # None, NEW x \in Points, Goes(p, x)
    PROVE  /\ proc' \in [Procs -> Operation \cup {None}]
           /\ Moved(p, x)
           /\ proc'[p].todo = proc[p].todo
           /\ proc'[p].done = proc[p].done
           /\ \A q \in Procs \ {p} : proc'[q] = proc[q]
<1>1. proc[p] \in Operation
  BY DEF Types
<1> DEFINE o == [proc[p] EXCEPT !.at = x]
<1>2. /\ o \in Operation /\ o.op = proc[p].op /\ o.at = x /\ o.dev = proc[p].dev
      /\ o.key = proc[p].key /\ o.token = proc[p].token
      /\ o.todo = proc[p].todo /\ o.done = proc[p].done
  BY <1>1 DEF Operation, Points
<1>3. proc' = [proc EXCEPT ![p] = o]
  BY DEF Goes
<1> HIDE DEF o
<1> QED BY <1>2, <1>3 DEF Types, Moved

LEMMA ReturnsMoves ==
    ASSUME Types, NEW p \in Procs, Returns(p)
    PROVE  /\ proc' \in [Procs -> Operation \cup {None}]
           /\ proc'[p] = None
           /\ \A q \in Procs \ {p} : proc'[q] = proc[q]
BY DEF Types, Returns

LEMMA StartsMoves ==
    ASSUME Types, NEW p \in Procs,
           NEW op \in {"enroll", "revoke", "sync", "install", "ensure", "delete"},
           NEW at \in Points, NEW d \in Devices \cup {None}, NEW k \in Keys \cup {None},
           NEW t \in Tokens \cup {None}, NEW todo \in SUBSET Target,
           Starts(p, op, at, d, k, t, todo)
    PROVE  /\ proc' \in [Procs -> Operation \cup {None}]
           /\ proc'[p] \in Operation
           /\ proc'[p].op = op /\ proc'[p].at = at /\ proc'[p].dev = d /\ proc'[p].key = k
           /\ proc'[p].token = t /\ proc'[p].todo = todo /\ proc'[p].done = {}
           /\ \A q \in Procs \ {p} : proc'[q] = proc[q]
<1> DEFINE o == [op |-> op, at |-> at, dev |-> d, key |-> k, token |-> t,
                 todo |-> todo, done |-> {}]
<1>1. /\ o \in Operation /\ o.op = op /\ o.at = at /\ o.dev = d /\ o.key = k
      /\ o.token = t /\ o.todo = todo /\ o.done = {}
  BY DEF Operation, Points
<1>2. proc' = [proc EXCEPT ![p] = o]
  BY DEF Starts
<1> HIDE DEF o
<1> QED BY <1>1, <1>2 DEF Types

\* A command for one device.
LEMMA StartsForDevice ==
    ASSUME Types, NEW p \in Procs, NEW op \in {"revoke", "ensure", "delete"},
           NEW at \in Points, NEW d \in Devices, Starts(p, op, at, d, None, None, {})
    PROVE  /\ proc' \in [Procs -> Operation \cup {None}]
           /\ proc'[p] \in Operation
           /\ proc'[p].op = op /\ proc'[p].at = at /\ proc'[p].dev = d
           /\ proc'[p].todo = {} /\ proc'[p].done = {}
           /\ \A q \in Procs \ {p} : proc'[q] = proc[q]
<1>1. {} \in SUBSET Target /\ op \in {"enroll", "revoke", "sync", "install", "ensure", "delete"}
  OBVIOUS
<1> QED BY <1>1, StartsMoves

LEMMA BeginsCall ==
    ASSUME Types, NEW p \in Procs, NEW n \in Names, NEW want \in {Ours, Nothing},
           DnsBegins(p, n, want)
    PROVE  /\ dns' \in [Procs -> DnsCall \cup {None}]
           /\ dns'[p] # None
           /\ dns'[p].step = "get" /\ dns'[p].name = n /\ dns'[p].want = want
           /\ \A q \in Procs \ {p} : dns'[q] = dns[q]
<1> DEFINE c == [step |-> "get", name |-> n, want |-> want, previous |-> Nothing]
<1>1. c \in DnsCall /\ c.step = "get" /\ c.name = n /\ c.want = want
  BY DEF DnsCall, Records
<1>2. dns' = [dns EXCEPT ![p] = c]
  BY DEF DnsBegins
<1> HIDE DEF c
<1> QED BY <1>1, <1>2, DnsCallAssumption DEF Types, DnsTypeOK

LEMMA EndsCall ==
    ASSUME Types, NEW p \in Procs, DnsEnds(p)
    PROVE  /\ dns' \in [Procs -> DnsCall \cup {None}]
           /\ dns'[p] = None
           /\ \A q \in Procs \ {p} : dns'[q] = dns[q]
BY DEF Types, DnsTypeOK, DnsEnds

\* A transaction begins and ends with its process's.
LEMMA TransactionMoves ==
    ASSUME IInv, NEW p \in Procs
    PROVE  /\ \A d \in Devices, k \in Keys, t \in Tokens :
                 BeginEnrollment(p, d, k, t, {}) =>
                     /\ txn'[p] # None /\ txn'[p].dev = d
                     /\ \A q \in Procs \ {p} : txn'[q] = txn[q]
           /\ CommitEnrollment(p) \/ Rollback(p) =>
                 /\ txn'[p] = None
                 /\ \A q \in Procs \ {p} : txn'[q] = txn[q]
<1>1. ASSUME NEW d \in Devices, NEW k \in Keys, NEW t \in Tokens,
             BeginEnrollment(p, d, k, t, {})
      PROVE  /\ txn'[p] # None /\ txn'[p].dev = d
             /\ \A q \in Procs \ {p} : txn'[q] = txn[q]
  <2>1. PICK draft \in Txn : txn' = [txn EXCEPT ![p] = draft] /\ draft.dev = d
    BY <1>1, BeginDraft
  <2> QED BY <2>1, RegistryAssumption DEF IInv, RegistryTypeOK
<1>2. ASSUME CommitEnrollment(p) \/ Rollback(p)
      PROVE  /\ txn'[p] = None
             /\ \A q \in Procs \ {p} : txn'[q] = txn[q]
  BY <1>2 DEF CommitEnrollment, Rollback, IInv, RegistryTypeOK
<1> QED BY <1>1, <1>2

-----------------------------------------------------------------------------
(* What the registry sees of a step.                                       *)

LEMMA PrepareIsARegistryStep ==
    ASSUME TypeInv, NEW p \in Procs, Prepare(p)
    PROVE  RegistryNext
<1>1. /\ proc[p].dev \in Devices /\ proc[p].key \in Keys /\ proc[p].token \in Tokens
  BY DEF TypeInv, ShapeInv, Shape, Reconciles, Prepare, Doing
<1>2. BeginEnrollment(p, proc[p].dev, proc[p].key, proc[p].token, {})
  BY DEF Prepare
<1> QED BY <1>1, <1>2 DEF RegistryNext

\* At most one transaction is open, so the restart of the service ends one or
\* none.
LEMMA RestartIsARegistryStep ==
    ASSUME TypeInv, NEW p \in Procs, InstallDone(p)
    PROVE  [RegistryNext]_regVars
<1>1. txn' = [q \in Procs |-> IF q \in Threads THEN None ELSE txn[q]]
      /\ UNCHANGED <<devices, tokens, expired>>
  BY DEF InstallDone
<1>2. txn \in [Procs -> Txn \cup {None}]
  BY DEF TypeInv, IInv, RegistryTypeOK
<1>3. CASE \E r \in Threads : txn[r] # None
  <2>1. PICK r \in Threads : txn[r] # None
    BY <1>3
  <2>2. r \in Procs
    BY PublicDnsAssumption
  <2>3. \A q \in Procs \ {r} : txn[q] = None
    BY <2>1, <2>2 DEF TypeInv, IInv, OneWriter
  <2>4. txn' = [txn EXCEPT ![r] = None]
    <3>1. \A q \in Procs : (IF q \in Threads THEN None ELSE txn[q]) = IF q = r THEN None ELSE txn[q]
      BY <2>1, <2>2, <2>3
    <3> QED BY <1>1, <1>2, <3>1
  <2>5. Rollback(r)
    BY <1>1, <2>1, <2>4 DEF Rollback
  <2> QED BY <2>2, <2>5 DEF RegistryNext
<1>4. CASE \A r \in Threads : txn[r] = None
  <2>1. txn' = txn
    BY <1>1, <1>2, <1>4
  <2> QED BY <1>1, <2>1 DEF regVars
<1> QED BY <1>3, <1>4

LEMMA StepIsARegistryStep ==
    TypeInv /\ [Next]_vars => [RegistryNext]_regVars
<1> SUFFICES ASSUME TypeInv, [Next]_vars
             PROVE  [RegistryNext]_regVars
  OBVIOUS
<1>1. CASE UNCHANGED vars
  BY <1>1 DEF vars, regVars
<1>2. ASSUME NEW p \in Procs, Steps(p)
      PROVE  [RegistryNext]_regVars
  <2>1. CASE Prepare(p)
    BY <2>1, PrepareIsARegistryStep
  <2>2. CASE InstallDone(p)
    BY <2>2, RestartIsARegistryStep
  <2>3. CASE DisableRow(p)
    <3>1. proc[p].dev \in Devices
      BY <2>3 DEF DisableRow, Doing, TypeInv, ShapeInv, Shape, Reconciles
    <3> QED BY <2>3, <3>1 DEF DisableRow, RegistryNext
  <2>4. CASE StageRaises(p) \/ Commit(p) \/ CommitRaises(p)
    BY <2>4 DEF StageRaises, Commit, CommitRaises, RegistryNext
  <2>5. CASE DnsRaises(p)
    BY <2>5 DEF DnsRaises, RegistryNext
  <2>6. CASE \/ Reject(p) \/ NameDevice(p) \/ DisableRaises(p) \/ CleanUp(p) \/ SyncNext(p)
             \/ SyncDone(p) \/ DnsReturns(p) \/ DnsStep(p) \/ RestoreMutation(p)
    BY <2>6 DEF Reject, NameDevice, DisableRaises, CleanUp, SyncNext, SyncDone,
                DnsReturns, DnsStep, RestoreMutation
  <2> QED BY <1>2, <2>1, <2>2, <2>3, <2>4, <2>5, <2>6 DEF Steps
<1>3. ASSUME NEW p \in Procs,
             \/ \E d \in Devices, k \in Keys, t \in Tokens : Receive(p, d, k, t)
             \/ \E d \in Devices : StartRevoke(p, d) \/ StartEnsure(p, d) \/ StartDelete(p, d)
             \/ \E op \in {"sync", "install"} : StartSync(p, op)
      PROVE  UNCHANGED regVars
  BY <1>3 DEF Receive, StartRevoke, StartEnsure, StartDelete, StartSync
<1>4. CASE Configure
  BY <1>4 DEF Configure
<1>5. ASSUME NEW t \in Tokens, NEW scope \in Devices \cup {None}, IssueToken(t, scope)
      PROVE  RegistryNext
  BY <1>5 DEF IssueToken, RegistryNext
<1> QED BY <1>1, <1>2, <1>3, <1>4, <1>5 DEF Next

-----------------------------------------------------------------------------
(* A step of one process keeps the types and the shapes.                   *)

LEMMA OneMoves ==
    ASSUME TypeInv, NEW p \in Procs, Elsewhere(p), Shape(p, proc'[p], dns'[p], txn'[p])
    PROVE  ShapeInv'
<1>1. \A q \in Procs \ {p} : Shape(q, proc'[q], dns'[q], txn'[q])
  BY DEF TypeInv, ShapeInv, Elsewhere
<1> QED BY <1>1 DEF ShapeInv

\* The conjuncts of Types that most steps leave alone.
LEMMA TypesKept ==
    ASSUME Types, proc' \in [Procs -> Operation \cup {None}],
           dns' \in [Procs -> DnsCall \cup {None}],
           UNCHANGED <<zone, envVars, failures, dropped>>
    PROVE  Types'
BY DEF Types, DnsTypeOK, envVars

LEMMA FailsCounts == ASSUME Types, Fails PROVE failures' \in 0..MaxFailures
BY PublicDnsAssumption DEF Types, Fails

LEMMA StartsKeepTypes ==
    ASSUME TypeInv, NEW p \in Procs, NEW d \in Devices,
           \/ \E k \in Keys, t \in Tokens : Receive(p, d, k, t)
           \/ StartRevoke(p, d) \/ StartEnsure(p, d) \/ StartDelete(p, d)
    PROVE  Types' /\ ShapeInv' /\ Elsewhere(p)
<1> USE PublicDnsAssumption DEF TypeInv
<1>1. proc[p] = None /\ dns[p] = None /\ txn[p] = None
  BY DEF Receive, StartRevoke, StartEnsure, StartDelete, Idle, ShapeInv, Shape
<1>2. dns \in [Procs -> DnsCall \cup {None}] /\ HostName[d] \in Names
  BY DEF Types, DnsTypeOK
<1>3. ASSUME NEW k \in Keys, NEW t \in Tokens, Receive(p, d, k, t)
      PROVE  Types' /\ ShapeInv' /\ Elsewhere(p)
  <2>1. Starts(p, "enroll", "prepare", d, k, t, {}) /\ UNCHANGED <<txn, dns>>
        /\ UNCHANGED <<zone, envVars, failures, dropped>> /\ p \in Threads
    BY <1>3 DEF Receive, regVars, dnsVars
  <2>2. /\ proc' \in [Procs -> Operation \cup {None}]
        /\ proc'[p] \in Operation
        /\ proc'[p].op = "enroll" /\ proc'[p].at = "prepare" /\ proc'[p].dev = d
        /\ proc'[p].key = k /\ proc'[p].token = t /\ proc'[p].todo = {} /\ proc'[p].done = {}
        /\ \A q \in Procs \ {p} : proc'[q] = proc[q]
    BY <2>1, StartsMoves DEF Points
  <2>3. Types' /\ Elsewhere(p)
    BY <1>2, <2>1, <2>2, TypesKept DEF Elsewhere
  <2>4. Shape(p, proc'[p], dns'[p], txn'[p])
    BY <1>1, <2>1, <2>2, OperationAssumption DEF Shape, Reconciles
  <2> QED BY <2>3, <2>4, OneMoves
<1>4. CASE StartRevoke(p, d)
  <2> DEFINE x == IF devices[d].enabled THEN "disable" ELSE "cleanup"
  <2>1. Starts(p, "revoke", x, d, None, None, {}) /\ UNCHANGED <<txn, dns>>
        /\ UNCHANGED <<zone, envVars, failures, dropped>> /\ p \in Shells
    BY <1>4 DEF StartRevoke, regVars, dnsVars
  <2>2. x \in {"disable", "cleanup"}
    BY Zenon DEF x
  <2> HIDE DEF x
  <2>3. /\ proc' \in [Procs -> Operation \cup {None}]
        /\ proc'[p] \in Operation
        /\ proc'[p].op = "revoke" /\ proc'[p].at = x /\ proc'[p].dev = d
        /\ proc'[p].todo = {} /\ proc'[p].done = {}
        /\ \A q \in Procs \ {p} : proc'[q] = proc[q]
    BY <2>1, <2>2, StartsForDevice DEF Points
  <2>4. Types' /\ Elsewhere(p)
    BY <1>2, <2>1, <2>3, TypesKept DEF Elsewhere
  <2>5. Shape(p, proc'[p], dns'[p], txn'[p])
    BY <1>1, <2>1, <2>2, <2>3, OperationAssumption DEF Shape, Reconciles
  <2> QED BY <2>4, <2>5, OneMoves
<1>5. CASE StartEnsure(p, d)
  <2>1. Starts(p, "ensure", "dns", d, None, None, {}) /\ DnsBegins(p, HostName[d], Ours)
        /\ UNCHANGED <<txn, zone, envVars, failures, dropped>> /\ p \in Shells /\ ~Collides(d)
    BY <1>5 DEF StartEnsure, EnsureRecord, regVars
  <2>2. /\ proc' \in [Procs -> Operation \cup {None}]
        /\ proc'[p] \in Operation
        /\ proc'[p].op = "ensure" /\ proc'[p].at = "dns" /\ proc'[p].dev = d
        /\ proc'[p].todo = {} /\ proc'[p].done = {}
        /\ \A q \in Procs \ {p} : proc'[q] = proc[q]
    BY <2>1, StartsForDevice DEF Points
  <2>3. /\ dns' \in [Procs -> DnsCall \cup {None}]
        /\ dns'[p] # None /\ dns'[p].name = HostName[d] /\ dns'[p].want = Ours
        /\ \A q \in Procs \ {p} : dns'[q] = dns[q]
    BY <1>2, <2>1, BeginsCall
  <2>4. Types' /\ Elsewhere(p)
    BY <2>1, <2>2, <2>3, TypesKept DEF Elsewhere
  <2>5. Shape(p, proc'[p], dns'[p], txn'[p])
    BY <1>1, <2>1, <2>2, <2>3, OperationAssumption DEF Shape, Reconciles
  <2> QED BY <2>4, <2>5, OneMoves
<1>6. CASE StartDelete(p, d)
  <2>1. Starts(p, "delete", "dns", d, None, None, {}) /\ DnsBegins(p, HostName[d], Nothing)
        /\ UNCHANGED <<txn, zone, envVars, failures>> /\ p \in Shells /\ ~Collides(d)
        /\ dropped' = dropped \cup {HostName[d]}
    BY <1>6 DEF StartDelete, DeleteRecord, regVars
  <2>2. /\ proc' \in [Procs -> Operation \cup {None}]
        /\ proc'[p] \in Operation
        /\ proc'[p].op = "delete" /\ proc'[p].at = "dns" /\ proc'[p].dev = d
        /\ proc'[p].todo = {} /\ proc'[p].done = {}
        /\ \A q \in Procs \ {p} : proc'[q] = proc[q]
    BY <2>1, StartsForDevice DEF Points
  <2>3. /\ dns' \in [Procs -> DnsCall \cup {None}]
        /\ dns'[p] # None /\ dns'[p].name = HostName[d] /\ dns'[p].want = Nothing
        /\ \A q \in Procs \ {p} : dns'[q] = dns[q]
    BY <1>2, <2>1, BeginsCall
  <2>4. Types' /\ Elsewhere(p)
    BY <1>2, <2>1, <2>2, <2>3 DEF Elsewhere, Types, DnsTypeOK, envVars
  <2>5. Shape(p, proc'[p], dns'[p], txn'[p])
    BY <1>1, <2>1, <2>2, <2>3, OperationAssumption DEF Shape, Reconciles
  <2> QED BY <2>4, <2>5, OneMoves
<1> QED BY <1>3, <1>4, <1>5, <1>6

LEMMA TargetsTyped == Types => Targets \in SUBSET Target
<1> USE PublicDnsAssumption, DnsManagerAssumption
<1> SUFFICES ASSUME Types, NEW e \in Targets PROVE e \in Target
  OBVIOUS
<1>1. CASE \E n \in Operational : e = [name |-> n, want |-> Ours]
  BY <1>1 DEF Target
<1>2. CASE \E d \in Enrolled : e = [name |-> HostName[d],
                                    want |-> IF devices[d].enabled THEN Ours ELSE Nothing]
  BY <1>2 DEF Target, Enrolled
<1> QED BY <1>1, <1>2 DEF Targets

LEMMA SyncKeepsTypes ==
    ASSUME TypeInv, NEW p \in Procs,
           \/ \E op \in {"sync", "install"} : StartSync(p, op)
           \/ SyncNext(p) \/ SyncDone(p)
    PROVE  Types' /\ ShapeInv' /\ Elsewhere(p)
<1> USE PublicDnsAssumption DEF TypeInv
<1>1. Shape(p, proc[p], dns[p], txn[p]) /\ dns \in [Procs -> DnsCall \cup {None}]
      /\ proc[p] \in Operation \cup {None}
  BY DEF ShapeInv, Types, DnsTypeOK
<1>2. ASSUME NEW op \in {"sync", "install"}, StartSync(p, op)
      PROVE  Types' /\ ShapeInv' /\ Elsewhere(p)
  <2>1. Starts(p, op, "next", None, None, None, Targets) /\ UNCHANGED <<txn, dns>>
        /\ UNCHANGED <<zone, envVars, failures, dropped>> /\ p \in Shells /\ proc[p] = None
    BY <1>2 DEF StartSync, Idle, regVars, dnsVars
  <2>2. /\ proc' \in [Procs -> Operation \cup {None}]
        /\ proc'[p] \in Operation
        /\ proc'[p].op = op /\ proc'[p].at = "next"
        /\ \A q \in Procs \ {p} : proc'[q] = proc[q]
    BY <2>1, StartsMoves, TargetsTyped DEF Points
  <2>3. Types' /\ Elsewhere(p)
    BY <1>1, <2>1, <2>2, TypesKept DEF Elsewhere
  <2>4. Shape(p, proc'[p], dns'[p], txn'[p])
    BY <1>1, <2>1, <2>2, OperationAssumption DEF Shape, Reconciles
  <2> QED BY <2>3, <2>4, OneMoves
<1>3. CASE SyncNext(p)
  <2>1. PICK e \in proc[p].todo :
           /\ DnsBegins(p, e.name, e.want)
           /\ proc' = [proc EXCEPT ![p].at = "dns", ![p].todo = @ \ {e}]
    BY <1>3 DEF SyncNext
  <2>2. UNCHANGED <<txn, zone, envVars, failures, dropped>> /\ proc[p] # None
        /\ proc[p].at = "next"
    BY <1>3 DEF SyncNext, regVars
  <2>3. e.name \in Names /\ e.want \in {Ours, Nothing} /\ proc[p] \in Operation
    BY <1>1, <2>2 DEF Operation, Target
  <2> DEFINE o == [proc[p] EXCEPT !.at = "dns", !.todo = @ \ {e}]
  <2>4. /\ o \in Operation /\ o.op = proc[p].op /\ o.at = "dns" /\ o.dev = proc[p].dev
        /\ o.done = proc[p].done
    BY <2>3 DEF Operation
  <2>5. proc' = [proc EXCEPT ![p] = o]
    BY <2>1
  <2> HIDE DEF o
  <2>6. /\ proc' \in [Procs -> Operation \cup {None}]
        /\ proc'[p] = o
        /\ \A q \in Procs \ {p} : proc'[q] = proc[q]
    BY <2>4, <2>5 DEF Types
  <2>7. /\ dns' \in [Procs -> DnsCall \cup {None}]
        /\ dns'[p] # None
        /\ \A q \in Procs \ {p} : dns'[q] = dns[q]
    BY <2>1, <2>3, BeginsCall
  <2>8. Types' /\ Elsewhere(p)
    BY <2>2, <2>6, <2>7, TypesKept DEF Elsewhere
  <2>9. Shape(p, proc'[p], dns'[p], txn'[p])
    BY <1>1, <2>2, <2>4, <2>6, <2>7, OperationAssumption DEF Shape, Reconciles
  <2> QED BY <2>8, <2>9, OneMoves
<1>4. CASE SyncDone(p)
  <2>1. Returns(p) /\ UNCHANGED <<txn, zone, dns, envVars, failures, dropped>>
        /\ dns[p] = None /\ txn[p] = None
    BY <1>1, <1>4 DEF SyncDone, Doing, Shape, Reconciles, regVars, dnsVars
  <2>2. Types' /\ Elsewhere(p)
    BY <1>1, <2>1, ReturnsMoves, TypesKept DEF Elsewhere
  <2>3. Shape(p, proc'[p], dns'[p], txn'[p])
    BY <1>1, <2>1, ReturnsMoves DEF Shape
  <2> QED BY <2>2, <2>3, OneMoves
<1> QED BY <1>2, <1>3, <1>4

LEMMA EnrollmentKeepsTypes ==
    ASSUME TypeInv, NEW p \in Procs,
           \/ Prepare(p) \/ Reject(p) \/ NameDevice(p)
           \/ StageRaises(p) \/ Commit(p) \/ CommitRaises(p)
    PROVE  Types' /\ ShapeInv' /\ Elsewhere(p)
<1> USE PublicDnsAssumption DEF TypeInv, Points
<1> DEFINE o == proc[p]
<1>1. Shape(p, o, dns[p], txn[p]) /\ dns \in [Procs -> DnsCall \cup {None}]
  BY DEF ShapeInv, Types, DnsTypeOK
<1>2. o # None /\ o \in Operation /\ o.op = "enroll"
      /\ o.at \in {"prepare", "stages", "commit"}
      /\ o.dev \in Devices /\ o.key \in Keys /\ o.token \in Tokens /\ HostName[o.dev] \in Names
      /\ dns[p] = None
  <2>1. o # None /\ o.op = "enroll" /\ o.at \in {"prepare", "stages", "commit"}
    BY DEF Prepare, Reject, NameDevice, StageRaises, Commit, CommitRaises, Doing
  <2> QED BY <1>1, <2>1 DEF Types, Shape, Reconciles
<1>3. CASE Prepare(p)
  <2>1. BeginEnrollment(p, o.dev, o.key, o.token, {}) /\ Goes(p, "stages")
        /\ UNCHANGED <<zone, dns, envVars, failures, dropped>>
    BY <1>3 DEF Prepare, dnsVars
  <2>2. txn'[p] # None /\ txn'[p].dev = o.dev /\ \A q \in Procs \ {p} : txn'[q] = txn[q]
    BY <1>2, <2>1, TransactionMoves
  <2>3. Types' /\ Elsewhere(p)
    BY <1>1, <1>2, <2>1, <2>2, GoesMoves, TypesKept DEF Elsewhere
  <2>4. Shape(p, proc'[p], dns'[p], txn'[p])
    BY <1>1, <1>2, <2>1, <2>2, GoesMoves, OperationAssumption DEF Moved, Shape, Reconciles
  <2> QED BY <2>3, <2>4, OneMoves
<1>4. CASE Reject(p)
  <2>1. Returns(p) /\ UNCHANGED <<txn, zone, dns, envVars, failures, dropped>> /\ txn[p] = None
    BY <1>1, <1>2, <1>4 DEF Reject, Doing, Shape, regVars, dnsVars
  <2>2. Types' /\ Elsewhere(p)
    BY <1>1, <2>1, ReturnsMoves, TypesKept DEF Elsewhere
  <2>3. Shape(p, proc'[p], dns'[p], txn'[p])
    BY <1>2, <2>1, ReturnsMoves DEF Shape
  <2> QED BY <2>2, <2>3, OneMoves
<1>5. CASE NameDevice(p)
  <2>1. UNCHANGED <<txn, zone, envVars, failures, dropped>> /\ o.at = "stages"
    BY <1>5 DEF NameDevice, Doing, regVars
  <2>2. CASE ~Collides(o.dev) /\ DnsBegins(p, HostName[o.dev], Ours) /\ Goes(p, "dns")
    <3>1. /\ dns' \in [Procs -> DnsCall \cup {None}]
          /\ dns'[p] # None /\ dns'[p].name = HostName[o.dev] /\ dns'[p].want = Ours
          /\ \A q \in Procs \ {p} : dns'[q] = dns[q]
      BY <1>2, <2>2, BeginsCall
    <3>2. Types' /\ Elsewhere(p)
      BY <1>2, <2>1, <2>2, <3>1, GoesMoves, TypesKept DEF Elsewhere
    <3>3. Shape(p, proc'[p], dns'[p], txn'[p])
      BY <1>1, <1>2, <2>1, <2>2, <3>1, GoesMoves, OperationAssumption DEF Moved, Shape, Reconciles
    <3> QED BY <3>2, <3>3, OneMoves
  <2>3. CASE Goes(p, "commit") /\ UNCHANGED dns
    <3>1. Types' /\ Elsewhere(p)
      BY <1>1, <1>2, <2>1, <2>3, GoesMoves, TypesKept DEF Elsewhere
    <3>2. Shape(p, proc'[p], dns'[p], txn'[p])
      BY <1>1, <1>2, <2>1, <2>3, GoesMoves, OperationAssumption DEF Moved, Shape, Reconciles
    <3> QED BY <3>1, <3>2, OneMoves
  <2> QED BY <1>5, <2>2, <2>3 DEF NameDevice, EnsureRecord
<1>6. CASE StageRaises(p) \/ Commit(p) \/ CommitRaises(p)
  <2>1. (CommitEnrollment(p) \/ Rollback(p)) /\ UNCHANGED <<zone, dns, envVars, dropped>>
    BY <1>6 DEF StageRaises, Commit, CommitRaises, dnsVars
  <2>2. Returns(p) \/ Goes(p, "restore")
    BY <1>6 DEF StageRaises, Commit, CommitRaises
  <2>3. failures' \in 0..MaxFailures
    BY <1>6, FailsCounts DEF StageRaises, Commit, CommitRaises, Types
  <2>4. txn'[p] = None /\ \A q \in Procs \ {p} : txn'[q] = txn[q]
    BY <2>1, TransactionMoves
  <2>5. proc' \in [Procs -> Operation \cup {None}] /\ Elsewhere(p)
    BY <1>2, <2>1, <2>2, <2>4, GoesMoves, ReturnsMoves DEF Elsewhere
  <2>6. Types'
    BY <1>1, <2>1, <2>3, <2>5 DEF Types, DnsTypeOK, envVars
  <2>7. Shape(p, proc'[p], dns'[p], txn'[p])
    BY <1>1, <1>2, <2>1, <2>2, <2>4, GoesMoves, ReturnsMoves, OperationAssumption
       DEF Moved, Shape, Reconciles
  <2> QED BY <2>5, <2>6, <2>7, OneMoves
<1> QED BY <1>3, <1>4, <1>5, <1>6

LEMMA RevocationKeepsTypes ==
    ASSUME TypeInv, NEW p \in Procs, DisableRow(p) \/ DisableRaises(p) \/ CleanUp(p)
    PROVE  Types' /\ ShapeInv' /\ Elsewhere(p)
<1> USE PublicDnsAssumption DEF TypeInv, Points
<1> DEFINE o == proc[p]
<1>1. Shape(p, o, dns[p], txn[p]) /\ dns \in [Procs -> DnsCall \cup {None}]
  BY DEF ShapeInv, Types, DnsTypeOK
<1>2. o # None /\ o \in Operation /\ o.op = "revoke" /\ o.at \in {"disable", "cleanup"}
      /\ o.dev \in Devices /\ HostName[o.dev] \in Names /\ dns[p] = None /\ txn[p] = None
  <2>1. o # None /\ o.op = "revoke" /\ o.at \in {"disable", "cleanup"}
    BY DEF DisableRow, DisableRaises, CleanUp, Doing
  <2> QED BY <1>1, <2>1 DEF Types, Shape, Reconciles
<1>3. CASE ~Collides(o.dev) /\ DnsBegins(p, HostName[o.dev], Nothing) /\ Goes(p, "dns")
           /\ UNCHANGED <<txn, zone, envVars, failures, dropped>>
  <2>1. /\ dns' \in [Procs -> DnsCall \cup {None}]
        /\ dns'[p] # None /\ dns'[p].name = HostName[o.dev] /\ dns'[p].want = Nothing
        /\ \A q \in Procs \ {p} : dns'[q] = dns[q]
    BY <1>2, <1>3, BeginsCall
  <2>2. Types' /\ Elsewhere(p)
    BY <1>2, <1>3, <2>1, GoesMoves, TypesKept DEF Elsewhere
  <2>3. Shape(p, proc'[p], dns'[p], txn'[p])
    BY <1>1, <1>2, <1>3, <2>1, GoesMoves, OperationAssumption DEF Moved, Shape, Reconciles
  <2> QED BY <2>2, <2>3, OneMoves
<1>4. CASE /\ Goes(p, "cleanup") \/ Returns(p)
           /\ failures' \in 0..MaxFailures
           /\ UNCHANGED <<txn, zone, dns, envVars, dropped>>
  <2>1. proc' \in [Procs -> Operation \cup {None}] /\ Elsewhere(p)
    BY <1>2, <1>4, GoesMoves, ReturnsMoves DEF Elsewhere
  <2>2. Types'
    BY <1>1, <1>4, <2>1 DEF Types, DnsTypeOK, envVars
  <2>3. Shape(p, proc'[p], dns'[p], txn'[p])
    BY <1>1, <1>2, <1>4, GoesMoves, ReturnsMoves, OperationAssumption
       DEF Moved, Shape, Reconciles
  <2> QED BY <2>1, <2>2, <2>3, OneMoves
<1>5. CASE DisableRow(p)
  BY <1>4, <1>5 DEF DisableRow, RevokeRow, Types, dnsVars
<1>6. CASE DisableRaises(p)
  BY <1>4, <1>6, FailsCounts DEF DisableRaises, Types, dnsVars, regVars
<1>7. CASE CleanUp(p)
  BY <1>3, <1>4, <1>7 DEF CleanUp, DeleteRecord, Types, regVars
<1> QED BY <1>5, <1>6, <1>7

-----------------------------------------------------------------------------
(* The requests.                                                           *)

LEMMA SetsOne ==
    ASSUME Types, NEW n \in Names, NEW r \in Records, Loses(n, r)
    PROVE  /\ zone' \in [Names -> Records]
           /\ \A m \in Names \ {n} : zone'[m] = zone[m]
           /\ Sets(n, r) => zone'[n] = r
           /\ zone'[n] \in {r, zone[n]}
BY DEF Types, DnsTypeOK, Loses, Sets

\* A process in a call has an operation at "dns" and leaves the call typed.
LEMMA CallTyped ==
    ASSUME TypeInv, NEW p \in Procs, dns[p] # None
    PROVE  /\ dns[p] \in DnsCall
           /\ dns[p].name \in Names /\ dns[p].want \in {Ours, Nothing}
           /\ dns[p].want \in Records /\ dns[p].previous \in Records
           /\ dns[p].step \in {"get", "put", "revert"}
           /\ proc[p] # None /\ proc[p] \in Operation /\ proc[p].at = "dns"
<1>1. dns[p] \in DnsCall
  BY DEF TypeInv, Types, DnsTypeOK
<1>2. proc[p] # None /\ proc[p].at = "dns"
  BY DEF TypeInv, ShapeInv, Shape
<1> QED BY <1>1, <1>2 DEF TypeInv, Types, DnsCall, Records

\* What an operation has to undo after the call of p changed a name.
Recorded(p) ==
    {[name |-> dns[p].name, previous |-> dns[p].previous]}
        \cup (IF proc[p].op = "enroll" THEN {} ELSE proc[p].done)

\* What a call that returns leaves: the name as it was wanted, and a mutation
\* only if it was changed.
ReturnEffect(p) ==
    /\ zone' \in [Names -> Records]
    /\ zone'[dns[p].name] = dns[p].want
    /\ \A n \in Names \ {dns[p].name} : zone'[n] = zone[n]
    /\ dns[p].step = "get" => zone' = zone
    /\ dns[p].step # "revert"
    /\ dns'[p] = None
    /\ \/ proc'[p] = None /\ proc[p].op \in {"revoke", "ensure", "delete"}
       \/ /\ \/ proc[p].op = "enroll" /\ Moved(p, "commit")
             \/ Reconciles(proc[p]) /\ Moved(p, "next")
          /\ proc'[p].todo = proc[p].todo
          /\ dns[p].step = "get" => proc'[p].done = proc[p].done
          /\ dns[p].step = "put" => proc'[p].done = Recorded(p)
    /\ UNCHANGED <<regVars, envVars, failures, dropped>>

LEMMA DnsReturnsEffect ==
    ASSUME TypeInv, NEW p \in Procs, DnsReturns(p)
    PROVE  ReturnEffect(p) /\ dns[p] # None /\ Types' /\ ShapeInv' /\ Elsewhere(p)
<1> USE PublicDnsAssumption DEF TypeInv, Points
<1> DEFINE o == proc[p]
           c == dns[p]
<1>1. c # None
  BY DEF DnsReturns, AlreadyThere, PutRecords, AtDns
<1>2. /\ c.name \in Names /\ c.want \in Records /\ c.previous \in Records
      /\ o # None /\ o \in Operation /\ o.at = "dns"
  BY <1>1, CallTyped
<1>3. /\ zone' \in [Names -> Records] /\ zone'[c.name] = c.want
      /\ \A n \in Names \ {c.name} : zone'[n] = zone[n]
      /\ c.step = "get" => zone' = zone
      /\ c.step # "revert"
  <2>1. CASE AlreadyThere(p)
    BY <2>1 DEF AlreadyThere, AtDns, Types, DnsTypeOK
  <2>2. CASE PutRecords(p)
    <3>1. Sets(c.name, c.want) /\ c.step = "put"
      BY <2>2 DEF PutRecords, AtDns
    <3> QED BY <1>2, <3>1, SetsOne DEF Loses
  <2> QED BY <2>1, <2>2 DEF DnsReturns
<1>4. DnsEnds(p) /\ UNCHANGED <<regVars, envVars, failures, dropped>>
  BY DEF DnsReturns, AlreadyThere, PutRecords
<1>5. /\ dns' \in [Procs -> DnsCall \cup {None}] /\ dns'[p] = None
      /\ \A q \in Procs \ {p} : dns'[q] = dns[q]
  BY <1>4, EndsCall
<1> DEFINE m == [name |-> c.name, previous |-> c.previous]
<1>6. m \in Mutation /\ m.name = c.name
  BY <1>2 DEF Mutation
<1>7. /\ proc' \in [Procs -> Operation \cup {None}]
      /\ \A q \in Procs \ {p} : proc'[q] = proc[q]
      /\ \/ proc'[p] = None /\ o.op \in {"revoke", "ensure", "delete"}
         \/ /\ \/ o.op = "enroll" /\ Moved(p, "commit")
               \/ Reconciles(o) /\ Moved(p, "next")
            /\ proc'[p].todo = o.todo
            /\ c.step = "get" => proc'[p].done = o.done
            /\ c.step = "put" => proc'[p].done = Recorded(p)
  <2>1. \/ o.op = "enroll" \/ Reconciles(o) \/ o.op \in {"revoke", "ensure", "delete"}
    BY <1>2 DEF Operation, Reconciles
  <2>2. CASE o.op \in {"revoke", "ensure", "delete"}
    <3>1. Returns(p)
      BY <2>2 DEF DnsReturns
    <3> QED BY <2>2, <3>1, ReturnsMoves
  <2>3. CASE o.op = "enroll" /\ AlreadyThere(p)
    <3>1. Goes(p, "commit") \/ PutRecords(p)
      BY <2>3 DEF DnsReturns
    <3>2. Goes(p, "commit") /\ c.step = "get"
      BY <2>3, <3>1 DEF DnsReturns, PutRecords, AlreadyThere, AtDns
    <3> QED BY <1>2, <2>3, <3>2, GoesMoves
  <2>4. CASE Reconciles(o) /\ AlreadyThere(p)
    <3>1. Goes(p, "next") /\ c.step = "get"
      BY <2>4 DEF DnsReturns, PutRecords, AlreadyThere, AtDns, Reconciles
    <3> QED BY <1>2, <2>4, <3>1, GoesMoves
  <2>5. CASE o.op = "enroll" /\ ~AlreadyThere(p)
    <3> DEFINE e == [o EXCEPT !.at = "commit", !.done = {m}]
    <3>1. PutRecords(p) /\ proc' = [proc EXCEPT ![p].at = "commit", ![p].done = {m}]
      BY <2>5 DEF DnsReturns
    <3>2. proc' = [proc EXCEPT ![p] = e]
      BY <3>1
    <3>3. /\ e \in Operation /\ e.op = o.op /\ e.at = "commit" /\ e.dev = o.dev /\ e.key = o.key
          /\ e.token = o.token /\ e.todo = o.todo /\ e.done = {m}
      BY <1>2, <1>6 DEF Operation
    <3>4. c.step = "put" /\ {m} = Recorded(p)
      BY <2>5, <3>1 DEF PutRecords, AtDns, Recorded
    <3> HIDE DEF e, m
    <3> QED BY <2>5, <3>2, <3>3, <3>4 DEF Types, Moved
  <2>6. CASE Reconciles(o) /\ ~AlreadyThere(p)
    <3> DEFINE e == [o EXCEPT !.at = "next", !.done = @ \cup {m}]
    <3>1. PutRecords(p) /\ proc' = [proc EXCEPT ![p].at = "next", ![p].done = @ \cup {m}]
      BY <2>6 DEF DnsReturns, Reconciles
    <3>2. proc' = [proc EXCEPT ![p] = e]
      BY <3>1
    <3>3. /\ e \in Operation /\ e.op = o.op /\ e.at = "next" /\ e.dev = o.dev /\ e.key = o.key
          /\ e.token = o.token /\ e.todo = o.todo /\ e.done = o.done \cup {m}
      BY <1>2, <1>6 DEF Operation
    <3>4. c.step = "put" /\ o.done \cup {m} = Recorded(p)
      BY <2>6, <3>1 DEF PutRecords, AtDns, Recorded, Reconciles
    <3> HIDE DEF e, m
    <3> QED BY <2>6, <3>2, <3>3, <3>4 DEF Types, Moved
  <2> QED BY <2>1, <2>2, <2>3, <2>4, <2>5, <2>6
<1>8. ReturnEffect(p)
  BY <1>3, <1>4, <1>5, <1>7 DEF ReturnEffect
<1>9. Types' /\ Elsewhere(p)
  BY <1>3, <1>4, <1>5, <1>7 DEF Types, DnsTypeOK, Elsewhere, envVars, regVars
<1>10. Shape(p, proc'[p], dns'[p], txn'[p])
  <2>1. Shape(p, o, c, txn[p]) /\ UNCHANGED txn
    BY <1>4 DEF ShapeInv, regVars
  <2>2. CASE proc'[p] = None
    BY <1>1, <1>2, <1>5, <1>7, <2>1, <2>2, OperationAssumption DEF Shape, Moved
  <2>3. CASE proc'[p] # None
    <3>1. c.step \in {"get", "put"}
      BY <1>1, <1>3, CallTyped
    <3>2. \A m2 \in proc'[p].done : m2 \in o.done \/ m2.name = c.name
      BY <1>7, <2>3, <3>1 DEF Recorded
    <3> QED BY <1>1, <1>2, <1>5, <1>7, <2>1, <2>3, <3>2 DEF Shape, Moved, Reconciles
  <2> QED BY <2>2, <2>3
<1> QED BY <1>1, <1>8, <1>9, <1>10, OneMoves

\* What a step inside a call leaves: a request that was answered, or one that
\* raised, applied or not.
StepEffect(p) ==
    /\ zone' \in [Names -> Records]
    /\ \A n \in Names \ {dns[p].name} : zone'[n] = zone[n]
    /\ zone'[dns[p].name] \in {zone[dns[p].name], dns[p].want}
    /\ UNCHANGED proc
    /\ dns'[p] # None /\ dns'[p].name = dns[p].name /\ dns'[p].want = dns[p].want
    /\ \/ /\ dns[p].step = "get" /\ dns'[p].step = "put"
          /\ UNCHANGED <<zone, failures>>
          /\ zone[dns[p].name] # dns[p].want
          /\ dns'[p].previous = zone[dns[p].name]
       \/ /\ dns[p].step = "put" /\ dns'[p].step = "revert"
          /\ failures' = failures + 1
          /\ dns'[p].previous = dns[p].previous
    /\ UNCHANGED <<regVars, envVars, dropped>>

LEMMA DnsStepEffect ==
    ASSUME TypeInv, NEW p \in Procs, DnsStep(p)
    PROVE  StepEffect(p) /\ dns[p] # None /\ Types' /\ ShapeInv' /\ Elsewhere(p)
<1> USE PublicDnsAssumption, DnsCallAssumption DEF TypeInv
<1> DEFINE c == dns[p]
<1>1. c # None /\ UNCHANGED <<regVars, envVars, proc, dropped>>
  BY DEF DnsStep, GetRecords, PutRaises, AtDns
<1>2. /\ c \in DnsCall /\ c.name \in Names /\ c.want \in Records /\ proc[p] # None
      /\ zone[c.name] \in Records
  BY <1>1, CallTyped DEF Types, DnsTypeOK
<1>3. CASE GetRecords(p) /\ UNCHANGED failures
  <2> DEFINE e == [c EXCEPT !.step = "put", !.previous = zone[c.name]]
  <2>1. /\ c.step = "get" /\ UNCHANGED zone /\ zone[c.name] # c.want
        /\ dns' = [dns EXCEPT ![p] = e]
    BY <1>3 DEF GetRecords, AtDns
  <2>2. /\ e \in DnsCall /\ e.step = "put" /\ e.name = c.name /\ e.want = c.want
        /\ e.previous = zone[c.name]
    BY <1>2 DEF DnsCall
  <2> HIDE DEF e
  <2>3. /\ dns' \in [Procs -> DnsCall \cup {None}] /\ dns'[p] = e
        /\ \A q \in Procs \ {p} : dns'[q] = dns[q]
    BY <2>1, <2>2 DEF Types, DnsTypeOK
  <2>4. StepEffect(p)
    BY <1>1, <1>3, <2>1, <2>2, <2>3 DEF StepEffect, Types, DnsTypeOK
  <2>5. Types' /\ Elsewhere(p)
    BY <1>1, <1>3, <2>1, <2>3 DEF Types, DnsTypeOK, Elsewhere, envVars, regVars
  <2>6. Shape(p, proc'[p], dns'[p], txn'[p])
    <3>1. Shape(p, proc[p], c, txn[p]) /\ UNCHANGED <<proc, txn>>
      BY <1>1 DEF ShapeInv, regVars
    <3> QED BY <1>1, <1>2, <2>2, <2>3, <3>1 DEF Shape
  <2> QED BY <1>1, <2>4, <2>5, <2>6, OneMoves
<1>4. CASE PutRaises(p) /\ Fails
  <2> DEFINE e == [c EXCEPT !.step = "revert"]
  <2>1. /\ c.step = "put" /\ Loses(c.name, c.want) /\ dns' = [dns EXCEPT ![p] = e]
        /\ failures' = failures + 1 /\ failures' \in 0..MaxFailures
    BY <1>4, FailsCounts DEF PutRaises, AtDns, Fails
  <2>2. /\ e \in DnsCall /\ e.step = "revert" /\ e.name = c.name /\ e.want = c.want
        /\ e.previous = c.previous
    BY <1>2 DEF DnsCall
  <2> HIDE DEF e
  <2>3. /\ dns' \in [Procs -> DnsCall \cup {None}] /\ dns'[p] = e
        /\ \A q \in Procs \ {p} : dns'[q] = dns[q]
    BY <2>1, <2>2 DEF Types, DnsTypeOK
  <2>4. /\ zone' \in [Names -> Records]
        /\ \A n \in Names \ {c.name} : zone'[n] = zone[n]
        /\ zone'[c.name] \in {zone[c.name], c.want}
    BY <1>2, <2>1, SetsOne
  <2>5. StepEffect(p)
    BY <1>1, <2>1, <2>2, <2>3, <2>4 DEF StepEffect
  <2>6. Types' /\ Elsewhere(p)
    BY <1>1, <2>1, <2>3, <2>4 DEF Types, DnsTypeOK, Elsewhere, envVars, regVars
  <2>7. Shape(p, proc'[p], dns'[p], txn'[p])
    <3>1. Shape(p, proc[p], c, txn[p]) /\ UNCHANGED <<proc, txn>>
      BY <1>1 DEF ShapeInv, regVars
    <3> QED BY <1>1, <1>2, <2>2, <2>3, <3>1 DEF Shape
  <2> QED BY <1>1, <2>5, <2>6, <2>7, OneMoves
<1> QED BY <1>3, <1>4 DEF DnsStep

\* A call that raises may leave the name as it was read, as it is or as it was
\* before; an operation that had changed other names goes on to restore them.
RaiseEffect(p) ==
    /\ zone' \in [Names -> Records]
    /\ \A n \in Names \ {dns[p].name} : zone'[n] = zone[n]
    /\ dns[p].step = "get" => UNCHANGED zone
    /\ dns'[p] = None
    /\ \/ proc'[p] = None /\ proc[p].done = {}
       \/ /\ proc[p].done # {}
          /\ Moved(p, "restore")
          /\ proc'[p].todo = proc[p].todo
          /\ proc'[p].done = proc[p].done
    /\ dns[p].step # "put"
    /\ \/ /\ dns[p].step = "revert" /\ UNCHANGED failures
          /\ zone'[dns[p].name] = dns[p].previous
       \/ failures' = failures + 1
    /\ UNCHANGED <<devices, tokens, expired, envVars, dropped>>

LEMMA DnsRaisesEffect ==
    ASSUME TypeInv, NEW p \in Procs, DnsRaises(p)
    PROVE  RaiseEffect(p) /\ dns[p] # None /\ Types' /\ ShapeInv' /\ Elsewhere(p)
<1> USE PublicDnsAssumption DEF TypeInv, Points
<1> DEFINE c == dns[p]
           o == proc[p]
<1>1. c # None /\ DnsEnds(p)
  BY DEF DnsRaises, GetRaises, Revert, RevertRaises, AtDns
<1>2. /\ c \in DnsCall /\ c.name \in Names /\ c.previous \in Records
      /\ o # None /\ o \in Operation /\ o.at = "dns" /\ c.step \in {"get", "put", "revert"}
  BY <1>1, CallTyped
<1>3. /\ zone' \in [Names -> Records]
      /\ \A n \in Names \ {c.name} : zone'[n] = zone[n]
      /\ c.step = "get" => UNCHANGED zone
      /\ c.step # "put"
      /\ \/ /\ c.step = "revert" /\ UNCHANGED failures
            /\ zone'[c.name] = c.previous
         \/ failures' = failures + 1
      /\ failures' \in 0..MaxFailures
  <2>1. CASE GetRaises(p) /\ Fails
    BY <2>1, FailsCounts DEF GetRaises, AtDns, Fails, Types, DnsTypeOK
  <2>2. CASE Revert(p) /\ UNCHANGED failures
    <3>1. Loses(c.name, c.previous) /\ Sets(c.name, c.previous) /\ c.step = "revert"
      BY <2>2 DEF Revert, AtDns, Loses
    <3> QED BY <1>2, <2>2, <3>1, SetsOne DEF Types
  <2>3. CASE RevertRaises(p) /\ Fails
    <3>1. Loses(c.name, c.previous) /\ c.step = "revert" /\ failures' = failures + 1
      BY <2>3 DEF RevertRaises, AtDns, Fails
    <3> QED BY <1>2, <2>3, <3>1, SetsOne, FailsCounts
  <2> QED BY <2>1, <2>2, <2>3 DEF DnsRaises
<1>4. /\ dns' \in [Procs -> DnsCall \cup {None}] /\ dns'[p] = None
      /\ \A q \in Procs \ {p} : dns'[q] = dns[q]
  BY <1>1, EndsCall
<1>5. /\ UNCHANGED <<devices, tokens, expired, envVars, dropped>>
      /\ \A q \in Procs \ {p} : txn'[q] = txn[q]
      /\ txn'[p] = None
  <2>1. UNCHANGED <<envVars, dropped>>
    BY DEF DnsRaises
  <2>2. CASE o.op = "enroll"
    <3>1. Rollback(p)
      BY <2>2 DEF DnsRaises
    <3> QED BY <2>1, <3>1, TransactionMoves DEF Rollback
  <2>3. CASE o.op # "enroll"
    <3>1. UNCHANGED regVars
      BY <2>3 DEF DnsRaises
    <3>2. txn[p] = None
      BY <1>2, <2>3 DEF ShapeInv, Shape
    <3> QED BY <2>1, <3>1, <3>2 DEF regVars
  <2> QED BY <2>2, <2>3
<1>6. CASE o.done = {}
  <2>1. Returns(p)
    BY <1>6 DEF DnsRaises
  <2>2. /\ proc' \in [Procs -> Operation \cup {None}] /\ proc'[p] = None
        /\ \A q \in Procs \ {p} : proc'[q] = proc[q]
    BY <2>1, ReturnsMoves
  <2>3. RaiseEffect(p)
    BY <1>3, <1>4, <1>5, <1>6, <2>2 DEF RaiseEffect
  <2>4. Types' /\ Elsewhere(p)
    BY <1>3, <1>4, <1>5, <2>2 DEF Types, DnsTypeOK, Elsewhere, envVars
  <2>5. Shape(p, proc'[p], dns'[p], txn'[p])
    BY <1>4, <1>5, <2>2 DEF Shape
  <2> QED BY <1>1, <2>3, <2>4, <2>5, OneMoves
<1>7. CASE o.done # {}
  <2>1. Goes(p, "restore")
    BY <1>7 DEF DnsRaises
  <2>2. /\ proc' \in [Procs -> Operation \cup {None}] /\ Moved(p, "restore")
        /\ proc'[p].todo = o.todo /\ proc'[p].done = o.done
        /\ \A q \in Procs \ {p} : proc'[q] = proc[q]
    BY <1>2, <2>1, GoesMoves
  <2>3. RaiseEffect(p)
    BY <1>3, <1>4, <1>5, <1>7, <2>2 DEF RaiseEffect
  <2>4. Types' /\ Elsewhere(p)
    BY <1>3, <1>4, <1>5, <2>2 DEF Types, DnsTypeOK, Elsewhere, envVars
  <2>5. Shape(p, proc'[p], dns'[p], txn'[p])
    <3>1. Shape(p, o, c, txn[p])
      BY DEF ShapeInv
    <3> QED BY <1>2, <1>4, <1>5, <1>7, <2>2, <3>1, OperationAssumption
            DEF Shape, Moved, Reconciles
  <2> QED BY <1>1, <2>3, <2>4, <2>5, OneMoves
<1> QED BY <1>6, <1>7

\* One mutation is undone, or raises and is not.
RestoreEffect(p) ==
    /\ zone' \in [Names -> Records]
    /\ \E m \in proc[p].done :
          /\ \A n \in Names : n # m.name => zone'[n] = zone[n]
          /\ zone'[m.name] = m.previous \/ failures' = failures + 1
          /\ \/ proc'[p] = None /\ proc[p].done = {m}
             \/ /\ Moved(p, "restore")
                /\ proc'[p].todo = proc[p].todo
                /\ proc'[p].done = proc[p].done \ {m}
    /\ UNCHANGED <<regVars, dns, envVars, dropped>>
    /\ failures' \in {failures, failures + 1}

LEMMA RestoreMutationEffect ==
    ASSUME TypeInv, NEW p \in Procs, RestoreMutation(p)
    PROVE  /\ RestoreEffect(p) /\ proc[p] # None /\ proc[p].at = "restore" /\ dns[p] = None
           /\ Types' /\ ShapeInv' /\ Elsewhere(p)
<1> USE PublicDnsAssumption DEF TypeInv
<1> DEFINE o == proc[p]
<1>1. o # None /\ o.at = "restore" /\ o \in Operation /\ UNCHANGED <<regVars, dns, envVars, dropped>>
  BY DEF RestoreMutation, Types
<1>2. PICK m \in o.done :
         /\ \/ Sets(m.name, m.previous) /\ UNCHANGED failures
            \/ Loses(m.name, m.previous) /\ Fails
         /\ IF o.done = {m} THEN Returns(p)
            ELSE proc' = [proc EXCEPT ![p].done = @ \ {m}]
  BY DEF RestoreMutation
<1>3. m.name \in Names /\ m.previous \in Records
  BY <1>1 DEF Operation, Mutation
<1>4. /\ Loses(m.name, m.previous)
      /\ failures' \in {failures, failures + 1} /\ failures' \in 0..MaxFailures
  BY <1>2, FailsCounts DEF Loses, Fails, Types
<1>5. /\ zone' \in [Names -> Records] /\ \A n \in Names \ {m.name} : zone'[n] = zone[n]
      /\ zone'[m.name] = m.previous \/ failures' = failures + 1
  BY <1>2, <1>3, <1>4, SetsOne DEF Fails
<1>6. Shape(p, o, dns[p], txn[p]) /\ dns[p] = None
  BY <1>1 DEF ShapeInv, Shape
<1>7. CASE o.done = {m}
  <2>1. /\ proc' \in [Procs -> Operation \cup {None}] /\ proc'[p] = None
        /\ \A q \in Procs \ {p} : proc'[q] = proc[q]
    BY <1>2, <1>7, ReturnsMoves
  <2>2. RestoreEffect(p)
    BY <1>1, <1>4, <1>5, <1>7, <2>1 DEF RestoreEffect
  <2>3. Types' /\ Elsewhere(p)
    BY <1>1, <1>4, <1>5, <2>1 DEF Types, DnsTypeOK, Elsewhere, envVars, regVars
  <2>4. Shape(p, proc'[p], dns'[p], txn'[p])
    BY <1>1, <1>6, <2>1 DEF Shape, regVars
  <2> QED BY <1>1, <1>6, <2>2, <2>3, <2>4, OneMoves
<1>8. CASE o.done # {m}
  <2> DEFINE e == [o EXCEPT !.done = @ \ {m}]
  <2>1. proc' = [proc EXCEPT ![p] = e]
    BY <1>2, <1>8
  <2>2. /\ e \in Operation /\ e.op = o.op /\ e.at = o.at /\ e.dev = o.dev /\ e.key = o.key
        /\ e.token = o.token /\ e.todo = o.todo /\ e.done = o.done \ {m}
    BY <1>1 DEF Operation
  <2> HIDE DEF e
  <2>3. /\ proc' \in [Procs -> Operation \cup {None}] /\ proc'[p] = e
        /\ \A q \in Procs \ {p} : proc'[q] = proc[q]
    BY <2>1, <2>2 DEF Types
  <2>4. Moved(p, "restore") /\ proc'[p].todo = o.todo /\ proc'[p].done = o.done \ {m}
    BY <1>1, <2>2, <2>3 DEF Moved
  <2>5. RestoreEffect(p)
    BY <1>1, <1>4, <1>5, <2>4 DEF RestoreEffect
  <2>6. Types' /\ Elsewhere(p)
    BY <1>1, <1>4, <1>5, <2>3 DEF Types, DnsTypeOK, Elsewhere, envVars, regVars
  <2>7. Shape(p, proc'[p], dns'[p], txn'[p])
    <3>1. UNCHANGED <<dns, txn>>
      BY <1>1 DEF regVars
    <3>2. \A n \in proc'[p].done : n \in o.done
      BY <2>4
    <3> QED BY <1>1, <1>6, <2>4, <3>1, <3>2, OperationAssumption DEF Shape, Moved, Reconciles
  <2> QED BY <1>1, <1>6, <2>5, <2>6, <2>7, OneMoves
<1> QED BY <1>7, <1>8

-----------------------------------------------------------------------------
(* How operations begin.                                                   *)

Begun(p, op, at, d) ==
    /\ proc[p] = None /\ dns[p] = None
    /\ Serial => Quiet
    /\ proc'[p] \in Operation
    /\ proc'[p].op = op /\ proc'[p].at = at /\ proc'[p].dev = d
    /\ proc'[p].todo = {} /\ proc'[p].done = {}
    /\ UNCHANGED <<regVars, zone, envVars, failures>>

Called(p, n, want) ==
    dns'[p] # None /\ dns'[p].step = "get" /\ dns'[p].name = n /\ dns'[p].want = want

LEMMA ReceiveEffect ==
    ASSUME TypeInv, NEW p \in Procs, NEW d \in Devices, NEW k \in Keys, NEW t \in Tokens,
           Receive(p, d, k, t)
    PROVE  Begun(p, "enroll", "prepare", d) /\ dns'[p] = None /\ UNCHANGED dropped
<1> USE DEF TypeInv, Points
<1>1. /\ Starts(p, "enroll", "prepare", d, k, t, {}) /\ Idle(p)
      /\ UNCHANGED <<regVars, dns, zone, envVars, failures, dropped>>
  BY DEF Receive, dnsVars
<1>2. proc[p] = None /\ dns[p] = None
  BY <1>1 DEF Idle, ShapeInv, Shape
<1>3. /\ proc'[p] \in Operation
      /\ proc'[p].op = "enroll" /\ proc'[p].at = "prepare" /\ proc'[p].dev = d
      /\ proc'[p].todo = {} /\ proc'[p].done = {}
  BY <1>1, StartsMoves
<1> QED BY <1>1, <1>2, <1>3 DEF Begun, Idle

LEMMA StartRevokeEffect ==
    ASSUME TypeInv, NEW p \in Procs, NEW d \in Devices, StartRevoke(p, d)
    PROVE  /\ devices[d] # None /\ dns'[p] = None /\ UNCHANGED dropped
           /\ \/ devices[d].enabled /\ Begun(p, "revoke", "disable", d)
              \/ ~devices[d].enabled /\ Begun(p, "revoke", "cleanup", d)
<1> USE DEF TypeInv, Points
<1>1. /\ Idle(p) /\ devices[d] # None
      /\ UNCHANGED <<regVars, dns, zone, envVars, failures, dropped>>
      /\ \/ devices[d].enabled /\ Starts(p, "revoke", "disable", d, None, None, {})
         \/ ~devices[d].enabled /\ Starts(p, "revoke", "cleanup", d, None, None, {})
  BY DEF StartRevoke, dnsVars
<1>2. proc[p] = None /\ dns[p] = None
  BY <1>1 DEF Idle, ShapeInv, Shape
<1>3. ASSUME NEW at \in {"disable", "cleanup"}, Starts(p, "revoke", at, d, None, None, {})
      PROVE  Begun(p, "revoke", at, d)
  BY <1>1, <1>2, <1>3, StartsForDevice DEF Begun, Idle
<1> QED BY <1>1, <1>2, <1>3

LEMMA StartCallEffect ==
    ASSUME TypeInv, NEW p \in Procs, NEW d \in Devices,
           StartEnsure(p, d) \/ StartDelete(p, d)
    PROVE  /\ devices[d] # None /\ ~Collides(d) /\ configured
           /\ \/ /\ devices[d].enabled /\ Begun(p, "ensure", "dns", d)
                 /\ Called(p, HostName[d], Ours) /\ UNCHANGED dropped
              \/ /\ Begun(p, "delete", "dns", d) /\ Called(p, HostName[d], Nothing)
                 /\ dropped' = dropped \cup {HostName[d]}
<1> USE PublicDnsAssumption DEF TypeInv, Points
<1>1. /\ Idle(p) /\ devices[d] # None /\ ~Collides(d) /\ configured
      /\ UNCHANGED <<regVars, zone, envVars, failures>>
  BY DEF StartEnsure, StartDelete
<1>2. proc[p] = None /\ dns[p] = None /\ HostName[d] \in Names
  BY <1>1 DEF Idle, ShapeInv, Shape
<1>3. CASE StartEnsure(p, d)
  <2>1. /\ Starts(p, "ensure", "dns", d, None, None, {}) /\ DnsBegins(p, HostName[d], Ours)
        /\ devices[d].enabled /\ UNCHANGED dropped
    BY <1>3 DEF StartEnsure, EnsureRecord
  <2>2. Begun(p, "ensure", "dns", d)
    BY <1>1, <1>2, <2>1, StartsForDevice DEF Begun, Idle
  <2>3. Called(p, HostName[d], Ours)
    BY <1>2, <2>1, BeginsCall DEF Called
  <2> QED BY <1>1, <2>1, <2>2, <2>3
<1>4. CASE StartDelete(p, d)
  <2>1. /\ Starts(p, "delete", "dns", d, None, None, {}) /\ DnsBegins(p, HostName[d], Nothing)
        /\ dropped' = dropped \cup {HostName[d]}
    BY <1>4 DEF StartDelete, DeleteRecord
  <2>2. Begun(p, "delete", "dns", d)
    BY <1>1, <1>2, <2>1, StartsForDevice DEF Begun, Idle
  <2>3. Called(p, HostName[d], Nothing)
    BY <1>2, <2>1, BeginsCall DEF Called
  <2> QED BY <1>1, <2>1, <2>2, <2>3
<1> QED BY <1>3, <1>4

LEMMA StartSyncEffect ==
    ASSUME TypeInv, NEW p \in Procs, NEW op \in {"sync", "install"}, StartSync(p, op)
    PROVE  /\ proc[p] = None /\ dns[p] = None /\ (Serial => Quiet) /\ configured
           /\ \A d \in Enrolled : ~Collides(d)
           /\ proc'[p] # None /\ proc'[p].op = op /\ proc'[p].at = "next"
           /\ proc'[p].todo = Targets /\ proc'[p].done = {}
           /\ dns'[p] = None
           /\ UNCHANGED <<regVars, dns, zone, envVars, failures, dropped>>
<1> USE DEF TypeInv, Points
<1>1. /\ Starts(p, op, "next", None, None, None, Targets) /\ Idle(p) /\ configured
      /\ \A d \in Enrolled : ~Collides(d)
      /\ UNCHANGED <<regVars, dns, zone, envVars, failures, dropped>>
  BY DEF StartSync, dnsVars
<1>2. proc[p] = None /\ dns[p] = None
  BY <1>1 DEF Idle, ShapeInv, Shape
<1>3. /\ proc'[p] \in Operation
      /\ proc'[p].op = op /\ proc'[p].at = "next"
      /\ proc'[p].todo = Targets /\ proc'[p].done = {}
  BY <1>1, StartsMoves, TargetsTyped
<1> QED BY <1>1, <1>2, <1>3, OperationAssumption DEF Idle

LEMMA SyncNextEffect ==
    ASSUME TypeInv, NEW p \in Procs, SyncNext(p)
    PROVE  /\ proc[p] # None /\ proc[p].at = "next" /\ Reconciles(proc[p])
           /\ Moved(p, "dns") /\ proc'[p].done = proc[p].done
           /\ \E e \in proc[p].todo :
                 proc'[p].todo = proc[p].todo \ {e} /\ Called(p, e.name, e.want)
           /\ UNCHANGED <<regVars, zone, envVars, failures, dropped>>
<1> USE DEF TypeInv
<1>1. PICK e \in proc[p].todo :
         /\ DnsBegins(p, e.name, e.want)
         /\ proc' = [proc EXCEPT ![p].at = "dns", ![p].todo = @ \ {e}]
  BY DEF SyncNext
<1>2. proc[p] # None /\ proc[p].at = "next" /\ proc[p] \in Operation
      /\ UNCHANGED <<regVars, zone, envVars, failures, dropped>>
  BY DEF SyncNext, Types
<1>3. e.name \in Names /\ e.want \in {Ours, Nothing}
  BY <1>2 DEF Operation, Target
<1> DEFINE o == [proc[p] EXCEPT !.at = "dns", !.todo = @ \ {e}]
<1>4. /\ o \in Operation /\ o.op = proc[p].op /\ o.at = "dns" /\ o.dev = proc[p].dev
      /\ o.key = proc[p].key /\ o.token = proc[p].token
      /\ o.todo = proc[p].todo \ {e} /\ o.done = proc[p].done
  BY <1>2 DEF Operation
<1>5. proc' = [proc EXCEPT ![p] = o]
  BY <1>1
<1> HIDE DEF o
<1>6. proc'[p] = o
  BY <1>5 DEF Types
<1>7. Called(p, e.name, e.want)
  BY <1>1, <1>3, BeginsCall DEF Called
<1>8. Reconciles(proc[p])
  BY <1>2 DEF ShapeInv, Shape
<1> QED BY <1>2, <1>4, <1>6, <1>7, <1>8 DEF Moved

-----------------------------------------------------------------------------
(* The restart of the service, and the steps of no process.                *)

RestartEffect(p) ==
    /\ \A q \in Procs :
          IF q \in Threads \cup {p} THEN proc'[q] = None
          ELSE proc'[q] = proc[q] /\ dns'[q] = dns[q] /\ txn'[q] = txn[q]
    /\ \A q \in Threads \cup {p} : dns'[q] = None /\ txn'[q] = None
    /\ serving'
    /\ UNCHANGED <<devices, tokens, expired, zone, configured, failures, dropped>>

LEMMA InstallDoneEffect ==
    ASSUME TypeInv, NEW p \in Procs, InstallDone(p)
    PROVE  RestartEffect(p) /\ Types' /\ ShapeInv'
<1> USE PublicDnsAssumption DEF TypeInv
<1>1. dns[p] = None /\ txn[p] = None
  BY DEF InstallDone, Doing, ShapeInv, Shape
<1>2. /\ proc' = [q \in Procs |-> IF q \in Threads \cup {p} THEN None ELSE proc[q]]
      /\ txn' = [q \in Procs |-> IF q \in Threads THEN None ELSE txn[q]]
      /\ dns' = [q \in Procs |-> IF q \in Threads THEN None ELSE dns[q]]
      /\ serving' = TRUE
      /\ UNCHANGED <<devices, tokens, expired, zone, configured, failures, dropped>>
  BY DEF InstallDone
<1>3. RestartEffect(p)
  BY <1>1, <1>2 DEF RestartEffect
<1>4. Types'
  BY <1>2 DEF Types, DnsTypeOK
<1>5. ShapeInv'
  <2> SUFFICES ASSUME NEW q \in Procs PROVE Shape(q, proc'[q], dns'[q], txn'[q])
    BY DEF ShapeInv
  <2>1. CASE q \in Threads \cup {p}
    BY <1>3, <2>1 DEF RestartEffect, Shape
  <2>2. CASE q \notin Threads \cup {p}
    BY <1>3, <2>2 DEF RestartEffect, ShapeInv
  <2> QED BY <2>1, <2>2
<1> QED BY <1>3, <1>4, <1>5

LEMMA ShapeKept == ShapeInv /\ UNCHANGED <<proc, dns, txn>> => ShapeInv'
<1> SUFFICES ASSUME ShapeInv, UNCHANGED <<proc, dns, txn>>, NEW p \in Procs
             PROVE  Shape(p, proc'[p], dns'[p], txn'[p])
  BY DEF ShapeInv
<1> QED BY DEF ShapeInv

LEMMA TypeStep == TypeInv /\ [Next]_vars => TypeInv'
<1> SUFFICES ASSUME TypeInv, [Next]_vars PROVE TypeInv'
  OBVIOUS
<1>1. IInv'
  BY StepIsARegistryStep, StepPreserves DEF TypeInv
<1>2. CASE UNCHANGED vars
  <2>1. UNCHANGED <<proc, dns, txn>> /\ UNCHANGED <<zone, configured, serving, failures, dropped>>
    BY <1>2 DEF vars, dnsVars, envVars, regVars
  <2> QED BY <1>1, <2>1, ShapeKept DEF TypeInv, Types, DnsTypeOK
<1>3. ASSUME NEW p \in Procs, Steps(p)
      PROVE  Types' /\ ShapeInv'
  BY <1>3, EnrollmentKeepsTypes, RevocationKeepsTypes, SyncKeepsTypes, InstallDoneEffect,
     DnsReturnsEffect, DnsStepEffect, DnsRaisesEffect, RestoreMutationEffect DEF Steps
<1>4. ASSUME NEW p \in Procs,
             \/ \E d \in Devices, k \in Keys, t \in Tokens : Receive(p, d, k, t)
             \/ \E d \in Devices : StartRevoke(p, d) \/ StartEnsure(p, d) \/ StartDelete(p, d)
             \/ \E op \in {"sync", "install"} : StartSync(p, op)
      PROVE  Types' /\ ShapeInv'
  BY <1>4, StartsKeepTypes, SyncKeepsTypes
<1>5. CASE Configure
  <2>1. /\ UNCHANGED <<proc, dns, txn>> /\ UNCHANGED <<zone, serving, failures, dropped>>
        /\ configured' = TRUE
    BY <1>5 DEF Configure, dnsVars, regVars
  <2> QED BY <1>1, <2>1, ShapeKept DEF TypeInv, Types, DnsTypeOK
<1>6. CASE \E t \in Tokens, scope \in Devices \cup {None} : IssueToken(t, scope)
  <2>1. UNCHANGED <<proc, dns, txn>> /\ UNCHANGED <<zone, configured, serving, failures, dropped>>
    BY <1>6 DEF IssueToken, CreateToken, dnsVars, envVars
  <2> QED BY <1>1, <2>1, ShapeKept DEF TypeInv, Types, DnsTypeOK
<1> QED BY <1>1, <1>2, <1>3, <1>4, <1>5, <1>6 DEF Next, TypeInv

LEMMA TypeInvariance == Spec => []TypeInv
BY InitTypes, TypeStep, PTL DEF Spec

-----------------------------------------------------------------------------
\* The registry, the zone and every operation and call keep their types.
THEOREM PublicDnsTypesHold == Spec => []PublicDnsTypeOK
<1>1. TypeInv => PublicDnsTypeOK
  BY DEF TypeInv, IInv, Types, PublicDnsTypeOK
<1> QED BY <1>1, TypeInvariance, PTL

\* Whatever the public names do, the registry under them makes its own steps
\* only: the restart of the service is the rollback of the transaction that was
\* open in it.
THEOREM PublicDnsImplementsRegistry == Spec => RegistrySpec
<1>1. Init => RegistryInit
  BY DEF Init
<1> QED BY <1>1, StepIsARegistryStep, TypeInvariance, PTL DEF Spec, RegistrySpec

\* No two devices ever share a key or an address, whatever DNS does to their
\* enrolments.
THEOREM NamedDevicesAreUnique == Spec => []UniqueIdentity
<1>1. TypeInv => UniqueIdentity
  BY DEF TypeInv, IInv
<1> QED BY <1>1, TypeInvariance, PTL

-----------------------------------------------------------------------------
\* A step that changes a name is one of an operation that goes through a list,
\* or the name is that of its device, which is not an operational one.
LEMMA ZoneMoves ==
    ASSUME TypeInv, [Next]_vars, NEW o \in Operational, zone'[o] # zone[o]
    PROVE  \E p \in Procs : proc[p] # None /\ Reconciles(proc[p])
<1> USE DnsManagerAssumption
<1>1. o \in Names
  OBVIOUS
<1>2. ASSUME NEW p \in Procs, Steps(p)
      PROVE  proc[p] # None /\ Reconciles(proc[p])
  <2>1. CASE DnsReturns(p) \/ DnsStep(p) \/ DnsRaises(p)
    <3>1. dns[p] # None /\ \A n \in Names \ {dns[p].name} : zone'[n] = zone[n]
      BY <2>1, DnsReturnsEffect, DnsStepEffect, DnsRaisesEffect
         DEF ReturnEffect, StepEffect, RaiseEffect
    <3>2. dns[p].name = o
      BY <1>1, <3>1
    <3> QED BY <3>1, <3>2 DEF TypeInv, ShapeInv, Shape, Collides
  <2>2. CASE RestoreMutation(p)
    <3>1. proc[p] # None /\ \E m \in proc[p].done : \A n \in Names : n # m.name => zone'[n] = zone[n]
      BY <2>2, RestoreMutationEffect DEF RestoreEffect
    <3>2. \E m \in proc[p].done : m.name = o
      BY <1>1, <3>1
    <3> QED BY <3>1, <3>2 DEF TypeInv, ShapeInv, Shape, Collides
  <2>3. CASE \/ Prepare(p) \/ Reject(p) \/ NameDevice(p) \/ StageRaises(p) \/ Commit(p)
             \/ CommitRaises(p) \/ DisableRow(p) \/ DisableRaises(p) \/ CleanUp(p)
             \/ SyncNext(p) \/ SyncDone(p) \/ InstallDone(p)
    BY <2>3 DEF Prepare, Reject, NameDevice, StageRaises, Commit, CommitRaises, DisableRow,
            DisableRaises, CleanUp, SyncNext, SyncDone, InstallDone, dnsVars
  <2> QED BY <1>2, <2>1, <2>2, <2>3 DEF Steps
<1>3. \E p \in Procs : Steps(p)
  BY DEF Next, Receive, StartRevoke, StartEnsure, StartDelete, StartSync, Configure,
         IssueToken, vars, dnsVars
<1> QED BY <1>2, <1>3

\* Only a sync or the installer changes an operational name.
THEOREM OperationalNamesAreKept == Spec => OperationalNamesStay
<1>1. TypeInv /\ [Next]_vars =>
        [\A o \in Operational : zone'[o] # zone[o] =>
            \E p \in Procs : proc[p] # None /\ proc[p].op \in {"sync", "install"}]_vars
  BY ZoneMoves DEF Reconciles
<1> QED BY <1>1, TypeInvariance, PTL DEF Spec, OperationalNamesStay

-----------------------------------------------------------------------------
(* What an operation learnt from the registry is for ever: rows stay, and  *)
(* a revocation is final.                                                  *)

\* Device d has a row but no claim to its name any more.
Settled(rows, drop, d) == rows[d] # None /\ (~rows[d].enabled \/ HostName[d] \in drop)

\* Whoever is called n has no claim to it.
GoneFor(rows, drop, n) == \A d \in Devices : HostName[d] = n => Settled(rows, drop, d)

\* A command for a device found its row, and names are only ever removed from
\* devices that are revoked or whose name an administrator gave up.
Informed(rows, drop, o, c) ==
    /\ o.op \in {"revoke", "ensure", "delete"} => rows[o.dev] # None
    /\ o.op = "revoke" /\ o.at # "disable" => ~rows[o.dev].enabled
    /\ \A e \in o.todo : e.want = Nothing => GoneFor(rows, drop, e.name)
    /\ c # None /\ c.want = Nothing => GoneFor(rows, drop, c.name)

RowInv == \A p \in Procs : proc[p] # None => Informed(devices, dropped, proc[p], dns[p])

LEMMA DroppedGrows == [Next]_vars => dropped \subseteq dropped'
<1> SUFFICES ASSUME [Next]_vars PROVE dropped \subseteq dropped'
  OBVIOUS
<1>1. ASSUME NEW p \in Procs, Steps(p) PROVE dropped' = dropped
  <2>1. CASE DnsReturns(p) \/ DnsStep(p) \/ DnsRaises(p) \/ RestoreMutation(p)
    BY <2>1 DEF DnsReturns, DnsStep, DnsRaises, RestoreMutation
  <2>2. CASE \/ Prepare(p) \/ Reject(p) \/ NameDevice(p) \/ StageRaises(p) \/ Commit(p)
             \/ CommitRaises(p) \/ DisableRow(p) \/ DisableRaises(p) \/ CleanUp(p)
             \/ SyncNext(p) \/ SyncDone(p) \/ InstallDone(p)
    BY <2>2 DEF Prepare, Reject, NameDevice, StageRaises, Commit, CommitRaises, DisableRow,
            DisableRaises, CleanUp, SyncNext, SyncDone, InstallDone
  <2> QED BY <1>1, <2>1, <2>2 DEF Steps
<1>2. ASSUME NEW p \in Procs, NEW d \in Devices, StartDelete(p, d)
      PROVE  dropped \subseteq dropped'
  BY <1>2 DEF StartDelete
<1> QED BY <1>1, <1>2 DEF Next, Receive, StartRevoke, StartEnsure, StartSync, Configure,
                          IssueToken, vars

LEMMA RowsSettle ==
    ASSUME TypeInv, [Next]_vars, NEW d \in Devices
    PROVE  /\ devices[d] # None =>
                 devices'[d] # None /\ (devices'[d].enabled => devices[d].enabled)
           /\ Settled(devices, dropped, d) => Settled(devices', dropped', d)
<1>1. [RegistryNext]_regVars /\ IInv
  BY StepIsARegistryStep DEF TypeInv
<1>2. devices[d] # None =>
          devices'[d] # None /\ (devices'[d].enabled => devices[d].enabled)
  BY <1>1, StepKeepsRows DEF Enrolled
<1> QED BY <1>2, DroppedGrows DEF Settled

LEMMA InformedStays ==
    ASSUME TypeInv, [Next]_vars, NEW p \in Procs, proc[p] # None,
           Informed(devices, dropped, proc[p], dns[p])
    PROVE  Informed(devices', dropped', proc[p], dns[p])
<1> DEFINE o == proc[p]
<1>1. o.op \in {"revoke", "ensure", "delete"} => o.dev \in Devices
  BY DEF TypeInv, ShapeInv, Shape, Reconciles
<1>2. \A n : GoneFor(devices, dropped, n) => GoneFor(devices', dropped', n)
  BY RowsSettle DEF GoneFor
<1> QED BY <1>1, <1>2, RowsSettle DEF Informed

\* An operation goes on with what it knows.
Carries(p) ==
    proc'[p] # None =>
        /\ proc[p] # None /\ proc'[p].op = proc[p].op /\ proc'[p].dev = proc[p].dev
        /\ proc[p].op = "revoke" => proc'[p].at = proc[p].at
        /\ proc'[p].todo \subseteq proc[p].todo
        /\ dns'[p] # None =>
              \/ dns'[p].want = Ours
              \/ dns[p] # None /\ dns'[p].name = dns[p].name /\ dns'[p].want = dns[p].want

LEMMA CarriesInformed ==
    ASSUME TypeInv, [Next]_vars, RowInv, NEW p \in Procs, Carries(p), Elsewhere(p)
    PROVE  RowInv'
<1>1. ASSUME NEW q \in Procs \ {p}, proc'[q] # None
      PROVE  Informed(devices', dropped', proc'[q], dns'[q])
  BY <1>1, InformedStays DEF Elsewhere, RowInv
<1>2. ASSUME proc'[p] # None
      PROVE  Informed(devices', dropped', proc'[p], dns'[p])
  <2>1. Informed(devices', dropped', proc[p], dns[p])
    BY <1>2, InformedStays DEF Carries, RowInv
  <2>2. Ours # Nothing
    BY DEF Ours, Nothing
  <2> QED BY <1>2, <2>1, <2>2 DEF Carries, Informed
<1> QED BY <1>1, <1>2 DEF RowInv

LEMMA NewInformed ==
    ASSUME TypeInv, [Next]_vars, RowInv, NEW p \in Procs, Elsewhere(p),
           Informed(devices', dropped', proc'[p], dns'[p])
    PROVE  RowInv'
<1>1. ASSUME NEW q \in Procs \ {p}, proc'[q] # None
      PROVE  Informed(devices', dropped', proc'[q], dns'[q])
  BY <1>1, InformedStays DEF Elsewhere, RowInv
<1> QED BY <1>1 DEF RowInv

LEMMA StartsInform ==
    ASSUME TypeInv, [Next]_vars, RowInv, NEW p \in Procs, NEW d \in Devices,
           \/ \E k \in Keys, t \in Tokens : Receive(p, d, k, t)
           \/ StartRevoke(p, d) \/ StartEnsure(p, d) \/ StartDelete(p, d)
    PROVE  RowInv'
<1> USE PublicDnsAssumption
<1>1. Elsewhere(p)
  BY StartsKeepTypes
<1>2. Ours # Nothing
  BY DEF Ours, Nothing
<1>3. CASE \E k \in Keys, t \in Tokens : Receive(p, d, k, t)
  BY <1>1, <1>3, ReceiveEffect, NewInformed DEF Begun, Informed
<1>4. CASE StartRevoke(p, d)
  BY <1>1, <1>4, StartRevokeEffect, NewInformed DEF Begun, Informed, regVars
<1>5. CASE StartEnsure(p, d) \/ StartDelete(p, d)
  <2>1. GoneFor(devices, dropped \cup {HostName[d]}, HostName[d])
    BY <1>5, StartCallEffect DEF GoneFor, Settled
  <2>2. /\ devices' = devices /\ devices[d] # None
        /\ \/ proc'[p].op = "ensure" /\ dns'[p].want = Ours
           \/ /\ proc'[p].op = "delete" /\ dns'[p].name = HostName[d]
              /\ dropped' = dropped \cup {HostName[d]}
        /\ proc'[p].dev = d /\ proc'[p].todo = {}
    BY <1>5, StartCallEffect DEF Begun, Called, regVars
  <2>3. Informed(devices', dropped', proc'[p], dns'[p])
    BY <1>2, <2>1, <2>2 DEF Informed
  <2> QED BY <1>1, <2>3, NewInformed
<1> QED BY <1>3, <1>4, <1>5

\* A sync removes the names of revoked devices only.
LEMMA TargetsGone ==
    ASSUME TypeInv, NEW e \in Targets, e.want = Nothing
    PROVE  \E d \in Enrolled : e.name = HostName[d] /\ ~devices[d].enabled
<1>1. Ours # Nothing
  BY DEF Ours, Nothing
<1>2. CASE \E n \in Operational : e = [name |-> n, want |-> Ours]
  BY <1>1, <1>2
<1>3. CASE \E d \in Enrolled : e = [name |-> HostName[d],
                                    want |-> IF devices[d].enabled THEN Ours ELSE Nothing]
  BY <1>1, <1>3
<1> QED BY <1>2, <1>3 DEF Targets

LEMMA SyncInforms ==
    ASSUME TypeInv, [Next]_vars, RowInv, NEW p \in Procs,
           \/ \E op \in {"sync", "install"} : StartSync(p, op)
           \/ SyncNext(p) \/ SyncDone(p)
    PROVE  RowInv'
<1> USE PublicDnsAssumption
<1>1. Elsewhere(p)
  BY SyncKeepsTypes
<1>2. ASSUME NEW op \in {"sync", "install"}, StartSync(p, op)
      PROVE  RowInv'
  <2>1. \A e \in Targets : e.want = Nothing => GoneFor(devices, dropped, e.name)
    BY TargetsGone DEF GoneFor, Settled, Enrolled
  <2>2. UNCHANGED <<devices, dropped>> /\ proc'[p].todo = Targets /\ dns'[p] = None
        /\ proc'[p].op = op
    BY <1>2, StartSyncEffect DEF regVars
  <2> QED BY <1>1, <2>1, <2>2, NewInformed DEF Informed
<1>3. CASE SyncNext(p)
  <2>1. PICK e \in proc[p].todo :
           proc'[p].todo = proc[p].todo \ {e} /\ Called(p, e.name, e.want)
    BY <1>3, SyncNextEffect
  <2>2. /\ proc[p] # None /\ Reconciles(proc[p]) /\ proc'[p].op = proc[p].op
        /\ UNCHANGED <<devices, dropped>>
    BY <1>3, SyncNextEffect DEF Moved, regVars
  <2>3. Informed(devices, dropped, proc[p], dns[p])
    BY <2>2 DEF RowInv
  <2>4. Informed(devices', dropped', proc'[p], dns'[p])
    BY <2>1, <2>2, <2>3 DEF Informed, Called, Reconciles
  <2> QED BY <1>1, <2>4, NewInformed
<1>4. CASE SyncDone(p)
  <2>1. proc'[p] = None
    BY <1>4, ReturnsMoves DEF SyncDone, TypeInv
  <2> QED BY <1>1, <2>1, CarriesInformed DEF Carries
<1> QED BY <1>2, <1>3, <1>4

LEMMA EnrollmentInforms ==
    ASSUME TypeInv, [Next]_vars, RowInv, NEW p \in Procs,
           \/ Prepare(p) \/ Reject(p) \/ NameDevice(p)
           \/ StageRaises(p) \/ Commit(p) \/ CommitRaises(p)
    PROVE  RowInv'
<1> USE DEF TypeInv, Points
<1>1. Elsewhere(p)
  BY EnrollmentKeepsTypes
<1>2. proc[p] # None /\ proc[p].op = "enroll" /\ dns[p] = None
  <2>1. proc[p] # None /\ proc[p].op = "enroll" /\ proc[p].at \in {"prepare", "stages", "commit"}
    BY DEF Prepare, Reject, NameDevice, StageRaises, Commit, CommitRaises, Doing
  <2> QED BY <2>1 DEF ShapeInv, Shape
<1>3. \/ Returns(p)
      \/ \E at \in {"stages", "commit", "restore"} : Goes(p, at)
      \/ Goes(p, "dns") /\ DnsBegins(p, HostName[proc[p].dev], Ours)
  BY DEF Prepare, Reject, NameDevice, StageRaises, Commit, CommitRaises, EnsureRecord
<1>4. dns'[p] # None => dns'[p].want = Ours
  <2>1. proc[p].dev \in Devices /\ HostName[proc[p].dev] \in Names
    BY <1>2, PublicDnsAssumption DEF ShapeInv, Shape, Reconciles
  <2>2. \/ UNCHANGED dns
        \/ DnsBegins(p, HostName[proc[p].dev], Ours)
    BY DEF Prepare, Reject, NameDevice, StageRaises, Commit, CommitRaises, EnsureRecord, dnsVars
  <2> QED BY <1>2, <2>1, <2>2, BeginsCall
<1>5. Carries(p)
  BY <1>2, <1>3, <1>4, GoesMoves, ReturnsMoves DEF Carries, Moved
<1> QED BY <1>1, <1>5, CarriesInformed

LEMMA RevocationInforms ==
    ASSUME TypeInv, [Next]_vars, RowInv, NEW p \in Procs,
           DisableRow(p) \/ DisableRaises(p) \/ CleanUp(p)
    PROVE  RowInv'
<1> USE PublicDnsAssumption DEF TypeInv, Points
<1> DEFINE o == proc[p]
<1>1. Elsewhere(p)
  BY RevocationKeepsTypes
<1>2. o # None /\ o.op = "revoke" /\ o.dev \in Devices /\ o.todo = {} /\ dns[p] = None
      /\ HostName[o.dev] \in Names /\ devices[o.dev] # None
      /\ Informed(devices, dropped, o, dns[p])
  <2>1. o # None /\ o.op = "revoke" /\ o.at \in {"disable", "cleanup"}
    BY DEF DisableRow, DisableRaises, CleanUp, Doing
  <2> QED BY <2>1 DEF ShapeInv, Shape, Reconciles, RowInv, Informed
<1>3. CASE Returns(p)
  BY <1>1, <1>3, ReturnsMoves, CarriesInformed DEF Carries
<1>4. CASE DisableRow(p)
  <2>1. RevokeRow(o.dev) /\ Goes(p, "cleanup") /\ UNCHANGED <<dns, dropped>>
    BY <1>4 DEF DisableRow, dnsVars
  <2>2. devices'[o.dev] # None /\ ~devices'[o.dev].enabled
    <3>1. devices \in [Devices -> Row \cup {None}] /\ devices[o.dev] \in Row
      BY <1>2 DEF IInv, RegistryTypeOK
    <3>2. devices' = [devices EXCEPT ![o.dev].enabled = FALSE]
      BY <2>1 DEF RevokeRow
    <3> QED BY <1>2, <3>1, <3>2, RegistryAssumption DEF Row
  <2>3. Informed(devices', dropped', proc'[p], dns'[p])
    BY <1>2, <2>1, <2>2, GoesMoves DEF Moved, Informed
  <2> QED BY <1>1, <2>3, NewInformed
<1>5. CASE /\ CleanUp(p) /\ DnsBegins(p, HostName[o.dev], Nothing) /\ Goes(p, "dns")
  <2>1. UNCHANGED <<devices, dropped>> /\ o.at = "cleanup"
    BY <1>5 DEF CleanUp, Doing, regVars
  <2>2. GoneFor(devices, dropped, HostName[o.dev])
    BY <1>2, <2>1 DEF Informed, GoneFor, Settled
  <2>3. dns'[p].name = HostName[o.dev]
    BY <1>2, <1>5, BeginsCall
  <2>4. Informed(devices', dropped', proc'[p], dns'[p])
    BY <1>2, <1>5, <2>1, <2>2, <2>3, GoesMoves DEF Moved, Informed
  <2> QED BY <1>1, <2>4, NewInformed
<1> QED BY <1>3, <1>4, <1>5 DEF DisableRaises, CleanUp, DeleteRecord

LEMMA RequestsInform ==
    ASSUME TypeInv, [Next]_vars, RowInv, NEW p \in Procs,
           DnsReturns(p) \/ DnsStep(p) \/ DnsRaises(p) \/ RestoreMutation(p)
    PROVE  RowInv'
<1>1. CASE DnsReturns(p)
  <2>1. Carries(p)
    BY <1>1, DnsReturnsEffect, CallTyped DEF ReturnEffect, Carries, Moved, Reconciles
  <2> QED BY <1>1, <2>1, DnsReturnsEffect, CarriesInformed
<1>2. CASE DnsStep(p)
  <2>1. Carries(p)
    BY <1>2, DnsStepEffect, CallTyped DEF StepEffect, Carries
  <2> QED BY <1>2, <2>1, DnsStepEffect, CarriesInformed
<1>3. CASE DnsRaises(p)
  <2>1. proc[p] # None /\ (proc[p].op = "revoke" => proc[p].done = {})
    BY <1>3, DnsRaisesEffect, CallTyped DEF TypeInv, ShapeInv, Shape, Reconciles
  <2>2. Carries(p)
    BY <1>3, <2>1, DnsRaisesEffect DEF RaiseEffect, Carries, Moved
  <2> QED BY <1>3, <2>2, DnsRaisesEffect, CarriesInformed
<1>4. CASE RestoreMutation(p)
  <2>1. Carries(p)
    BY <1>4, RestoreMutationEffect DEF RestoreEffect, Carries, Moved
  <2> QED BY <1>4, <2>1, RestoreMutationEffect, CarriesInformed
<1> QED BY <1>1, <1>2, <1>3, <1>4

LEMMA RowStep == TypeInv /\ RowInv /\ [Next]_vars => RowInv'
<1> SUFFICES ASSUME TypeInv, RowInv, [Next]_vars PROVE RowInv'
  OBVIOUS
<1>1. CASE UNCHANGED <<proc, dns>>
  BY <1>1, InformedStays DEF RowInv
<1>2. ASSUME NEW p \in Procs, InstallDone(p) PROVE RowInv'
  BY <1>2, InstallDoneEffect, InformedStays DEF RestartEffect, RowInv
<1>3. ASSUME NEW p \in Procs, Steps(p) PROVE RowInv'
  BY <1>2, <1>3, EnrollmentInforms, RevocationInforms, SyncInforms, RequestsInform DEF Steps
<1>4. ASSUME NEW p \in Procs,
             \/ \E d \in Devices, k \in Keys, t \in Tokens : Receive(p, d, k, t)
             \/ \E d \in Devices : StartRevoke(p, d) \/ StartEnsure(p, d) \/ StartDelete(p, d)
             \/ \E op \in {"sync", "install"} : StartSync(p, op)
      PROVE  RowInv'
  BY <1>4, StartsInform, SyncInforms
<1>5. CASE Configure \/ \E t \in Tokens, scope \in Devices \cup {None} : IssueToken(t, scope)
  BY <1>1, <1>5 DEF Configure, IssueToken, dnsVars
<1> QED BY <1>1, <1>3, <1>4, <1>5 DEF Next, vars, dnsVars

LEMMA InitRows == Init => RowInv
BY DEF Init, RowInv

-----------------------------------------------------------------------------
(* Who moves, and what it takes to raise.                                  *)

Begins(p) ==
    \/ \E d \in Devices, k \in Keys, t \in Tokens : Receive(p, d, k, t)
    \/ \E d \in Devices : StartRevoke(p, d) \/ StartEnsure(p, d) \/ StartDelete(p, d)
    \/ \E op \in {"sync", "install"} : StartSync(p, op)

\* A process is where it was, was ended by the restart, or made the step itself.
LEMMA WhoMoves ==
    ASSUME TypeInv, [Next]_vars, NEW q \in Procs
    PROVE  \/ proc'[q] = proc[q] /\ dns'[q] = dns[q]
           \/ proc'[q] = None
           \/ Begins(q) \/ Steps(q)
<1>1. ASSUME NEW p \in Procs, p # q, Begins(p)
      PROVE  proc'[q] = proc[q] /\ dns'[q] = dns[q]
  BY <1>1, StartsKeepTypes, SyncKeepsTypes DEF Begins, Elsewhere
<1>2. ASSUME NEW p \in Procs, p # q, Steps(p)
      PROVE  \/ proc'[q] = proc[q] /\ dns'[q] = dns[q]
             \/ proc'[q] = None
  <2>1. CASE InstallDone(p)
    BY <2>1, InstallDoneEffect DEF RestartEffect
  <2>2. CASE ~InstallDone(p)
    <3>1. Elsewhere(p)
      BY <1>2, <2>2, EnrollmentKeepsTypes, RevocationKeepsTypes, SyncKeepsTypes,
         DnsReturnsEffect, DnsStepEffect, DnsRaisesEffect, RestoreMutationEffect DEF Steps
    <3> QED BY <1>2, <3>1 DEF Elsewhere
  <2> QED BY <2>1, <2>2
<1> QED BY <1>1, <1>2 DEF Next, Begins, Configure, IssueToken, vars, dnsVars

LEMMA FailuresGrow ==
    ASSUME TypeInv, [Next]_vars
    PROVE  failures' \in {failures, failures + 1}
<1>1. ASSUME NEW p \in Procs, Steps(p) PROVE failures' \in {failures, failures + 1}
  <2>1. CASE DnsReturns(p) \/ DnsStep(p) \/ DnsRaises(p) \/ RestoreMutation(p)
    BY <2>1, DnsReturnsEffect, DnsStepEffect, DnsRaisesEffect, RestoreMutationEffect
       DEF ReturnEffect, StepEffect, RaiseEffect, RestoreEffect
  <2>2. CASE \/ Prepare(p) \/ Reject(p) \/ NameDevice(p) \/ StageRaises(p) \/ Commit(p)
             \/ CommitRaises(p) \/ DisableRow(p) \/ DisableRaises(p) \/ CleanUp(p)
             \/ SyncNext(p) \/ SyncDone(p) \/ InstallDone(p)
    BY <2>2 DEF Prepare, Reject, NameDevice, StageRaises, Commit, CommitRaises, DisableRow,
            DisableRaises, CleanUp, SyncNext, SyncDone, InstallDone, Fails
  <2> QED BY <1>1, <2>1, <2>2 DEF Steps
<1> QED BY <1>1 DEF Next, Receive, StartRevoke, StartEnsure, StartDelete, StartSync, Configure,
                    IssueToken, vars

LEMMA NothingRaised ==
    ASSUME TypeInv, [Next]_vars, failures' = 0
    PROVE  failures = 0
<1>1. failures \in Nat
  BY PublicDnsAssumption DEF TypeInv, Types
<1> QED BY <1>1, FailuresGrow

\* The provider of the running service changes when the installer restarts it.
LEMMA ServingChanges ==
    ASSUME [Next]_vars, serving' # serving
    PROVE  \E p \in Procs : InstallDone(p)
<1>1. ASSUME NEW p \in Procs, Steps(p) PROVE InstallDone(p)
  <2>1. CASE DnsReturns(p) \/ DnsStep(p) \/ DnsRaises(p) \/ RestoreMutation(p)
    BY <2>1 DEF DnsReturns, DnsStep, DnsRaises, RestoreMutation, envVars
  <2>2. CASE \/ Prepare(p) \/ Reject(p) \/ NameDevice(p) \/ StageRaises(p) \/ Commit(p)
             \/ CommitRaises(p) \/ DisableRow(p) \/ DisableRaises(p) \/ CleanUp(p)
             \/ SyncNext(p) \/ SyncDone(p)
    BY <2>2 DEF Prepare, Reject, NameDevice, StageRaises, Commit, CommitRaises, DisableRow,
            DisableRaises, CleanUp, SyncNext, SyncDone, envVars
  <2> QED BY <1>1, <2>1, <2>2 DEF Steps
<1> QED BY <1>1 DEF Next, Receive, StartRevoke, StartEnsure, StartDelete, StartSync, Configure,
                    IssueToken, vars, envVars

-----------------------------------------------------------------------------
(* A device that enrols has its name before its row.                       *)

\* While nothing has raised, nothing is undone, and an enrolment of a service
\* with a provider comes to its commit with the name in place.
Clean(z, rows, served, o, c) ==
    /\ o.at # "restore"
    /\ c # None => c.step # "revert"
    /\ served /\ o.op = "enroll" /\ o.at = "commit" /\ rows[o.dev] = None =>
          z[HostName[o.dev]] = Ours

CommitInv ==
    failures = 0 =>
        \A p \in Procs : proc[p] # None => Clean(zone, devices, serving, proc[p], dns[p])

\* Unless a request raises, nobody takes the name of a device with a claim.
LEMMA ClaimKept ==
    ASSUME TypeInv, RowInv, CommitInv, [Next]_vars, failures' = 0,
           NEW d \in Devices, ~Settled(devices, dropped, d), zone[HostName[d]] = Ours
    PROVE  zone'[HostName[d]] = Ours
<1> USE PublicDnsAssumption
<1>1. failures = 0 /\ failures # failures + 1
  BY NothingRaised
<1>2. HostName[d] \in Names
  OBVIOUS
<1>3. ASSUME NEW p \in Procs, Steps(p)
      PROVE  zone'[HostName[d]] = Ours
  <2>1. CASE DnsReturns(p)
    <3>1. ReturnEffect(p) /\ dns[p] # None /\ proc[p] # None
      BY <2>1, DnsReturnsEffect, CallTyped
    <3>2. dns[p].want = Ours \/ dns[p].name # HostName[d]
      <4>1. dns[p].want = Nothing => GoneFor(devices, dropped, dns[p].name)
        BY <3>1 DEF RowInv, Informed
      <4> QED BY <3>1, <4>1, CallTyped DEF GoneFor
    <3> QED BY <1>2, <3>1, <3>2 DEF ReturnEffect
  <2>2. CASE DnsStep(p)
    BY <1>1, <2>2, DnsStepEffect DEF StepEffect
  <2>3. CASE DnsRaises(p)
    <3>1. dns[p] # None /\ proc[p] # None /\ dns[p].step = "revert"
      BY <1>1, <2>3, DnsRaisesEffect, CallTyped DEF RaiseEffect
    <3> QED BY <1>1, <3>1 DEF CommitInv, Clean
  <2>4. CASE RestoreMutation(p)
    BY <1>1, <2>4, RestoreMutationEffect DEF CommitInv, Clean
  <2>5. CASE \/ Prepare(p) \/ Reject(p) \/ NameDevice(p) \/ StageRaises(p) \/ Commit(p)
             \/ CommitRaises(p) \/ DisableRow(p) \/ DisableRaises(p) \/ CleanUp(p)
             \/ SyncNext(p) \/ SyncDone(p) \/ InstallDone(p)
    BY <2>5 DEF Prepare, Reject, NameDevice, StageRaises, Commit, CommitRaises, DisableRow,
            DisableRaises, CleanUp, SyncNext, SyncDone, InstallDone, dnsVars
  <2> QED BY <1>3, <2>1, <2>2, <2>3, <2>4, <2>5 DEF Steps
<1>4. CASE zone' = zone
  BY <1>4
<1> QED BY <1>3, <1>4 DEF Next, Receive, StartRevoke, StartEnsure, StartDelete, StartSync,
                          Configure, IssueToken, vars, dnsVars

LEMMA CommitStep == TypeInv /\ RowInv /\ CommitInv /\ [Next]_vars => CommitInv'
<1> USE PublicDnsAssumption
<1> SUFFICES ASSUME TypeInv, RowInv, CommitInv, [Next]_vars, failures' = 0,
                    NEW q \in Procs, proc'[q] # None
             PROVE  Clean(zone', devices', serving', proc'[q], dns'[q])
  BY DEF CommitInv
<1>1. failures = 0 /\ failures # failures + 1
  BY NothingRaised
<1>2. TypeInv'
  BY TypeStep
<1>3. CASE proc'[q] = proc[q] /\ dns'[q] = dns[q]
  <2> DEFINE o == proc[q]
  <2>1. Clean(zone, devices, serving, o, dns[q])
    BY <1>1, <1>3 DEF CommitInv
  <2>2. ASSUME serving', o.op = "enroll", o.at = "commit", devices'[o.dev] = None
        PROVE  zone'[HostName[o.dev]] = Ours
    <3>1. o.dev \in Devices /\ q \in Threads
      BY <1>3, <2>2 DEF TypeInv, ShapeInv, Shape, Reconciles
    <3>2. serving
      BY <1>3, <2>2, <3>1, ServingChanges, InstallDoneEffect DEF RestartEffect, TypeInv, Types
    <3>3. devices[o.dev] = None
      BY <2>2, <3>1, RowsSettle
    <3>4. zone[HostName[o.dev]] = Ours /\ ~Settled(devices, dropped, o.dev)
      BY <2>1, <2>2, <3>2, <3>3 DEF Clean, Settled
    <3> QED BY <3>1, <3>4, ClaimKept
  <2> QED BY <1>3, <2>1, <2>2 DEF Clean
<1>4. CASE Begins(q)
  <2>1. /\ proc'[q].at \in {"prepare", "disable", "cleanup", "dns", "next"}
        /\ dns'[q] # None => dns'[q].step = "get"
    BY <1>4, ReceiveEffect, StartRevokeEffect, StartCallEffect, StartSyncEffect
       DEF Begins, Begun, Called
  <2> QED BY <2>1 DEF Clean
<1>5. CASE \/ Prepare(q) \/ Reject(q) \/ StageRaises(q) \/ Commit(q) \/ CommitRaises(q)
           \/ DisableRow(q) \/ DisableRaises(q)
  <2>1. proc[q] # None /\ proc[q].at # "dns"
    BY <1>5 DEF Prepare, Reject, StageRaises, Commit, CommitRaises, DisableRow, DisableRaises, Doing
  <2>2. dns[q] = None /\ UNCHANGED dns
    BY <1>5, <2>1 DEF Prepare, Reject, StageRaises, Commit, CommitRaises, DisableRow,
       DisableRaises, dnsVars, TypeInv, ShapeInv, Shape
  <2>3. Goes(q, "stages") \/ Goes(q, "cleanup")
    BY <1>1, <1>5, ReturnsMoves DEF Prepare, Reject, StageRaises, Commit, CommitRaises, DisableRow,
            DisableRaises, Fails, TypeInv
  <2>4. proc'[q].at \in {"stages", "cleanup"}
    BY <2>1, <2>3, GoesMoves DEF Points, Moved, TypeInv
  <2> QED BY <2>2, <2>4 DEF Clean
<1>6. CASE NameDevice(q)
  <2>1. proc[q] # None /\ proc[q].op = "enroll" /\ proc[q].at = "stages"
    BY <1>6 DEF NameDevice, Doing
  <2>2. dns[q] = None /\ proc[q].dev \in Devices
    BY <2>1 DEF TypeInv, ShapeInv, Shape, Reconciles
  <2>3. CASE DnsBegins(q, HostName[proc[q].dev], Ours) /\ Goes(q, "dns")
    <3>1. proc'[q].at = "dns"
      BY <2>1, <2>3, GoesMoves DEF Points, Moved, TypeInv
    <3>2. dns'[q].step = "get"
      BY <2>2, <2>3, BeginsCall DEF TypeInv
    <3> QED BY <3>1, <3>2 DEF Clean
  <2>4. CASE ~serving /\ Goes(q, "commit") /\ UNCHANGED dns
    <3>1. proc'[q].at = "commit" /\ ~serving'
      BY <1>6, <2>1, <2>4, GoesMoves DEF Points, Moved, TypeInv, NameDevice, envVars
    <3> QED BY <2>2, <2>4, <3>1 DEF Clean
  <2> QED BY <1>6, <2>3, <2>4 DEF NameDevice, EnsureRecord
<1>7. CASE CleanUp(q)
  <2>1. proc[q] # None /\ proc[q].op = "revoke" /\ proc[q].dev \in Devices
    BY <1>7 DEF CleanUp, Doing, TypeInv, ShapeInv, Shape, Reconciles
  <2>2. DnsBegins(q, HostName[proc[q].dev], Nothing) /\ Goes(q, "dns")
    BY <1>7, ReturnsMoves DEF CleanUp, DeleteRecord, TypeInv
  <2>3. proc'[q].at = "dns"
    BY <2>1, <2>2, GoesMoves DEF Points, Moved, TypeInv
  <2>4. dns'[q].step = "get"
    BY <2>1, <2>2, BeginsCall DEF TypeInv
  <2> QED BY <2>3, <2>4 DEF Clean
<1>8. CASE SyncNext(q) \/ SyncDone(q) \/ InstallDone(q)
  <2>1. SyncNext(q)
    BY <1>8, ReturnsMoves, InstallDoneEffect DEF SyncDone, RestartEffect, TypeInv
  <2> QED BY <2>1, SyncNextEffect DEF Clean, Moved, Called
<1>9. CASE DnsReturns(q)
  <2>1. ReturnEffect(q) /\ dns[q] # None /\ proc[q] # None
    BY <1>9, DnsReturnsEffect, CallTyped
  <2>2. proc[q].op = "enroll" => dns[q].want = Ours /\ dns[q].name = HostName[proc[q].dev]
    BY <2>1 DEF TypeInv, ShapeInv, Shape, Reconciles
  <2> QED BY <2>1, <2>2 DEF ReturnEffect, Clean, Moved, Reconciles
<1>10. CASE DnsStep(q)
  BY <1>1, <1>10, DnsStepEffect, CallTyped DEF StepEffect, Clean
<1>11. CASE DnsRaises(q)
  <2>1. dns[q] # None /\ proc[q] # None /\ dns[q].step = "revert"
    BY <1>1, <1>11, DnsRaisesEffect, CallTyped DEF RaiseEffect
  <2> QED BY <1>1, <2>1 DEF CommitInv, Clean
<1>12. CASE RestoreMutation(q)
  BY <1>1, <1>12, RestoreMutationEffect DEF CommitInv, Clean
<1> QED BY <1>3, <1>4, <1>5, <1>6, <1>7, <1>8, <1>9, <1>10, <1>11, <1>12, WhoMoves DEF Steps

LEMMA InitCommits == Init => CommitInv
BY DEF Init, CommitInv

LEMMA ClaimInvariance == Spec => [](TypeInv /\ RowInv /\ CommitInv)
BY InitTypes, InitRows, InitCommits, TypeStep, RowStep, CommitStep, PTL DEF Spec

\* Only the commit of its enrolment gives a device a row.
LEMMA NewRow ==
    ASSUME TypeInv, [Next]_vars, NEW d \in Devices, devices[d] = None, devices'[d] # None
    PROVE  \E p \in Procs : Commit(p) /\ proc[p].dev = d
<1>1. ASSUME NEW p \in Procs, Commit(p)
      PROVE  proc[p].dev = d
  <2>1. /\ proc[p] # None /\ proc[p].op = "enroll" /\ proc[p].at = "commit"
        /\ txn[p] # None /\ devices' = View(p)
    BY <1>1 DEF Commit, Doing, CommitEnrollment
  <2>2. txn[p].dev = proc[p].dev
    BY <2>1 DEF TypeInv, ShapeInv, Shape
  <2>3. devices'[d] # devices[d]
    OBVIOUS
  <2> QED BY <2>1, <2>2, <2>3 DEF View, TypeInv, IInv, RegistryTypeOK
<1>2. ASSUME NEW p \in Procs, Steps(p)
      PROVE  Commit(p)
  <2>1. CASE DisableRow(p)
    BY <2>1 DEF DisableRow, RevokeRow, TypeInv, IInv, RegistryTypeOK
  <2>2. CASE DnsReturns(p) \/ DnsStep(p) \/ DnsRaises(p) \/ RestoreMutation(p)
    BY <2>2, DnsReturnsEffect, DnsStepEffect, DnsRaisesEffect, RestoreMutationEffect
       DEF ReturnEffect, StepEffect, RaiseEffect, RestoreEffect, regVars
  <2>3. CASE \/ Prepare(p) \/ Reject(p) \/ NameDevice(p) \/ StageRaises(p) \/ CommitRaises(p)
             \/ DisableRaises(p) \/ CleanUp(p) \/ SyncNext(p) \/ SyncDone(p) \/ InstallDone(p)
    BY <2>3 DEF Prepare, BeginEnrollment, Reject, NameDevice, StageRaises, CommitRaises, Rollback,
            DisableRaises, CleanUp, SyncNext, SyncDone, InstallDone, regVars
  <2> QED BY <1>2, <2>1, <2>2, <2>3 DEF Steps
<1>3. \E p \in Procs : Steps(p)
  BY DEF Next, Receive, StartRevoke, StartEnsure, StartDelete, StartSync, Configure,
         IssueToken, CreateToken, vars, regVars
<1> QED BY <1>1, <1>2, <1>3

\* A service with a provider commits a new device after naming it, however many
\* requests, commands and restarts of the service run beside the enrolment.
THEOREM NewDeviceIsNamed == Spec => EnrolledIsNamed
<1>1. TypeInv /\ RowInv /\ CommitInv /\ [Next]_vars =>
        [serving /\ failures' = 0 =>
            \A d \in Devices : devices[d] = None /\ devices'[d] # None =>
                zone[HostName[d]] = Ours]_vars
  <2> SUFFICES ASSUME TypeInv, CommitInv, [Next]_vars, serving, failures' = 0,
                      NEW d \in Devices, devices[d] = None, devices'[d] # None
               PROVE  zone[HostName[d]] = Ours
    OBVIOUS
  <2>1. PICK p \in Procs : Commit(p) /\ proc[p].dev = d
    BY NewRow
  <2>2. proc[p] # None /\ proc[p].op = "enroll" /\ proc[p].at = "commit"
    BY <2>1 DEF Commit, Doing
  <2> QED BY <2>1, <2>2, NothingRaised DEF CommitInv, Clean
<1> QED BY <1>1, ClaimInvariance, PTL DEF Spec, EnrolledIsNamed

-----------------------------------------------------------------------------
(* Without a provider nothing is ever named.                               *)

ConfInv ==
    /\ serving => configured
    /\ ~configured =>
          /\ \A n \in Names : zone[n] # Ours
          /\ \A p \in Procs : proc[p] # None =>
                dns[p] = None /\ ~Reconciles(proc[p]) /\ proc[p].done = {}

LEMMA InitConf == Init => ConfInv
<1>1. Ours # Nothing
  BY DEF Ours, Nothing
<1> QED BY <1>1, DnsManagerAssumption DEF Init, DnsInit, ConfInv

LEMMA ConfStep == TypeInv /\ ConfInv /\ [Next]_vars => ConfInv'
<1> SUFFICES ASSUME TypeInv, ConfInv, [Next]_vars PROVE ConfInv'
  OBVIOUS
<1>1. configured \in BOOLEAN /\ serving \in BOOLEAN
  BY DEF TypeInv, Types
<1>2. CASE configured
  <2>1. configured'
    <3>1. ASSUME NEW p \in Procs, Steps(p) PROVE configured' = configured
      <4>1. CASE DnsReturns(p) \/ DnsStep(p) \/ DnsRaises(p) \/ RestoreMutation(p)
        BY <4>1 DEF DnsReturns, DnsStep, DnsRaises, RestoreMutation, envVars
      <4>2. CASE \/ Prepare(p) \/ Reject(p) \/ NameDevice(p) \/ StageRaises(p) \/ Commit(p)
                 \/ CommitRaises(p) \/ DisableRow(p) \/ DisableRaises(p) \/ CleanUp(p)
                 \/ SyncNext(p) \/ SyncDone(p) \/ InstallDone(p)
        BY <4>2 DEF Prepare, Reject, NameDevice, StageRaises, Commit, CommitRaises, DisableRow,
                DisableRaises, CleanUp, SyncNext, SyncDone, InstallDone, envVars
      <4> QED BY <3>1, <4>1, <4>2 DEF Steps
    <3> QED BY <1>2, <3>1 DEF Next, Receive, StartRevoke, StartEnsure, StartDelete, StartSync,
                              Configure, IssueToken, vars, envVars
  <2> QED BY <2>1 DEF ConfInv
<1>3. CASE ~configured
  <2>1. ~serving
    BY <1>3 DEF ConfInv
  <2>2. \A p \in Procs : dns[p] = None /\ ~InstallDone(p) /\ ~RestoreMutation(p)
                         /\ ~SyncNext(p) /\ ~SyncDone(p)
    <3> SUFFICES ASSUME NEW p \in Procs
                 PROVE  dns[p] = None /\ ~InstallDone(p) /\ ~RestoreMutation(p)
                        /\ ~SyncNext(p) /\ ~SyncDone(p)
      OBVIOUS
    <3>1. proc[p] # None => ~Reconciles(proc[p]) /\ proc[p].done = {} /\ proc[p].todo = {}
      BY <1>3 DEF ConfInv, TypeInv, ShapeInv, Shape
    <3>2. dns[p] = None
      BY <1>3 DEF ConfInv, TypeInv, ShapeInv, Shape
    <3> QED BY <3>1, <3>2 DEF InstallDone, RestoreMutation, SyncNext, SyncDone, Doing, Reconciles
  <2>3. ~serving'
    BY <2>1, <2>2, ServingChanges
  <2>4. zone' = zone
    <3>1. ASSUME NEW p \in Procs, Steps(p) PROVE zone' = zone
      BY <2>2, <3>1, DnsReturnsEffect, DnsStepEffect, DnsRaisesEffect
         DEF Steps, Prepare, Reject, NameDevice, StageRaises, Commit, CommitRaises, DisableRow,
             DisableRaises, CleanUp, dnsVars
    <3> QED BY <3>1 DEF Next, Receive, StartRevoke, StartEnsure, StartDelete, StartSync,
                        Configure, IssueToken, vars, dnsVars
  <2>5. ASSUME NEW q \in Procs, proc'[q] # None, ~configured'
        PROVE  dns'[q] = None /\ ~Reconciles(proc'[q]) /\ proc'[q].done = {}
    <3>1. CASE proc'[q] = proc[q] /\ dns'[q] = dns[q]
      BY <1>3, <2>5, <3>1 DEF ConfInv
    <3>2. CASE Begins(q)
      BY <1>3, <3>2, ReceiveEffect, StartRevokeEffect, StartCallEffect, StartSyncEffect
         DEF Begins, Begun, Reconciles
    <3>3. CASE \/ Prepare(q) \/ Reject(q) \/ NameDevice(q) \/ StageRaises(q) \/ Commit(q)
               \/ CommitRaises(q) \/ DisableRow(q) \/ DisableRaises(q) \/ CleanUp(q)
      <4>1. proc[q] # None /\ dns[q] = None /\ ~Reconciles(proc[q]) /\ proc[q].done = {}
        <5>1. proc[q] # None
          BY <3>3 DEF Prepare, Reject, NameDevice, StageRaises, Commit, CommitRaises, DisableRow,
                      DisableRaises, CleanUp, Doing
        <5> QED BY <1>3, <5>1 DEF ConfInv
      <4>2. dns' = dns
        BY <1>3, <2>1, <3>3 DEF Prepare, Reject, NameDevice, StageRaises, Commit, CommitRaises,
           DisableRow, DisableRaises, CleanUp, dnsVars
      <4>3. Returns(q) \/ \E at \in {"stages", "commit", "cleanup", "restore"} : Goes(q, at)
        BY <1>3, <2>1, <3>3 DEF Prepare, Reject, NameDevice, StageRaises, Commit, CommitRaises,
           DisableRow, DisableRaises, CleanUp
      <4> QED BY <2>5, <4>1, <4>2, <4>3, GoesMoves, ReturnsMoves
              DEF TypeInv, Points, Moved, Reconciles
    <3>4. ~DnsReturns(q) /\ ~DnsStep(q) /\ ~DnsRaises(q)
      BY <2>2, DnsReturnsEffect, DnsStepEffect, DnsRaisesEffect
    <3> QED BY <2>2, <2>5, <3>1, <3>2, <3>3, <3>4, WhoMoves DEF Steps
  <2> QED BY <1>3, <2>3, <2>4, <2>5 DEF ConfInv
<1> QED BY <1>1, <1>2, <1>3

-----------------------------------------------------------------------------
(* One operation at a time.                                                *)

OneRuns == \A p, q \in Procs : proc[p] # None /\ proc[q] # None => p = q

LEMMA MoverRuns ==
    ASSUME NEW p \in Procs, Steps(p)
    PROVE  proc[p] # None \/ dns[p] # None
BY DEF Steps, Prepare, Reject, NameDevice, StageRaises, Commit, CommitRaises, DisableRow,
       DisableRaises, CleanUp, SyncNext, SyncDone, InstallDone, DnsReturns, DnsStep, DnsRaises,
       RestoreMutation, Doing, AlreadyThere, PutRecords, GetRecords, PutRaises, GetRaises,
       Revert, RevertRaises, AtDns

\* While one process makes a step, the others do nothing.
LEMMA OthersRest ==
    ASSUME Serial, TypeInv, OneRuns, [Next]_vars, NEW p \in Procs, Begins(p) \/ Steps(p),
           NEW q \in Procs \ {p}
    PROVE  proc[q] = None /\ dns[q] = None /\ proc'[q] = None
<1>1. Begins(p) => \A r \in Procs : proc[r] = None
  BY DEF Begins, Receive, StartRevoke, StartEnsure, StartDelete, StartSync, Idle, Quiet
<1>2. Steps(p) => proc[p] # None
  BY MoverRuns, CallTyped
<1>3. proc[q] = None /\ dns[q] = None
  BY <1>1, <1>2 DEF OneRuns, TypeInv, ShapeInv, Shape
<1>4. proc'[q] = None
  <2>1. CASE InstallDone(p)
    BY <1>3, <2>1, InstallDoneEffect DEF RestartEffect
  <2>2. CASE ~InstallDone(p)
    <3>1. Elsewhere(p)
      BY <2>2, StartsKeepTypes, EnrollmentKeepsTypes, RevocationKeepsTypes, SyncKeepsTypes,
         DnsReturnsEffect, DnsStepEffect, DnsRaisesEffect, RestoreMutationEffect DEF Steps, Begins
    <3> QED BY <1>3, <3>1 DEF Elsewhere
  <2> QED BY <2>1, <2>2
<1> QED BY <1>3, <1>4

LEMMA SomeoneMoves ==
    ASSUME [Next]_vars
    PROVE  \/ \E p \in Procs : Begins(p) \/ Steps(p)
           \/ UNCHANGED <<proc, dns, zone, devices, serving, failures, dropped>>
BY DEF Next, Begins, Configure, IssueToken, CreateToken, vars, dnsVars, envVars, regVars

LEMMA OneRunsStep == Serial /\ TypeInv /\ OneRuns /\ [Next]_vars => OneRuns'
<1> SUFFICES ASSUME Serial, TypeInv, OneRuns, [Next]_vars PROVE OneRuns'
  OBVIOUS
<1>1. CASE \E p \in Procs : Begins(p) \/ Steps(p)
  BY <1>1, OthersRest DEF OneRuns
<1>2. CASE UNCHANGED <<proc, dns, zone, devices, serving, failures, dropped>>
  BY <1>2 DEF OneRuns
<1> QED BY <1>1, <1>2, SomeoneMoves

-----------------------------------------------------------------------------
(* The name of an enabled device, one operation at a time.                 *)

\* Device d has a claim to its name.
Needs(rows, drop, d) == rows[d] # None /\ rows[d].enabled /\ HostName[d] \notin drop

\* What an operation has changed, and may undo, is no name that is needed; an
\* enrolment that comes to its commit has named its device.
Keeps(z, rows, drop, o, c) ==
    /\ o.op = "enroll" /\ o.at = "commit" => z[HostName[o.dev]] = Ours
    /\ \A d \in Devices : Needs(rows, drop, d) =>
          /\ \A m \in o.done : m.name # HostName[d]
          /\ c # None /\ c.step # "get" => c.name # HostName[d]

\* The installer starts the service with a provider only after it has seen to
\* every name that is needed.
Covers(z, rows, drop, o, c) ==
    \A d \in Devices : Needs(rows, drop, d) =>
        \/ z[HostName[d]] = Ours
        \/ \E e \in o.todo : e.name = HostName[d] /\ e.want = Ours
        \/ c # None /\ (c.name = HostName[d] \/ c.step = "revert")

NamedInv ==
    /\ serving =>
          /\ \A d \in Devices : Needs(devices, dropped, d) => zone[HostName[d]] = Ours
          /\ \A p \in Procs : proc[p] # None => Keeps(zone, devices, dropped, proc[p], dns[p])
    /\ \A p \in Procs :
          proc[p] # None /\ proc[p].op = "install" /\ proc[p].at \in {"next", "dns"} =>
              Covers(zone, devices, dropped, proc[p], dns[p])

LEMMA InitNamed == Init => OneRuns /\ NamedInv
BY DEF Init, OneRuns, NamedInv

LEMMA NeedsShrink ==
    ASSUME TypeInv, [Next]_vars, NEW d \in Devices, Needs(devices', dropped', d)
    PROVE  \/ Needs(devices, dropped, d)
           \/ \E p \in Procs : Commit(p) /\ proc[p].dev = d
BY RowsSettle, DroppedGrows, NewRow DEF Needs

\* Nobody is made to remove a name that is needed.
LEMMA NeededIsWanted ==
    ASSUME TypeInv, RowInv, NEW p \in Procs, dns[p] # None, NEW d \in Devices,
           Needs(devices, dropped, d), dns[p].name = HostName[d]
    PROVE  dns[p].want = Ours
<1>1. dns[p].want = Nothing => GoneFor(devices, dropped, dns[p].name)
  BY CallTyped DEF RowInv, Informed
<1> QED BY <1>1, CallTyped DEF GoneFor, Settled, Needs

LEMMA NamedByRequests ==
    ASSUME Serial, TypeInv, OneRuns, RowInv, NamedInv, [Next]_vars, NEW p \in Procs,
           DnsReturns(p) \/ DnsStep(p) \/ DnsRaises(p) \/ RestoreMutation(p)
    PROVE  NamedInv'
<1> USE PublicDnsAssumption
<1> DEFINE o == proc[p]
           c == dns[p]
           o2 == proc'[p]
           c2 == dns'[p]
<1>1. Steps(p) /\ \A q \in Procs \ {p} : proc'[q] = None
  BY OthersRest DEF Steps
<1>2. \A d \in Devices : HostName[d] \in Names
  OBVIOUS
<1>3. /\ devices' = devices /\ dropped' = dropped /\ serving' = serving
      /\ o # None
  BY DnsReturnsEffect, DnsStepEffect, DnsRaisesEffect, RestoreMutationEffect, CallTyped
     DEF ReturnEffect, StepEffect, RaiseEffect, RestoreEffect, regVars, envVars
<1>4. SUFFICES
        /\ serving =>
              /\ \A d \in Devices : Needs(devices, dropped, d) => zone'[HostName[d]] = Ours
              /\ o2 # None => Keeps(zone', devices, dropped, o2, c2)
        /\ o2 # None /\ o2.op = "install" /\ o2.at \in {"next", "dns"} =>
              Covers(zone', devices, dropped, o2, c2)
  BY <1>1, <1>3 DEF NamedInv
<1>5. /\ serving =>
            /\ \A d \in Devices : Needs(devices, dropped, d) => zone[HostName[d]] = Ours
            /\ Keeps(zone, devices, dropped, o, c)
      /\ o.op = "install" /\ o.at \in {"next", "dns"} => Covers(zone, devices, dropped, o, c)
  BY <1>3 DEF NamedInv
<1>6. CASE DnsReturns(p)
  <2>1. ReturnEffect(p) /\ c # None
    BY <1>6, DnsReturnsEffect
  <2>2. \A d \in Devices : Needs(devices, dropped, d) =>
           \/ HostName[d] = c.name /\ zone'[HostName[d]] = Ours
           \/ HostName[d] # c.name /\ zone'[HostName[d]] = zone[HostName[d]]
    BY <1>2, <2>1, NeededIsWanted DEF ReturnEffect
  <2>3. o.op = "enroll" => c.want = Ours /\ c.name = HostName[o.dev]
    BY <1>3, <2>1 DEF TypeInv, ShapeInv, Shape, Reconciles
  <2>4. ASSUME serving, o2 # None
        PROVE  Keeps(zone', devices, dropped, o2, c2)
    <3>1. \A m \in o2.done : m \in o.done \/ (m.name = c.name /\ c.step = "put")
      BY <2>1, <2>4, CallTyped DEF ReturnEffect, Recorded
    <3> QED BY <1>5, <2>1, <2>3, <2>4, <3>1 DEF ReturnEffect, Keeps, Moved, Reconciles
  <2>5. ASSUME o2 # None, o2.op = "install"
        PROVE  Covers(zone', devices, dropped, o2, c2)
    <3>1. o.op = "install" /\ o.at = "dns" /\ o2.todo = o.todo /\ c.step # "revert"
      BY <2>1, <2>5, CallTyped DEF ReturnEffect, Moved
    <3> QED BY <1>5, <2>2, <3>1 DEF Covers
  <2> QED BY <1>5, <2>2, <2>4, <2>5
<1>7. CASE DnsStep(p)
  <2>1. StepEffect(p) /\ c # None
    BY <1>7, DnsStepEffect
  <2>2. o2 = o /\ o.at = "dns"
    BY <2>1, CallTyped DEF StepEffect
  <2>3. ASSUME serving, NEW d \in Devices, Needs(devices, dropped, d)
        PROVE  c.name # HostName[d]
    <3>1. c.step = "get" => zone[c.name] # c.want
      BY <2>1 DEF StepEffect
    <3> QED BY <1>5, <2>1, <2>3, <3>1, NeededIsWanted DEF Keeps
  <2>4. ASSUME serving, NEW d \in Devices, Needs(devices, dropped, d)
        PROVE  zone'[HostName[d]] = Ours
    BY <1>2, <1>5, <2>1, <2>3, <2>4 DEF StepEffect
  <2>5. ASSUME serving
        PROVE  Keeps(zone', devices, dropped, o2, c2)
    BY <1>5, <2>1, <2>2, <2>3, <2>5 DEF StepEffect, Keeps
  <2>6. ASSUME o2.op = "install"
        PROVE  Covers(zone', devices, dropped, o2, c2)
    <3>1. Covers(zone, devices, dropped, o, c)
      BY <1>5, <2>2, <2>6
    <3> QED BY <1>2, <2>1, <2>2, <3>1 DEF StepEffect, Covers
  <2> QED BY <2>4, <2>5, <2>6
<1>8. CASE DnsRaises(p)
  <2>1. RaiseEffect(p) /\ c # None
    BY <1>8, DnsRaisesEffect
  <2>2. ASSUME serving, NEW d \in Devices, Needs(devices, dropped, d)
        PROVE  zone'[HostName[d]] = Ours
    BY <1>2, <1>5, <2>1, <2>2 DEF RaiseEffect, Keeps
  <2>3. ASSUME serving, o2 # None
        PROVE  Keeps(zone', devices, dropped, o2, c2)
    BY <1>5, <2>1, <2>3 DEF RaiseEffect, Keeps, Moved
  <2> QED BY <2>1, <2>2, <2>3 DEF RaiseEffect, Moved
<1>9. CASE RestoreMutation(p)
  <2>1. RestoreEffect(p) /\ c = None /\ o.at = "restore"
    BY <1>9, RestoreMutationEffect
  <2>2. ASSUME serving, NEW d \in Devices, Needs(devices, dropped, d)
        PROVE  zone'[HostName[d]] = Ours
    BY <1>2, <1>5, <2>1, <2>2 DEF RestoreEffect, Keeps
  <2>3. ASSUME serving, o2 # None
        PROVE  Keeps(zone', devices, dropped, o2, c2)
    BY <1>5, <2>1, <2>3 DEF RestoreEffect, Keeps, Moved
  <2> QED BY <2>1, <2>2, <2>3 DEF RestoreEffect, Moved
<1> QED BY <1>6, <1>7, <1>8, <1>9

\* The steps that leave the zone alone, but for the restart of the service.
LEMMA NamedBySteps ==
    ASSUME Serial, TypeInv, OneRuns, RowInv, NamedInv, [Next]_vars, NEW p \in Procs,
           \/ Prepare(p) \/ Reject(p) \/ NameDevice(p) \/ StageRaises(p) \/ Commit(p)
           \/ CommitRaises(p) \/ DisableRow(p) \/ DisableRaises(p) \/ CleanUp(p)
    PROVE  NamedInv'
<1> USE PublicDnsAssumption
<1> DEFINE o == proc[p]
           o2 == proc'[p]
<1>1. Steps(p) /\ \A q \in Procs \ {p} : proc'[q] = None
  BY OthersRest DEF Steps
<1>2. zone' = zone /\ serving' = serving /\ o # None /\ o.op \in {"enroll", "revoke"}
      /\ o.at # "dns"
  BY DEF Prepare, Reject, NameDevice, StageRaises, Commit, CommitRaises, DisableRow,
         DisableRaises, CleanUp, dnsVars, envVars, Doing
<1>3. o.dev \in Devices /\ HostName[o.dev] \in Names /\ dns[p] = None
  BY <1>2 DEF TypeInv, ShapeInv, Shape, Reconciles
<1>4. \/ Returns(p)
      \/ ~Commit(p) /\ \E at \in {"stages", "restore", "cleanup", "dns"} : Goes(p, at)
      \/ ~Commit(p) /\ ~serving /\ Goes(p, "commit")
  BY DEF Prepare, Reject, NameDevice, StageRaises, Commit, CommitRaises, DisableRow,
         DisableRaises, CleanUp, Doing
<1>5. \/ o2 = None
      \/ /\ o2.op = o.op /\ o2.done = o.done /\ ~Commit(p)
         /\ o2.at = "commit" => ~serving
  BY <1>2, <1>4, GoesMoves, ReturnsMoves DEF TypeInv, Points, Moved
<1>6. dns'[p] # None => dns'[p].step = "get"
  <2>1. \/ UNCHANGED dns
        \/ DnsBegins(p, HostName[o.dev], Ours)
        \/ DnsBegins(p, HostName[o.dev], Nothing)
    BY DEF Prepare, Reject, NameDevice, StageRaises, Commit, CommitRaises, DisableRow,
           DisableRaises, CleanUp, EnsureRecord, DeleteRecord, dnsVars
  <2> QED BY <1>3, <2>1, BeginsCall DEF TypeInv
<1>7. ~Commit(p) => \A d \in Devices : Needs(devices', dropped', d) => Needs(devices, dropped, d)
  <2>1. ASSUME NEW q \in Procs, Commit(q) PROVE q = p
    BY <1>2, <2>1 DEF Commit, Doing, OneRuns
  <2> QED BY <2>1, NeedsShrink
<1>8. ASSUME serving, NEW d \in Devices, Needs(devices', dropped', d)
      PROVE  zone[HostName[d]] = Ours
  <2>1. CASE Needs(devices, dropped, d)
    BY <1>8, <2>1 DEF NamedInv
  <2>2. CASE \E q \in Procs : Commit(q) /\ proc[q].dev = d
    BY <1>8, <2>2 DEF NamedInv, Keeps, Commit, Doing
  <2> QED BY <1>8, <2>1, <2>2, NeedsShrink
<1>9. ASSUME serving, o2 # None
      PROVE  Keeps(zone, devices', dropped', o2, dns'[p])
  <2>1. Keeps(zone, devices, dropped, o, dns[p])
    BY <1>2, <1>9 DEF NamedInv
  <2> QED BY <1>5, <1>6, <1>7, <1>9, <2>1 DEF Keeps
<1>10. o2 # None => o2.op # "install"
  BY <1>2, <1>5
<1> QED BY <1>1, <1>2, <1>8, <1>9, <1>10 DEF NamedInv

LEMMA NamedByBegins ==
    ASSUME Serial, TypeInv, OneRuns, RowInv, NamedInv, [Next]_vars, NEW p \in Procs,
           Begins(p) \/ SyncNext(p) \/ SyncDone(p)
    PROVE  NamedInv'
<1> USE PublicDnsAssumption
<1> DEFINE o2 == proc'[p]
<1>1. \A q \in Procs \ {p} : proc'[q] = None
  BY OthersRest DEF Steps
<1>2. zone' = zone /\ serving' = serving /\ devices' = devices
  BY DEF Begins, Receive, StartRevoke, StartEnsure, StartDelete, StartSync, SyncNext, SyncDone,
         dnsVars, envVars, regVars
<1>3. \A d \in Devices : Needs(devices', dropped', d) => Needs(devices, dropped, d)
  BY <1>2, DroppedGrows DEF Needs
<1>4. ASSUME serving, NEW d \in Devices, Needs(devices', dropped', d)
      PROVE  zone[HostName[d]] = Ours
  BY <1>3, <1>4 DEF NamedInv
<1>5. SUFFICES
        /\ serving /\ o2 # None => Keeps(zone, devices', dropped', o2, dns'[p])
        /\ o2 # None /\ o2.op = "install" => Covers(zone, devices', dropped', o2, dns'[p])
  BY <1>1, <1>2, <1>4 DEF NamedInv
<1>6. CASE Begins(p)
  <2>1. /\ o2.done = {} /\ o2.at # "commit" /\ (dns'[p] # None => dns'[p].step = "get")
        /\ o2.op = "install" => o2.todo = Targets
    BY <1>6, ReceiveEffect, StartRevokeEffect, StartCallEffect, StartSyncEffect
       DEF Begins, Begun, Called
  <2>2. \A d \in Devices : Needs(devices, dropped, d) =>
           [name |-> HostName[d], want |-> Ours] \in Targets
    <3> SUFFICES ASSUME NEW d \in Devices, Needs(devices, dropped, d)
                 PROVE  [name |-> HostName[d], want |-> Ours] \in Targets
      OBVIOUS
    <3>1. d \in Enrolled /\ (IF devices[d].enabled THEN Ours ELSE Nothing) = Ours
      BY DEF Needs, Enrolled
    <3> QED BY <3>1 DEF Targets
  <2>3. o2.op = "install" => Covers(zone, devices', dropped', o2, dns'[p])
    BY <1>3, <2>1, <2>2 DEF Covers
  <2> QED BY <2>1, <2>3 DEF Keeps
<1>7. CASE SyncNext(p)
  <2> DEFINE o == proc[p]
  <2>1. PICK e \in o.todo : o2.todo = o.todo \ {e} /\ Called(p, e.name, e.want)
    BY <1>7, SyncNextEffect
  <2>2. o # None /\ o.at = "next" /\ o2.op = o.op /\ o2.at = "dns" /\ o2.done = o.done
        /\ dns[p] = None
    BY <1>7, SyncNextEffect DEF Moved, TypeInv, ShapeInv, Shape
  <2>3. serving => Keeps(zone, devices', dropped', o2, dns'[p])
    <3>1. serving => Keeps(zone, devices, dropped, o, dns[p])
      BY <2>2 DEF NamedInv
    <3> QED BY <1>3, <2>1, <2>2, <3>1 DEF Keeps, Called
  <2>4. o2.op = "install" => Covers(zone, devices', dropped', o2, dns'[p])
    <3>1. o.op = "install" => Covers(zone, devices, dropped, o, dns[p])
      BY <2>2 DEF NamedInv
    <3> QED BY <1>3, <2>1, <2>2, <3>1 DEF Covers, Called
  <2> QED BY <2>3, <2>4
<1>8. CASE SyncDone(p)
  BY <1>8, ReturnsMoves DEF SyncDone, TypeInv
<1> QED BY <1>6, <1>7, <1>8

\* The installer has seen to every name when it starts the service.
LEMMA NamedByInstall ==
    ASSUME Serial, TypeInv, OneRuns, NamedInv, [Next]_vars, NEW p \in Procs, InstallDone(p)
    PROVE  NamedInv'
<1>1. \A q \in Procs : proc'[q] = None
  BY OthersRest, InstallDoneEffect DEF Steps, RestartEffect
<1>2. /\ proc[p] # None /\ proc[p].op = "install" /\ proc[p].at = "next" /\ proc[p].todo = {}
      /\ dns[p] = None
  BY DEF InstallDone, Doing, TypeInv, ShapeInv, Shape
<1>3. \A d \in Devices : Needs(devices, dropped, d) => zone[HostName[d]] = Ours
  BY <1>2 DEF NamedInv, Covers
<1> QED BY <1>1, <1>3, InstallDoneEffect DEF RestartEffect, NamedInv

LEMMA NamedStep ==
    Serial /\ TypeInv /\ OneRuns /\ RowInv /\ NamedInv /\ [Next]_vars => NamedInv'
<1> SUFFICES ASSUME Serial, TypeInv, OneRuns, RowInv, NamedInv, [Next]_vars PROVE NamedInv'
  OBVIOUS
<1>1. ASSUME NEW p \in Procs, Begins(p) \/ Steps(p) PROVE NamedInv'
  BY <1>1, NamedByRequests, NamedBySteps, NamedByBegins, NamedByInstall DEF Steps
<1>2. CASE UNCHANGED <<proc, dns, zone, devices, serving, failures, dropped>>
  BY <1>2 DEF NamedInv
<1> QED BY <1>1, <1>2, SomeoneMoves

\* Where operations do not overlap, and whatever raises, a service with a
\* provider keeps the public name of every enabled device, unless an
\* administrator deleted it: for any number of devices, names and failures.
THEOREM EnabledDevicesAreNamed == Serial => (Spec => []EnabledIsNamed)
<1> SUFFICES ASSUME Serial PROVE Spec => []EnabledIsNamed
  OBVIOUS
<1>1. TypeInv /\ NamedInv => EnabledIsNamed
  BY DEF NamedInv, EnabledIsNamed, Needs, Enrolled
<1>2. OneRuns /\ TypeInv /\ [Next]_vars => OneRuns'
  BY OneRunsStep
<1>3. TypeInv /\ OneRuns /\ RowInv /\ NamedInv /\ [Next]_vars => NamedInv'
  BY NamedStep
<1> QED BY <1>1, <1>2, <1>3, InitNamed, ClaimInvariance, PTL DEF Spec

-----------------------------------------------------------------------------
(* The name of a revoked device, one operation at a time.                  *)

\* Nothing should call a revoked device by its name.
Unwanted(rows, d) == rows[d] # None /\ ~rows[d].enabled /\ ~Collides(d)

\* Nothing is going to.
Spares(o, c, n) ==
    /\ c # None /\ c.want = Ours => c.name # n
    /\ \A e \in o.todo : e.want = Ours => e.name # n

\* A revocation has still to remove the name of d.
Removes(o, d) == o.op = "revoke" /\ o.dev = d /\ o.at # "disable"

UnnamedInv ==
    failures = 0 =>
        \A d \in Devices : Unwanted(devices, d) =>
            /\ zone[HostName[d]] = Ours =>
                  \E p \in Procs : proc[p] # None /\ Removes(proc[p], d)
            /\ \A p \in Procs : proc[p] # None => Spares(proc[p], dns[p], HostName[d])

LEMMA InitUnnamed == Init => UnnamedInv
BY DEF Init, RegistryInit, UnnamedInv, Unwanted

\* A device becomes unwanted when its row is revoked.
LEMMA UnwantedGrow ==
    ASSUME TypeInv, [Next]_vars, NEW d \in Devices, Unwanted(devices', d)
    PROVE  \/ Unwanted(devices, d)
           \/ \E p \in Procs : DisableRow(p) /\ proc[p].dev = d
<1>1. devices[d] # None \/ \E p \in Procs : Commit(p)
  BY NewRow DEF Unwanted
<1>2. ASSUME NEW p \in Procs, Commit(p)
      PROVE  Unwanted(devices, d)
  <2>1. txn[p] # None /\ devices' = View(p) /\ txn[p].dev \in Devices
    BY <1>2 DEF Commit, CommitEnrollment, TypeInv, IInv, RegistryTypeOK, Txn
  <2>2. txn[p].row.enabled
    BY <2>1 DEF TypeInv, IInv, DraftStaysValid
  <2> QED BY <2>1, <2>2 DEF View, Unwanted, TypeInv, IInv, RegistryTypeOK
<1>3. ASSUME NEW p \in Procs, DisableRow(p), proc[p].dev # d
      PROVE  Unwanted(devices, d)
  BY <1>3 DEF DisableRow, RevokeRow, Unwanted, TypeInv, IInv, RegistryTypeOK
<1>4. ASSUME NEW p \in Procs, Steps(p), ~Commit(p), ~DisableRow(p)
      PROVE  devices' = devices
  <2>1. CASE DnsReturns(p) \/ DnsStep(p) \/ DnsRaises(p) \/ RestoreMutation(p)
    BY <2>1, DnsReturnsEffect, DnsStepEffect, DnsRaisesEffect, RestoreMutationEffect
       DEF ReturnEffect, StepEffect, RaiseEffect, RestoreEffect, regVars
  <2>2. CASE \/ Prepare(p) \/ Reject(p) \/ NameDevice(p) \/ StageRaises(p) \/ CommitRaises(p)
             \/ DisableRaises(p) \/ CleanUp(p) \/ SyncNext(p) \/ SyncDone(p) \/ InstallDone(p)
    BY <2>2 DEF Prepare, BeginEnrollment, Reject, NameDevice, StageRaises, CommitRaises, Rollback,
            DisableRaises, CleanUp, SyncNext, SyncDone, InstallDone, regVars
  <2> QED BY <1>4, <2>1, <2>2 DEF Steps
<1>5. CASE devices' = devices
  BY <1>5
<1> QED BY <1>2, <1>3, <1>4, <1>5 DEF Next, Receive, StartRevoke, StartEnsure, StartDelete,
           StartSync, Configure, IssueToken, CreateToken, vars, regVars

\* For a step of p it is enough to look at p.
LEMMA UnnamedBy ==
    ASSUME Serial, TypeInv, OneRuns, UnnamedInv, [Next]_vars, NEW p \in Procs,
           Begins(p) \/ Steps(p),
           failures' = 0 =>
               \A d \in Devices : Unwanted(devices', d) =>
                   /\ zone'[HostName[d]] = Ours => proc'[p] # None /\ Removes(proc'[p], d)
                   /\ proc'[p] # None => Spares(proc'[p], dns'[p], HostName[d])
    PROVE  UnnamedInv'
BY OthersRest DEF UnnamedInv

\* What is known of p before.
LEMMA UnnamedBefore ==
    ASSUME Serial, TypeInv, OneRuns, UnnamedInv, [Next]_vars, failures' = 0,
           NEW p \in Procs, Begins(p) \/ Steps(p), NEW d \in Devices, Unwanted(devices, d)
    PROVE  /\ zone[HostName[d]] = Ours => proc[p] # None /\ Removes(proc[p], d)
           /\ proc[p] # None => Spares(proc[p], dns[p], HostName[d])
<1>1. failures = 0
  BY NothingRaised
<1> QED BY <1>1, OthersRest DEF UnnamedInv

LEMMA UnnamedByBegins ==
    ASSUME Serial, TypeInv, OneRuns, UnnamedInv, [Next]_vars, NEW p \in Procs, Begins(p)
    PROVE  UnnamedInv'
<1> USE PublicDnsAssumption
<1>1. zone' = zone /\ devices' = devices /\ proc[p] = None
  BY ReceiveEffect, StartRevokeEffect, StartCallEffect, StartSyncEffect
     DEF Begins, Begun, regVars
<1>2. ASSUME failures' = 0, NEW d \in Devices, Unwanted(devices, d)
      PROVE  /\ zone[HostName[d]] # Ours
             /\ Spares(proc'[p], dns'[p], HostName[d])
  <2>1. zone[HostName[d]] # Ours
    BY <1>1, <1>2, UnnamedBefore
  <2>2. ASSUME NEW op \in {"sync", "install"}, StartSync(p, op)
        PROVE  Spares(proc'[p], dns'[p], HostName[d])
    <3>1. proc'[p].todo = Targets /\ dns'[p] = None
      BY <2>2, StartSyncEffect
    <3>2. ASSUME NEW e \in Targets, e.want = Ours PROVE e.name # HostName[d]
      <4>1. Ours # Nothing
        BY DEF Ours, Nothing
      <4>2. \/ e.name \in Operational
            \/ \E f \in Enrolled : e.name = HostName[f] /\ devices[f].enabled
        BY <3>2, <4>1 DEF Targets
      <4> QED BY <1>2, <4>2 DEF Unwanted, Collides, Enrolled
    <3> QED BY <3>1, <3>2 DEF Spares
  <2>3. ASSUME NEW f \in Devices, StartEnsure(p, f) \/ StartDelete(p, f)
        PROVE  Spares(proc'[p], dns'[p], HostName[d])
    <3>1. Nothing # Ours
      BY DEF Ours, Nothing
    <3> QED BY <1>2, <2>3, <3>1, StartCallEffect DEF Begun, Called, Spares, Unwanted
  <2>4. ASSUME NEW f \in Devices,
               (\E k \in Keys, t \in Tokens : Receive(p, f, k, t)) \/ StartRevoke(p, f)
        PROVE  Spares(proc'[p], dns'[p], HostName[d])
    BY <2>4, ReceiveEffect, StartRevokeEffect DEF Begun, Spares
  <2> QED BY <2>1, <2>2, <2>3, <2>4 DEF Begins
<1> QED BY <1>1, <1>2, UnnamedBy

LEMMA UnnamedByEnrollment ==
    ASSUME Serial, TypeInv, OneRuns, UnnamedInv, [Next]_vars, NEW p \in Procs,
           \/ Prepare(p) \/ Reject(p) \/ NameDevice(p)
           \/ StageRaises(p) \/ Commit(p) \/ CommitRaises(p)
    PROVE  UnnamedInv'
<1> USE PublicDnsAssumption
<1> DEFINE o == proc[p]
<1>1. zone' = zone /\ o # None /\ o.op = "enroll" /\ o.at # "dns" /\ Steps(p)
  BY DEF Prepare, Reject, NameDevice, StageRaises, Commit, CommitRaises, dnsVars, Doing, Steps
<1>2. o.dev \in Devices /\ HostName[o.dev] \in Names /\ dns[p] = None
  BY <1>1 DEF TypeInv, ShapeInv, Shape, Reconciles
<1>3. ASSUME NEW d \in Devices, Unwanted(devices', d) PROVE Unwanted(devices, d)
  <2>1. ASSUME NEW q \in Procs, DisableRow(q) PROVE FALSE
    BY <1>1, <2>1 DEF DisableRow, Doing, OneRuns
  <2> QED BY <1>3, <2>1, UnwantedGrow
<1>4. ASSUME NEW d \in Devices, Unwanted(devices, d), dns'[p] # None
      PROVE  dns'[p].name # HostName[d]
  <2>1. NameDevice(p) /\ DnsBegins(p, HostName[o.dev], Ours)
    BY <1>2, <1>4 DEF Prepare, Reject, NameDevice, StageRaises, Commit, CommitRaises,
       EnsureRecord, dnsVars
  <2>2. dns'[p].name = HostName[o.dev]
    BY <1>2, <2>1, BeginsCall DEF TypeInv
  <2>3. txn[p] # None /\ txn[p].dev = o.dev
    BY <2>1 DEF NameDevice, Doing, TypeInv, ShapeInv, Shape
  <2>4. devices[o.dev] = None \/ devices[o.dev].enabled
    BY <2>3 DEF TypeInv, IInv, DraftStaysValid
  <2> QED BY <1>2, <1>4, <2>2, <2>4 DEF Unwanted
<1>5. proc'[p] # None => proc'[p].todo = o.todo
  <2>1. Returns(p) \/ \E at \in Points : Goes(p, at)
    BY DEF Prepare, Reject, NameDevice, StageRaises, Commit, CommitRaises, Points
  <2> QED BY <1>1, <2>1, GoesMoves, ReturnsMoves DEF TypeInv
<1>6. ASSUME failures' = 0, NEW d \in Devices, Unwanted(devices', d)
      PROVE  /\ zone'[HostName[d]] # Ours
             /\ proc'[p] # None => Spares(proc'[p], dns'[p], HostName[d])
  <2>1. Unwanted(devices, d)
    BY <1>3, <1>6
  <2>2. (zone[HostName[d]] = Ours => Removes(o, d)) /\ Spares(o, dns[p], HostName[d])
    BY <1>1, <1>6, <2>1, UnnamedBefore
  <2> QED BY <1>1, <1>4, <1>5, <2>1, <2>2 DEF Spares, Removes
<1> QED BY <1>1, <1>6, UnnamedBy

LEMMA UnnamedByRevocation ==
    ASSUME Serial, TypeInv, OneRuns, ConfInv, UnnamedInv, [Next]_vars, NEW p \in Procs,
           DisableRow(p) \/ DisableRaises(p) \/ CleanUp(p)
    PROVE  UnnamedInv'
<1> USE PublicDnsAssumption
<1> DEFINE o == proc[p]
<1>1. zone' = zone /\ o # None /\ o.op = "revoke" /\ Steps(p) /\ o.at \in {"disable", "cleanup"}
  BY DEF DisableRow, DisableRaises, CleanUp, dnsVars, Doing, Steps
<1>2. o.dev \in Devices /\ HostName[o.dev] \in Names /\ dns[p] = None /\ o.todo = {}
  BY <1>1 DEF TypeInv, ShapeInv, Shape, Reconciles
<1>3. CASE DisableRow(p)
  <2>1. dns'[p] = None /\ proc'[p].at = "cleanup" /\ proc'[p].op = "revoke"
        /\ proc'[p].dev = o.dev /\ proc'[p].todo = {} /\ proc'[p] # None
    BY <1>1, <1>2, <1>3, GoesMoves, OperationAssumption
       DEF DisableRow, dnsVars, Points, Moved, TypeInv
  <2>2. ASSUME failures' = 0, NEW d \in Devices, Unwanted(devices', d), d # o.dev
        PROVE  zone[HostName[d]] # Ours
    <3>1. Unwanted(devices, d)
      <4>1. ASSUME NEW q \in Procs, DisableRow(q) PROVE q = p
        BY <1>1, <4>1 DEF DisableRow, Doing, OneRuns
      <4> QED BY <2>2, <4>1, UnwantedGrow
    <3> QED BY <1>1, <2>2, <3>1, UnnamedBefore DEF Removes
  <2> QED BY <1>1, <2>1, <2>2, UnnamedBy DEF Removes, Spares
<1>4. CASE DisableRaises(p)
  <2>1. proc'[p] = None /\ devices' = devices /\ o.at = "disable"
    BY <1>4, ReturnsMoves DEF DisableRaises, Doing, regVars, TypeInv
  <2> QED BY <1>1, <2>1, UnnamedBy, UnnamedBefore DEF Removes
<1>5. CASE CleanUp(p) /\ configured /\ ~Collides(o.dev)
  <2>1. /\ DnsBegins(p, HostName[o.dev], Nothing) /\ Goes(p, "dns") /\ devices' = devices
    BY <1>5 DEF CleanUp, DeleteRecord, regVars
  <2>2. dns'[p].want = Nothing /\ Nothing # Ours
    BY <1>2, <2>1, BeginsCall DEF TypeInv, Ours, Nothing
  <2>3. /\ proc'[p].at = "dns" /\ proc'[p].op = "revoke" /\ proc'[p].dev = o.dev
        /\ proc'[p].todo = {} /\ proc'[p] # None
    BY <1>1, <1>2, <2>1, GoesMoves, OperationAssumption DEF Points, Moved, TypeInv
  <2>4. ASSUME failures' = 0, NEW d \in Devices, Unwanted(devices, d), zone[HostName[d]] = Ours
        PROVE  Removes(proc'[p], d)
    BY <1>1, <2>3, <2>4, UnnamedBefore DEF Removes
  <2> QED BY <1>1, <2>1, <2>2, <2>3, <2>4, UnnamedBy DEF Spares
<1>6. CASE CleanUp(p) /\ ~(configured /\ ~Collides(o.dev))
  <2>1. proc'[p] = None /\ devices' = devices
    BY <1>6, ReturnsMoves DEF CleanUp, regVars, TypeInv
  <2>2. ASSUME failures' = 0, NEW d \in Devices, Unwanted(devices, d)
        PROVE  zone[HostName[d]] # Ours
    <3>1. CASE ~configured
      BY <3>1 DEF ConfInv
    <3>2. CASE Collides(o.dev)
      BY <1>1, <2>2, <3>2, UnnamedBefore DEF Removes, Unwanted
    <3> QED BY <1>6, <3>1, <3>2
  <2> QED BY <1>1, <2>1, <2>2, UnnamedBy
<1> QED BY <1>3, <1>4, <1>5, <1>6

LEMMA UnnamedByRequests ==
    ASSUME Serial, TypeInv, OneRuns, CommitInv, UnnamedInv, [Next]_vars, NEW p \in Procs,
           DnsReturns(p) \/ DnsStep(p) \/ DnsRaises(p) \/ RestoreMutation(p)
    PROVE  UnnamedInv'
<1> USE PublicDnsAssumption
<1> DEFINE o == proc[p]
           c == dns[p]
<1>1. Steps(p) /\ devices' = devices /\ \A d \in Devices : HostName[d] \in Names
  BY DnsReturnsEffect, DnsStepEffect, DnsRaisesEffect, RestoreMutationEffect
     DEF Steps, ReturnEffect, StepEffect, RaiseEffect, RestoreEffect, regVars
<1>2. SUFFICES ASSUME failures' = 0, NEW d \in Devices, Unwanted(devices, d)
               PROVE  /\ zone'[HostName[d]] = Ours => proc'[p] # None /\ Removes(proc'[p], d)
                      /\ proc'[p] # None => Spares(proc'[p], dns'[p], HostName[d])
  BY <1>1, UnnamedBy
<1>3. failures = 0 /\ failures # failures + 1
  BY <1>2, NothingRaised
<1>4. /\ zone[HostName[d]] = Ours => o # None /\ Removes(o, d)
      /\ o # None => Spares(o, c, HostName[d])
  BY <1>1, <1>2, UnnamedBefore
<1>5. CASE DnsReturns(p)
  <2>1. ReturnEffect(p) /\ c # None /\ o # None /\ o.at = "dns"
    BY <1>5, DnsReturnsEffect, CallTyped
  <2>2. zone'[HostName[d]] # Ours
    <3>1. CASE HostName[d] = c.name
      <4>1. zone'[HostName[d]] = c.want
        BY <2>1, <3>1 DEF ReturnEffect
      <4> QED BY <1>4, <2>1, <3>1, <4>1 DEF Spares
    <3>2. CASE HostName[d] # c.name
      <4>1. zone'[HostName[d]] = zone[HostName[d]]
        BY <1>1, <2>1, <3>2 DEF ReturnEffect
      <4>2. ~Removes(o, d)
        BY <2>1, <3>2 DEF Removes, TypeInv, ShapeInv, Shape, Reconciles
      <4> QED BY <1>4, <4>1, <4>2
    <3> QED BY <3>1, <3>2
  <2> QED BY <1>4, <2>1, <2>2 DEF ReturnEffect, Spares
<1>6. CASE DnsStep(p)
  <2>1. StepEffect(p) /\ c # None /\ o # None
    BY <1>6, DnsStepEffect, CallTyped
  <2>2. zone' = zone /\ proc'[p] = o
    BY <1>2, <1>3, <2>1 DEF StepEffect
  <2> QED BY <1>4, <2>1, <2>2 DEF StepEffect, Spares
<1>7. CASE DnsRaises(p)
  <2>1. c # None /\ o # None /\ c.step = "revert"
    BY <1>2, <1>3, <1>7, DnsRaisesEffect, CallTyped DEF RaiseEffect
  <2> QED BY <1>3, <2>1 DEF CommitInv, Clean
<1>8. CASE RestoreMutation(p)
  BY <1>3, <1>8, RestoreMutationEffect DEF CommitInv, Clean
<1> QED BY <1>5, <1>6, <1>7, <1>8

LEMMA UnnamedBySync ==
    ASSUME Serial, TypeInv, OneRuns, UnnamedInv, [Next]_vars, NEW p \in Procs,
           SyncNext(p) \/ SyncDone(p) \/ InstallDone(p)
    PROVE  UnnamedInv'
<1>1. Steps(p) /\ zone' = zone /\ devices' = devices /\ proc[p] # None /\ proc[p].op # "revoke"
  <2>1. proc[p] # None /\ Reconciles(proc[p])
    BY SyncNextEffect DEF SyncDone, InstallDone, Doing, Reconciles
  <2> QED BY <2>1 DEF SyncNext, SyncDone, InstallDone, Steps, dnsVars, regVars, Reconciles
<1>2. CASE proc'[p] = None
  BY <1>1, <1>2, UnnamedBy, UnnamedBefore DEF Removes
<1>3. CASE SyncNext(p)
  <2>1. PICK e \in proc[p].todo :
           proc'[p].todo = proc[p].todo \ {e} /\ Called(p, e.name, e.want)
    BY <1>3, SyncNextEffect
  <2>2. ASSUME failures' = 0, NEW d \in Devices, Unwanted(devices, d)
        PROVE  zone[HostName[d]] # Ours /\ Spares(proc'[p], dns'[p], HostName[d])
    <3>1. zone[HostName[d]] # Ours /\ Spares(proc[p], dns[p], HostName[d])
      BY <1>1, <2>2, UnnamedBefore DEF Removes
    <3> QED BY <2>1, <3>1 DEF Spares, Called
  <2> QED BY <1>1, <2>2, UnnamedBy
<1>4. CASE SyncDone(p) \/ InstallDone(p)
  BY <1>2, <1>4, ReturnsMoves, InstallDoneEffect DEF SyncDone, RestartEffect, TypeInv
<1> QED BY <1>3, <1>4

LEMMA UnnamedStep ==
    Serial /\ TypeInv /\ OneRuns /\ ConfInv /\ CommitInv /\ UnnamedInv /\ [Next]_vars => UnnamedInv'
<1> SUFFICES ASSUME Serial, TypeInv, OneRuns, ConfInv, CommitInv, UnnamedInv, [Next]_vars
             PROVE  UnnamedInv'
  OBVIOUS
<1>1. ASSUME NEW p \in Procs, Begins(p) \/ Steps(p) PROVE UnnamedInv'
  BY <1>1, UnnamedByBegins, UnnamedByEnrollment, UnnamedByRevocation, UnnamedByRequests,
     UnnamedBySync DEF Steps
<1>2. CASE UNCHANGED <<proc, dns, zone, devices, serving, failures, dropped>>
  BY <1>2 DEF UnnamedInv
<1> QED BY <1>1, <1>2, SomeoneMoves

\* Where operations do not overlap and nothing raised, the public name of a
\* revoked device is gone when the gateway is quiet, whenever its provider was
\* configured and however often the zone was reconciled.
THEOREM RevokedDevicesAreUnnamed == Serial => (Spec => []RevokedIsUnnamed)
<1> SUFFICES ASSUME Serial PROVE Spec => []RevokedIsUnnamed
  OBVIOUS
<1>1. UnnamedInv => RevokedIsUnnamed
  BY DEF UnnamedInv, RevokedIsUnnamed, Unwanted, Enrolled, Quiet
<1>2. OneRuns /\ TypeInv /\ [Next]_vars => OneRuns'
  BY OneRunsStep
<1>3. TypeInv /\ ConfInv /\ [Next]_vars => ConfInv'
  BY ConfStep
<1>4. TypeInv /\ OneRuns /\ ConfInv /\ CommitInv /\ UnnamedInv /\ [Next]_vars => UnnamedInv'
  BY UnnamedStep
<1> QED BY <1>1, <1>2, <1>3, <1>4, InitNamed, InitConf, InitUnnamed, ClaimInvariance, PTL DEF Spec

-----------------------------------------------------------------------------
(* The zone as it is when whatever may still be undone is left out, one    *)
(* operation at a time.                                                    *)

\* Zone s is zone z without what operation o and its call c may still undo.
Settles(z, s, o, c) ==
    /\ s \in [Names -> Records]
    /\ \A m \in o.done : s[m.name] = m.previous
    /\ c # None /\ c.step = "revert" => s[c.name] = c.previous
    /\ \A n \in Names :
          \/ s[n] = z[n]
          \/ \E m \in o.done : m.name = n
          \/ c # None /\ c.step = "revert" /\ c.name = n

\* No name is changed twice by one operation.
Once(o, c) ==
    /\ \A m, k \in o.done : m.name = k.name => m = k
    /\ c # None => \A m \in o.done : m.name # c.name
    /\ \A e \in o.todo : /\ \A m \in o.done : m.name # e.name
                         /\ c # None => c.name # e.name

\* The record set a name would go back to, if an operation may still undo it.
Kept(z, before) == IF before = {} THEN z ELSE CHOOSE r \in before : TRUE

Returning(n) ==
    UNION {{m.previous : m \in {m \in proc[p].done : m.name = n}}
               \cup {dns[q].previous : q \in {q \in {p} : AtDns(q, "revert") /\ dns[q].name = n}} :
               p \in {q \in Procs : proc[q] # None}}

LEMMA KeptOne == ASSUME NEW z, NEW r PROVE Kept(z, {r}) = r /\ Kept(z, {}) = z
BY DEF Kept

LEMMA SettledIs ==
    TypeInv /\ OneRuns => \A p \in Procs : proc[p] # None /\ Once(proc[p], dns[p]) =>
        Settles(zone, SettledZone, proc[p], dns[p])
<1> SUFFICES ASSUME TypeInv, OneRuns, NEW p \in Procs, proc[p] # None, Once(proc[p], dns[p])
             PROVE  Settles(zone, SettledZone, proc[p], dns[p])
  OBVIOUS
<1> DEFINE o == proc[p]
           c == dns[p]
           R(n) == c # None /\ c.step = "revert" /\ c.name = n
<1>1. SettledZone = [n \in Names |-> Kept(zone[n], Returning(n))]
  BY DEF SettledZone, Kept, Returning
<1>2. ASSUME NEW n, NEW x
      PROVE  x \in Returning(n) <=>
                \/ \E m \in o.done : m.name = n /\ m.previous = x
                \/ R(n) /\ x = c.previous
  BY DEF Returning, OneRuns, AtDns
<1>3. ASSUME NEW m \in o.done PROVE Returning(m.name) = {m.previous}
  BY <1>2 DEF Once
<1>4. ASSUME R(c.name) PROVE Returning(c.name) = {c.previous}
  BY <1>2, <1>4 DEF Once
<1>5. ASSUME NEW n, ~R(n), \A m \in o.done : m.name # n PROVE Returning(n) = {}
  BY <1>2, <1>5
<1> HIDE DEF R
<1>6. /\ zone \in [Names -> Records] /\ \A m \in o.done : m.name \in Names /\ m.previous \in Records
      /\ c # None => c.name \in Names /\ c.previous \in Records
  BY CallTyped DEF TypeInv, Types, DnsTypeOK, Operation, Mutation
<1>7. \A m \in o.done : SettledZone[m.name] = m.previous
  BY <1>1, <1>3, <1>6, KeptOne
<1>8. R(c.name) => SettledZone[c.name] = c.previous
  BY <1>1, <1>4, <1>6, KeptOne DEF R
<1>9. \A n \in Names : \/ SettledZone[n] = zone[n] \/ R(n) \/ \E m \in o.done : m.name = n
  BY <1>1, <1>5, KeptOne
<1>10. SettledZone \in [Names -> Records]
  <2>1. ASSUME NEW n \in Names PROVE SettledZone[n] \in Records
    BY <1>6, <1>7, <1>8, <1>9 DEF R
  <2> QED BY <1>1, <2>1
<1> QED BY <1>7, <1>8, <1>9, <1>10 DEF Settles, R

LEMMA SettledQuiet == TypeInv /\ Quiet => SettledZone = zone
<1> SUFFICES ASSUME TypeInv, Quiet PROVE SettledZone = zone
  OBVIOUS
<1>1. SettledZone = [n \in Names |-> Kept(zone[n], Returning(n))]
  BY DEF SettledZone, Kept, Returning
<1>2. \A n : Returning(n) = {}
  BY DEF Returning, Quiet
<1> QED BY <1>1, <1>2, KeptOne DEF TypeInv, Types, DnsTypeOK

LEMMA SettledNext ==
    /\ TypeInv' /\ OneRuns' => \A p \in Procs : proc'[p] # None /\ Once(proc'[p], dns'[p]) =>
        Settles(zone', SettledZone', proc'[p], dns'[p])
    /\ TypeInv' /\ Quiet' => SettledZone' = zone'
<1>1. (TypeInv /\ OneRuns => \A p \in Procs : proc[p] # None /\ Once(proc[p], dns[p]) =>
        Settles(zone, SettledZone, proc[p], dns[p]))'
  BY SettledIs, PTL
<1>2. (TypeInv /\ Quiet => SettledZone = zone)'
  BY SettledQuiet, PTL
<1> QED BY <1>1, <1>2

-----------------------------------------------------------------------------
\* What sync_devices makes of name n.
Wants(rows, n, w) ==
    \/ n \in Operational /\ w = Ours
    \/ \E d \in Devices : /\ rows[d] # None /\ HostName[d] = n
                          /\ w = IF rows[d].enabled THEN Ours ELSE Nothing

\* What a call puts back is what it replaced; something is put back only after
\* a request has raised; and an enrolment has one name to put back, which it
\* has set when it comes to its commit.
Reversible(z, f, o, c) ==
    /\ c # None /\ c.step = "put" => c.previous = z[c.name]
    /\ o.at = "restore" \/ (c # None /\ c.step = "revert") => f > 0
    /\ o.op = "enroll" =>
          /\ o.at \notin {"commit", "restore"} => o.done = {}
          /\ o.at = "commit" => \A m \in o.done : z[m.name] = Ours

\* A sync has every name as the rows want it or has still to come to it, and
\* it comes to no other name.
Reconciling(z, rows, o, c) ==
    Reconciles(o) =>
        /\ \A d \in Devices : rows[d] # None => ~Collides(d)
        /\ \A m \in o.done : \E w \in Records : Wants(rows, m.name, w)
        /\ \A e \in o.todo : Wants(rows, e.name, e.want)
        /\ c # None => Wants(rows, c.name, c.want)
        /\ o.at # "restore" =>
              \A n, w : Wants(rows, n, w) =>
                  \/ z[n] = w
                  \/ \E e \in o.todo : e.name = n /\ e.want = w
                  \/ c # None /\ c.name = n

Undo(z, rows, f, o, c) ==
    /\ Once(o, c)
    /\ Reversible(z, f, o, c)
    /\ Reconciling(z, rows, o, c)
    /\ o.op = "ensure" => rows[o.dev].enabled

UndoInv ==
    \A p \in Procs : proc[p] # None => Undo(zone, devices, failures, proc[p], dns[p])

LEMMA InitUndo == Init => UndoInv
BY DEF Init, UndoInv

\* No two rows want the same name, and none wants an operational one.
LEMMA WantsOne ==
    ASSUME NEW rows, \A d \in Devices : rows[d] # None => ~Collides(d),
           NEW n, NEW v, NEW w, Wants(rows, n, v), Wants(rows, n, w)
    PROVE  v = w
BY PublicDnsAssumption DEF Wants, Collides

LEMMA TargetsWant ==
    /\ \A e \in Targets : Wants(devices, e.name, e.want)
    /\ \A n, w : Wants(devices, n, w) => \E e \in Targets : e.name = n /\ e.want = w
<1>1. ASSUME NEW e \in Targets PROVE Wants(devices, e.name, e.want)
  <2>1. CASE \E n \in Operational : e = [name |-> n, want |-> Ours]
    BY <2>1 DEF Wants
  <2>2. CASE \E d \in Enrolled : e = [name |-> HostName[d],
                                      want |-> IF devices[d].enabled THEN Ours ELSE Nothing]
    BY <2>2 DEF Wants, Enrolled
  <2> QED BY <2>1, <2>2 DEF Targets
<1>2. ASSUME NEW n, NEW w, Wants(devices, n, w)
      PROVE  \E e \in Targets : e.name = n /\ e.want = w
  <2>1. CASE n \in Operational /\ w = Ours
    <3>1. [name |-> n, want |-> w] \in Targets
      BY <2>1 DEF Targets
    <3> QED BY <3>1
  <2>2. ASSUME NEW d \in Devices, devices[d] # None, HostName[d] = n,
               w = IF devices[d].enabled THEN Ours ELSE Nothing
        PROVE  \E e \in Targets : e.name = n /\ e.want = w
    <3>1. [name |-> n, want |-> w] \in Targets
      BY <2>2 DEF Targets, Enrolled
    <3> QED BY <3>1
  <2> QED BY <1>2, <2>1, <2>2 DEF Wants
<1> QED BY <1>1, <1>2

\* For a step of p it is enough to look at p.
LEMMA UndoBy ==
    ASSUME Serial, TypeInv, OneRuns, [Next]_vars, NEW p \in Procs, Begins(p) \/ Steps(p),
           proc'[p] # None => Undo(zone', devices', failures', proc'[p], dns'[p])
    PROVE  UndoInv'
BY OthersRest DEF UndoInv

LEMMA UndoByBegins ==
    ASSUME Serial, TypeInv, OneRuns, [Next]_vars, NEW p \in Procs, Begins(p)
    PROVE  UndoInv'
<1> USE PublicDnsAssumption
<1> DEFINE o2 == proc'[p]
           c2 == dns'[p]
<1>1. ASSUME NEW d \in Devices,
             (\E k \in Keys, t \in Tokens : Receive(p, d, k, t)) \/ StartRevoke(p, d)
      PROVE  Undo(zone', devices', failures', o2, c2)
  <2>1. /\ o2.done = {} /\ o2.todo = {} /\ o2.op \in {"enroll", "revoke"} /\ o2.at # "restore"
        /\ o2.at # "commit" /\ c2 = None
    BY <1>1, ReceiveEffect, StartRevokeEffect DEF Begun
  <2> QED BY <2>1 DEF Undo, Once, Reversible, Reconciling, Reconciles
<1>2. ASSUME NEW d \in Devices, StartEnsure(p, d) \/ StartDelete(p, d)
      PROVE  Undo(zone', devices', failures', o2, c2)
  <2>1. /\ o2.done = {} /\ o2.todo = {} /\ o2.op \in {"ensure", "delete"} /\ o2.at = "dns"
        /\ c2.step = "get" /\ o2.dev = d /\ UNCHANGED devices
        /\ o2.op = "ensure" => devices[d].enabled
    BY <1>2, StartCallEffect DEF Begun, Called, regVars
  <2> QED BY <2>1 DEF Undo, Once, Reversible, Reconciling, Reconciles
<1>3. ASSUME NEW op \in {"sync", "install"}, StartSync(p, op)
      PROVE  Undo(zone', devices', failures', o2, c2)
  <2>1. /\ o2.done = {} /\ o2.todo = Targets /\ o2.op = op /\ o2.at = "next"
        /\ c2 = None /\ UNCHANGED <<devices, zone>>
        /\ \A d \in Devices : devices[d] # None => ~Collides(d)
    BY <1>3, StartSyncEffect DEF regVars, Enrolled
  <2>2. Once(o2, c2) /\ Reversible(zone', failures', o2, c2)
    BY <2>1 DEF Once, Reversible
  <2>3. Reconciling(zone', devices', o2, c2)
    BY <2>1, TargetsWant DEF Reconciling
  <2> QED BY <2>1, <2>2, <2>3 DEF Undo
<1> QED BY <1>1, <1>2, <1>3, UndoBy DEF Begins

LEMMA UndoBySteps ==
    ASSUME Serial, TypeInv, OneRuns, UndoInv, [Next]_vars, NEW p \in Procs,
           \/ Prepare(p) \/ Reject(p) \/ NameDevice(p) \/ StageRaises(p) \/ Commit(p)
           \/ CommitRaises(p) \/ DisableRow(p) \/ DisableRaises(p) \/ CleanUp(p)
    PROVE  UndoInv'
<1> USE PublicDnsAssumption
<1> DEFINE o == proc[p]
           o2 == proc'[p]
           c2 == dns'[p]
<1>1. zone' = zone /\ o # None /\ o.op \in {"enroll", "revoke"} /\ o.at # "dns" /\ Steps(p)
  BY DEF Prepare, Reject, NameDevice, StageRaises, Commit, CommitRaises, DisableRow,
         DisableRaises, CleanUp, dnsVars, Doing, Steps
<1>2. o.dev \in Devices /\ HostName[o.dev] \in Names /\ dns[p] = None /\ o.todo = {}
      /\ failures \in Nat /\ Undo(zone, devices, failures, o, dns[p])
  BY <1>1 DEF TypeInv, Types, ShapeInv, Shape, Reconciles, UndoInv
<1>3. ASSUME o2 # None
      PROVE  Undo(zone', devices', failures', o2, c2)
  <2>1. CASE CommitRaises(p)
    <3>1. Goes(p, "restore") /\ UNCHANGED dns /\ failures' = failures + 1
      BY <1>3, <2>1, ReturnsMoves DEF CommitRaises, Fails, dnsVars, TypeInv
    <3>2. o2.op = o.op /\ o2.at = "restore" /\ o2.done = o.done /\ o2.todo = {}
      BY <1>1, <1>2, <3>1, GoesMoves DEF TypeInv, Points, Moved
    <3> QED BY <1>1, <1>2, <3>1, <3>2 DEF Undo, Once, Reversible, Reconciling, Reconciles
  <2>2. CASE ~CommitRaises(p)
    <3>1. \E at \in {"stages", "commit", "cleanup", "dns"} : Goes(p, at)
      BY <1>3, <2>2, ReturnsMoves DEF Prepare, Reject, NameDevice, StageRaises, Commit, DisableRow,
         DisableRaises, CleanUp, TypeInv
    <3>2. o2.op = o.op /\ o2.at # "restore" /\ o2.done = o.done /\ o2.todo = {}
      BY <1>1, <1>2, <3>1, GoesMoves DEF TypeInv, Points, Moved
    <3>3. o.done = {}
      <4>1. o.op = "enroll" => o.at \in {"prepare", "stages"}
        BY <1>1, <2>2, <3>1, <1>3, ReturnsMoves
           DEF Prepare, Reject, NameDevice, StageRaises, Commit, DisableRow,
               DisableRaises, CleanUp, Doing, TypeInv
      <4> QED BY <1>1, <1>2, <4>1 DEF Undo, Reversible, TypeInv, ShapeInv, Shape, Reconciles
    <3>4. c2 # None => c2.step = "get"
      <4>1. \/ UNCHANGED dns
            \/ DnsBegins(p, HostName[o.dev], Ours)
            \/ DnsBegins(p, HostName[o.dev], Nothing)
        BY <2>2 DEF Prepare, Reject, NameDevice, StageRaises, Commit, DisableRow,
               DisableRaises, CleanUp, EnsureRecord, DeleteRecord, dnsVars
      <4> QED BY <1>2, <4>1, BeginsCall DEF TypeInv
    <3> QED BY <1>1, <3>2, <3>3, <3>4 DEF Undo, Once, Reversible, Reconciling, Reconciles
  <2> QED BY <2>1, <2>2
<1> QED BY <1>1, <1>3, UndoBy

LEMMA UndoBySync ==
    ASSUME Serial, TypeInv, OneRuns, UndoInv, [Next]_vars, NEW p \in Procs,
           SyncNext(p) \/ SyncDone(p) \/ InstallDone(p)
    PROVE  UndoInv'
<1> DEFINE o == proc[p]
           o2 == proc'[p]
           c2 == dns'[p]
<1>1. CASE SyncDone(p) \/ InstallDone(p)
  <2>1. o2 = None
    BY <1>1, ReturnsMoves, InstallDoneEffect DEF SyncDone, RestartEffect, TypeInv
  <2> QED BY <1>1, <2>1, UndoBy DEF Steps
<1>2. CASE SyncNext(p)
  <2>1. PICK e \in o.todo : o2.todo = o.todo \ {e} /\ Called(p, e.name, e.want)
    BY <1>2, SyncNextEffect
  <2>2. /\ o # None /\ o.at = "next" /\ o2.op = o.op /\ o2.at = "dns" /\ o2.done = o.done
        /\ Reconciles(o) /\ dns[p] = None /\ o.todo \in SUBSET Target
        /\ UNCHANGED <<devices, zone>>
    BY <1>2, SyncNextEffect DEF Moved, TypeInv, Types, ShapeInv, Shape, Operation, regVars
  <2>3. Undo(zone, devices, failures, o, dns[p])
    BY <2>2 DEF UndoInv
  <2>4. \A f \in o2.todo : f.name # e.name
    <3> SUFFICES ASSUME NEW f \in o.todo, f.name = e.name PROVE f = e
      BY <2>1
    <3>1. f.want = e.want
      BY <2>2, <2>3, WantsOne DEF Undo, Reconciling
    <3> QED BY <2>2, <3>1 DEF Target
  <2>5. Once(o2, c2)
    BY <2>1, <2>2, <2>3, <2>4 DEF Undo, Once, Called
  <2>6. Reversible(zone', failures', o2, c2)
    BY <2>1, <2>2 DEF Reversible, Called, Reconciles
  <2>7. Reconciling(zone', devices', o2, c2)
    BY <2>1, <2>2, <2>3 DEF Undo, Reconciling, Called, Reconciles
  <2> QED BY <1>2, <2>2, <2>5, <2>6, <2>7, UndoBy DEF Undo, Steps, Reconciles
<1> QED BY <1>1, <1>2

LEMMA WantedNames ==
    ASSUME NEW rows, NEW n, NEW w, Wants(rows, n, w)
    PROVE  n \in Names /\ w \in {Ours, Nothing}
BY PublicDnsAssumption, DnsManagerAssumption DEF Wants

\* What is known of p before one of its requests is answered.
LEMMA UndoBefore ==
    ASSUME TypeInv, UndoInv, NEW p \in Procs,
           DnsReturns(p) \/ DnsStep(p) \/ DnsRaises(p) \/ RestoreMutation(p)
    PROVE  /\ Steps(p) /\ devices' = devices /\ proc[p] # None /\ failures \in Nat
           /\ Undo(zone, devices, failures, proc[p], dns[p])
<1>1. Steps(p) /\ devices' = devices /\ proc[p] # None
  BY DnsReturnsEffect, DnsStepEffect, DnsRaisesEffect, RestoreMutationEffect, CallTyped
     DEF Steps, ReturnEffect, StepEffect, RaiseEffect, RestoreEffect, regVars
<1> QED BY <1>1, PublicDnsAssumption DEF TypeInv, Types, UndoInv

LEMMA UndoByReturns ==
    ASSUME Serial, TypeInv, OneRuns, UndoInv, [Next]_vars, NEW p \in Procs, DnsReturns(p)
    PROVE  UndoInv'
<1> DEFINE o == proc[p]
           c == dns[p]
           o2 == proc'[p]
           c2 == dns'[p]
           m == [name |-> c.name, previous |-> c.previous]
<1>1. /\ Steps(p) /\ devices' = devices /\ o # None /\ failures \in Nat
      /\ Undo(zone, devices, failures, o, c)
  BY UndoBefore
<1>2. ReturnEffect(p) /\ c # None /\ c2 = None /\ c.step \in {"get", "put"}
  BY DnsReturnsEffect, CallTyped DEF ReturnEffect
<1>3. /\ zone'[c.name] = c.want
      /\ \A n \in Names : n # c.name => zone'[n] = zone[n]
      /\ c.name \in Names /\ o.at = "dns"
  BY <1>2, CallTyped DEF ReturnEffect
<1>4. m.name = c.name
  OBVIOUS
<1> HIDE DEF m
<1>5. CASE o2 # None /\ o.op = "enroll"
  <2>1. o2.op = "enroll" /\ o2.at = "commit" /\ o2.todo = o.todo /\ (o2.done = {} \/ o2.done = {m})
    BY <1>1, <1>2, <1>3, <1>5 DEF ReturnEffect, Moved, Recorded, Reconciles, Undo, Reversible, m
  <2>2. o.todo = {} /\ c.want = Ours
    BY <1>1, <1>2, <1>5 DEF TypeInv, ShapeInv, Shape, Reconciles
  <2> QED BY <1>1, <1>2, <1>3, <1>4, <1>5, <2>1, <2>2, UndoBy
          DEF Undo, Once, Reversible, Reconciling, Reconciles
<1>6. CASE o2 # None /\ o.op # "enroll"
  <2>1. /\ Reconciles(o) /\ o2.op = o.op /\ o2.at = "next" /\ o2.todo = o.todo
        /\ o2.done = o.done \/ o2.done = {m} \cup o.done
    BY <1>1, <1>2, <1>6 DEF ReturnEffect, Moved, Recorded, m
  <2>2. Once(o2, c2)
    BY <1>1, <1>2, <1>4, <2>1 DEF Undo, Once
  <2>3. Reversible(zone', failures', o2, c2)
    BY <1>2, <2>1 DEF Reversible, Reconciles
  <2>4. Wants(devices, c.name, c.want) /\ c.want \in Records
    BY <1>1, <1>2, <2>1, CallTyped DEF Undo, Reconciling
  <2>5. ASSUME NEW n, NEW w, Wants(devices, n, w)
        PROVE  zone'[n] = w \/ \E e \in o2.todo : e.name = n /\ e.want = w
    <3>1. CASE n = c.name
      <4>1. w = c.want
        BY <1>1, <2>1, <2>4, <2>5, <3>1, WantsOne DEF Undo, Reconciling
      <4> QED BY <1>3, <3>1, <4>1
    <3>2. CASE n # c.name
      <4>1. n \in Names
        BY <2>5, WantedNames
      <4> QED BY <1>1, <1>3, <2>1, <2>5, <3>2, <4>1 DEF Undo, Reconciling
    <3> QED BY <3>1, <3>2
  <2>6. Reconciling(zone', devices', o2, c2)
    BY <1>1, <1>2, <1>4, <2>1, <2>4, <2>5 DEF Undo, Reconciling
  <2> QED BY <1>1, <2>1, <2>2, <2>3, <2>6, UndoBy DEF Undo, Reconciles
<1>7. CASE o2 = None
  BY <1>1, <1>7, UndoBy
<1> QED BY <1>5, <1>6, <1>7

LEMMA UndoByRequests ==
    ASSUME Serial, TypeInv, OneRuns, UndoInv, [Next]_vars, NEW p \in Procs,
           DnsStep(p) \/ DnsRaises(p) \/ RestoreMutation(p)
    PROVE  UndoInv'
<1> DEFINE o == proc[p]
           c == dns[p]
           o2 == proc'[p]
           c2 == dns'[p]
<1>1. /\ Steps(p) /\ devices' = devices /\ o # None /\ failures \in Nat
      /\ Undo(zone, devices, failures, o, c)
  BY UndoBefore
<1>2. CASE DnsStep(p)
  <2>1. /\ StepEffect(p) /\ c # None /\ o2 = o /\ o.at = "dns"
        /\ c2 # None /\ c2.name = c.name /\ c2.want = c.want
        /\ \A n \in Names \ {c.name} : zone'[n] = zone[n]
    BY <1>2, DnsStepEffect, CallTyped DEF StepEffect
  <2>2. Once(o2, c2)
    BY <1>1, <2>1 DEF Undo, Once
  <2>3. Reversible(zone', failures', o2, c2)
    BY <1>1, <2>1 DEF Undo, Reversible, StepEffect
  <2>4. Reconciling(zone', devices', o2, c2)
    BY <1>1, <2>1, WantedNames DEF Undo, Reconciling
  <2> QED BY <1>1, <2>1, <2>2, <2>3, <2>4, UndoBy DEF Undo
<1>3. CASE DnsRaises(p) \/ RestoreMutation(p)
  <2>1. ASSUME o2 # None
        PROVE  /\ o2.op = o.op /\ o2.dev = o.dev /\ o2.at = "restore" /\ o2.todo = o.todo
               /\ o2.done \subseteq o.done /\ c2 = None /\ failures' > 0
    <3>1. CASE DnsRaises(p)
      BY <1>1, <2>1, <3>1, DnsRaisesEffect DEF RaiseEffect, Moved, Undo, Reversible
    <3>2. CASE RestoreMutation(p)
      BY <1>1, <2>1, <3>2, RestoreMutationEffect DEF RestoreEffect, Moved, Undo, Reversible
    <3> QED BY <1>3, <3>1, <3>2
  <2>2. o2 # None => Undo(zone', devices', failures', o2, c2)
    BY <1>1, <2>1 DEF Undo, Once, Reversible, Reconciling, Reconciles
  <2> QED BY <1>1, <2>2, UndoBy
<1> QED BY <1>2, <1>3

LEMMA UndoStep == Serial /\ TypeInv /\ OneRuns /\ UndoInv /\ [Next]_vars => UndoInv'
<1> SUFFICES ASSUME Serial, TypeInv, OneRuns, UndoInv, [Next]_vars PROVE UndoInv'
  OBVIOUS
<1>1. ASSUME NEW p \in Procs, Begins(p) \/ Steps(p) PROVE UndoInv'
  BY <1>1, UndoByBegins, UndoBySteps, UndoBySync, UndoByReturns, UndoByRequests DEF Steps
<1>2. CASE UNCHANGED <<proc, dns, zone, devices, serving, failures, dropped>>
  BY <1>2 DEF UndoInv
<1> QED BY <1>1, <1>2, SomeoneMoves

-----------------------------------------------------------------------------
(* What each step does to the settled zone.                                *)

\* A zone that settles what p is in, or the zone itself if p is in nothing.
SettledFor(z, s, o, c) == IF o = None THEN s = z ELSE Settles(z, s, o, c)

LEMMA SettledStep ==
    ASSUME Serial, TypeInv, OneRuns, UndoInv, [Next]_vars, NEW p \in Procs, Begins(p) \/ Steps(p)
    PROVE  /\ SettledFor(zone, SettledZone, proc[p], dns[p])
           /\ SettledFor(zone', SettledZone', proc'[p], dns'[p])
           /\ zone \in [Names -> Records] /\ zone' \in [Names -> Records]
           /\ SettledZone \in [Names -> Records] /\ SettledZone' \in [Names -> Records]
<1>1. TypeInv' /\ OneRuns' /\ UndoInv'
  BY TypeStep, OneRunsStep, UndoStep
<1>2. zone \in [Names -> Records] /\ zone' \in [Names -> Records]
  BY <1>1 DEF TypeInv, Types, DnsTypeOK
<1>3. \A q \in Procs \ {p} : proc[q] = None /\ proc'[q] = None
  BY OthersRest
<1>4. SettledFor(zone, SettledZone, proc[p], dns[p])
  <2>1. CASE proc[p] = None
    BY <1>3, <2>1, SettledQuiet DEF Quiet, SettledFor
  <2>2. CASE proc[p] # None
    BY <2>2, SettledIs DEF UndoInv, Undo, SettledFor
  <2> QED BY <2>1, <2>2
<1>5. SettledFor(zone', SettledZone', proc'[p], dns'[p])
  <2>1. CASE proc'[p] = None
    BY <1>1, <1>3, <2>1, SettledNext DEF Quiet, SettledFor
  <2>2. CASE proc'[p] # None
    BY <1>1, <2>2, SettledNext DEF UndoInv, Undo, SettledFor
  <2> QED BY <2>1, <2>2
<1> QED BY <1>2, <1>4, <1>5 DEF SettledFor, Settles

\* Nothing to undo.
Final(o, c) == o = None \/ (o.done = {} /\ (c = None \/ c.step # "revert"))

LEMMA SettledFinal ==
    ASSUME NEW z \in [Names -> Records], NEW s \in [Names -> Records], NEW o, NEW c,
           SettledFor(z, s, o, c), Final(o, c)
    PROVE  s = z
<1>1. \A n \in Names : s[n] = z[n]
  BY DEF SettledFor, Settles, Final
<1> QED BY <1>1

\* The same to undo.
LEMMA SettledSame ==
    ASSUME NEW z \in [Names -> Records], NEW s \in [Names -> Records], NEW r \in [Names -> Records],
           NEW o, NEW c, NEW u, NEW b, SettledFor(z, s, o, c), SettledFor(z, r, u, b),
           o # None, u # None, u.done = o.done,
           c = None \/ c.step # "revert", b = None \/ b.step # "revert"
    PROVE  r = s
<1>1. \A n \in Names : r[n] = s[n]
  BY DEF SettledFor, Settles
<1> QED BY <1>1

LEMMA AtomicBegins ==
    ASSUME Serial, TypeInv, OneRuns, UndoInv, [Next]_vars, NEW p \in Procs, Begins(p)
    PROVE  SettledZone' = SettledZone
<1>1. zone' = zone /\ proc[p] = None
  BY ReceiveEffect, StartRevokeEffect, StartCallEffect, StartSyncEffect DEF Begins, Begun
<1>2. Final(proc'[p], dns'[p])
  BY ReceiveEffect, StartRevokeEffect, StartCallEffect, StartSyncEffect
     DEF Begins, Begun, Called, Final
<1> QED BY <1>1, <1>2, SettledStep, SettledFinal DEF Final

LEMMA AtomicSteps ==
    ASSUME Serial, TypeInv, OneRuns, UndoInv, [Next]_vars, NEW p \in Procs,
           \/ Prepare(p) \/ Reject(p) \/ NameDevice(p) \/ StageRaises(p)
           \/ CommitRaises(p) \/ DisableRow(p) \/ DisableRaises(p) \/ CleanUp(p) \/ SyncNext(p)
    PROVE  SettledZone' = SettledZone
<1> USE PublicDnsAssumption
<1> DEFINE o == proc[p]
           o2 == proc'[p]
<1>1. zone' = zone /\ o # None /\ o.at # "dns" /\ Steps(p)
  BY DEF Prepare, Reject, NameDevice, StageRaises, CommitRaises, DisableRow,
         DisableRaises, CleanUp, SyncNext, dnsVars, Doing, Steps
<1>2. dns[p] = None /\ Undo(zone, devices, failures, o, dns[p])
  BY <1>1 DEF TypeInv, ShapeInv, Shape, UndoInv
<1>3. dns'[p] = None \/ dns'[p].step # "revert"
  <2>1. CASE SyncNext(p)
    BY <2>1, SyncNextEffect DEF Called
  <2>2. CASE ~SyncNext(p)
    <3>1. o.dev \in Devices
      BY <1>1, <2>2 DEF Prepare, Reject, NameDevice, StageRaises, CommitRaises, DisableRow,
         DisableRaises, CleanUp, Doing, TypeInv, ShapeInv, Shape, Reconciles
    <3>2. \/ UNCHANGED dns
          \/ DnsBegins(p, HostName[o.dev], Ours)
          \/ DnsBegins(p, HostName[o.dev], Nothing)
      BY <2>2 DEF Prepare, Reject, NameDevice, StageRaises, CommitRaises, DisableRow,
             DisableRaises, CleanUp, EnsureRecord, DeleteRecord, dnsVars
    <3> QED BY <1>2, <3>1, <3>2, BeginsCall DEF TypeInv
  <2> QED BY <2>1, <2>2
<1>4. \/ o2 = None /\ o.done = {}
      \/ o2 # None /\ o2.done = o.done
  <2>1. CASE SyncNext(p)
    BY <2>1, SyncNextEffect, OperationAssumption DEF Moved
  <2>2. CASE ~SyncNext(p)
    <3>1. \/ o.done = {} /\ Returns(p)
          \/ \E at \in Points : Goes(p, at)
      <4>1. CASE CommitRaises(p)
        BY <4>1 DEF CommitRaises, Points
      <4>2. CASE ~CommitRaises(p)
        <5>1. o.done = {}
          BY <1>1, <1>2, <2>2, <4>2
             DEF Prepare, Reject, NameDevice, StageRaises, DisableRow, DisableRaises, CleanUp,
                 Doing, Undo, Reversible, TypeInv, ShapeInv, Shape, Reconciles
        <5>2. Returns(p) \/ \E at \in {"stages", "commit", "cleanup", "dns"} : Goes(p, at)
          BY <2>2, <4>2 DEF Prepare, Reject, NameDevice, StageRaises, DisableRow, DisableRaises,
                 CleanUp
        <5> QED BY <5>1, <5>2 DEF Points
      <4> QED BY <4>1, <4>2
    <3> QED BY <1>1, <3>1, GoesMoves, ReturnsMoves, OperationAssumption DEF TypeInv, Moved
  <2> QED BY <2>1, <2>2
<1>5. CASE o2 = None
  BY <1>1, <1>2, <1>4, <1>5, SettledStep, SettledFinal DEF Final
<1>6. CASE o2 # None
  BY <1>1, <1>2, <1>3, <1>4, <1>6, SettledStep, SettledSame
<1> QED BY <1>5, <1>6

\* The commit of an enrolment settles the name of its device.
LEMMA AtomicCommit ==
    ASSUME Serial, TypeInv, OneRuns, UndoInv, [Next]_vars, NEW p \in Procs, Commit(p)
    PROVE  SettledZone' = SettledZone \/ \E d \in Devices : Atomic!Ensure(d)
<1> USE PublicDnsAssumption
<1> DEFINE o == proc[p]
           d == o.dev
           h == HostName[d]
<1>1. /\ zone' = zone /\ o # None /\ o.op = "enroll" /\ o.at = "commit" /\ Steps(p) /\ proc'[p] = None
      /\ txn[p] # None /\ devices' = View(p)
  BY ReturnsMoves DEF Commit, CommitEnrollment, dnsVars, Doing, Steps, TypeInv
<1>2. /\ dns[p] = None /\ Undo(zone, devices, failures, o, dns[p]) /\ d \in Devices /\ txn[p].dev = d
      /\ \A m \in o.done : m.name = h /\ ~Collides(d)
  BY <1>1 DEF TypeInv, ShapeInv, Shape, UndoInv, Reconciles
<1>3. CASE o.done = {}
  BY <1>1, <1>2, <1>3, SettledStep, SettledFinal DEF Final
<1>4. CASE o.done # {}
  <2>1. zone[h] = Ours /\ ~Collides(d) /\ h \in Names
    BY <1>1, <1>2, <1>4 DEF Undo, Reversible
  <2>2. devices'[d] # None /\ devices'[d].enabled
    <3>1. txn[p].row.enabled /\ (~txn[p].created => devices[d] = txn[p].row) /\ txn[p].row # None
      BY <1>1, <1>2, RegistryAssumption DEF TypeInv, IInv, DraftStaysValid, RegistryTypeOK, Txn
    <3> QED BY <1>1, <1>2, <3>1 DEF View, TypeInv, IInv, RegistryTypeOK
  <2>3. SettledZone' = zone
    BY <1>1, SettledStep DEF SettledFor
  <2>4. \A n \in Names : n # h => SettledZone[n] = zone[n]
    <3>1. Settles(zone, SettledZone, o, dns[p])
      BY <1>1, SettledStep DEF SettledFor
    <3> QED BY <1>2, <3>1 DEF Settles
  <2>5. SettledZone' = [SettledZone EXCEPT ![h] = Ours]
    <3>1. SettledZone \in [Names -> Records] /\ zone \in [Names -> Records]
      BY <1>1, SettledStep
    <3> QED BY <2>1, <2>3, <2>4, <3>1
  <2> QED BY <1>2, <2>1, <2>2, <2>5 DEF Atomic!Ensure, Collides
<1> QED BY <1>3, <1>4

\* A sync that returns has settled every name at once.
LEMMA AtomicSync ==
    ASSUME Serial, TypeInv, OneRuns, UndoInv, [Next]_vars, NEW p \in Procs,
           SyncDone(p) \/ InstallDone(p)
    PROVE  Atomic!Sync
<1> USE PublicDnsAssumption
<1> DEFINE o == proc[p]
           s == SettledZone
<1>1. zone' = zone /\ o # None /\ Reconciles(o) /\ o.at = "next" /\ o.todo = {} /\ Steps(p)
      /\ proc'[p] = None
  BY ReturnsMoves, InstallDoneEffect
     DEF SyncDone, InstallDone, Doing, Steps, dnsVars, Reconciles, RestartEffect, TypeInv
<1>2. dns[p] = None /\ Reconciling(zone, devices, o, dns[p])
  BY <1>1 DEF TypeInv, ShapeInv, Shape, UndoInv, Undo
<1>3. \A n, w : Wants(devices, n, w) => zone[n] = w
  BY <1>1, <1>2 DEF Reconciling
<1>4. s' = zone /\ Settles(zone, s, o, dns[p]) /\ zone \in [Names -> Records]
  BY <1>1, SettledStep DEF SettledFor
<1>5. ASSUME NEW n \in Names
      PROVE  zone[n] = IF n \in Operational \/ \E d \in Devices :
                             devices[d] # None /\ devices[d].enabled /\ HostName[d] = n
                       THEN Ours
                       ELSE IF \E d \in Devices : devices[d] # None /\ HostName[d] = n
                       THEN Nothing
                       ELSE s[n]
  <2>1. CASE n \in Operational
    BY <1>3, <2>1 DEF Wants
  <2>2. ASSUME NEW d \in Devices, devices[d] # None, HostName[d] = n
        PROVE  zone[n] = (IF devices[d].enabled THEN Ours ELSE Nothing)
    BY <1>3, <2>2 DEF Wants
  <2>3. ASSUME n \notin Operational, \A d \in Devices : devices[d] = None \/ HostName[d] # n
        PROVE  zone[n] = s[n]
    <3>1. \A w : ~Wants(devices, n, w)
      BY <2>3 DEF Wants
    <3>2. \A m \in o.done : m.name # n
      BY <1>1, <1>2, <3>1 DEF Reconciling
    <3> QED BY <1>2, <1>4, <3>2 DEF Settles
  <2> QED BY <2>1, <2>2, <2>3
<1> QED BY <1>4, <1>5 DEF Atomic!Sync, Atomic!Reconciled

\* A call that changed a name of an operation under way has settled nothing;
\* one that was the whole operation has settled that name.
LEMMA AtomicReturns ==
    ASSUME Serial, TypeInv, RowInv, OneRuns, UndoInv, [Next]_vars, NEW p \in Procs, DnsReturns(p)
    PROVE  \/ SettledZone' = SettledZone
           \/ \E d \in Devices : Atomic!Ensure(d) \/ Atomic!Delete(d)
<1> USE PublicDnsAssumption
<1> DEFINE o == proc[p]
           c == dns[p]
           o2 == proc'[p]
           s == SettledZone
<1>1. /\ Steps(p) /\ devices' = devices /\ o # None /\ Undo(zone, devices, failures, o, c)
  BY UndoBefore
<1>2. /\ ReturnEffect(p) /\ c # None /\ dns'[p] = None /\ c.step \in {"get", "put"}
      /\ c.name \in Names /\ c.want \in Records /\ c.previous \in Records /\ o.at = "dns"
  BY DnsReturnsEffect, CallTyped DEF ReturnEffect
<1>3. /\ zone' \in [Names -> Records] /\ zone'[c.name] = c.want
      /\ \A n \in Names \ {c.name} : zone'[n] = zone[n]
  BY <1>2 DEF ReturnEffect
<1>4. /\ zone \in [Names -> Records] /\ s \in [Names -> Records] /\ s' \in [Names -> Records]
      /\ Settles(zone, s, o, c) /\ SettledFor(zone', s', o2, dns'[p])
  BY <1>1, SettledStep DEF SettledFor
<1>5. CASE o2 = None
  <2>1. ~Reconciles(o) /\ o.op \in {"revoke", "ensure", "delete"}
    BY <1>2, <1>5, OperationAssumption DEF ReturnEffect, Moved, Reconciles
  <2> DEFINE d == o.dev
  <2>2. /\ d \in Devices /\ c.name = HostName[d] /\ ~Collides(d) /\ o.done = {}
        /\ c.want = IF o.op = "ensure" THEN Ours ELSE Nothing
    BY <1>1, <1>2, <2>1 DEF TypeInv, ShapeInv, Shape
  <2>3. devices[d] # None /\ (o.op = "ensure" => devices[d].enabled)
    BY <1>1, <2>1 DEF RowInv, Informed, Undo
  <2>4. s = zone /\ s' = zone'
    BY <1>1, <1>2, <1>4, <1>5, <2>2, SettledFinal DEF Final, SettledFor
  <2>5. s' = [s EXCEPT ![HostName[d]] = c.want]
    BY <1>3, <1>4, <2>2, <2>4
  <2>6. o.op = "ensure" => Atomic!Ensure(d)
    BY <1>1, <2>2, <2>3, <2>5 DEF Atomic!Ensure, Collides
  <2>7. o.op # "ensure" => Atomic!Delete(d)
    BY <1>1, <2>2, <2>3, <2>5 DEF Atomic!Delete, Collides
  <2> QED BY <2>2, <2>6, <2>7
<1>6. CASE o2 # None /\ c.step = "get"
  <2>1. zone' = zone /\ o2.done = o.done
    BY <1>2, <1>6 DEF ReturnEffect
  <2> QED BY <1>1, <1>2, <1>4, <1>6, <2>1, SettledSame DEF SettledFor
<1>7. CASE o2 # None /\ c.step = "put"
  <2> DEFINE m == [name |-> c.name, previous |-> c.previous]
  <2>1. o2.done = {m} \cup o.done
    <3>1. o2.done = Recorded(p)
      BY <1>2, <1>7 DEF ReturnEffect
    <3>2. o.op = "enroll" => o.done = {}
      BY <1>1, <1>2 DEF Undo, Reversible
    <3> QED BY <3>1, <3>2 DEF Recorded
  <2>2. m.name = c.name /\ m.previous = zone[c.name]
    BY <1>1, <1>2, <1>7 DEF Undo, Reversible
  <2> HIDE DEF m
  <2>3. Settles(zone', s', o2, dns'[p])
    BY <1>4, <1>7 DEF SettledFor
  <2>4. \A n \in Names : s'[n] = s[n]
    <3> SUFFICES ASSUME NEW n \in Names PROVE s'[n] = s[n]
      OBVIOUS
    <3>1. CASE n = c.name
      <4>1. s'[n] = zone[n]
        BY <2>1, <2>2, <2>3, <3>1 DEF Settles
      <4>2. s[n] = zone[n]
        BY <1>1, <1>2, <1>4, <1>7, <3>1 DEF Settles, Undo, Once
      <4> QED BY <4>1, <4>2
    <3>2. CASE n # c.name /\ \E k \in o.done : k.name = n
      BY <1>4, <2>1, <2>3, <3>2 DEF Settles
    <3>3. CASE n # c.name /\ ~\E k \in o.done : k.name = n
      <4>1. s[n] = zone[n]
        BY <1>4, <3>3 DEF Settles
      <4>2. s'[n] = zone'[n]
        BY <1>2, <2>1, <2>2, <2>3, <3>3 DEF Settles
      <4> QED BY <1>3, <3>3, <4>1, <4>2
    <3> QED BY <3>1, <3>2, <3>3
  <2> QED BY <1>4, <2>4
<1> QED BY <1>2, <1>5, <1>6, <1>7

LEMMA AtomicRequests ==
    ASSUME Serial, TypeInv, OneRuns, UndoInv, [Next]_vars, failures' <= 1, NEW p \in Procs,
           DnsStep(p) \/ DnsRaises(p) \/ RestoreMutation(p)
    PROVE  SettledZone' = SettledZone
<1> DEFINE o == proc[p]
           c == dns[p]
           o2 == proc'[p]
           c2 == dns'[p]
           s == SettledZone
<1>1. /\ Steps(p) /\ o # None /\ failures \in Nat /\ Undo(zone, devices, failures, o, c)
  BY UndoBefore
<1>2. /\ zone \in [Names -> Records] /\ zone' \in [Names -> Records]
      /\ s \in [Names -> Records] /\ s' \in [Names -> Records]
      /\ Settles(zone, s, o, c) /\ SettledFor(zone', s', o2, c2)
  BY <1>1, SettledStep DEF SettledFor
<1>3. SUFFICES ASSUME NEW n \in Names PROVE s'[n] = s[n]
  BY <1>2
<1>4. CASE DnsStep(p)
  <2>1. /\ StepEffect(p) /\ c # None /\ o2 = o /\ c2 # None /\ c2.name = c.name
        /\ \A k \in Names \ {c.name} : zone'[k] = zone[k]
        /\ Settles(zone', s', o, c2)
    BY <1>1, <1>2, <1>4, DnsStepEffect DEF StepEffect, SettledFor
  <2>2. CASE c.step = "get"
    BY <1>1, <1>2, <2>1, <2>2 DEF StepEffect, Settles
  <2>3. CASE c.step = "put"
    <3>1. c2.step = "revert" /\ c2.previous = zone[c.name]
      BY <1>1, <2>1, <2>3 DEF StepEffect, Undo, Reversible
    <3>2. CASE n = c.name
      <4>1. s'[n] = zone[n]
        BY <2>1, <3>1, <3>2 DEF Settles
      <4>2. s[n] = zone[n]
        BY <1>1, <1>2, <2>1, <2>3, <3>2 DEF Settles, Undo, Once
      <4> QED BY <4>1, <4>2
    <3>3. CASE n # c.name
      BY <1>2, <2>1, <2>3, <3>1, <3>3 DEF Settles
    <3> QED BY <3>2, <3>3
  <2> QED BY <2>1, <2>2, <2>3 DEF StepEffect
<1>5. CASE DnsRaises(p)
  <2>1. /\ RaiseEffect(p) /\ c # None /\ c2 = None
        /\ \A k \in Names \ {c.name} : zone'[k] = zone[k]
        /\ \/ o2 = None /\ o.done = {}
           \/ o2 # None /\ o2.done = o.done
    BY <1>5, DnsRaisesEffect, OperationAssumption DEF RaiseEffect, Moved
  <2>2. CASE c.step = "get"
    <3>1. zone' = zone
      BY <2>1, <2>2 DEF RaiseEffect
    <3> QED BY <1>2, <2>1, <2>2, <3>1 DEF SettledFor, Settles
  <2>3. CASE c.step = "revert"
    <3>1. failures' # failures + 1
      BY <1>1, <2>1, <2>3 DEF Undo, Reversible
    <3>2. zone'[c.name] = c.previous
      BY <2>1, <3>1 DEF RaiseEffect
    <3>3. CASE n = c.name
      <4>1. s[n] = c.previous
        BY <1>2, <2>1, <2>3, <3>3 DEF Settles
      <4>2. s'[n] = zone'[n]
        BY <1>1, <1>2, <2>1, <3>3 DEF SettledFor, Settles, Undo, Once
      <4> QED BY <3>2, <3>3, <4>1, <4>2
    <3>4. CASE n # c.name
      BY <1>2, <2>1, <3>4 DEF SettledFor, Settles
    <3> QED BY <3>3, <3>4
  <2> QED BY <1>1, <2>1, <2>2, <2>3, CallTyped DEF RaiseEffect
<1>6. CASE RestoreMutation(p)
  <2>1. /\ RestoreEffect(p) /\ c = None /\ c2 = None /\ o.at = "restore"
    BY <1>6, RestoreMutationEffect DEF RestoreEffect
  <2>2. PICK m \in o.done :
           /\ \A k \in Names : k # m.name => zone'[k] = zone[k]
           /\ zone'[m.name] = m.previous \/ failures' = failures + 1
           /\ \/ o2 = None /\ o.done = {m}
              \/ o2 # None /\ o2.done = o.done \ {m}
    BY <2>1, OperationAssumption DEF RestoreEffect, Moved
  <2>3. zone'[m.name] = m.previous
    BY <1>1, <2>1, <2>2 DEF Undo, Reversible
  <2>4. \A k \in o.done : k.name = m.name => k = m
    BY <1>1 DEF Undo, Once
  <2>5. CASE n = m.name
    <3>1. s[n] = m.previous
      BY <1>2, <2>2, <2>5 DEF Settles
    <3>2. s'[n] = zone'[n]
      BY <1>2, <2>1, <2>2, <2>4, <2>5 DEF SettledFor, Settles
    <3> QED BY <2>3, <2>5, <3>1, <3>2
  <2>6. CASE n # m.name /\ \E k \in o.done : k.name = n
    <3>1. PICK k \in o.done : k.name = n
      BY <2>6
    <3>2. k \in o2.done /\ Settles(zone', s', o2, c2)
      BY <1>2, <2>2, <2>6, <3>1 DEF SettledFor
    <3> QED BY <1>2, <3>1, <3>2 DEF Settles
  <2>7. CASE n # m.name /\ ~\E k \in o.done : k.name = n
    <3>1. s[n] = zone[n] /\ zone'[n] = zone[n]
      BY <1>2, <2>1, <2>2, <2>7 DEF Settles
    <3>2. s'[n] = zone'[n]
      BY <1>2, <2>1, <2>2, <2>7 DEF SettledFor, Settles
    <3> QED BY <3>1, <3>2
  <2> QED BY <2>5, <2>6, <2>7
<1> QED BY <1>4, <1>5, <1>6

LEMMA AtomicStep ==
    Serial /\ TypeInv /\ RowInv /\ OneRuns /\ UndoInv /\ [Next]_vars =>
        [failures' <= 1 => Atomic!Next]_SettledZone
<1> SUFFICES ASSUME Serial, TypeInv, RowInv, OneRuns, UndoInv, [Next]_vars, failures' <= 1
             PROVE  SettledZone' = SettledZone \/ Atomic!Next
  OBVIOUS
<1>1. ASSUME NEW p \in Procs, Begins(p) \/ Steps(p)
      PROVE  SettledZone' = SettledZone \/ Atomic!Next
  BY <1>1, AtomicBegins, AtomicSteps, AtomicCommit, AtomicSync, AtomicReturns, AtomicRequests
     DEF Steps, Atomic!Next
<1>2. CASE UNCHANGED <<proc, dns, zone, devices, serving, failures, dropped>>
  BY <1>2 DEF SettledZone, AtDns
<1> QED BY <1>1, <1>2, SomeoneMoves

\* Where operations do not overlap, the settled zone takes one step for each
\* operation, a sync that goes through every name included, and none for an
\* operation that raised: for any number of devices and names, in whatever order
\* it came to them, while at most one request has raised.
THEOREM ChangesAreTogether == Serial => (Spec => ChangesAreAtomic)
<1> SUFFICES ASSUME Serial PROVE Spec => ChangesAreAtomic
  OBVIOUS
<1>1. TypeInv /\ OneRuns /\ [Next]_vars => OneRuns'
  BY OneRunsStep
<1>2. TypeInv /\ OneRuns /\ UndoInv /\ [Next]_vars => UndoInv'
  BY UndoStep
<1>3. TypeInv /\ RowInv /\ OneRuns /\ UndoInv /\ [Next]_vars =>
          [failures' <= 1 => Atomic!Next]_SettledZone
  BY AtomicStep
<1> QED BY <1>1, <1>2, <1>3, InitNamed, InitUndo, ClaimInvariance, PTL DEF Spec, ChangesAreAtomic
=============================================================================
