------------------------------ MODULE Registry ------------------------------
(***************************************************************************)
(* The SQLite device registry (registry.py): two tables, and the write     *)
(* transactions that enrolment requests and administrators run on them.    *)
(* A transaction of an enrolment stays open while the gateway is being     *)
(* changed, so it spans several steps: BeginEnrollment takes the write     *)
(* lock and prepares a row, CommitEnrollment or Rollback ends it.  Readers *)
(* see the committed tables; only the transaction itself sees its draft.   *)
(*                                                                         *)
(* Time is the set of tokens that have expired.  SQLite waits 30 seconds   *)
(* for its lock and then raises: a step that needs the lock is enabled     *)
(* when the lock is free, and the users of this module add the time-out.   *)
(***************************************************************************)
EXTENDS Gateways

CONSTANT Tokens     \* enrolment tokens, by their hashes

VARIABLES
    devices,    \* committed rows of devices
    tokens,     \* committed rows of enrollment_tokens
    expired,    \* tokens whose expires_at has passed
    txn         \* the open transaction of each process, or None

regVars == <<devices, tokens, expired, txn>>

\* A row of each table, and an enrolment's draft: the row it prepared.  The
\* hostname is a function of the device identifier; time stamps are left out.
Row == [key: Keys, addr: Hosts, enabled: BOOLEAN]
TokenRow == [scope: Devices \cup {None}, consumed: BOOLEAN]
Txn == [dev: Devices, token: Tokens, created: BOOLEAN, row: Row]

ASSUME RegistryAssumption == None \notin Row \cup TokenRow \cup Txn

RegistryTypeOK ==
    /\ devices \in [Devices -> Row \cup {None}]
    /\ tokens \in [Tokens -> TokenRow \cup {None}]
    /\ expired \in SUBSET Tokens
    /\ txn \in [Procs -> Txn \cup {None}]

RegistryInit ==
    /\ devices = [d \in Devices |-> None]
    /\ tokens = [t \in Tokens |-> None]
    /\ expired = {}
    /\ txn = [p \in Procs |-> None]

-----------------------------------------------------------------------------
Enrolled == {d \in Devices : devices[d] # None}

\* The addresses _reserved_networks collects: the gateway's, those of every
\* row, revoked or not, and what the WireGuard configuration already uses.
Reserved(external) ==
    {Gateway} \cup {devices[d].addr : d \in Enrolled} \cup external

\* allocate_address: the lowest host address that is not reserved.
Allocates(external, a) ==
    /\ a \in Hosts \ Reserved(external)
    /\ \A b \in Hosts \ Reserved(external) : a <= b

Exhausted(external) == Hosts \subseteq Reserved(external)

\* The token checks of prepare_enrollment.
TokenAccepted(t, d) ==
    /\ tokens[t] # None
    /\ ~tokens[t].consumed
    /\ t \notin expired
    /\ tokens[t].scope \in {None, d}

\* The rows prepare_enrollment refuses to reuse or to duplicate.
IdentityConflict(d, k) ==
    IF devices[d] = None
    THEN \E e \in Enrolled : devices[e].key = k
    ELSE ~devices[d].enabled \/ devices[d].key # k

Refused(d, k, t, external) ==
    \/ ~TokenAccepted(t, d)
    \/ IdentityConflict(d, k)
    \/ devices[d] = None /\ Exhausted(external)

\* BEGIN IMMEDIATE succeeds only when nobody else is writing.
MutWriteLockFree == TRUE
WriteLockFree == \A p \in Procs : txn[p] = None

\* What a transaction reads from table devices: the committed rows and its own.
View(p) ==
    IF txn[p] # None /\ txn[p].created
    THEN [devices EXCEPT ![txn[p].dev] = txn[p].row]
    ELSE devices

-----------------------------------------------------------------------------
\* transaction() and prepare_enrollment: the draft holds the row that exists,
\* or the row just inserted.
BeginEnrollment(p, d, k, t, external) ==
    /\ WriteLockFree
    /\ ~Refused(d, k, t, external)
    /\ \/ /\ devices[d] # None
          /\ txn' = [txn EXCEPT ![p] =
                [dev |-> d, token |-> t, created |-> FALSE, row |-> devices[d]]]
       \/ /\ devices[d] = None
          /\ \E a \in Hosts :
                /\ Allocates(external, a)
                /\ txn' = [txn EXCEPT ![p] =
                      [dev |-> d, token |-> t, created |-> TRUE,
                       row |-> [key |-> k, addr |-> a, enabled |-> TRUE]]]
    /\ UNCHANGED <<devices, tokens, expired>>

\* consume_token, whose UPDATE must change exactly one row, and the commit.
MutCommitEnrollment(p) ==
    /\ txn[p] # None
    /\ devices' = View(p)
    /\ txn' = [txn EXCEPT ![p] = None]
    /\ UNCHANGED <<tokens, expired>>
CommitEnrollment(p) ==
    /\ txn[p] # None
    /\ ~tokens[txn[p].token].consumed
    /\ devices' = View(p)
    /\ tokens' = [tokens EXCEPT ![txn[p].token].consumed = TRUE]
    /\ txn' = [txn EXCEPT ![p] = None]
    /\ UNCHANGED expired

\* Any exception inside the transaction, or the death of its process.
Rollback(p) ==
    /\ txn[p] # None
    /\ txn' = [txn EXCEPT ![p] = None]
    /\ UNCHANGED <<devices, tokens, expired>>

\* registry.revoke, a transaction of its own.
MutRevokeRow(d) ==
    /\ WriteLockFree
    /\ devices[d] # None
    /\ devices' = [devices EXCEPT ![d].enabled = FALSE, ![d].addr = 0]
    /\ UNCHANGED <<tokens, expired, txn>>
RevokeRow(d) ==
    /\ WriteLockFree
    /\ devices[d] # None
    /\ devices' = [devices EXCEPT ![d].enabled = FALSE]
    /\ UNCHANGED <<tokens, expired, txn>>

\* create_token: one INSERT, which needs the write lock like any other.
CreateToken(t, scope) ==
    /\ WriteLockFree
    /\ tokens[t] = None
    /\ tokens' = [tokens EXCEPT ![t] = [scope |-> scope, consumed |-> FALSE]]
    /\ UNCHANGED <<devices, expired, txn>>

\* The clock reaches the expires_at of an issued token.
Expire(t) ==
    /\ tokens[t] # None
    /\ expired' = expired \cup {t}
    /\ UNCHANGED <<devices, tokens, txn>>

RegistryNext ==
    \/ \E p \in Procs :
          \/ \E d \in Devices, k \in Keys, t \in Tokens, external \in SUBSET Hosts :
                BeginEnrollment(p, d, k, t, external)
          \/ CommitEnrollment(p)
          \/ Rollback(p)
    \/ \E d \in Devices : RevokeRow(d)
    \/ \E t \in Tokens, scope \in Devices \cup {None} : CreateToken(t, scope)
    \/ \E t \in Tokens : Expire(t)

RegistrySpec == RegistryInit /\ [][RegistryNext]_regVars

-----------------------------------------------------------------------------
(***************************************************************************)
(* Properties.                                                             *)
(***************************************************************************)

\* No two rows ever share a WireGuard key or an address, revoked rows
\* included, and no row has the gateway's address: the allocator and the
\* conflict checks read tables that no other transaction is changing.
UniqueIdentity ==
    \A d \in Enrolled :
        /\ devices[d].addr # Gateway
        /\ \A e \in Enrolled \ {d} :
              devices[e].key # devices[d].key /\ devices[e].addr # devices[d].addr

\* A row, once committed, keeps its key and its address for ever, and a device
\* once revoked is never enabled again, whatever transactions were open when
\* it was revoked.
RowsPermanent ==
    [][\A d \in Enrolled :
          /\ devices'[d] # None
          /\ devices'[d].key = devices[d].key
          /\ devices'[d].addr = devices[d].addr
          /\ devices'[d].enabled => devices[d].enabled]_regVars

\* The draft of an open transaction still fits the committed tables, however
\* long the gateway took: its row is free to insert or is the row that exists
\* and is still enabled, and its token is still unspent and meant for its
\* device, so that consume_token cannot find the token already used.
DraftStaysValid ==
    \A p \in Procs : txn[p] # None =>
        /\ tokens[txn[p].token] # None
        /\ ~tokens[txn[p].token].consumed
        /\ tokens[txn[p].token].scope \in {None, txn[p].dev}
        /\ txn[p].row.enabled
        /\ IF txn[p].created
           THEN /\ devices[txn[p].dev] = None
                /\ txn[p].row.addr # Gateway
                /\ \A e \in Enrolled :
                      devices[e].key # txn[p].row.key /\ devices[e].addr # txn[p].row.addr
           ELSE devices[txn[p].dev] = txn[p].row

\* The registry implements the ledger: every commit is one enrolment that
\* spends one token, and everything else is invisible or a ledger step.
Ledger == INSTANCE EnrollmentLedger
ImplementsLedger == Ledger!Spec
=============================================================================
