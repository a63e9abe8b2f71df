--------------------------- MODULE RegistryProofs ---------------------------
(***************************************************************************)
(* For every set of devices, keys, tokens, addresses and processes: the    *)
(* invariants of the registry, the permanence of its rows, and that its    *)
(* transactions implement the atomic EnrollmentLedger.                     *)
(*                                                                         *)
(* UniqueIdentity is not inductive: a commit installs a row prepared many  *)
(* steps earlier.  DraftStaysValid carries the facts established then, and *)
(* OneWriter is why no other transaction can invalidate them.              *)
(***************************************************************************)
EXTENDS Registry, TLAPS

\* BEGIN IMMEDIATE lets one transaction in at a time.
OneWriter ==
    \A p, q \in Procs : txn[p] # None /\ txn[q] # None => p = q

IInv ==
    /\ RegistryTypeOK
    /\ OneWriter
    /\ UniqueIdentity
    /\ DraftStaysValid

USE DEF Row, TokenRow, Txn

LEMMA InitEstablishes == RegistryInit => IInv
BY DEF RegistryInit, IInv, RegistryTypeOK, OneWriter, UniqueIdentity,
       DraftStaysValid, Enrolled

-----------------------------------------------------------------------------
(* One lemma per action.                                                   *)

\* What an allocation yields: a host address that no row and no gateway holds.
LEMMA AllocatedIsFree ==
    ASSUME NEW external, NEW a, Allocates(external, a)
    PROVE  /\ a \in Hosts
           /\ a # Gateway
           /\ \A e \in Enrolled : devices[e].addr # a
           /\ a \notin external
BY DEF Allocates, Reserved

\* What BEGIN and prepare_enrollment leave in the transaction.
LEMMA BeginDraft ==
    ASSUME IInv, NEW p \in Procs, NEW d \in Devices, NEW k \in Keys,
           NEW t \in Tokens, NEW external, BeginEnrollment(p, d, k, t, external)
    PROVE  \E draft \in Txn :
              /\ txn' = [txn EXCEPT ![p] = draft]
              /\ draft.dev = d /\ draft.token = t /\ draft.row.enabled
              /\ IF draft.created
                 THEN /\ devices[d] = None
                      /\ draft.row.key = k
                      /\ draft.row.addr # Gateway
                      /\ draft.row.addr \notin external
                      /\ \A e \in Enrolled : devices[e].addr # draft.row.addr
                 ELSE devices[d] # None /\ draft.row = devices[d]
<1> USE GatewaysAssumption, RegistryAssumption
<1>1. CASE devices[d] # None
  <2> DEFINE old == [dev |-> d, token |-> t, created |-> FALSE, row |-> devices[d]]
  <2>1. old \in Txn
    BY <1>1 DEF IInv, RegistryTypeOK
  <2>2. txn' = [txn EXCEPT ![p] = old]
    BY <1>1 DEF BeginEnrollment
  <2>3. devices[d].enabled
    BY <1>1 DEF BeginEnrollment, Refused, IdentityConflict
  <2> QED BY <1>1, <2>1, <2>2, <2>3
<1>2. CASE devices[d] = None
  <2>1. PICK a \in Hosts :
           /\ Allocates(external, a)
           /\ txn' = [txn EXCEPT ![p] =
                 [dev |-> d, token |-> t, created |-> TRUE,
                  row |-> [key |-> k, addr |-> a, enabled |-> TRUE]]]
    BY <1>2 DEF BeginEnrollment
  <2>2. a # Gateway /\ a \notin external /\ \A e \in Enrolled : devices[e].addr # a
    BY <2>1, AllocatedIsFree
  <2> DEFINE new == [dev |-> d, token |-> t, created |-> TRUE,
                     row |-> [key |-> k, addr |-> a, enabled |-> TRUE]]
  <2>3. new \in Txn
    OBVIOUS
  <2> QED BY <1>2, <2>1, <2>2, <2>3
<1> QED BY <1>1, <1>2

LEMMA BeginPreserves ==
    ASSUME IInv, NEW p \in Procs, NEW d \in Devices, NEW k \in Keys,
           NEW t \in Tokens, NEW external, BeginEnrollment(p, d, k, t, external)
    PROVE  IInv'
<1> USE GatewaysAssumption, RegistryAssumption
<1>1. PICK draft \in Txn :
         /\ txn' = [txn EXCEPT ![p] = draft]
         /\ draft.dev = d /\ draft.token = t /\ draft.row.enabled
         /\ IF draft.created
            THEN /\ devices[d] = None
                 /\ draft.row.key = k
                 /\ draft.row.addr # Gateway
                 /\ \A e \in Enrolled : devices[e].addr # draft.row.addr
            ELSE devices[d] # None /\ draft.row = devices[d]
  BY BeginDraft
<1>2. UNCHANGED <<devices, tokens, expired>> /\ Enrolled' = Enrolled
  BY DEF BeginEnrollment, Enrolled
<1>3. TokenAccepted(t, d) /\ ~IdentityConflict(d, k)
  BY DEF BeginEnrollment, Refused
<1>4. \A q \in Procs : txn[q] = None
  BY DEF BeginEnrollment, WriteLockFree
<1>5. \A q \in Procs : txn'[q] = IF q = p THEN draft ELSE None
  BY <1>1, <1>4 DEF IInv, RegistryTypeOK
<1>6. RegistryTypeOK'
  BY <1>1, <1>2 DEF IInv, RegistryTypeOK
<1>7. OneWriter'
  BY <1>5 DEF OneWriter
<1>8. UniqueIdentity'
  BY <1>2 DEF IInv, UniqueIdentity
<1>9. DraftStaysValid'
  <2>1. CASE draft.created
    <3>1. \A e \in Enrolled : devices[e].key # draft.row.key
      BY <1>1, <1>3, <2>1 DEF IdentityConflict
    <3> QED BY <1>1, <1>2, <1>3, <1>5, <2>1, <3>1 DEF DraftStaysValid, TokenAccepted
  <2>2. CASE ~draft.created
    BY <1>1, <1>2, <1>3, <1>5, <2>2 DEF DraftStaysValid, TokenAccepted, IdentityConflict
  <2> QED BY <2>1, <2>2
<1> QED BY <1>6, <1>7, <1>8, <1>9 DEF IInv

LEMMA CommitPreserves ==
    ASSUME IInv, NEW p \in Procs, CommitEnrollment(p)
    PROVE  IInv'
<1> USE GatewaysAssumption, RegistryAssumption
<1> DEFINE draft == txn[p]
<1>1. draft \in Txn /\ draft # None
  BY DEF IInv, RegistryTypeOK, CommitEnrollment
<1>2. \A q \in Procs : txn'[q] = None
  BY <1>1 DEF IInv, RegistryTypeOK, OneWriter, CommitEnrollment
<1>3. tokens[draft.token] \in TokenRow
  BY <1>1 DEF IInv, RegistryTypeOK, DraftStaysValid
<1>4. devices' = IF draft.created THEN [devices EXCEPT ![draft.dev] = draft.row]
                 ELSE devices
  BY <1>1 DEF CommitEnrollment, View
<1>5. RegistryTypeOK'
  <2>1. devices' \in [Devices -> Row \cup {None}]
    BY <1>1, <1>4 DEF IInv, RegistryTypeOK
  <2>2. tokens' \in [Tokens -> TokenRow \cup {None}]
    BY <1>1, <1>3 DEF IInv, RegistryTypeOK, CommitEnrollment
  <2> QED BY <2>1, <2>2 DEF IInv, RegistryTypeOK, CommitEnrollment
<1>6. UniqueIdentity'
  <2>1. CASE draft.created
    <3>1. /\ devices[draft.dev] = None
          /\ draft.row.addr # Gateway
          /\ \A e \in Enrolled : devices[e].key # draft.row.key
                              /\ devices[e].addr # draft.row.addr
      BY <1>1, <2>1 DEF IInv, DraftStaysValid
    <3>2. Enrolled' = Enrolled \cup {draft.dev}
      BY <1>1, <1>4, <2>1 DEF Enrolled, IInv, RegistryTypeOK
    <3>3. \A e \in Enrolled' : devices'[e] = IF e = draft.dev THEN draft.row ELSE devices[e]
      BY <1>1, <1>4, <2>1, <3>2 DEF IInv, RegistryTypeOK, Enrolled
    <3> QED BY <3>1, <3>2, <3>3 DEF UniqueIdentity, IInv
  <2>2. CASE ~draft.created
    BY <1>4, <2>2 DEF UniqueIdentity, Enrolled, IInv
  <2> QED BY <2>1, <2>2
<1>7. OneWriter' /\ DraftStaysValid'
  BY <1>2 DEF OneWriter, DraftStaysValid
<1> QED BY <1>5, <1>6, <1>7 DEF IInv

LEMMA RollbackPreserves ==
    ASSUME IInv, NEW p \in Procs, Rollback(p)
    PROVE  IInv'
BY DEF IInv, Rollback, RegistryTypeOK, OneWriter, UniqueIdentity, DraftStaysValid, Enrolled

\* Nobody holds a draft while a row is revoked or a token is issued.
LEMMA RevokePreserves ==
    ASSUME IInv, NEW d \in Devices, RevokeRow(d)
    PROVE  IInv'
<1> USE GatewaysAssumption, RegistryAssumption
<1>1. devices[d] \in Row
  BY DEF IInv, RegistryTypeOK, RevokeRow
<1>2. /\ Enrolled' = Enrolled
      /\ \A e \in Enrolled : devices'[e].key = devices[e].key
                          /\ devices'[e].addr = devices[e].addr
  BY <1>1 DEF IInv, RegistryTypeOK, RevokeRow, Enrolled
<1>3. RegistryTypeOK'
  BY <1>1 DEF IInv, RegistryTypeOK, RevokeRow
<1>4. UniqueIdentity'
  BY <1>2 DEF IInv, UniqueIdentity
<1>5. OneWriter' /\ DraftStaysValid'
  BY DEF RevokeRow, WriteLockFree, OneWriter, DraftStaysValid
<1> QED BY <1>3, <1>4, <1>5 DEF IInv

LEMMA TokenStepsPreserve ==
    ASSUME IInv, NEW t \in Tokens,
           \/ \E s \in Devices \cup {None} : CreateToken(t, s)
           \/ Expire(t)
    PROVE  IInv'
<1>1. CASE \E s \in Devices \cup {None} : CreateToken(t, s)
  <2>1. PICK s \in Devices \cup {None} : CreateToken(t, s)
    BY <1>1
  <2>2. RegistryTypeOK'
    BY <2>1 DEF IInv, RegistryTypeOK, CreateToken
  <2>3. UniqueIdentity'
    BY <2>1 DEF IInv, UniqueIdentity, Enrolled, CreateToken
  <2>4. OneWriter' /\ DraftStaysValid'
    BY <2>1 DEF CreateToken, WriteLockFree, OneWriter, DraftStaysValid
  <2> QED BY <2>2, <2>3, <2>4 DEF IInv
<1>2. CASE Expire(t)
  BY <1>2 DEF IInv, Expire, RegistryTypeOK, OneWriter, UniqueIdentity, DraftStaysValid, Enrolled
<1> QED BY <1>1, <1>2

LEMMA StutterPreserves == IInv /\ UNCHANGED regVars => IInv'
BY DEF IInv, regVars, RegistryTypeOK, OneWriter, UniqueIdentity, DraftStaysValid, Enrolled

LEMMA StepPreserves == IInv /\ [RegistryNext]_regVars => IInv'
BY BeginPreserves, CommitPreserves, RollbackPreserves, RevokePreserves,
   TokenStepsPreserve, StutterPreserves DEF RegistryNext

LEMMA RegistryInvariance == RegistrySpec => []IInv
BY InitEstablishes, StepPreserves, PTL DEF RegistrySpec

-----------------------------------------------------------------------------
\* The variables stay in their types.
THEOREM RegistryTypeCorrect == RegistrySpec => []RegistryTypeOK
<1>1. IInv => RegistryTypeOK
  BY DEF IInv
<1> QED BY <1>1, RegistryInvariance, PTL

\* No two rows ever share a key or an address, and none has the gateway's.
THEOREM IdentityIsUnique == RegistrySpec => []UniqueIdentity
<1>1. IInv => UniqueIdentity
  BY DEF IInv
<1> QED BY <1>1, RegistryInvariance, PTL

\* A draft fits the committed tables until its transaction ends.
THEOREM DraftIsValid == RegistrySpec => []DraftStaysValid
<1>1. IInv => DraftStaysValid
  BY DEF IInv
<1> QED BY <1>1, RegistryInvariance, PTL

-----------------------------------------------------------------------------
(* What one step may do to the tables.                                     *)

LEMMA StepKeepsRows ==
    ASSUME IInv, [RegistryNext]_regVars, NEW e \in Enrolled
    PROVE  /\ devices'[e] # None
           /\ devices'[e].key = devices[e].key
           /\ devices'[e].addr = devices[e].addr
           /\ devices'[e].enabled => devices[e].enabled
<1> USE GatewaysAssumption, RegistryAssumption
<1>1. e \in Devices /\ devices[e] \in Row /\ devices[e] # None
  BY DEF Enrolled, IInv, RegistryTypeOK
<1>2. CASE UNCHANGED devices
  BY <1>1, <1>2
<1>3. CASE \E p \in Procs : CommitEnrollment(p)
  <2>1. PICK p \in Procs : CommitEnrollment(p)
    BY <1>3
  <2>2. txn[p] \in Txn /\ txn[p] # None
    BY <2>1 DEF IInv, RegistryTypeOK, CommitEnrollment
  <2>3. txn[p].created => txn[p].dev # e
    BY <1>1, <2>2 DEF IInv, DraftStaysValid
  <2>4. devices'[e] = devices[e]
    BY <1>1, <2>1, <2>2, <2>3 DEF CommitEnrollment, View, IInv, RegistryTypeOK
  <2> QED BY <1>1, <2>4
<1>4. CASE \E d \in Devices : RevokeRow(d)
  <2>1. PICK d \in Devices : RevokeRow(d)
    BY <1>4
  <2>2. devices'[e] = IF e = d THEN [devices[e] EXCEPT !.enabled = FALSE] ELSE devices[e]
    BY <1>1, <2>1 DEF RevokeRow, IInv, RegistryTypeOK
  <2> QED BY <1>1, <2>2
<1> QED BY <1>2, <1>3, <1>4
        DEF RegistryNext, regVars, BeginEnrollment, Rollback, CreateToken, Expire

\* Rows are for ever, and revocation is final.
THEOREM RowsArePermanent == RegistrySpec => RowsPermanent
<1>1. IInv /\ [RegistryNext]_regVars =>
        [\A d \in Enrolled :
          /\ devices'[d] # None
          /\ devices'[d].key = devices[d].key
          /\ devices'[d].addr = devices[d].addr
          /\ devices'[d].enabled => devices[d].enabled]_regVars
  BY StepKeepsRows
<1> QED BY <1>1, RegistryInvariance, PTL DEF RegistrySpec, RowsPermanent

-----------------------------------------------------------------------------
(* The refinement: the ledger's tables are the committed tables, and its   *)
(* enrolment happens at the commit.                                        *)

LEMMA CommitIsAnEnrollment ==
    ASSUME IInv, NEW p \in Procs, CommitEnrollment(p)
    PROVE  \E d \in Devices, k \in Keys, t \in Tokens : Ledger!Enroll(d, k, t)
<1> USE GatewaysAssumption, RegistryAssumption
<1> DEFINE draft == txn[p]
           d == draft.dev
           k == draft.row.key
           t == draft.token
<1>1. draft \in Txn /\ draft # None
  BY DEF IInv, RegistryTypeOK, CommitEnrollment
<1>2. d \in Devices /\ k \in Keys /\ t \in Tokens /\ draft.row.addr \in Hosts
  BY <1>1
<1>3. Ledger!Spend(t, d)
  BY <1>1 DEF Ledger!Spend, CommitEnrollment, IInv, DraftStaysValid
<1>4. CASE draft.created
  <2>1. draft.row = [key |-> k, addr |-> draft.row.addr, enabled |-> TRUE]
    BY <1>1 DEF IInv, DraftStaysValid
  <2>2. devices' = [devices EXCEPT ![d] = draft.row]
    BY <1>1, <1>4 DEF CommitEnrollment, View
  <2>3. Ledger!Enter(d, k, draft.row.addr)
    BY <1>1, <1>4, <2>1, <2>2 DEF Ledger!Enter, IInv, DraftStaysValid, Enrolled
  <2> QED BY <1>2, <1>3, <2>3 DEF Ledger!Enroll
<1>5. CASE ~draft.created
  <2>1. Ledger!Confirm(d, k)
    BY <1>1, <1>5 DEF Ledger!Confirm, CommitEnrollment, View, IInv, DraftStaysValid
  <2> QED BY <1>2, <1>3, <2>1 DEF Ledger!Enroll
<1> QED BY <1>4, <1>5

LEMMA StepIsALedgerStep ==
    IInv /\ [RegistryNext]_regVars => [Ledger!Next]_(Ledger!vars)
<1> SUFFICES ASSUME IInv, [RegistryNext]_regVars
             PROVE  [Ledger!Next]_(Ledger!vars)
  OBVIOUS
<1>1. CASE UNCHANGED <<devices, tokens>>
  BY <1>1 DEF Ledger!vars
<1>2. ASSUME NEW p \in Procs, CommitEnrollment(p)
      PROVE  Ledger!Next
  BY <1>2, CommitIsAnEnrollment DEF Ledger!Next
<1>3. ASSUME NEW d \in Devices, RevokeRow(d)
      PROVE  Ledger!Next
  BY <1>3 DEF Ledger!Next, Ledger!Revoke, RevokeRow
<1>4. ASSUME NEW t \in Tokens, NEW s \in Devices \cup {None}, CreateToken(t, s)
      PROVE  Ledger!Next
  BY <1>4 DEF Ledger!Next, Ledger!Issue, CreateToken
<1> QED BY <1>1, <1>2, <1>3, <1>4
        DEF RegistryNext, regVars, BeginEnrollment, Rollback, Expire

\* The transactions of the registry implement the atomic ledger: a token is
\* spent exactly when its enrolment is committed, at most once, and never for
\* a revoked device, a foreign key or an address in use.
THEOREM RegistryImplementsLedger == RegistrySpec => ImplementsLedger
<1>1. RegistryInit => Ledger!Init
  BY DEF RegistryInit, Ledger!Init
<1> QED BY <1>1, StepIsALedgerStep, RegistryInvariance, PTL
        DEF RegistrySpec, ImplementsLedger, Ledger!Spec
=============================================================================
