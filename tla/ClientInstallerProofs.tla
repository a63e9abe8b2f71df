------------------------ MODULE ClientInstallerProofs ------------------------
(***************************************************************************)
(* For every set of machines, keys, tokens and addresses: the types, the   *)
(* keys and addresses the machines hold, what they persist, and that they  *)
(* do not enrol twice without a reason.                                    *)
(*                                                                         *)
(* The invariants are about one machine at a time.  A step of a machine    *)
(* changes its own state only, so that each of them needs one argument per *)
(* action about that machine; the other machines are covered by Elsewhere. *)
(***************************************************************************)
EXTENDS ClientInstaller, FiniteSetTheorems, TLAPS

\* What a run knows once it has got past a step.
RunOK(c) ==
    /\ run[c].at \notin {"device", "private"} => file[c].private # None
    /\ run[c].at \in {"server", "address", "endpoint", "conf", "up"} =>
          Complete(run[c].options) /\ run[c].options.endpoint # None
    /\ run[c].answer # None => run[c].at = "wait"

RunsOK == \A c \in Clients : run[c] # None => RunOK(c)

MachinesOK ==
    /\ file \in [Clients -> Files]
    /\ conf \in [Clients -> Config \cup {None}]
    /\ up \in [Clients -> Config \cup {None}]
    /\ run \in [Clients -> Run \cup {None}]

TablesOK ==
    /\ devices \in [Devices -> Ledger!Row \cup {None}]
    /\ tokens \in [Tokens -> Ledger!TokenRow \cup {None}]

HistoryOK ==
    /\ requests \in SUBSET Request
    /\ byHand \in SUBSET Clients /\ lost \in SUBSET Clients /\ cuts \in 0..MaxCuts

TypeInv == MachinesOK /\ TablesOK /\ HistoryOK /\ RunsOK

USE ClientAssumption, ManualAssumption, RecordAssumption
USE DEF gatewayVars, machineVars, historyVars

-----------------------------------------------------------------------------
(* What each step does to the machine that takes it.                       *)

\* The other machines are left alone.
Elsewhere(c) ==
    \A e \in Clients \ {c} :
        file'[e] = file[e] /\ conf'[e] = conf[e] /\ up'[e] = up[e] /\ run'[e] = run[e]

\* A run goes on with what it was given.
Keeps(r, r2) ==
    /\ r \in Run /\ r2 \in Run
    /\ r2.mode = r.mode /\ r2.device = r.device /\ r2.token = r.token

Names == {"device", "private", "server", "address", "endpoint"}
Written == Names \ {"private"}
ValueOf == [device |-> Devices \cup {None}, server |-> {GatewayKey, None},
            address |-> Hosts \cup {None}, endpoint |-> Endpoints \cup {None}]

LEMMA WriteEffect ==
    ASSUME MachinesOK, NEW c \in Clients, NEW name \in Written, NEW value \in ValueOf[name],
           NEW next \in {"private", "address", "endpoint", "conf"}, Writes(c, name, value, next)
    PROVE  /\ MachinesOK' /\ Elsewhere(c)
           /\ Keeps(run[c], run'[c])
           /\ run'[c].answer = run[c].answer /\ run'[c].options = run[c].options
           /\ run'[c].changed = run[c].changed
           /\ file[c] \in Files /\ file'[c] \in Files
           /\ \A n \in Names \ {name} : file'[c][n] = file[c][n]
           /\ \/ run'[c].at = name /\ file'[c][name] = None
              \/ run'[c].at = next /\ file'[c][name] = value
           /\ run[c] # None /\ run[c].at = name
           /\ UNCHANGED <<devices, tokens, requests, conf, up, byHand, lost, cuts>>
<1>1. run[c] \in Run /\ file[c] \in Files
  BY DEF MachinesOK, Writes, At
<1>2. PICK r \in Run, f \in Files :
         /\ run' = [run EXCEPT ![c] = r] /\ file' = [file EXCEPT ![c] = f]
         /\ Keeps(run[c], r) /\ r.answer = run[c].answer /\ r.options = run[c].options
         /\ r.changed = run[c].changed
         /\ \A n \in Names \ {name} : f[n] = file[c][n]
         /\ \/ r.at = name /\ f[name] = None
            \/ r.at = next /\ f[name] = value
  <2>1. CASE ~run[c].torn
    <3> DEFINE r == [run[c] EXCEPT !.torn = TRUE]
               f == [file[c] EXCEPT ![name] = None]
    <3>1. run' = [run EXCEPT ![c] = r] /\ file' = [file EXCEPT ![c] = f]
      BY <2>1 DEF Writes
    <3>2. /\ r \in Run /\ Keeps(run[c], r) /\ r.at = name
          /\ r.answer = run[c].answer /\ r.options = run[c].options /\ r.changed = run[c].changed
      BY <1>1 DEF Writes, Keeps, Run, At
    <3>3. f \in Files
      BY <1>1 DEF Files
    <3>4. f[name] = None /\ \A n \in Names \ {name} : f[n] = file[c][n]
      BY <1>1 DEF Files, Names, Written
    <3> QED BY <3>1, <3>2, <3>3, <3>4
  <2>2. CASE run[c].torn
    <3> DEFINE r == [run[c] EXCEPT !.torn = FALSE, !.at = next]
               f == [file[c] EXCEPT ![name] = value]
    <3>1. run' = [run EXCEPT ![c] = r] /\ file' = [file EXCEPT ![c] = f]
      BY <2>2 DEF Writes, MachinesOK
    <3>2. /\ r \in Run /\ Keeps(run[c], r) /\ r.at = next
          /\ r.answer = run[c].answer /\ r.options = run[c].options /\ r.changed = run[c].changed
      BY <1>1 DEF Writes, Keeps, Run, At
    <3>3. f \in Files
      BY <1>1 DEF Files, ValueOf, Names, Written
    <3>4. f[name] = value /\ \A n \in Names \ {name} : f[n] = file[c][n]
      BY <1>1 DEF Files, Names, Written
    <3> QED BY <3>1, <3>2, <3>3, <3>4
  <2> QED BY <2>1, <2>2
<1>3. run'[c] = r /\ file'[c] = f
  BY <1>2 DEF MachinesOK
<1>4. MachinesOK' /\ Elsewhere(c)
  BY <1>2 DEF MachinesOK, Elsewhere, Writes
<1> QED BY <1>1, <1>2, <1>3, <1>4 DEF Writes, At

\* The four files a run writes, and what it writes to them.
LEMMA WrittenValues ==
    ASSUME MachinesOK, NEW c \in Clients, run[c] # None
    PROVE  /\ run[c].device \in ValueOf["device"]
           /\ run[c].options.server \in ValueOf["server"]
           /\ run[c].options.address \in ValueOf["address"]
           /\ run[c].options.endpoint \in ValueOf["endpoint"]
BY DEF MachinesOK, Run, Options, ValueOf

\* The four steps that write a file, as one.
AWrite(c) == WriteDevice(c) \/ WriteServer(c) \/ WriteAddress(c) \/ WriteEndpoint(c)
Wrote(c, name, value, next) ==
    \/ name = "device" /\ next = "private" /\ value = run[c].device
    \/ name = "server" /\ next = "address" /\ value = run[c].options.server
    \/ name = "address" /\ next = "endpoint" /\ value = run[c].options.address
    \/ name = "endpoint" /\ next = "conf" /\ value = run[c].options.endpoint

LEMMA AWriteIs ==
    ASSUME MachinesOK, NEW c \in Clients, AWrite(c)
    PROVE  \E name \in Written, next \in {"private", "address", "endpoint", "conf"} :
              \E value \in ValueOf[name] :
                 Writes(c, name, value, next) /\ Wrote(c, name, value, next)
<1>1. run[c] # None
  BY DEF AWrite, WriteDevice, WriteServer, WriteAddress, WriteEndpoint, Writes, At
<1>2. CASE WriteDevice(c)
  BY <1>1, <1>2, WrittenValues DEF WriteDevice, Wrote, Written, Names
<1>3. CASE WriteServer(c)
  BY <1>1, <1>3, WrittenValues DEF WriteServer, Wrote, Written, Names
<1>4. CASE WriteAddress(c)
  BY <1>1, <1>4, WrittenValues DEF WriteAddress, Wrote, Written, Names
<1>5. CASE WriteEndpoint(c)
  BY <1>1, <1>5, WrittenValues DEF WriteEndpoint, Wrote, Written, Names
<1> QED BY <1>2, <1>3, <1>4, <1>5 DEF AWrite

LEMMA AWriteEffect ==
    ASSUME MachinesOK, NEW c \in Clients, AWrite(c)
    PROVE  /\ MachinesOK' /\ Elsewhere(c)
           /\ Keeps(run[c], run'[c]) /\ run[c] # None /\ run'[c] # None
           /\ run'[c].answer = run[c].answer /\ run'[c].options = run[c].options
           /\ run'[c].changed = run[c].changed
           /\ file'[c].private = file[c].private
           /\ \/ /\ run[c].at = "device"
                 /\ file'[c].server = file[c].server /\ file'[c].address = file[c].address
                 /\ file'[c].endpoint = file[c].endpoint
                 /\ \/ run'[c].at = "device" /\ file'[c].device = None
                    \/ run'[c].at = "private" /\ file'[c].device = run[c].device
              \/ /\ run[c].at = "server"
                 /\ file'[c].device = file[c].device /\ file'[c].address = file[c].address
                 /\ file'[c].endpoint = file[c].endpoint
                 /\ \/ run'[c].at = "server" /\ file'[c].server = None
                    \/ run'[c].at = "address" /\ file'[c].server = run[c].options.server
              \/ /\ run[c].at = "address"
                 /\ file'[c].device = file[c].device /\ file'[c].server = file[c].server
                 /\ file'[c].endpoint = file[c].endpoint
                 /\ \/ run'[c].at = "address" /\ file'[c].address = None
                    \/ run'[c].at = "endpoint" /\ file'[c].address = run[c].options.address
              \/ /\ run[c].at = "endpoint"
                 /\ file'[c].device = file[c].device /\ file'[c].server = file[c].server
                 /\ file'[c].address = file[c].address
                 /\ \/ run'[c].at = "endpoint" /\ file'[c].endpoint = None
                    \/ run'[c].at = "conf" /\ file'[c].endpoint = run[c].options.endpoint
           /\ UNCHANGED <<devices, tokens, requests, conf, up, byHand, lost, cuts>>
<1>1. PICK name \in Written, next \in {"private", "address", "endpoint", "conf"} :
         \E value \in ValueOf[name] : Writes(c, name, value, next) /\ Wrote(c, name, value, next)
  BY AWriteIs
<1>2. PICK value \in ValueOf[name] : Writes(c, name, value, next) /\ Wrote(c, name, value, next)
  BY <1>1
<1>3. /\ MachinesOK' /\ Elsewhere(c)
      /\ Keeps(run[c], run'[c])
      /\ run'[c].answer = run[c].answer /\ run'[c].options = run[c].options
      /\ run'[c].changed = run[c].changed
      /\ file[c] \in Files /\ file'[c] \in Files
      /\ \A n \in Names \ {name} : file'[c][n] = file[c][n]
      /\ \/ run'[c].at = name /\ file'[c][name] = None
         \/ run'[c].at = next /\ file'[c][name] = value
      /\ run[c] # None /\ run[c].at = name
      /\ UNCHANGED <<devices, tokens, requests, conf, up, byHand, lost, cuts>>
  BY <1>2, WriteEffect
<1>4. run'[c] # None
  BY <1>3 DEF Keeps
<1>5. CASE name = "device"
  BY <1>2, <1>3, <1>4, <1>5 DEF Wrote, Names
<1>6. CASE name = "server"
  BY <1>2, <1>3, <1>4, <1>6 DEF Wrote, Names
<1>7. CASE name = "address"
  BY <1>2, <1>3, <1>4, <1>7 DEF Wrote, Names
<1>8. CASE name = "endpoint"
  BY <1>2, <1>3, <1>4, <1>8 DEF Wrote, Names
<1> QED BY <1>5, <1>6, <1>7, <1>8 DEF Written, Names

\* A step that does not touch the files moves the run, or ends it.
LEMMA RunEffect ==
    ASSUME MachinesOK, NEW c \in Clients, NEW r \in Run \cup {None}, run' = [run EXCEPT ![c] = r],
           UNCHANGED machineVars
    PROVE  MachinesOK' /\ Elsewhere(c) /\ run'[c] = r
BY DEF MachinesOK, Elsewhere

LEMMA StartEffect ==
    ASSUME MachinesOK, NEW c \in Clients, NEW mode \in {"prepare", "install"}, NEW option \in Devices \cup {None},
           NEW token \in Tokens \cup {None}, NEW options \in Manual \cup {NoOptions},
           Start(c, mode, option, token, options)
    PROVE  /\ MachinesOK' /\ Elsewhere(c)
           /\ run[c] = None /\ run'[c] \in Run
           /\ run'[c].at = "device" /\ run'[c].answer = None /\ run'[c].options = options
           /\ file[c].device \in {None, run'[c].device}
           /\ UNCHANGED <<devices, tokens, requests, file, conf, up, lost, cuts>>
           /\ byHand' = IF options = NoOptions THEN byHand ELSE byHand \cup {c}
<1> DEFINE device == Resolved(c, option)
           r == [mode |-> mode, at |-> "device", device |-> device, token |-> token, torn |-> FALSE,
                 changed |-> FALSE, answer |-> None, options |-> options]
<1>1. device \in Devices
  BY DEF Resolved, First, MachinesOK, Files
<1>2. options \in Options
  BY DEF NoOptions, Options
<1>3. r \in Run
  BY <1>1, <1>2 DEF Run
<1>4. run' = [run EXCEPT ![c] = r] /\ file[c].device \in {None, device}
  BY DEF Start
<1>5. MachinesOK' /\ Elsewhere(c) /\ run'[c] = r
  BY <1>3, <1>4, RunEffect DEF Start
<1> QED BY <1>3, <1>4, <1>5 DEF Start

LEMMA MakeKeyEffect ==
    ASSUME MachinesOK, NEW c \in Clients, MakeKey(c)
    PROVE  /\ MachinesOK' /\ Elsewhere(c)
           /\ run[c] \in Run /\ run[c].at = "private"
           /\ run'[c] # None => /\ Keeps(run[c], run'[c]) /\ run'[c].at = "load"
                                /\ run'[c].answer = run[c].answer /\ run'[c].options = run[c].options
           /\ file'[c].device = file[c].device /\ file'[c].server = file[c].server
           /\ file'[c].address = file[c].address /\ file'[c].endpoint = file[c].endpoint
           /\ file'[c].private # None
           /\ IF file[c].private = None THEN file'[c].private \in Keys \ Known
                                        ELSE file'[c].private = file[c].private
           /\ UNCHANGED <<devices, tokens, requests, conf, up, byHand, lost, cuts>>
<1>1. run[c] \in Run /\ run[c].at = "private" /\ run[c] # None /\ file[c] \in Files
  BY DEF MachinesOK, MakeKey, At
<1>2. PICK f \in Files :
         /\ file' = [file EXCEPT ![c] = f]
         /\ f.device = file[c].device /\ f.server = file[c].server
         /\ f.address = file[c].address /\ f.endpoint = file[c].endpoint
         /\ f.private # None
         /\ IF file[c].private = None THEN f.private \in Keys \ Known ELSE f.private = file[c].private
  <2>1. CASE file[c].private = None
    <3>1. PICK k \in Keys \ Known : file' = [file EXCEPT ![c].private = k]
      BY <2>1 DEF MakeKey
    <3> DEFINE f == [file[c] EXCEPT !.private = k]
    <3>2. f \in Files /\ f.private = k
          /\ f.device = file[c].device /\ f.server = file[c].server
          /\ f.address = file[c].address /\ f.endpoint = file[c].endpoint
      BY <1>1 DEF Files
    <3>3. file' = [file EXCEPT ![c] = f]
      BY <3>1
    <3> QED BY <2>1, <3>2, <3>3
  <2>2. CASE file[c].private # None
    <3>1. file' = [file EXCEPT ![c] = file[c]]
      BY <2>2 DEF MakeKey, MachinesOK
    <3> QED BY <1>1, <2>2, <3>1
  <2> QED BY <2>1, <2>2
<1>3. PICK r \in Run \cup {None} :
         /\ run' = [run EXCEPT ![c] = r]
         /\ r # None => /\ Keeps(run[c], r) /\ r.at = "load"
                        /\ r.answer = run[c].answer /\ r.options = run[c].options
  <2>1. CASE run[c].mode = "install"
    <3> DEFINE r == [run[c] EXCEPT !.at = "load"]
    <3>1. r \in Run /\ Keeps(run[c], r) /\ r.at = "load"
          /\ r.answer = run[c].answer /\ r.options = run[c].options
      BY <1>1 DEF Run, Keeps
    <3>2. run' = [run EXCEPT ![c] = r]
      BY <2>1 DEF MakeKey, Goes
    <3> QED BY <3>1, <3>2
  <2>2. CASE run[c].mode # "install"
    BY <2>2 DEF MakeKey, Ends
  <2> QED BY <2>1, <2>2
<1>4. MachinesOK' /\ Elsewhere(c) /\ run'[c] = r /\ file'[c] = f
  BY <1>2, <1>3 DEF MachinesOK, Elsewhere, MakeKey
<1> QED BY <1>1, <1>2, <1>3, <1>4 DEF MakeKey

\* What the run of load_persisted_config ends with.
LEMMA LoadedOptions ==
    ASSUME MachinesOK, NEW c \in Clients, run[c] # None
    PROVE  /\ Loaded(c) \in Options
           /\ Loaded(c).server = First(run[c].options.server, file[c].server)
           /\ Loaded(c).address = First(run[c].options.address, file[c].address)
           /\ Loaded(c).endpoint =
                 First(First(run[c].options.endpoint, file[c].endpoint), DefaultEndpoint)
           /\ Loaded(c).endpoint # None
<1>1. run[c].options \in Options /\ file[c] \in Files
  BY DEF MachinesOK, Run
<1>2. DefaultEndpoint \in Endpoints /\ None \notin Endpoints
  BY DEF Endpoints
<1> QED BY <1>1, <1>2 DEF Loaded, Options, Files, First

LEMMA LoadEffect ==
    ASSUME MachinesOK, NEW c \in Clients, Load(c)
    PROVE  /\ MachinesOK' /\ Elsewhere(c)
           /\ Keeps(run[c], run'[c])
           /\ run[c] # None /\ run[c].at = "load" /\ run'[c].at = "server"
           /\ run'[c].answer = run[c].answer
           /\ run'[c].options = Loaded(c) /\ Complete(Loaded(c))
           /\ UNCHANGED <<devices, tokens, requests, file, conf, up, byHand, lost, cuts>>
<1> DEFINE r == [run[c] EXCEPT !.options = Loaded(c), !.at = "server"]
<1>1. run[c] \in Run /\ run[c] # None /\ run[c].at = "load"
  BY DEF Load, At, MachinesOK
<1>2. /\ r \in Run /\ Keeps(run[c], r) /\ r.at = "server" /\ r.answer = run[c].answer
      /\ r.options = Loaded(c)
  BY <1>1, LoadedOptions DEF Run, Keeps
<1>3. run' = [run EXCEPT ![c] = r]
  BY DEF Load, MachinesOK
<1>4. MachinesOK' /\ Elsewhere(c) /\ run'[c] = r
  BY <1>2, <1>3, RunEffect DEF Load
<1> QED BY <1>1, <1>2, <1>4 DEF Load

LEMMA AskEffect ==
    ASSUME MachinesOK, NEW c \in Clients, Ask(c)
    PROVE  /\ MachinesOK' /\ Elsewhere(c)
           /\ Keeps(run[c], run'[c])
           /\ run[c] # None /\ run[c].at = "load" /\ run'[c].at = "wait"
           /\ run'[c].answer = run[c].answer
           /\ run'[c].options = Loaded(c) /\ ~Complete(Loaded(c)) /\ run[c].token \in Tokens
           /\ requests' = requests \cup
                 {[client |-> c, device |-> run[c].device, key |-> file[c].private, token |-> run[c].token]}
           /\ UNCHANGED <<devices, tokens, file, conf, up, byHand, lost, cuts>>
<1> DEFINE r == [run[c] EXCEPT !.options = Loaded(c), !.at = "wait"]
<1>1. run[c] \in Run /\ run[c] # None /\ run[c].at = "load" /\ run[c].token # None
  BY DEF Ask, At, MachinesOK
<1>2. /\ r \in Run /\ Keeps(run[c], r) /\ r.at = "wait" /\ r.answer = run[c].answer
      /\ r.options = Loaded(c) /\ run[c].token \in Tokens
  BY <1>1, LoadedOptions DEF Run, Keeps
<1>3. run' = [run EXCEPT ![c] = r]
  BY DEF Ask, MachinesOK
<1>4. MachinesOK' /\ Elsewhere(c) /\ run'[c] = r
  BY <1>2, <1>3, RunEffect DEF Ask
<1> QED BY <1>1, <1>2, <1>4 DEF Ask

LEMMA AnsweredEffect ==
    ASSUME MachinesOK, NEW c \in Clients, Answered(c)
    PROVE  /\ MachinesOK' /\ Elsewhere(c)
           /\ Keeps(run[c], run'[c])
           /\ run[c] # None /\ run[c].at = "wait" /\ run'[c].at = "server"
           /\ run'[c].answer = None /\ run[c].answer # None
           /\ run'[c].options.server = GatewayKey /\ run'[c].options.address = run[c].answer
           /\ run'[c].options.endpoint = Endpoint
           /\ UNCHANGED <<devices, tokens, requests, file, conf, up, byHand, lost, cuts>>
<1> DEFINE given == [server |-> GatewayKey, address |-> run[c].answer, endpoint |-> Endpoint]
           r == [run[c] EXCEPT !.at = "server", !.answer = None, !.options = given]
<1>1. run[c] \in Run /\ run[c] # None /\ run[c].at = "wait" /\ run[c].answer # None
  BY DEF Answered, At, MachinesOK
<1>2. given \in Options
  BY <1>1 DEF Run, Options, Endpoints
<1>3. /\ r \in Run /\ Keeps(run[c], r) /\ r.at = "server" /\ r.answer = None
      /\ r.options.server = GatewayKey /\ r.options.address = run[c].answer /\ r.options.endpoint = Endpoint
  BY <1>1, <1>2 DEF Run, Keeps
<1>4. run' = [run EXCEPT ![c] = r]
  BY DEF Answered, MachinesOK
<1>5. MachinesOK' /\ Elsewhere(c) /\ run'[c] = r
  BY <1>3, <1>4, RunEffect DEF Answered
<1> QED BY <1>1, <1>3, <1>5 DEF Answered

\* What ends a run and changes nothing on the machine.
LEMMA EndEffect ==
    ASSUME MachinesOK, NEW c \in Clients, NoToken(c) \/ GivesUp(c) \/ CutShort(c)
    PROVE  /\ MachinesOK' /\ Elsewhere(c)
           /\ run[c] # None /\ run'[c] = None
           /\ UNCHANGED <<devices, tokens, requests, file, conf, up, byHand>>
           /\ \/ NoToken(c) /\ run[c].at = "load" /\ UNCHANGED <<lost, cuts>>
              \/ GivesUp(c) /\ run[c].at = "wait" /\ c \in lost' /\ lost \subseteq lost' /\ UNCHANGED cuts
              \/ CutShort(c) /\ cuts' = cuts + 1 /\ cuts < MaxCuts /\ lost \subseteq lost'
                 /\ lost' \subseteq lost \cup {c}
<1>1. run' = [run EXCEPT ![c] = None] /\ UNCHANGED machineVars
  BY DEF NoToken, GivesUp, CutShort, Ends
<1>2. MachinesOK' /\ Elsewhere(c) /\ run'[c] = None
  BY <1>1, RunEffect
<1> QED BY <1>2 DEF NoToken, GivesUp, CutShort, At

LEMMA WriteConfEffect ==
    ASSUME TypeInv, NEW c \in Clients, WriteConf(c)
    PROVE  /\ MachinesOK' /\ Elsewhere(c)
           /\ Keeps(run[c], run'[c])
           /\ run[c] # None /\ run[c].at = "conf" /\ run'[c].at = "up"
           /\ run'[c].answer = run[c].answer /\ run'[c].options = run[c].options
           /\ run'[c].changed \/ conf'[c] = conf[c]
           /\ conf'[c] \in Config
           /\ conf'[c].key = file[c].private /\ conf'[c].address = run[c].options.address
           /\ conf'[c].endpoint = run[c].options.endpoint
           /\ UNCHANGED <<devices, tokens, requests, file, up, byHand, lost, cuts>>
<1> DEFINE r == [run[c] EXCEPT !.at = "up", !.changed = conf[c] # Rendered(c)]
<1>1. MachinesOK /\ run[c] \in Run /\ run[c] # None /\ run[c].at = "conf"
  BY DEF WriteConf, At, TypeInv, MachinesOK
<1>2. Rendered(c) \in Config
  <2>1. file[c].private \in Keys
    BY <1>1 DEF MachinesOK, Files, TypeInv, RunsOK, RunOK
  <2>2. run[c].options.address \in Hosts /\ run[c].options.endpoint \in Endpoints
    BY <1>1 DEF Run, Options, TypeInv, RunsOK, RunOK, Complete
  <2> QED BY <2>1, <2>2 DEF Rendered, Config
<1>3. /\ r \in Run /\ Keeps(run[c], r) /\ r.at = "up" /\ r.answer = run[c].answer
      /\ r.options = run[c].options /\ r.changed = (conf[c] # Rendered(c))
  BY <1>1 DEF Run, Keeps
<1>4. run' = [run EXCEPT ![c] = r] /\ conf' = [conf EXCEPT ![c] = Rendered(c)]
  BY <1>1 DEF WriteConf, MachinesOK
<1>5. MachinesOK' /\ Elsewhere(c) /\ run'[c] = r /\ conf'[c] = Rendered(c)
  <2>1. UNCHANGED <<file, up>>
    BY DEF WriteConf
  <2> HIDE DEF r, Rendered
  <2> QED BY <1>1, <1>2, <1>3, <1>4, <2>1 DEF MachinesOK, Elsewhere
<1>6. /\ Rendered(c).key = file[c].private /\ Rendered(c).address = run[c].options.address
      /\ Rendered(c).endpoint = run[c].options.endpoint
  BY DEF Rendered
<1>7. UNCHANGED <<devices, tokens, requests, file, up, byHand, lost, cuts>>
  BY DEF WriteConf
<1>8. r.changed \/ Rendered(c) = conf[c]
  BY <1>3
<1> HIDE DEF r, Rendered
<1> QED BY <1>1, <1>2, <1>3, <1>5, <1>6, <1>7, <1>8

LEMMA BringUpEffect ==
    ASSUME MachinesOK, NEW c \in Clients, BringUp(c)
    PROVE  /\ MachinesOK' /\ Elsewhere(c)
           /\ run[c] # None /\ run[c].at = "up" /\ run'[c] = None
           /\ up'[c] = IF up[c] = None \/ run[c].changed THEN conf[c] ELSE up[c]
           /\ UNCHANGED <<devices, tokens, requests, file, conf, byHand, lost, cuts>>
<1>1. up' = [up EXCEPT ![c] = IF up[c] = None \/ run[c].changed THEN conf[c] ELSE up[c]]
  BY DEF BringUp, MachinesOK
<1>2. run' = [run EXCEPT ![c] = None]
  BY DEF BringUp, Ends
<1>3. (IF up[c] = None \/ run[c].changed THEN conf[c] ELSE up[c]) \in Config \cup {None}
  BY DEF MachinesOK
<1>4. MachinesOK' /\ Elsewhere(c) /\ run'[c] = None
      /\ up'[c] = IF up[c] = None \/ run[c].changed THEN conf[c] ELSE up[c]
  <2> DEFINE u == IF up[c] = None \/ run[c].changed THEN conf[c] ELSE up[c]
  <2>1. up' = [up EXCEPT ![c] = u] /\ u \in Config \cup {None}
    BY <1>1, <1>3
  <2> HIDE DEF u
  <2>2. MachinesOK' /\ Elsewhere(c) /\ run'[c] = None /\ up'[c] = u
    BY <1>2, <2>1 DEF BringUp, MachinesOK, Elsewhere
  <2> QED BY <2>2 DEF u
<1> QED BY <1>4 DEF BringUp, At

LEMMA FailsToStartEffect ==
    ASSUME MachinesOK, NEW c \in Clients, FailsToStart(c)
    PROVE  /\ MachinesOK' /\ Elsewhere(c)
           /\ run[c] # None /\ run[c].at = "up" /\ run'[c] = None
           /\ up'[c] = None
           /\ cuts' = cuts + 1 /\ cuts < MaxCuts
           /\ UNCHANGED <<devices, tokens, requests, file, conf, byHand, lost>>
<1>1. up' = [up EXCEPT ![c] = None] /\ run' = [run EXCEPT ![c] = None] /\ UNCHANGED <<file, conf>>
  BY DEF FailsToStart, Ends
<1>2. MachinesOK' /\ Elsewhere(c) /\ run'[c] = None /\ up'[c] = None
  BY <1>1 DEF MachinesOK, Elsewhere
<1> QED BY <1>2 DEF FailsToStart, At

-----------------------------------------------------------------------------
(* What the gateway does.                                                  *)

\* A row keeps its key and its address.
RowsStay ==
    \A d \in Devices : Registered(d) =>
        Registered(d)' /\ devices'[d].key = devices[d].key /\ devices'[d].addr = devices[d].addr

Spent == {t \in Tokens : tokens[t] # None /\ tokens[t].consumed}
Rows == {d \in Devices : Registered(d)}

LEMMA EnrollEffect ==
    ASSUME TablesOK, NEW d \in Devices, NEW k \in Keys, NEW t \in Tokens, Ledger!Enroll(d, k, t)
    PROVE  /\ TablesOK' /\ RowsStay
           /\ Registered(d)' /\ devices'[d].key = k /\ devices'[d].addr \in Hosts
           /\ \A e \in Devices \ {d} : devices'[e] = devices[e]
           /\ Registered(d) => devices[d].key = k
           /\ Spent' = Spent \cup {t}
<1>1. tokens[t] \in Ledger!TokenRow /\ tokens' = [tokens EXCEPT ![t].consumed = TRUE]
  BY DEF Ledger!Enroll, Ledger!Spend, TablesOK
<1>2. PICK row \in Ledger!TokenRow : tokens' = [tokens EXCEPT ![t] = row] /\ row.consumed
  <2> DEFINE row == [tokens[t] EXCEPT !.consumed = TRUE]
  <2>1. row \in Ledger!TokenRow /\ row.consumed
    BY <1>1 DEF Ledger!TokenRow
  <2> QED BY <1>1, <2>1
<1>3. tokens' \in [Tokens -> Ledger!TokenRow \cup {None}] /\ Spent' = Spent \cup {t}
  BY <1>2 DEF TablesOK, Spent
<1>4. CASE \E a \in Hosts : Ledger!Enter(d, k, a)
  <2>1. PICK a \in Hosts : Ledger!Enter(d, k, a)
    BY <1>4
  <2> DEFINE row2 == [key |-> k, addr |-> a, enabled |-> TRUE]
  <2>2. row2 \in Ledger!Row /\ row2.key = k /\ row2.addr = a
    BY DEF Ledger!Row
  <2>3. devices[d] = None /\ devices' = [devices EXCEPT ![d] = row2]
    BY <2>1 DEF Ledger!Enter
  <2> HIDE DEF row2
  <2> QED BY <1>3, <2>2, <2>3 DEF TablesOK, RowsStay, Registered
<1>5. CASE Ledger!Confirm(d, k)
  BY <1>3, <1>5 DEF Ledger!Confirm, TablesOK, RowsStay, Registered, Ledger!Row
<1> QED BY <1>4, <1>5 DEF Ledger!Enroll

LEMMA HandleEffect ==
    ASSUME TypeInv, NEW r \in requests, Handle(r)
    PROVE  /\ MachinesOK' /\ TablesOK' /\ RowsStay
           /\ r \in Request
           /\ Registered(r.device)' /\ devices'[r.device].key = r.key
           /\ \A e \in Devices \ {r.device} : devices'[e] = devices[e]
           /\ Registered(r.device) => devices[r.device].key = r.key
           /\ Spent' = Spent \cup {r.token}
           /\ requests' = requests \ {r}
           /\ \A c \in Clients \ {r.client} : run'[c] = run[c]
           /\ LET c == r.client
              IN  IF /\ At(c, "wait")
                     /\ run[c].token = r.token /\ run[c].device = r.device
                  THEN /\ Keeps(run[c], run'[c]) /\ run'[c] # None
                       /\ run'[c].at = "wait" /\ run'[c].options = run[c].options
                       /\ run'[c].answer = devices'[r.device].addr
                       /\ run'[c].answer # None
                  ELSE run'[c] = run[c]
           /\ UNCHANGED <<file, conf, up, byHand, lost, cuts>>
<1>1. r \in Request /\ r.client \in Clients /\ r.device \in Devices /\ r.key \in Keys /\ r.token \in Tokens
  BY DEF TypeInv, HistoryOK, Request
<1>2. TablesOK /\ MachinesOK
  BY DEF TypeInv
<1>3. Ledger!Enroll(r.device, r.key, r.token)
  BY DEF Handle
<1>4. /\ TablesOK' /\ RowsStay
      /\ Registered(r.device)' /\ devices'[r.device].key = r.key /\ devices'[r.device].addr \in Hosts
      /\ \A e \in Devices \ {r.device} : devices'[e] = devices[e]
      /\ Registered(r.device) => devices[r.device].key = r.key
      /\ Spent' = Spent \cup {r.token}
  BY <1>1, <1>2, <1>3, EnrollEffect
<1> DEFINE c == r.client
           addr == devices'[r.device].addr
           waits == At(c, "wait") /\ run[c].token = r.token /\ run[c].device = r.device
<1>5. CASE waits
  <2> DEFINE r2 == [run[c] EXCEPT !.answer = addr]
  <2>1. run[c] \in Run /\ run[c].at = "wait"
    BY <1>1, <1>2, <1>5 DEF MachinesOK, At
  <2>2. /\ r2 \in Run /\ Keeps(run[c], r2) /\ r2.at = "wait" /\ r2.options = run[c].options
        /\ r2.answer = addr /\ addr # None
    BY <1>4, <2>1 DEF Run, Keeps
  <2>3. run' = [run EXCEPT ![c] = r2]
    BY <1>5 DEF Handle
  <2>4. run'[c] = r2 /\ (\A e \in Clients \ {c} : run'[e] = run[e])
        /\ run' \in [Clients -> Run \cup {None}]
    BY <1>1, <1>2, <2>2, <2>3 DEF MachinesOK
  <2>5. UNCHANGED <<file, conf, up, byHand, lost, cuts>> /\ requests' = requests \ {r}
    BY DEF Handle
  <2> HIDE DEF r2
  <2> QED BY <1>1, <1>2, <1>4, <1>5, <2>2, <2>4, <2>5 DEF MachinesOK
<1>6. CASE ~waits
  <2>1. run' = run /\ UNCHANGED <<file, conf, up, byHand, lost, cuts>> /\ requests' = requests \ {r}
    BY <1>6 DEF Handle
  <2> QED BY <1>1, <1>2, <1>4, <1>6, <2>1 DEF MachinesOK
<1> QED BY <1>5, <1>6

LEMMA AdministerEffect ==
    ASSUME TablesOK, Administer
    PROVE  /\ TablesOK' /\ RowsStay /\ Rows' = Rows /\ Spent' = Spent
           /\ UNCHANGED <<requests, file, conf, up, run, byHand, lost, cuts>>
<1>1. ASSUME NEW t \in Tokens, NEW s \in Devices \cup {None}, Ledger!Issue(t, s)
      PROVE  TablesOK' /\ RowsStay /\ Rows' = Rows /\ Spent' = Spent
  <2> DEFINE row == [scope |-> s, consumed |-> FALSE]
  <2>1. row \in Ledger!TokenRow /\ ~row.consumed
    BY DEF Ledger!TokenRow
  <2>2. tokens[t] = None /\ tokens' = [tokens EXCEPT ![t] = row] /\ devices' = devices
    BY <1>1 DEF Ledger!Issue
  <2> HIDE DEF row
  <2> QED BY <2>1, <2>2 DEF TablesOK, RowsStay, Rows, Spent, Registered
<1>2. ASSUME NEW d \in Devices, Ledger!Revoke(d)
      PROVE  TablesOK' /\ RowsStay /\ Rows' = Rows /\ Spent' = Spent
  <2> DEFINE row == [devices[d] EXCEPT !.enabled = FALSE]
  <2>1. devices[d] # None /\ devices[d] \in Ledger!Row /\ tokens' = tokens
    BY <1>2 DEF Ledger!Revoke, TablesOK
  <2>2. row \in Ledger!Row /\ row.key = devices[d].key /\ row.addr = devices[d].addr
    BY <2>1 DEF Ledger!Row
  <2>3. devices' = [devices EXCEPT ![d] = row]
    BY <1>2 DEF Ledger!Revoke
  <2> HIDE DEF row
  <2> QED BY <2>1, <2>2, <2>3 DEF TablesOK, RowsStay, Rows, Spent, Registered
<1> QED BY <1>1, <1>2 DEF Administer

-----------------------------------------------------------------------------
(* Types.                                                                  *)

LEMMA ElsewhereRuns ==
    ASSUME RunsOK, NEW c \in Clients, Elsewhere(c), run'[c] # None => RunOK(c)'
    PROVE  RunsOK'
BY DEF RunsOK, RunOK, Elsewhere

LEMMA InitTypes == Init => TypeInv
<1> SUFFICES ASSUME Init PROVE TypeInv
  OBVIOUS
<1> DEFINE blank == [device |-> None, private |-> None, server |-> None, address |-> None, endpoint |-> None]
<1>1. MachinesOK /\ RunsOK
  <2>1. blank \in Files
    BY DEF Files
  <2>2. file = [c \in Clients |-> blank]
    BY DEF Init
  <2> HIDE DEF blank
  <2> QED BY <2>1, <2>2 DEF Init, MachinesOK, RunsOK
<1>2. TablesOK
  BY DEF Init, Ledger!Init, TablesOK
<1> QED BY <1>1, <1>2 DEF Init, TypeInv, HistoryOK

LEMMA TypeStep == TypeInv /\ [Next]_vars => TypeInv'
<1> SUFFICES ASSUME TypeInv, [Next]_vars PROVE TypeInv'
  OBVIOUS
<1>t. MachinesOK /\ TablesOK /\ RunsOK /\ HistoryOK
  BY DEF TypeInv
<1>1. ASSUME NEW c \in Clients, NEW mode \in {"prepare", "install"}, NEW option \in Devices \cup {None},
             NEW token \in Tokens \cup {None}, NEW options \in Manual \cup {NoOptions},
             Start(c, mode, option, token, options)
      PROVE  TypeInv'
  BY <1>t, <1>1, StartEffect, ElsewhereRuns DEF TypeInv, RunOK, TablesOK, HistoryOK
<1>2. ASSUME NEW c \in Clients, AWrite(c) PROVE TypeInv'
  <2>1. RunOK(c)
    BY <1>t, <1>2, AWriteEffect DEF RunsOK
  <2>2. RunOK(c)'
    BY <1>t, <1>2, <2>1, AWriteEffect DEF RunOK, Complete
  <2> QED BY <1>t, <1>2, <2>2, AWriteEffect, ElsewhereRuns DEF TypeInv, TablesOK, HistoryOK
<1>3. ASSUME NEW c \in Clients, MakeKey(c) PROVE TypeInv'
  BY <1>t, <1>3, MakeKeyEffect, ElsewhereRuns DEF TypeInv, RunsOK, RunOK, TablesOK, HistoryOK
<1>4. ASSUME NEW c \in Clients, Load(c) PROVE TypeInv'
  BY <1>t, <1>4, LoadEffect, LoadedOptions, ElsewhereRuns DEF TypeInv, RunsOK, RunOK, TablesOK, HistoryOK
<1>5. ASSUME NEW c \in Clients, Ask(c) PROVE TypeInv'
  <2>1. [client |-> c, device |-> run[c].device, key |-> file[c].private, token |-> run[c].token] \in Request
    <3>1. file[c].private \in Keys
      BY <1>t, <1>5, AskEffect DEF RunsOK, RunOK, MachinesOK, Files
    <3>2. run[c].device \in Devices /\ run[c].token \in Tokens
      BY <1>t, <1>5, AskEffect DEF MachinesOK, Run
    <3> QED BY <3>1, <3>2 DEF Request
  <2> QED BY <1>t, <1>5, <2>1, AskEffect, ElsewhereRuns DEF TypeInv, RunsOK, RunOK, TablesOK, HistoryOK
<1>6. ASSUME NEW c \in Clients, Answered(c) PROVE TypeInv'
  BY <1>t, <1>6, AnsweredEffect, ElsewhereRuns DEF TypeInv, RunsOK, RunOK, TablesOK, HistoryOK, Complete
<1>7. ASSUME NEW c \in Clients, NoToken(c) \/ GivesUp(c) \/ CutShort(c) PROVE TypeInv'
  <2>1. MachinesOK' /\ RunsOK' /\ TablesOK' /\ requests' = requests /\ byHand' = byHand
    <3>1. MachinesOK' /\ Elsewhere(c) /\ run'[c] = None
          /\ UNCHANGED <<devices, tokens, requests, byHand>>
      BY <1>t, <1>7, EndEffect
    <3> QED BY <1>t, <3>1, ElsewhereRuns DEF TablesOK
  <2>2. lost' \in SUBSET Clients /\ cuts' \in 0..MaxCuts
    BY <1>t, <1>7 DEF NoToken, GivesUp, CutShort, HistoryOK
  <2> QED BY <1>t, <2>1, <2>2 DEF TypeInv, HistoryOK
<1>11. ASSUME NEW c \in Clients, WriteConf(c) PROVE TypeInv'
  BY <1>t, <1>11, WriteConfEffect, ElsewhereRuns DEF TypeInv, RunsOK, RunOK, TablesOK, HistoryOK
<1>12. ASSUME NEW c \in Clients, BringUp(c) PROVE TypeInv'
  BY <1>t, <1>12, BringUpEffect, ElsewhereRuns DEF TypeInv, TablesOK, HistoryOK
<1>17. ASSUME NEW c \in Clients, FailsToStart(c) PROVE TypeInv'
  BY <1>t, <1>17, FailsToStartEffect, ElsewhereRuns DEF TypeInv, TablesOK, HistoryOK
<1>13. ASSUME NEW r \in requests, Handle(r) PROVE TypeInv'
  <2>1. RunsOK'
    <3> SUFFICES ASSUME NEW c \in Clients, run'[c] # None PROVE RunOK(c)'
      BY DEF RunsOK
    <3>1. /\ run[c] # None /\ run'[c].at = run[c].at /\ run'[c].options = run[c].options /\ file'[c] = file[c]
          /\ run'[c].answer = run[c].answer \/ run[c].at = "wait"
      BY <1>t, <1>13, HandleEffect DEF At
    <3> QED BY <1>t, <3>1 DEF RunsOK, RunOK, Complete
  <2> QED BY <1>t, <1>13, <2>1, HandleEffect DEF TypeInv, HistoryOK
<1>14. ASSUME NEW r \in requests, Refuse(r) PROVE TypeInv'
  BY <1>t, <1>14 DEF TypeInv, Refuse, MachinesOK, TablesOK, HistoryOK, RunsOK, RunOK
<1>15. CASE Administer
  BY <1>t, <1>15, AdministerEffect DEF TypeInv, HistoryOK, MachinesOK, RunsOK, RunOK
<1>16. CASE UNCHANGED vars
  BY <1>t, <1>16 DEF vars, TypeInv, MachinesOK, TablesOK, HistoryOK, RunsOK, RunOK
<1> QED
  BY <1>1, <1>2, <1>3, <1>4, <1>5, <1>6, <1>7, <1>11, <1>12, <1>13, <1>14, <1>15, <1>16, <1>17
     DEF Next, Steps, AWrite

\* Every state file, configuration, run and request is what the script takes it
\* for; no address, endpoint or key is missing where it is used.
THEOREM ClientTypesHold == Spec => []ClientTypeOK
<1>1. TypeInv => ClientTypeOK
  BY DEF TypeInv, MachinesOK, TablesOK, HistoryOK, ClientTypeOK
<1> QED BY <1>1, InitTypes, TypeStep, PTL DEF Spec

-----------------------------------------------------------------------------
(* Keys.                                                                   *)

\* A request carries the key of the machine that sent it, which never changes
\* it; no two machines have the same.
KeyInv ==
    /\ \A r \in requests : file[r.client].private = r.key
    /\ \A d \in Devices : Registered(d) => \E c \in Clients : file[c].private = devices[d].key
    /\ \A c, e \in Clients : file[c].private # None /\ file[c].private = file[e].private => c = e

\* A step that makes no key, sends and receives nothing.
KeysAlone ==
    /\ UNCHANGED <<devices, requests>>
    /\ \A c \in Clients : file'[c].private = file[c].private

LEMMA KeySteps ==
    ASSUME TypeInv, [Next]_vars
    PROVE  \/ KeysAlone
           \/ \E c \in Clients : MakeKey(c) \/ Ask(c)
           \/ \E r \in requests : Handle(r) \/ Refuse(r)
           \/ Administer
<1>t. MachinesOK
  BY DEF TypeInv
<1>1. ASSUME NEW c \in Clients, NEW mode \in {"prepare", "install"}, NEW option \in Devices \cup {None},
             NEW token \in Tokens \cup {None}, NEW options \in Manual \cup {NoOptions},
             Start(c, mode, option, token, options)
      PROVE  KeysAlone
  BY <1>1 DEF Start, KeysAlone
<1>2. ASSUME NEW c \in Clients, AWrite(c) PROVE KeysAlone
  BY <1>t, <1>2, AWriteEffect DEF KeysAlone, Elsewhere
<1>3. ASSUME NEW c \in Clients,
             \/ Load(c) \/ Answered(c) \/ NoToken(c) \/ GivesUp(c) \/ WriteConf(c) \/ BringUp(c)
             \/ CutShort(c) \/ FailsToStart(c)
      PROVE  KeysAlone
  BY <1>3 DEF KeysAlone, Load, Answered, NoToken, GivesUp, WriteConf, BringUp, CutShort, FailsToStart
<1>4. CASE UNCHANGED vars
  BY <1>4 DEF vars, KeysAlone
<1> QED BY <1>1, <1>2, <1>3, <1>4 DEF Next, Steps, AWrite

\* A private key is made once.
LEMMA KeyStays ==
    ASSUME TypeInv, [Next]_vars, NEW c \in Clients
    PROVE  /\ file[c].private # None => file'[c].private = file[c].private
           /\ file'[c].private \in Keys \cup {None}
<1>t. MachinesOK
  BY DEF TypeInv
<1>1. CASE KeysAlone
  BY <1>1 DEF KeysAlone, TypeInv, MachinesOK, Files
<1>2. ASSUME NEW e \in Clients, MakeKey(e)
      PROVE  file[c].private # None => file'[c].private = file[c].private
  BY <1>t, <1>2, MakeKeyEffect DEF Elsewhere
<1>3. ASSUME NEW e \in Clients, Ask(e) PROVE file' = file
  BY <1>3 DEF Ask
<1>4. ASSUME NEW r \in requests, Handle(r) \/ Refuse(r) PROVE file' = file
  BY <1>4 DEF Handle, Refuse
<1>5. Administer => file' = file
  BY DEF Administer
<1>6. file'[c].private \in Keys \cup {None}
  BY TypeStep DEF TypeInv, MachinesOK, Files
<1> QED BY <1>1, <1>2, <1>3, <1>4, <1>5, <1>6, KeySteps

LEMMA KeyStep == TypeInv /\ KeyInv /\ [Next]_vars => KeyInv'
<1> SUFFICES ASSUME TypeInv, KeyInv, [Next]_vars PROVE KeyInv'
  OBVIOUS
<1>t. MachinesOK /\ TablesOK
  BY DEF TypeInv
<1>r. \A r \in requests : r \in Request /\ r.client \in Clients /\ r.key \in Keys /\ r.device \in Devices
  BY DEF TypeInv, HistoryOK, Request
<1>d. \A d \in Devices : Registered(d) => devices[d].key \in Keys
  BY DEF TypeInv, TablesOK, Registered, Ledger!Row
<1>1. CASE KeysAlone
  <2>1. \A r \in requests' : file'[r.client].private = r.key
    BY <1>r, <1>1 DEF KeysAlone, KeyInv
  <2>2. \A d \in Devices : Registered(d)' => \E c \in Clients : file'[c].private = devices'[d].key
    BY <1>1 DEF KeysAlone, KeyInv, Registered
  <2>3. \A c, e \in Clients : file'[c].private # None /\ file'[c].private = file'[e].private => c = e
    BY <1>1 DEF KeysAlone, KeyInv
  <2> QED BY <2>1, <2>2, <2>3 DEF KeyInv
<1>2. ASSUME NEW c \in Clients, MakeKey(c) PROVE KeyInv'
  <2>1. \A r \in requests : file'[r.client].private = r.key
    BY <1>r, KeyStays DEF KeyInv
  <2>2. \A d \in Devices : Registered(d) => \E e \in Clients : file'[e].private = devices[d].key
    BY <1>d, KeyStays DEF KeyInv
  <2>3. \A e \in Clients \ {c} : file'[e] = file[e]
    BY <1>t, <1>2, MakeKeyEffect DEF Elsewhere
  <2>4. \A e, f \in Clients : file'[e].private # None /\ file'[e].private = file'[f].private => e = f
    <3>1. CASE file[c].private = None
      <4>1. \A e \in Clients : file[e].private # file'[c].private
        BY <1>t, <1>2, <3>1, MakeKeyEffect DEF Known
      <4> QED BY <2>3, <4>1 DEF KeyInv
    <3>2. CASE file[c].private # None
      BY <2>3, <3>2, KeyStays DEF KeyInv
    <3> QED BY <3>1, <3>2
  <2>5. UNCHANGED <<devices, requests>>
    BY <1>2 DEF MakeKey
  <2> QED BY <2>1, <2>2, <2>4, <2>5 DEF KeyInv, Registered
<1>3. ASSUME NEW c \in Clients, Ask(c) PROVE KeyInv'
  <2>1. /\ requests' = requests \cup
               {[client |-> c, device |-> run[c].device, key |-> file[c].private, token |-> run[c].token]}
        /\ UNCHANGED <<devices, file>>
    BY <1>t, <1>3, AskEffect
  <2> QED BY <2>1 DEF KeyInv, Registered
<1>4. ASSUME NEW r \in requests, Handle(r) PROVE KeyInv'
  <2>1. /\ devices'[r.device].key = r.key /\ requests' = requests \ {r} /\ UNCHANGED file
        /\ \A e \in Devices \ {r.device} : devices'[e] = devices[e]
    BY <1>4, HandleEffect
  <2>2. file[r.client].private = r.key /\ r.client \in Clients
    BY <1>r DEF KeyInv
  <2> QED BY <2>1, <2>2 DEF KeyInv, Registered
<1>5. ASSUME NEW r \in requests, Refuse(r) PROVE KeyInv'
  BY <1>5 DEF Refuse, KeyInv, Registered
<1>6. CASE Administer
  <2>1. RowsStay /\ Rows' = Rows /\ UNCHANGED <<requests, file>>
    BY <1>t, <1>6, AdministerEffect
  <2> QED BY <2>1 DEF RowsStay, Rows, KeyInv
<1> QED BY <1>1, <1>2, <1>3, <1>4, <1>5, <1>6, KeySteps

LEMMA KeysHold == Spec => [](TypeInv /\ KeyInv)
<1>1. Init => KeyInv
  BY DEF Init, Ledger!Init, KeyInv, Registered
<1> QED BY <1>1, InitTypes, TypeStep, KeyStep, PTL DEF Spec

\* The private key of every registered device is still on the machine that
\* registered it, whatever run was cut short and however late its request arrived.
THEOREM KeyOfRegisteredIsHeld == Spec => []RegisteredKeyIsHeld
<1>1. KeyInv => RegisteredKeyIsHeld
  BY DEF KeyInv, RegisteredKeyIsHeld
<1> QED BY <1>1, KeysHold, PTL

-----------------------------------------------------------------------------
(* Addresses.                                                              *)

\* A row of the registry has this key and this address.
Owns(rows, k, a) == \E d \in Devices : rows[d] # None /\ rows[d].key = k /\ rows[d].addr = a

\* The address is the registry's wherever a machine that is not configured by
\* hand keeps one: in its run, its files, its configuration, its interface.
AddressSound(c) ==
    /\ run[c] # None /\ run[c].answer # None => Owns(devices, file[c].private, run[c].answer)
    /\ conf[c] # None => conf[c].key = file[c].private
    /\ up[c] # None => up[c].key = file[c].private
    /\ c \notin byHand =>
          /\ run[c] # None /\ run[c].options.address # None =>
                Owns(devices, file[c].private, run[c].options.address)
          /\ file[c].address # None => Owns(devices, file[c].private, file[c].address)
          /\ conf[c] # None => Owns(devices, file[c].private, conf[c].address)
          /\ up[c] # None => Owns(devices, file[c].private, up[c].address)

AddressInv == \A c \in Clients : AddressSound(c)

LEMMA RowsAlwaysStay ==
    ASSUME TypeInv, [Next]_vars
    PROVE  RowsStay
<1>1. CASE UNCHANGED devices
  BY <1>1 DEF RowsStay, Registered
<1>2. ASSUME NEW r \in requests, Handle(r) PROVE RowsStay
  BY <1>2, HandleEffect
<1>3. CASE Administer
  BY <1>3, AdministerEffect DEF TypeInv
<1>4. ASSUME NEW c \in Clients, MakeKey(c) \/ Ask(c) PROVE UNCHANGED devices
  BY <1>4 DEF MakeKey, Ask
<1>5. ASSUME NEW r \in requests, Refuse(r) PROVE UNCHANGED devices
  BY <1>5 DEF Refuse
<1>6. KeysAlone => UNCHANGED devices
  BY DEF KeysAlone
<1> QED BY <1>1, <1>2, <1>3, <1>4, <1>5, <1>6, KeySteps

LEMMA OwnsStays ==
    ASSUME TypeInv, [Next]_vars, NEW c \in Clients, NEW a, Owns(devices, file[c].private, a)
    PROVE  Owns(devices', file'[c].private, a)
<1>1. PICK d \in Devices : devices[d] # None /\ devices[d].key = file[c].private /\ devices[d].addr = a
  BY DEF Owns
<1>2. file[c].private # None
  BY <1>1 DEF TypeInv, TablesOK, Ledger!Row
<1> QED BY <1>1, <1>2, RowsAlwaysStay, KeyStays DEF RowsStay, Registered, Owns

\* A machine that a step leaves alone stays sound.
LEMMA AddressElsewhere ==
    ASSUME TypeInv, [Next]_vars, NEW c \in Clients, AddressSound(c), file'[c].address = file[c].address,
           conf'[c] = conf[c], up'[c] = up[c], run'[c] = run[c], c \notin byHand' => c \notin byHand
    PROVE  AddressSound(c)'
<1>1. MachinesOK
  BY DEF TypeInv
<1>2. conf[c] # None \/ up[c] # None => (AddressSound(c) => file'[c].private = file[c].private)
  BY <1>1, KeyStays DEF AddressSound, MachinesOK, Config
<1> QED BY <1>1, <1>2, OwnsStays DEF AddressSound

LEMMA AddressStep == TypeInv /\ KeyInv /\ AddressInv /\ [Next]_vars => AddressInv'
<1> SUFFICES ASSUME TypeInv, KeyInv, AddressInv, [Next]_vars, NEW e \in Clients PROVE AddressSound(e)'
  BY DEF AddressInv
<1>t. MachinesOK /\ TablesOK /\ AddressSound(e)
  BY DEF TypeInv, AddressInv
<1>k. conf[e] # None \/ up[e] # None => file'[e].private = file[e].private
  BY <1>t, KeyStays DEF AddressSound, MachinesOK, Config
<1>o. \A a : Owns(devices, file[e].private, a) => Owns(devices', file'[e].private, a)
  BY OwnsStays
<1>1. ASSUME NEW c \in Clients, NEW mode \in {"prepare", "install"}, NEW option \in Devices \cup {None},
             NEW token \in Tokens \cup {None}, NEW options \in Manual \cup {NoOptions},
             Start(c, mode, option, token, options)
      PROVE  AddressSound(e)'
  <2>1. CASE e # c
    BY <1>t, <1>1, <2>1, StartEffect, AddressElsewhere DEF Elsewhere
  <2>2. CASE e = c
    BY <1>t, <1>1, <2>2, StartEffect DEF AddressSound, NoOptions
  <2> QED BY <2>1, <2>2
<1>2. ASSUME NEW c \in Clients, AWrite(c) PROVE AddressSound(e)'
  <2>1. CASE e # c
    BY <1>t, <1>2, <2>1, AWriteEffect, AddressElsewhere DEF Elsewhere
  <2>2. CASE e = c
    BY <1>t, <1>2, <2>2, AWriteEffect DEF AddressSound
  <2> QED BY <2>1, <2>2
<1>3. ASSUME NEW c \in Clients, MakeKey(c) PROVE AddressSound(e)'
  <2>1. CASE e # c
    BY <1>t, <1>3, <2>1, MakeKeyEffect, AddressElsewhere DEF Elsewhere
  <2>2. CASE e = c
    BY <1>t, <1>3, <2>2, <1>k, <1>o, MakeKeyEffect DEF AddressSound
  <2> QED BY <2>1, <2>2
<1>4. ASSUME NEW c \in Clients, Load(c) PROVE AddressSound(e)'
  <2>1. CASE e # c
    BY <1>t, <1>4, <2>1, LoadEffect, AddressElsewhere DEF Elsewhere
  <2>2. CASE e = c
    BY <1>t, <1>4, <2>2, LoadEffect, LoadedOptions DEF AddressSound, First
  <2> QED BY <2>1, <2>2
<1>5. ASSUME NEW c \in Clients, Ask(c) PROVE AddressSound(e)'
  <2>1. CASE e # c
    BY <1>t, <1>5, <2>1, AskEffect, AddressElsewhere DEF Elsewhere
  <2>2. CASE e = c
    BY <1>t, <1>5, <2>2, AskEffect, LoadedOptions DEF AddressSound, First
  <2> QED BY <2>1, <2>2
<1>6. ASSUME NEW c \in Clients, Answered(c) PROVE AddressSound(e)'
  <2>1. CASE e # c
    BY <1>t, <1>6, <2>1, AnsweredEffect, AddressElsewhere DEF Elsewhere
  <2>2. CASE e = c
    BY <1>t, <1>6, <2>2, AnsweredEffect DEF AddressSound
  <2> QED BY <2>1, <2>2
<1>7. ASSUME NEW c \in Clients, NoToken(c) \/ GivesUp(c) \/ CutShort(c) PROVE AddressSound(e)'
  <2>0. MachinesOK' /\ Elsewhere(c) /\ run'[c] = None /\ UNCHANGED <<devices, file, conf, up, byHand>>
    BY <1>t, <1>7, EndEffect
  <2>1. CASE e # c
    BY <1>t, <2>0, <2>1, AddressElsewhere DEF Elsewhere
  <2>2. CASE e = c
    BY <1>t, <2>0, <2>2 DEF AddressSound
  <2> QED BY <2>1, <2>2
<1>8. ASSUME NEW c \in Clients, WriteConf(c) PROVE AddressSound(e)'
  <2>1. CASE e # c
    BY <1>t, <1>8, <2>1, WriteConfEffect, AddressElsewhere DEF Elsewhere
  <2>2. CASE e = c
    <3>1. run[c].options.address # None
      BY <1>8, WriteConfEffect DEF TypeInv, RunsOK, RunOK, Complete
    <3> QED BY <1>t, <1>8, <2>2, <3>1, WriteConfEffect DEF AddressSound
  <2> QED BY <2>1, <2>2
<1>9. ASSUME NEW c \in Clients, BringUp(c) PROVE AddressSound(e)'
  <2>1. CASE e # c
    BY <1>t, <1>9, <2>1, BringUpEffect, AddressElsewhere DEF Elsewhere
  <2>2. CASE e = c
    BY <1>t, <1>9, <2>2, BringUpEffect DEF AddressSound
  <2> QED BY <2>1, <2>2
<1>14. ASSUME NEW c \in Clients, FailsToStart(c) PROVE AddressSound(e)'
  <2>1. CASE e # c
    BY <1>t, <1>14, <2>1, FailsToStartEffect, AddressElsewhere DEF Elsewhere
  <2>2. CASE e = c
    BY <1>t, <1>14, <2>2, FailsToStartEffect DEF AddressSound
  <2> QED BY <2>1, <2>2
<1>10. ASSUME NEW r \in requests, Handle(r) PROVE AddressSound(e)'
  <2>1. CASE run'[e] = run[e]
    BY <1>t, <1>10, <2>1, HandleEffect, AddressElsewhere
  <2>2. CASE run'[e] # run[e]
    <3>1. e = r.client /\ run[e] # None /\ run'[e].options = run[e].options
          /\ run'[e].answer = devices'[r.device].addr
      BY <1>10, <2>2, HandleEffect DEF At
    <3>2. Owns(devices', file[e].private, run'[e].answer)
      <4>1. file[r.client].private = r.key
        BY DEF KeyInv
      <4>2. r.device \in Devices /\ Registered(r.device)' /\ devices'[r.device].key = r.key
        BY <1>10, HandleEffect DEF Request
      <4> QED BY <3>1, <4>1, <4>2 DEF Owns, Registered
    <3>3. UNCHANGED <<file, conf, up, byHand>>
      BY <1>10, HandleEffect
    <3> QED BY <1>t, <1>o, <3>1, <3>2, <3>3 DEF AddressSound
  <2> QED BY <2>1, <2>2
<1>11. ASSUME NEW r \in requests, Refuse(r) PROVE AddressSound(e)'
  BY <1>t, <1>11, AddressElsewhere DEF Refuse
<1>12. CASE Administer
  BY <1>t, <1>12, AdministerEffect, AddressElsewhere
<1>13. CASE UNCHANGED vars
  BY <1>t, <1>13, AddressElsewhere DEF vars
<1> QED
  BY <1>1, <1>2, <1>3, <1>4, <1>5, <1>6, <1>7, <1>8, <1>9, <1>10, <1>11, <1>12, <1>13, <1>14
     DEF Next, Steps, AWrite

LEMMA AddressesHold == Spec => [](TypeInv /\ KeyInv /\ AddressInv)
<1>1. Init => AddressInv
  <2> SUFFICES ASSUME Init, NEW c \in Clients PROVE AddressSound(c)
    BY DEF AddressInv
  <2> QED BY DEF Init, AddressSound
<1> QED BY <1>1, KeysHold, AddressStep, PTL DEF Spec

\* A machine that was never configured by hand uses the address the registry
\* has for its key, through lost answers, late requests, kills and failures.
THEOREM AddressOfMachineIsRegistered == Spec => []AddressIsRegistered
<1>1. TypeInv /\ AddressInv => AddressIsRegistered
  BY DEF AddressInv, AddressSound, AddressIsRegistered, Owns, Registered
<1> QED BY <1>1, AddressesHold, PTL

-----------------------------------------------------------------------------
(* What a machine persists, unless a run was cut short.                    *)

\* No run of the machine has begun to write what it was configured with.
Reads(c) == run[c] = None \/ run[c].at \in {"device", "private", "load", "wait"}

\* A run has written to the files what it has got past, and gway.conf is what
\* the files say; the interface is what gway.conf says or is about to be.
Persisted(c) ==
    /\ Reads(c) =>
          /\ up[c] = conf[c]
          /\ conf[c] # None => conf[c].address = file[c].address /\ conf[c].endpoint = file[c].endpoint
    /\ ~Reads(c) =>
          /\ run[c].at \in {"address", "endpoint", "conf", "up"} => file[c].server = run[c].options.server
          /\ run[c].at \in {"endpoint", "conf", "up"} => file[c].address = run[c].options.address
          /\ run[c].at \in {"conf", "up"} => file[c].endpoint = run[c].options.endpoint
          /\ run[c].at # "up" => up[c] = conf[c]
          /\ run[c].at = "up" =>
                /\ conf[c] # None /\ conf[c].address = file[c].address /\ conf[c].endpoint = file[c].endpoint
                /\ run[c].changed \/ up[c] = conf[c]

PersistInv == cuts = 0 => \A c \in Clients : Persisted(c)

LEMMA PersistElsewhere ==
    ASSUME NEW c \in Clients, Persisted(c), file'[c] = file[c], conf'[c] = conf[c],
           up'[c] = up[c], run'[c] = run[c]
    PROVE  Persisted(c)'
BY DEF Persisted, Reads

\* If no run has been cut short after a step, the step does not do so.
LEMMA NotCutShort ==
    ASSUME TypeInv, [Next]_vars, cuts' = 0
    PROVE  cuts = 0 /\ \A c \in Clients : ~CutShort(c) /\ ~FailsToStart(c)
<1>1. cuts \in Nat
  BY DEF TypeInv, HistoryOK
<1>2. \A c \in Clients : ~CutShort(c) /\ ~FailsToStart(c)
  BY <1>1 DEF CutShort, FailsToStart
<1>3. cuts' = cuts
  BY <1>2 DEF Next, Steps, Start, WriteDevice, WriteServer, WriteAddress, WriteEndpoint, Writes, MakeKey,
     Load, Ask, NoToken, Answered, GivesUp, WriteConf, BringUp, Handle, Refuse, Administer, vars
<1> QED BY <1>2, <1>3

LEMMA PersistStep == TypeInv /\ PersistInv /\ [Next]_vars => PersistInv'
<1> SUFFICES ASSUME TypeInv, PersistInv, [Next]_vars, cuts' = 0, NEW e \in Clients PROVE Persisted(e)'
  BY DEF PersistInv
<1>t. MachinesOK /\ Persisted(e) /\ (run[e] # None => RunOK(e)) /\ \A c \in Clients : ~CutShort(c) /\ ~FailsToStart(c)
  BY NotCutShort DEF TypeInv, PersistInv, RunsOK
<1>1. ASSUME NEW c \in Clients, NEW mode \in {"prepare", "install"}, NEW option \in Devices \cup {None},
             NEW token \in Tokens \cup {None}, NEW options \in Manual \cup {NoOptions},
             Start(c, mode, option, token, options)
      PROVE  Persisted(e)'
  <2>1. CASE e # c
    BY <1>t, <1>1, <2>1, StartEffect, PersistElsewhere DEF Elsewhere
  <2>2. CASE e = c
    BY <1>t, <1>1, <2>2, StartEffect DEF Persisted, Reads
  <2> QED BY <2>1, <2>2
<1>2. ASSUME NEW c \in Clients, AWrite(c) PROVE Persisted(e)'
  <2>1. CASE e # c
    BY <1>t, <1>2, <2>1, AWriteEffect, PersistElsewhere DEF Elsewhere
  <2>2. CASE e = c
    BY <1>t, <1>2, <2>2, AWriteEffect DEF Persisted, Reads
  <2> QED BY <2>1, <2>2
<1>3. ASSUME NEW c \in Clients, MakeKey(c) PROVE Persisted(e)'
  <2>1. CASE e # c
    BY <1>t, <1>3, <2>1, MakeKeyEffect, PersistElsewhere DEF Elsewhere
  <2>2. CASE e = c
    BY <1>t, <1>3, <2>2, MakeKeyEffect DEF Persisted, Reads
  <2> QED BY <2>1, <2>2
<1>4. ASSUME NEW c \in Clients, Load(c) PROVE Persisted(e)'
  <2>1. CASE e # c
    BY <1>t, <1>4, <2>1, LoadEffect, PersistElsewhere DEF Elsewhere
  <2>2. CASE e = c
    BY <1>t, <1>4, <2>2, LoadEffect DEF Persisted, Reads
  <2> QED BY <2>1, <2>2
<1>5. ASSUME NEW c \in Clients, Ask(c) PROVE Persisted(e)'
  <2>1. CASE e # c
    BY <1>t, <1>5, <2>1, AskEffect, PersistElsewhere DEF Elsewhere
  <2>2. CASE e = c
    BY <1>t, <1>5, <2>2, AskEffect DEF Persisted, Reads
  <2> QED BY <2>1, <2>2
<1>6. ASSUME NEW c \in Clients, Answered(c) PROVE Persisted(e)'
  <2>1. CASE e # c
    BY <1>t, <1>6, <2>1, AnsweredEffect, PersistElsewhere DEF Elsewhere
  <2>2. CASE e = c
    BY <1>t, <1>6, <2>2, AnsweredEffect DEF Persisted, Reads
  <2> QED BY <2>1, <2>2
<1>7. ASSUME NEW c \in Clients, NoToken(c) \/ GivesUp(c) PROVE Persisted(e)'
  <2>0. /\ Elsewhere(c) /\ run[c] # None /\ run[c].at \in {"load", "wait"} /\ run'[c] = None
        /\ UNCHANGED <<file, conf, up>>
    BY <1>t, <1>7, EndEffect
  <2>1. CASE e # c
    BY <1>t, <2>0, <2>1, PersistElsewhere DEF Elsewhere
  <2>2. CASE e = c
    BY <1>t, <2>0, <2>2 DEF Persisted, Reads
  <2> QED BY <2>1, <2>2
<1>8. ASSUME NEW c \in Clients, WriteConf(c) PROVE Persisted(e)'
  <2>1. CASE e # c
    BY <1>t, <1>8, <2>1, WriteConfEffect, PersistElsewhere DEF Elsewhere
  <2>2. CASE e = c
    BY <1>t, <1>8, <2>2, WriteConfEffect DEF Persisted, Reads, Keeps
  <2> QED BY <2>1, <2>2
<1>9. ASSUME NEW c \in Clients, BringUp(c) PROVE Persisted(e)'
  <2>1. CASE e # c
    BY <1>t, <1>9, <2>1, BringUpEffect, PersistElsewhere DEF Elsewhere
  <2>2. CASE e = c
    BY <1>t, <1>9, <2>2, BringUpEffect DEF Persisted, Reads
  <2> QED BY <2>1, <2>2
<1>10. ASSUME NEW r \in requests, Handle(r) PROVE Persisted(e)'
  <2>1. /\ UNCHANGED <<file, conf, up>>
        /\ run'[e] = run[e] \/ /\ run[e] # None /\ run'[e] # None
                               /\ run[e].at = "wait" /\ run'[e].at = "wait"
    BY <1>10, HandleEffect DEF At
  <2> QED BY <1>t, <2>1 DEF Persisted, Reads
<1>11. ASSUME NEW r \in requests, Refuse(r) PROVE Persisted(e)'
  BY <1>t, <1>11, PersistElsewhere DEF Refuse
<1>12. CASE Administer
  BY <1>t, <1>12, PersistElsewhere DEF Administer
<1>13. CASE UNCHANGED vars
  BY <1>t, <1>13, PersistElsewhere DEF vars
<1> QED
  BY <1>t, <1>1, <1>2, <1>3, <1>4, <1>5, <1>6, <1>7, <1>8, <1>9, <1>10, <1>11, <1>12, <1>13
     DEF Next, Steps, AWrite

LEMMA PersistenceHolds == Spec => [](TypeInv /\ KeyInv /\ AddressInv /\ PersistInv)
<1>1. Init => PersistInv
  <2> SUFFICES ASSUME Init, NEW c \in Clients PROVE Persisted(c)
    BY DEF PersistInv
  <2> QED BY DEF Init, Persisted, Reads
<1> QED BY <1>1, AddressesHold, PersistStep, PTL DEF Spec

\* Unless a run was cut short, the interface of a machine runs what gway.conf says
\* and gway.conf what the state files say, however its last run ended.
THEOREM InterfaceIsWhatIsPersisted == Spec => []InterfaceIsPersisted
<1>1. TypeInv /\ AddressInv /\ PersistInv => InterfaceIsPersisted
  <2> SUFFICES ASSUME TypeInv, AddressInv, PersistInv, cuts = 0, NEW c \in Clients,
                      up[c] # None, run[c] = None
               PROVE  /\ up[c] = conf[c]
                      /\ up[c] = [key |-> file[c].private, address |-> file[c].address,
                                  endpoint |-> file[c].endpoint]
    BY DEF InterfaceIsPersisted
  <2>1. up[c] \in Config
    BY DEF TypeInv, MachinesOK
  <2>2. /\ up[c] = conf[c] /\ up[c].key = file[c].private
        /\ up[c].address = file[c].address /\ up[c].endpoint = file[c].endpoint
    BY DEF PersistInv, Persisted, Reads, AddressInv, AddressSound
  <2> QED BY <2>1, <2>2 DEF Config
<1> QED BY <1>1, PersistenceHolds, PTL

-----------------------------------------------------------------------------
(* Identities, unless a run was cut short.                                *)

\* The device the machine is, or is about to be.
Identity(c) == IF run[c] = None THEN file[c].device ELSE run[c].device

\* The registry has the device under this key.
Entered(rows, d, k) == d \in Devices /\ rows[d] # None /\ rows[d].key = k

Identified(c) == Entered(devices, Identity(c), file[c].private)

\* A machine that has an address is registered as what it persists, and nothing
\* but the gateway's endpoint gets into its files.
IdentitySound(c) ==
    /\ run[c] # None /\ run[c].at # "device" => file[c].device = run[c].device
    /\ run[c] # None /\ run[c].answer # None => Identified(c)
    /\ c \notin byHand =>
          /\ run[c] # None /\ run[c].at \in {"device", "private", "load"} => run[c].options = NoOptions
          /\ ~Reads(c) => run[c].options.endpoint = Endpoint /\ Identified(c)
          /\ file[c].address # None => Identified(c)
          /\ Reads(c) /\ file[c].server # None /\ file[c].address # None => file[c].endpoint = Endpoint
          /\ conf[c] # None => conf[c].endpoint = Endpoint /\ Identified(c)
          /\ up[c] # None => up[c].endpoint = Endpoint /\ Identified(c)

IdentityInv == cuts = 0 => \A c \in Clients : IdentitySound(c)

LEMMA EnteredStays ==
    ASSUME TypeInv, [Next]_vars, NEW c \in Clients, NEW d, Entered(devices, d, file[c].private)
    PROVE  Entered(devices', d, file'[c].private)
<1>1. devices[d].key = file[c].private /\ file[c].private # None
  BY DEF Entered, TypeInv, TablesOK, Ledger!Row
<1> QED BY <1>1, RowsAlwaysStay, KeyStays DEF RowsStay, Registered, Entered

LEMMA IdentityElsewhere ==
    ASSUME TypeInv, [Next]_vars, NEW c \in Clients, IdentitySound(c),
           file'[c].server = file[c].server, file'[c].address = file[c].address,
           file'[c].endpoint = file[c].endpoint, file'[c].device = file[c].device,
           conf'[c] = conf[c], up'[c] = up[c], run'[c] = run[c], c \notin byHand' => c \notin byHand
    PROVE  IdentitySound(c)'
BY EnteredStays DEF IdentitySound, Identified, Identity, Reads

LEMMA IdentityStep ==
    TypeInv /\ KeyInv /\ PersistInv /\ IdentityInv /\ [Next]_vars => IdentityInv'
<1> SUFFICES ASSUME TypeInv, KeyInv, PersistInv, IdentityInv, [Next]_vars, cuts' = 0, NEW e \in Clients
             PROVE  IdentitySound(e)'
  BY DEF IdentityInv
<1>t. /\ MachinesOK /\ TablesOK /\ IdentitySound(e) /\ Persisted(e)
      /\ run[e] # None => RunOK(e)
      /\ \A c \in Clients : ~CutShort(c) /\ ~FailsToStart(c)
  BY NotCutShort DEF TypeInv, PersistInv, IdentityInv, RunsOK
<1>d. \A d : Entered(devices, d, file[e].private) => Entered(devices', d, file'[e].private)
  BY EnteredStays
<1>1. ASSUME NEW c \in Clients, NEW mode \in {"prepare", "install"}, NEW option \in Devices \cup {None},
             NEW token \in Tokens \cup {None}, NEW options \in Manual \cup {NoOptions},
             Start(c, mode, option, token, options)
      PROVE  IdentitySound(e)'
  <2>1. CASE e # c
    BY <1>t, <1>1, <2>1, StartEffect, IdentityElsewhere DEF Elsewhere
  <2>2. CASE e = c
    BY <1>t, <1>1, <2>2, StartEffect
       DEF IdentitySound, Identified, Identity, Entered, Reads, NoOptions
  <2> QED BY <2>1, <2>2
<1>2. ASSUME NEW c \in Clients, AWrite(c)
      PROVE  IdentitySound(e)'
  <2>1. CASE e # c
    BY <1>t, <1>2, <2>1, AWriteEffect, IdentityElsewhere DEF Elsewhere
  <2>2. CASE e = c
    BY <1>t, <1>2, <2>2, AWriteEffect
       DEF IdentitySound, Identified, Identity, Reads, Keeps
  <2> QED BY <2>1, <2>2
<1>3. ASSUME NEW c \in Clients, MakeKey(c)
      PROVE  IdentitySound(e)'
  <2>1. CASE e # c
    BY <1>t, <1>3, <2>1, MakeKeyEffect, IdentityElsewhere DEF Elsewhere
  <2>2. CASE e = c
    BY <1>t, <1>3, <2>2, <1>d, MakeKeyEffect
       DEF IdentitySound, Identified, Identity, Reads, Keeps
  <2> QED BY <2>1, <2>2
<1>4. ASSUME NEW c \in Clients, Load(c)
      PROVE  IdentitySound(e)'
  <2>1. CASE e # c
    BY <1>t, <1>4, <2>1, LoadEffect, IdentityElsewhere DEF Elsewhere
  <2>2. CASE e = c
    BY <1>t, <1>4, <2>2, LoadedOptions, LoadEffect
       DEF IdentitySound, Identified, Identity, Reads, Keeps, NoOptions, First, Complete
  <2> QED BY <2>1, <2>2
<1>5. ASSUME NEW c \in Clients, Ask(c)
      PROVE  IdentitySound(e)'
  <2>1. CASE e # c
    BY <1>t, <1>5, <2>1, AskEffect, IdentityElsewhere DEF Elsewhere
  <2>2. CASE e = c
    BY <1>t, <1>5, <2>2, AskEffect
       DEF IdentitySound, Identified, Identity, Reads, Keeps
  <2> QED BY <2>1, <2>2
<1>6. ASSUME NEW c \in Clients, Answered(c)
      PROVE  IdentitySound(e)'
  <2>1. CASE e # c
    BY <1>t, <1>6, <2>1, AnsweredEffect, IdentityElsewhere DEF Elsewhere
  <2>2. CASE e = c
    BY <1>t, <1>6, <2>2, AnsweredEffect
       DEF IdentitySound, Identified, Identity, Reads, Keeps
  <2> QED BY <2>1, <2>2
<1>7. ASSUME NEW c \in Clients, NoToken(c) \/ GivesUp(c)
      PROVE  IdentitySound(e)'
  <2>0. /\ Elsewhere(c) /\ run[c] # None /\ run[c].at \in {"load", "wait"} /\ run'[c] = None
        /\ UNCHANGED <<devices, file, conf, up, byHand>>
    BY <1>t, <1>7, EndEffect
  <2>1. CASE e # c
    BY <1>t, <2>0, <2>1, IdentityElsewhere DEF Elsewhere
  <2>2. CASE e = c
    BY <1>t, <2>0, <2>2 DEF IdentitySound, Identified, Identity, Reads
  <2> QED BY <2>1, <2>2
<1>8. ASSUME NEW c \in Clients, WriteConf(c)
      PROVE  IdentitySound(e)'
  <2>1. CASE e # c
    BY <1>t, <1>8, <2>1, WriteConfEffect, IdentityElsewhere DEF Elsewhere
  <2>2. CASE e = c
    BY <1>t, <1>8, <2>2, WriteConfEffect
       DEF IdentitySound, Identified, Identity, Reads, Keeps
  <2> QED BY <2>1, <2>2
<1>9. ASSUME NEW c \in Clients, BringUp(c)
      PROVE  IdentitySound(e)'
  <2>1. CASE e # c
    BY <1>t, <1>9, <2>1, BringUpEffect, IdentityElsewhere DEF Elsewhere
  <2>2. CASE e = c
    BY <1>t, <1>9, <2>2, BringUpEffect
       DEF IdentitySound, Identified, Identity, Reads, Keeps, Persisted
  <2> QED BY <2>1, <2>2
<1>10. ASSUME NEW r \in requests, Handle(r) PROVE IdentitySound(e)'
  <2>1. CASE run'[e] = run[e]
    BY <1>t, <1>10, <2>1, HandleEffect, IdentityElsewhere
  <2>2. CASE run'[e] # run[e]
    <3>1. /\ e = r.client /\ run[e] # None /\ run[e].at = "wait" /\ run[e].device = r.device
          /\ run'[e] # None /\ run'[e].at = "wait" /\ run'[e].device = run[e].device
      BY <1>10, <2>2, HandleEffect DEF At, Keeps
    <3>2. Entered(devices', run'[e].device, file[e].private)
      <4>1. file[r.client].private = r.key
        BY DEF KeyInv
      <4>2. r.device \in Devices /\ Registered(r.device)' /\ devices'[r.device].key = r.key
        BY <1>10, HandleEffect DEF Request
      <4> QED BY <3>1, <4>1, <4>2 DEF Entered, Registered
    <3>3. UNCHANGED <<file, conf, up, byHand>>
      BY <1>10, HandleEffect
    <3> QED BY <1>t, <3>1, <3>2, <3>3 DEF IdentitySound, Identified, Identity, Reads
  <2> QED BY <2>1, <2>2
<1>11. ASSUME NEW r \in requests, Refuse(r) PROVE IdentitySound(e)'
  BY <1>t, <1>11, IdentityElsewhere DEF Refuse
<1>12. CASE Administer
  BY <1>t, <1>12, IdentityElsewhere DEF Administer
<1>13. CASE UNCHANGED vars
  BY <1>t, <1>13, IdentityElsewhere DEF vars
<1> QED
  BY <1>t, <1>1, <1>2, <1>3, <1>4, <1>5, <1>6, <1>7, <1>8, <1>9, <1>10, <1>11, <1>12, <1>13
     DEF Next, Steps, AWrite

LEMMA IdentitiesHold == Spec => [](TypeInv /\ KeyInv /\ AddressInv /\ PersistInv /\ IdentityInv)
<1>1. Init => IdentityInv
  <2> SUFFICES ASSUME Init, NEW c \in Clients PROVE IdentitySound(c)
    BY DEF IdentityInv
  <2> QED BY DEF Init, IdentitySound, Reads
<1> QED BY <1>1, PersistenceHolds, IdentityStep, PTL DEF Spec

\* Unless a run was cut short, a machine that was never configured by hand uses the
\* gateway's endpoint, and the identity it persists is registered with its key.
THEOREM MachineIsWhatIsRegistered == Spec => []MachineIsAsRegistered
<1>1. TypeInv /\ IdentityInv => MachineIsAsRegistered
  BY DEF IdentityInv, IdentitySound, Identified, Identity, Entered, MachineIsAsRegistered, Registered
<1> QED BY <1>1, IdentitiesHold, PTL

-----------------------------------------------------------------------------
(* Tokens, unless an answer was lost or a run was cut short.               *)

\* The registry has a row with this key.
HasRow(rows, k) == \E d \in Devices : rows[d] # None /\ rows[d].key = k

\* The sender of a request waits for its answer.
Awaited(r) ==
    /\ run[r.client] # None /\ run[r.client].at = "wait" /\ run[r.client].answer = None
    /\ run[r.client].token = r.token /\ run[r.client].device = r.device

\* A machine that is registered has what it needs not to ask again.
Provided(c) ==
    HasRow(devices, file[c].private) =>
        /\ Reads(c) /\ ~At(c, "wait") => file[c].server # None /\ file[c].address # None
        /\ At(c, "wait") => run[c].answer # None

TokenInv ==
    /\ IsFiniteSet(Spent) /\ IsFiniteSet(Rows)
    /\ lost = {} /\ cuts = 0 =>
          /\ \A r \in requests : Awaited(r)
          /\ \A c \in Clients : Provided(c)
          /\ Cardinality(Spent) <= Cardinality(Rows)

\* A step of a machine brings it into no row, and a key that has none is not in
\* a row after it.
LEMMA RowOfKey ==
    ASSUME TypeInv, NEW c \in Clients, UNCHANGED devices,
           file'[c].private = file[c].private \/ file'[c].private \in Keys \ Known,
           HasRow(devices', file'[c].private)
    PROVE  HasRow(devices, file[c].private) /\ file'[c].private = file[c].private
BY DEF HasRow, Known

\* What remains to be shown of a step of machine c that leaves the gateway alone.
LEMMA TokensElsewhere ==
    ASSUME TypeInv, TokenInv, lost = {}, cuts = 0, NEW c \in Clients, Elsewhere(c),
           UNCHANGED <<devices, tokens>>,
           \A r \in requests' : r.client # c => r \in requests,
           \A r \in requests' : r.client = c => Awaited(r)',
           Provided(c)'
    PROVE  TokenInv'
<1>1. \A r \in requests : r.client \in Clients
  BY DEF TypeInv, HistoryOK, Request
<1>2. ASSUME NEW r \in requests', r.client # c PROVE Awaited(r)'
  BY <1>1, <1>2 DEF TokenInv, Awaited, Elsewhere
<1>3. ASSUME NEW e \in Clients, e # c PROVE Provided(e)'
  BY <1>3 DEF TokenInv, Provided, Elsewhere, Reads, At
<1>4. Spent' = Spent /\ Rows' = Rows
  BY DEF Spent, Rows, Registered
<1> HIDE DEF Spent, Rows
<1> QED BY <1>2, <1>3, <1>4 DEF TokenInv

LEMMA TokensFinite ==
    ASSUME TypeInv, TokenInv, [Next]_vars
    PROVE  IsFiniteSet(Spent') /\ IsFiniteSet(Rows')
<1>1. CASE UNCHANGED <<devices, tokens>>
  <2>1. Spent' = Spent /\ Rows' = Rows
    BY <1>1 DEF Spent, Rows, Registered
  <2> QED BY <2>1 DEF TokenInv
<1>2. ASSUME NEW r \in requests, Handle(r) PROVE IsFiniteSet(Spent') /\ IsFiniteSet(Rows')
  <2>1. Rows' = Rows \cup {r.device} /\ Spent' = Spent \cup {r.token}
    <3>1. r.device \in Devices /\ Registered(r.device)' /\ Spent' = Spent \cup {r.token}
          /\ \A e \in Devices \ {r.device} : devices'[e] = devices[e]
      BY <1>2, HandleEffect DEF Request
    <3> QED BY <3>1 DEF Rows, Registered
  <2> QED BY <2>1, FS_AddElement DEF TokenInv
<1>3. CASE Administer
  BY <1>3, AdministerEffect DEF TypeInv, TokenInv
<1>4. ASSUME NEW c \in Clients, Steps(c) \/ CutShort(c) \/ FailsToStart(c) PROVE UNCHANGED <<devices, tokens>>
  BY <1>4 DEF Steps, WriteDevice, WriteServer, WriteAddress, WriteEndpoint, Writes, MakeKey,
     Load, Ask, NoToken, Answered, GivesUp, WriteConf, BringUp, CutShort, FailsToStart
<1>5. ASSUME NEW c \in Clients, NEW mode, NEW option, NEW token, NEW options,
             Start(c, mode, option, token, options)
      PROVE  UNCHANGED <<devices, tokens>>
  BY <1>5 DEF Start
<1>6. ASSUME NEW r \in requests, Refuse(r) PROVE UNCHANGED <<devices, tokens>>
  BY <1>6 DEF Refuse
<1>7. UNCHANGED vars => UNCHANGED <<devices, tokens>>
  BY DEF vars
<1> QED BY <1>1, <1>2, <1>3, <1>4, <1>5, <1>6, <1>7 DEF Next

LEMMA TokenStep ==
    TypeInv /\ KeyInv /\ PersistInv /\ TokenInv /\ [Next]_vars => TokenInv'
<1> SUFFICES ASSUME TypeInv, KeyInv, PersistInv, TokenInv, [Next]_vars PROVE TokenInv'
  OBVIOUS
<1>0. CASE ~(lost' = {} /\ cuts' = 0)
  <2>1. IsFiniteSet(Spent)' /\ IsFiniteSet(Rows)'
    BY TokensFinite
  <2> QED BY <1>0, <2>1 DEF TokenInv
<1>1. CASE lost' = {} /\ cuts' = 0
  <2>l. lost = {} /\ cuts = 0 /\ \A c \in Clients : ~CutShort(c) /\ ~FailsToStart(c) /\ ~GivesUp(c)
    <3>1. cuts = 0 /\ \A c \in Clients : ~CutShort(c) /\ ~FailsToStart(c)
      BY <1>1, NotCutShort
    <3>2. \A c \in Clients : ~GivesUp(c)
      BY <1>1 DEF GivesUp
    <3>3. lost' = lost
      BY <3>1, <3>2 DEF Next, Steps, Start, WriteDevice, WriteServer, WriteAddress, WriteEndpoint, Writes, MakeKey,
         Load, Ask, NoToken, Answered, WriteConf, BringUp, Handle, Refuse, Administer, vars
    <3> QED BY <1>1, <3>1, <3>2, <3>3
  <2>t. /\ MachinesOK /\ TablesOK
        /\ \A c \in Clients : Persisted(c) /\ Provided(c) /\ (run[c] # None => RunOK(c))
        /\ \A r \in requests : Awaited(r)
    BY <2>l DEF TypeInv, PersistInv, TokenInv, RunsOK
  <2>1. ASSUME NEW c \in Clients, NEW mode \in {"prepare", "install"}, NEW option \in Devices \cup {None},
               NEW token \in Tokens \cup {None}, NEW options \in Manual \cup {NoOptions},
               Start(c, mode, option, token, options)
        PROVE  TokenInv'
    <3>1. Provided(c)'
      BY <2>t, <2>1, StartEffect, RowOfKey DEF Provided, Reads, At
    <3> QED BY <2>t, <2>l, <2>1, <3>1, StartEffect, TokensElsewhere DEF Awaited
  <2>2. ASSUME NEW c \in Clients, AWrite(c) PROVE TokenInv'
    <3>1. Provided(c)'
      BY <2>t, <2>2, AWriteEffect DEF Provided, Reads, At
    <3> QED BY <2>t, <2>l, <2>2, <3>1, AWriteEffect, TokensElsewhere DEF Awaited
  <2>3. ASSUME NEW c \in Clients, MakeKey(c) PROVE TokenInv'
    <3>1. Provided(c)'
      BY <2>t, <2>3, MakeKeyEffect, RowOfKey DEF Provided, Reads, At
    <3> QED BY <2>t, <2>l, <2>3, <3>1, MakeKeyEffect, TokensElsewhere DEF Awaited
  <2>4. ASSUME NEW c \in Clients, Load(c) PROVE TokenInv'
    <3>1. Provided(c)'
      BY <2>t, <2>4, LoadEffect DEF Provided, Reads, At, Keeps
    <3> QED BY <2>t, <2>l, <2>4, <3>1, LoadEffect, TokensElsewhere DEF Awaited
  <2>5. ASSUME NEW c \in Clients, Ask(c) PROVE TokenInv'
    <3>1. ~HasRow(devices, file[c].private)
      BY <2>t, <2>5, AskEffect, LoadedOptions DEF Provided, Reads, At, Complete, First
    <3>2. Provided(c)'
      BY <2>5, <2>t, <3>1, AskEffect DEF Provided
    <3>3. \A r \in requests' : r.client = c => Awaited(r)'
      <4>1. run'[c] # None /\ run'[c].at = "wait" /\ run'[c].answer = None
            /\ run'[c].token = run[c].token /\ run'[c].device = run[c].device
        BY <2>5, <2>t, AskEffect DEF Keeps, RunOK
      <4>2. \A r \in requests : r.client # c
        BY <2>5, <2>t, AskEffect DEF Awaited
      <4> QED BY <2>5, <2>t, <4>1, <4>2, AskEffect DEF Awaited
    <3>4. \A r \in requests' : r.client # c => r \in requests
      BY <2>5, <2>t, AskEffect
    <3> QED BY <2>t, <2>l, <2>5, <3>2, <3>3, <3>4, AskEffect, TokensElsewhere
  <2>6. ASSUME NEW c \in Clients, Answered(c) PROVE TokenInv'
    <3>1. Provided(c)'
      BY <2>t, <2>6, AnsweredEffect DEF Provided, Reads, At, Keeps
    <3> QED BY <2>t, <2>l, <2>6, <3>1, AnsweredEffect, TokensElsewhere DEF Awaited
  <2>7. ASSUME NEW c \in Clients, NoToken(c) PROVE TokenInv'
    <3>0. /\ Elsewhere(c) /\ run[c] # None /\ run[c].at = "load" /\ run'[c] = None
          /\ UNCHANGED <<devices, tokens, requests, file>>
      BY <2>t, <2>7, EndEffect DEF NoToken, At
    <3>1. Provided(c)'
      BY <2>t, <3>0 DEF Provided, Reads, At
    <3> QED BY <2>t, <2>l, <3>0, <3>1, TokensElsewhere DEF Awaited
  <2>8. ASSUME NEW c \in Clients, WriteConf(c) PROVE TokenInv'
    <3>1. Provided(c)'
      BY <2>t, <2>8, WriteConfEffect DEF Provided, Reads, At, Keeps
    <3> QED BY <2>t, <2>l, <2>8, <3>1, WriteConfEffect, TokensElsewhere DEF Awaited
  <2>9. ASSUME NEW c \in Clients, BringUp(c) PROVE TokenInv'
    <3>1. Provided(c)'
      BY <2>t, <2>9, BringUpEffect DEF Provided, Reads, At, Persisted, RunOK, Complete
    <3> QED BY <2>t, <2>l, <2>9, <3>1, BringUpEffect, TokensElsewhere DEF Awaited
  <2>10. ASSUME NEW r \in requests, Handle(r) PROVE TokenInv'
    <3>1. /\ r.client \in Clients /\ r.device \in Devices /\ r.key \in Keys
          /\ file[r.client].private = r.key /\ Awaited(r)
      BY <2>t DEF TypeInv, HistoryOK, Request, KeyInv
    <3>2. /\ Registered(r.device)' /\ devices'[r.device].key = r.key
          /\ \A e \in Devices \ {r.device} : devices'[e] = devices[e]
          /\ Registered(r.device) => devices[r.device].key = r.key
          /\ Spent' = Spent \cup {r.token}
          /\ requests' = requests \ {r}
          /\ \A c \in Clients \ {r.client} : run'[c] = run[c]
          /\ file' = file
      BY <2>10, HandleEffect
    <3>3. run'[r.client] # None /\ run'[r.client].at = "wait" /\ run'[r.client].answer # None
      BY <2>10, <3>1, HandleEffect DEF Awaited, At
    <3>4. ASSUME NEW q \in requests' PROVE Awaited(q)'
      <4>1. q \in Request /\ r \in Request /\ q # r /\ Awaited(q) /\ file[q.client].private = q.key
        BY <2>t, <3>2, <3>4 DEF TypeInv, HistoryOK, KeyInv
      <4>2. q.client # r.client
        BY <3>1, <4>1 DEF Awaited, Request
      <4> QED BY <3>2, <4>1, <4>2 DEF Awaited, Request
    <3>5. ASSUME NEW c \in Clients PROVE Provided(c)'
      <4>1. CASE c = r.client
        BY <3>3, <4>1 DEF Provided, At, Reads
      <4>2. CASE c # r.client
        <5>1. file[c].private # r.key
          BY <3>1, <4>2 DEF KeyInv
        <5>2. HasRow(devices', file[c].private) => HasRow(devices, file[c].private)
          BY <3>2, <5>1 DEF HasRow
        <5> QED BY <2>t, <3>2, <4>2, <5>2 DEF Provided, At, Reads
      <4> QED BY <4>1, <4>2
    <3>6. r.device \notin Rows /\ Rows' = Rows \cup {r.device}
      <4>1. ~Registered(r.device)
        BY <2>t, <3>1, <3>2 DEF Provided, HasRow, Registered, Awaited, At
      <4> QED BY <3>1, <3>2, <4>1 DEF Rows, Registered
    <3>7. Cardinality(Spent') <= Cardinality(Rows')
      <4>1. IsFiniteSet(Spent) /\ IsFiniteSet(Rows) /\ Cardinality(Spent) <= Cardinality(Rows)
        BY <2>l DEF TokenInv
      <4>2. Cardinality(Rows') = Cardinality(Rows) + 1
        BY <3>6, <4>1, FS_AddElement
      <4>3. Cardinality(Spent') = Cardinality(Spent) \/ Cardinality(Spent') = Cardinality(Spent) + 1
        BY <3>2, <4>1, FS_AddElement
      <4>4. Cardinality(Spent) \in Nat /\ Cardinality(Rows) \in Nat
        BY <4>1, FS_CardinalityType
      <4> QED BY <4>1, <4>2, <4>3, <4>4
    <3>8. IsFiniteSet(Spent') /\ IsFiniteSet(Rows')
      BY TokensFinite
    <3> QED BY <3>4, <3>5, <3>7, <3>8 DEF TokenInv
  <2>11. ASSUME NEW r \in requests, Refuse(r) PROVE TokenInv'
    <3>1. requests' \subseteq requests /\ UNCHANGED <<devices, tokens, file, run>>
      BY <2>11 DEF Refuse
    <3>2. Spent' = Spent /\ Rows' = Rows
      BY <3>1 DEF Spent, Rows, Registered
    <3>3. (\A q \in requests' : Awaited(q)') /\ \A c \in Clients : Provided(c)'
      BY <2>t, <3>1 DEF Awaited, Provided, Reads, At
    <3> QED BY <2>l, <3>2, <3>3 DEF TokenInv
  <2>12. CASE Administer
    <3>1. RowsStay /\ Rows' = Rows /\ Spent' = Spent /\ UNCHANGED <<requests, file, run>>
      BY <2>t, <2>12, AdministerEffect
    <3>2. \A k : HasRow(devices', k) => HasRow(devices, k)
      BY <3>1 DEF HasRow, RowsStay, Rows, Registered
    <3>3. (\A q \in requests' : Awaited(q)') /\ \A c \in Clients : Provided(c)'
      BY <2>t, <3>1, <3>2 DEF Awaited, Provided, Reads, At
    <3> QED BY <2>l, <3>1, <3>3 DEF TokenInv
  <2>13. CASE UNCHANGED vars
    <3>1. Spent' = Spent /\ Rows' = Rows
      BY <2>13 DEF vars, Spent, Rows, Registered
    <3>2. (\A q \in requests' : Awaited(q)') /\ \A c \in Clients : Provided(c)'
      BY <2>t, <2>13 DEF vars, Awaited, Provided, Reads, At
    <3> QED BY <2>l, <3>1, <3>2 DEF TokenInv
  <2> QED
    BY <2>l, <2>1, <2>2, <2>3, <2>4, <2>5, <2>6, <2>7, <2>8, <2>9, <2>10, <2>11, <2>12, <2>13
       DEF Next, Steps, AWrite
<1> QED BY <1>0, <1>1

\* A machine spends a token again only after it lost an answer or its run was cut short.
THEOREM TokensAreSpentOnce == Spec => []OneTokenPerDevice
<1>1. Init => TokenInv
  <2> SUFFICES ASSUME Init PROVE TokenInv
    OBVIOUS
  <2>1. Spent = {} /\ Rows = {}
    BY DEF Init, Ledger!Init, Spent, Rows, Registered
  <2>2. (\A r \in requests : Awaited(r)) /\ \A c \in Clients : Provided(c)
    BY DEF Init, Ledger!Init, Provided, HasRow
  <2> QED BY <2>1, <2>2, FS_EmptySet DEF TokenInv
<1>2. TokenInv => OneTokenPerDevice
  BY DEF TokenInv, OneTokenPerDevice, Spent, Rows
<1> QED BY <1>1, <1>2, PersistenceHolds, TokenStep, PTL DEF Spec
=============================================================================
