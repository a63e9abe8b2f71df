--------------------------- MODULE ClientInstaller ---------------------------
(***************************************************************************)
(* The machines that join the network: install.sh and client/enroll.py on  *)
(* each of them, the state files they keep, and the requests they send to  *)
(* the gateway.                                                            *)
(*                                                                         *)
(* The gateway is EnrollmentLedger.tla, which the service is proved to     *)
(* implement: a request it handles spends a token and enters or confirms a *)
(* device in one step, or is refused.  A request may arrive after the      *)
(* installer stopped waiting for its answer.                               *)
(*                                                                         *)
(* A state file that is missing and one that is empty are the same to the  *)
(* script; write_state truncates before it writes, and the script may end  *)
(* in between: it is killed, or a command of it fails under set -e.        *)
(*                                                                         *)
(* Endpoint, tunnel address and keepalive are written and defaulted alike: *)
(* endpoint stands for the three.  public.key, which every run derives     *)
(* again, and hostname, which nothing uses, are left out.                  *)
(***************************************************************************)
EXTENDS Naturals, FiniteSets

CONSTANTS
    Devices, Keys, Tokens, Hosts, Gateway, None,    \* as in EnrollmentLedger
    Clients,        \* the machines, on each of which one script runs at a time
    HostName,       \* hostname -s of each machine
    Manual,         \* the manual options an administrator may give
    Endpoint,       \* GWAY_GATEWAY_ENDPOINT of the gateway
    DefaultEndpoint,\* DEFAULT_ENDPOINT of install.sh
    MaxCuts         \* bound on runs that are cut short

ASSUME ClientAssumption ==
    /\ HostName \in [Clients -> Devices]
    /\ None \notin Devices \cup Keys \cup Tokens \cup Hosts \cup {Endpoint, DefaultEndpoint}
    /\ MaxCuts \in Nat

VARIABLES
    devices, tokens,    \* the gateway's tables
    requests,           \* requests sent and not handled yet
    file,               \* the state files of each machine
    conf,               \* its /etc/wireguard/gway.conf
    up,                 \* what its running interface was configured with
    run,                \* the run of install.sh in progress, or None
    byHand,             \* machines that were given manual options
    lost,               \* machines that stopped waiting for an answer
    cuts                \* runs cut short so far

gatewayVars == <<devices, tokens>>
machineVars == <<file, conf, up>>
historyVars == <<byHand, lost, cuts>>
vars == <<gatewayVars, requests, machineVars, run, historyVars>>

Ledger == INSTANCE EnrollmentLedger

GatewayKey == "gateway"
Endpoints == {Endpoint, DefaultEndpoint}
Options == [server: {GatewayKey, None}, address: Hosts \cup {None}, endpoint: Endpoints \cup {None}]
NoOptions == [server |-> None, address |-> None, endpoint |-> None]

ASSUME ManualAssumption == Manual \subseteq Options

Files ==
    [device: Devices \cup {None}, private: Keys \cup {None}, server: {GatewayKey, None},
     address: Hosts \cup {None}, endpoint: Endpoints \cup {None}]
Request == [client: Clients, device: Devices, key: Keys, token: Tokens]
Config == [key: Keys, address: Hosts, endpoint: Endpoints]
\* The shell variables of a run; torn: the file it is writing is truncated;
\* changed: it replaced gway.conf; answer: the address the gateway answered.
Run ==
    [mode: {"prepare", "install"},
     at: {"device", "private", "load", "wait", "server", "address", "endpoint", "conf", "up"},
     device: Devices, token: Tokens \cup {None}, torn: BOOLEAN, changed: BOOLEAN,
     answer: Hosts \cup {None}, options: Options]

ASSUME RecordAssumption ==
    None \notin Run \cup Config \cup Ledger!Row \cup Ledger!TokenRow \cup {GatewayKey}

ClientTypeOK ==
    /\ devices \in [Devices -> Ledger!Row \cup {None}]
    /\ tokens \in [Tokens -> Ledger!TokenRow \cup {None}]
    /\ requests \in SUBSET Request
    /\ file \in [Clients -> Files]
    /\ conf \in [Clients -> Config \cup {None}]
    /\ up \in [Clients -> Config \cup {None}]
    /\ run \in [Clients -> Run \cup {None}]
    /\ byHand \in SUBSET Clients
    /\ lost \in SUBSET Clients
    /\ cuts \in 0..MaxCuts

Init ==
    /\ Ledger!Init
    /\ requests = {}
    /\ file = [c \in Clients |->
          [device |-> None, private |-> None, server |-> None, address |-> None, endpoint |-> None]]
    /\ conf = [c \in Clients |-> None]
    /\ up = [c \in Clients |-> None]
    /\ run = [c \in Clients |-> None]
    /\ byHand = {}
    /\ lost = {}
    /\ cuts = 0

-----------------------------------------------------------------------------
At(c, step) == run[c] # None /\ run[c].at = step

Goes(c, step) == run' = [run EXCEPT ![c].at = step]

Ends(c) == run' = [run EXCEPT ![c] = None]

\* write_state: one step truncates the file, one writes the value.
Writes(c, name, value, next) ==
    /\ At(c, name)
    /\ \/ /\ ~run[c].torn
          /\ file' = [file EXCEPT ![c][name] = None]
          /\ run' = [run EXCEPT ![c].torn = TRUE]
       \/ /\ run[c].torn
          /\ file' = [file EXCEPT ![c][name] = value]
          /\ run' = [run EXCEPT ![c].torn = FALSE, ![c].at = next]
    /\ UNCHANGED <<gatewayVars, requests, conf, up, historyVars>>

First(a, b) == IF a # None THEN a ELSE b

\* resolve_device_id: the option, the persisted identity, the host name.
Resolved(c, option) == First(First(option, file[c].device), HostName[c])

\* A run begins, unless it would change the identity.
MutStart(c, mode, option, token, options) ==
    /\ run[c] = None
    /\ run' = [run EXCEPT ![c] =
          [mode |-> mode, at |-> "device", device |-> Resolved(c, option),
           token |-> token, torn |-> FALSE, changed |-> FALSE, answer |-> None, options |-> options]]
    /\ byHand' = IF options = NoOptions THEN byHand ELSE byHand \cup {c}
    /\ UNCHANGED <<gatewayVars, requests, machineVars, lost, cuts>>
Start(c, mode, option, token, options) ==
    /\ run[c] = None
    /\ file[c].device \in {None, Resolved(c, option)}
    /\ run' = [run EXCEPT ![c] =
          [mode |-> mode, at |-> "device", device |-> Resolved(c, option), token |-> token,
           torn |-> FALSE, changed |-> FALSE, answer |-> None, options |-> options]]
    /\ byHand' = IF options = NoOptions THEN byHand ELSE byHand \cup {c}
    /\ UNCHANGED <<gatewayVars, requests, machineVars, lost, cuts>>

WriteDevice(c) == Writes(c, "device", run[c].device, "private")

\* An existing private key is used; wg genkey never makes the same key twice.
Known == {file[c].private : c \in Clients} \cup {devices[d].key : d \in {e \in Devices : devices[e] # None}}
            \cup {r.key : r \in requests}
MutMakeKey(c) ==
    /\ At(c, "private")
    /\ \E k \in Keys \ Known : file' = [file EXCEPT ![c].private = k]
    /\ IF run[c].mode = "install" THEN Goes(c, "load") ELSE Ends(c)
    /\ UNCHANGED <<gatewayVars, requests, conf, up, historyVars>>
MakeKey(c) ==
    /\ At(c, "private")
    /\ IF file[c].private = None
       THEN \E k \in Keys \ Known : file' = [file EXCEPT ![c].private = k]
       ELSE UNCHANGED file
    /\ IF run[c].mode = "install" THEN Goes(c, "load") ELSE Ends(c)
    /\ UNCHANGED <<gatewayVars, requests, conf, up, historyVars>>

\* load_persisted_config: options, then state files, then the default.
MutLoaded(c) ==
    [server |-> First(run[c].options.server, file[c].server),
     address |-> First(run[c].options.address, file[c].address),
     endpoint |-> First(run[c].options.endpoint, file[c].endpoint)]
Loaded(c) ==
    [server |-> First(run[c].options.server, file[c].server),
     address |-> First(run[c].options.address, file[c].address),
     endpoint |-> First(First(run[c].options.endpoint, file[c].endpoint), DefaultEndpoint)]
Complete(options) == options.server # None /\ options.address # None

Load(c) ==
    /\ At(c, "load")
    /\ Complete(Loaded(c))
    /\ run' = [run EXCEPT ![c].options = Loaded(c), ![c].at = "server"]
    /\ UNCHANGED <<gatewayVars, requests, machineVars, historyVars>>

\* perform_enrollment.
MutAsk(c) ==
    /\ At(c, "load")
    /\ run[c].token # None
    /\ requests' = requests \cup
          {[client |-> c, device |-> run[c].device, key |-> file[c].private, token |-> run[c].token]}
    /\ run' = [run EXCEPT ![c].options = Loaded(c), ![c].at = "wait"]
    /\ UNCHANGED <<gatewayVars, machineVars, historyVars>>
Ask(c) ==
    /\ At(c, "load")
    /\ ~Complete(Loaded(c))
    /\ run[c].token # None
    /\ requests' = requests \cup
          {[client |-> c, device |-> run[c].device, key |-> file[c].private, token |-> run[c].token]}
    /\ run' = [run EXCEPT ![c].options = Loaded(c), ![c].at = "wait"]
    /\ UNCHANGED <<gatewayVars, machineVars, historyVars>>

NoToken(c) ==
    /\ At(c, "load")
    /\ ~Complete(Loaded(c))
    /\ run[c].token = None
    /\ Ends(c)
    /\ UNCHANGED <<gatewayVars, requests, machineVars, historyVars>>

\* The answer replaces what the options and the state files said.
Answered(c) ==
    /\ At(c, "wait")
    /\ run[c].answer # None
    /\ run' = [run EXCEPT ![c].at = "server", ![c].answer = None,
          ![c].options = [server |-> GatewayKey, address |-> run[c].answer, endpoint |-> Endpoint]]
    /\ UNCHANGED <<gatewayVars, requests, machineVars, historyVars>>

\* An error, or 15 seconds without an answer, which may be on its way.
GivesUp(c) ==
    /\ At(c, "wait")
    /\ Ends(c)
    /\ lost' = lost \cup {c}
    /\ UNCHANGED <<gatewayVars, requests, machineVars, byHand, cuts>>

WriteServer(c) == Writes(c, "server", run[c].options.server, "address")
WriteAddress(c) == Writes(c, "address", run[c].options.address, "endpoint")
WriteEndpoint(c) == Writes(c, "endpoint", run[c].options.endpoint, "conf")

\* render_wireguard_config, compared with the file that is there.
Rendered(c) ==
    [key |-> file[c].private, address |-> run[c].options.address, endpoint |-> run[c].options.endpoint]
WriteConf(c) ==
    /\ At(c, "conf")
    /\ conf' = [conf EXCEPT ![c] = Rendered(c)]
    /\ run' = [run EXCEPT ![c].at = "up", ![c].changed = conf[c] # Rendered(c)]
    /\ UNCHANGED <<gatewayVars, requests, file, up, historyVars>>

\* systemctl restart, start, or nothing when it is active and nothing changed.
MutBringUp(c) ==
    /\ At(c, "up")
    /\ up' = IF up[c] = None THEN [up EXCEPT ![c] = conf[c]] ELSE up
    /\ Ends(c)
    /\ UNCHANGED <<gatewayVars, requests, file, conf, historyVars>>
BringUp(c) ==
    /\ At(c, "up")
    /\ up' = IF up[c] = None \/ run[c].changed THEN [up EXCEPT ![c] = conf[c]] ELSE up
    /\ Ends(c)
    /\ UNCHANGED <<gatewayVars, requests, file, conf, historyVars>>

\* The run is killed, or a command of it fails under set -e, as when
\* validate_install_config dies on what was loaded: it ends where it is.
CutShort(c) ==
    /\ run[c] # None
    /\ cuts < MaxCuts
    /\ cuts' = cuts + 1
    /\ Ends(c)
    /\ lost' = IF run[c].at = "wait" THEN lost \cup {c} ELSE lost
    /\ UNCHANGED <<gatewayVars, requests, machineVars, byHand>>

\* systemctl start or restart fails, which leaves the interface down.
FailsToStart(c) ==
    /\ At(c, "up")
    /\ up[c] = None \/ run[c].changed
    /\ cuts < MaxCuts
    /\ cuts' = cuts + 1
    /\ up' = [up EXCEPT ![c] = None]
    /\ Ends(c)
    /\ UNCHANGED <<gatewayVars, requests, file, conf, byHand, lost>>

-----------------------------------------------------------------------------
(* The gateway.                                                            *)

\* The answer reaches the run that asked, if it still waits.
Handle(r) ==
    /\ Ledger!Enroll(r.device, r.key, r.token)
    /\ requests' = requests \ {r}
    /\ run' = IF /\ At(r.client, "wait")
                 /\ run[r.client].token = r.token /\ run[r.client].device = r.device
              THEN [run EXCEPT ![r.client].answer = devices'[r.device].addr]
              ELSE run
    /\ UNCHANGED <<machineVars, historyVars>>

Refuse(r) ==
    /\ requests' = requests \ {r}
    /\ UNCHANGED <<gatewayVars, machineVars, run, historyVars>>

Administer ==
    /\ \/ \E t \in Tokens, s \in Devices \cup {None} : Ledger!Issue(t, s)
       \/ \E d \in Devices : Ledger!Revoke(d)
    /\ UNCHANGED <<requests, machineVars, run, historyVars>>

Steps(c) ==
    \/ WriteDevice(c) \/ MakeKey(c) \/ Load(c) \/ Ask(c) \/ NoToken(c) \/ Answered(c) \/ GivesUp(c)
    \/ WriteServer(c) \/ WriteAddress(c) \/ WriteEndpoint(c) \/ WriteConf(c) \/ BringUp(c)

Next ==
    \/ \E c \in Clients :
          \/ \E mode \in {"prepare", "install"}, option \in Devices \cup {None},
                token \in Tokens \cup {None}, options \in Manual \cup {NoOptions} :
                Start(c, mode, option, token, options)
          \/ Steps(c)
          \/ CutShort(c)
          \/ FailsToStart(c)
    \/ \E r \in requests : Handle(r) \/ Refuse(r)
    \/ Administer

Spec == Init /\ [][Next]_vars

-----------------------------------------------------------------------------
(***************************************************************************)
(* Properties.                                                             *)
(***************************************************************************)
Registered(d) == devices[d] # None

\* The private key of every registered device is still on the machine that
\* registered it, whatever run was cut short and however late its request was handled:
\* the gateway never accepts another key for it.
RegisteredKeyIsHeld ==
    \A d \in {e \in Devices : Registered(e)} : \E c \in Clients : file[c].private = devices[d].key

\* A machine that was never configured by hand uses the address the registry
\* has for its key, through lost answers, repeated enrolments, kills and failures.
AddressIsRegistered ==
    \A c \in Clients \ byHand : up[c] # None =>
        \E d \in {e \in Devices : Registered(e)} :
            devices[d].key = up[c].key /\ devices[d].addr = up[c].address

\* Unless a run was killed or failed half way, the interface runs what gway.conf
\* says and gway.conf what the state files say whenever no run is in progress,
\* whether the last run enrolled, repaired, was configured by hand, or gave up.
InterfaceIsPersisted ==
    cuts = 0 =>
        \A c \in Clients : up[c] # None /\ run[c] = None =>
            /\ up[c] = conf[c]
            /\ up[c] = [key |-> file[c].private, address |-> file[c].address, endpoint |-> file[c].endpoint]

\* Unless a run was killed or failed half way, a machine that was never
\* configured by hand uses the gateway's endpoint, never a default, and persists
\* the identity it is registered under.
MachineIsAsRegistered ==
    cuts = 0 =>
        \A c \in Clients \ byHand : up[c] # None /\ run[c] = None =>
            /\ up[c].endpoint = Endpoint
            /\ Registered(file[c].device)
            /\ devices[file[c].device].key = file[c].private

\* A machine spends a token again only after it lost an answer or its run was cut short:
\* reruns, prepared keys and recovery by hand do not enrol again.
OneTokenPerDevice ==
    lost = {} /\ cuts = 0 =>
        Cardinality({t \in Tokens : tokens[t] # None /\ tokens[t].consumed})
            <= Cardinality({d \in Devices : Registered(d)})

\* The identity a machine persists is the one its key is registered under.
IdentityIsPermanent ==
    \A c \in Clients, d \in {e \in Devices : Registered(e)} :
        file[c].private = devices[d].key => file[c].device \in {None, d}
=============================================================================
