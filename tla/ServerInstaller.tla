--------------------------- MODULE ServerInstaller ---------------------------
(***************************************************************************)
(* The host of a gateway and server/install.sh, one step per function of   *)
(* the script.  A redirection truncates a file before it writes it, and    *)
(* rm -rf goes before cp: where the script may die in between, a step has  *)
(* two halves.                                                             *)
(*                                                                         *)
(* The script is run by hand or by one of the commands of Deployment.tla.  *)
(* The fields of run[c] it uses are op, at, torn, original, clean, and     *)
(* shell, the environment it was given.  What it does to the registry, the *)
(* hosts file and the zone is in EnrollmentService.tla and PublicDns.tla;  *)
(* here it succeeds or fails.                                              *)
(***************************************************************************)
EXTENDS EnvironmentFile

CONSTANTS
    Commands,       \* commands an administrator may have running
    Domains,        \* base domains
    Labels,         \* the first labels of public names
    DefaultDomain,  \* arthexis.com
    Keys,           \* private keys wg genkey may make
    ManualKey,      \* the private key of a gway.conf that somebody else wrote
    Keyless,        \* a gway.conf without a private key, an interface without one
    MaxFailures,    \* bound on steps that fail for no reason in this model, and crashes of the service
    MaxKills        \* bound on commands that are killed and on reboots

ASSUME InstallerAssumption ==
    /\ {"vpn", "register"} \subseteq Labels
    /\ DefaultDomain \in Domains
    /\ ManualKey \notin Keys /\ Keyless \notin Keys /\ None \notin Keys
    /\ ManualKey # Keyless /\ None \notin {ManualKey, Keyless}
    /\ MaxFailures \in Nat
    /\ MaxKills \in Nat

VARIABLES
    env,            \* the lines of server.env, or None
    privateKey,     \* server.key; a missing and an empty file are the same to -s
    publicKey,      \* server.pub: the private key it was made from
    conf,           \* the private key in gway.conf, Keyless, or None: no such file
    interface,      \* what the running interface was started from, or None
    package,        \* version of the code under INSTALL_DIR, or None
    database,       \* the registry has been initialised
    credentials,    \* the operator has stored the provider's credentials
    service,        \* the enrolment service, and what it was started with
    run,            \* the command in progress
    failures, kills \* what has failed and been killed so far

keyVars == <<privateKey, publicKey, conf, interface>>
hostVars == <<env, keyVars, package, database, credentials, service>>

Name(label, d) == [label |-> label, domain |-> d]
Names == [label: Labels, domain: Domains]

\* Versions of the code: the checkout's, and that of an earlier phase.
Checkout == 1
Earlier == 0

\* What the code reads where a setting is missing.
Provider(values) == IF values.provider = None THEN "none" ELSE values.provider
Base(values) == IF values.base = None THEN DefaultDomain ELSE values.base
Host(values, k) == IF values[k] = None THEN Name(k, Base(values)) ELSE values[k]

Text == IF env = None THEN <<>> ELSE env

\* DNSSettings.validate, which is called only with a provider.
ValidDns(values) ==
    \/ Provider(values) = "none"
    \/ /\ credentials
       /\ \A k \in {"vpn", "register"} : Host(values, k).domain = Base(values)
       /\ Host(values, "vpn") # Host(values, "register")

-----------------------------------------------------------------------------
At(c, step) == run[c] # None /\ run[c].at = step

Goes(c, step) == run' = [run EXCEPT ![c].at = step, ![c].torn = FALSE]
Tears(c) == run' = [run EXCEPT ![c].torn = TRUE]

\* The script has ended: what follows depends on who ran it.
AfterInstall(r) == CASE r.op = "install" -> "ready" [] r.op = "deploy" -> "expose" [] OTHER -> "check"
AfterFailure(r) ==
    IF r.op = "deploy" \/ (r.op = "legacy" /\ r.original # None) THEN "rollback" ELSE "gaveup"
Dies(c) == Goes(c, AfterFailure(run[c]))

\* A step fails for a reason outside this model.
Fails(c) ==
    /\ failures < MaxFailures
    /\ failures' = failures + 1
    /\ run' = [run EXCEPT ![c].at = AfterFailure(run[c]), ![c].torn = FALSE, ![c].clean = FALSE]

\* prepare_keys: a key only where there is none, and its public half every time.
MutLacksKey == TRUE
LacksKey == privateKey = None
PrepareKeys(c) ==
    /\ \/ At(c, "keys") /\ Goes(c, IF LacksKey THEN "genkey" ELSE "publish")
          /\ UNCHANGED <<privateKey, publicKey>>
       \/ At(c, "genkey") /\ ~run[c].torn /\ privateKey' = None /\ Tears(c) /\ UNCHANGED publicKey
       \/ At(c, "genkey") /\ run[c].torn /\ privateKey' \in Keys /\ Goes(c, "publish")
          /\ UNCHANGED publicKey
       \/ At(c, "publish") /\ ~run[c].torn /\ publicKey' = None /\ Tears(c) /\ UNCHANGED privateKey
       \/ At(c, "publish") /\ run[c].torn /\ publicKey' = privateKey /\ Goes(c, "conf")
          /\ UNCHANGED privateKey
    /\ UNCHANGED <<env, conf, interface, package, database, credentials, service, failures, kills>>

\* ensure_wireguard_config: only where there is no such file.
EnsureConf(c) ==
    /\ At(c, "conf")
    /\ \/ run[c].torn /\ conf' = privateKey /\ Goes(c, "files")
       \/ ~run[c].torn /\ conf = None /\ conf' = Keyless /\ Tears(c)
       \/ ~run[c].torn /\ conf # None /\ Goes(c, "files") /\ UNCHANGED conf
    /\ UNCHANGED <<env, privateKey, publicKey, interface, package, database, credentials,
                   service, failures, kills>>

\* install_server_files.
InstallFiles(c) ==
    /\ At(c, "files")
    /\ \/ ~run[c].torn /\ package' = None /\ Tears(c)
       \/ run[c].torn /\ package' = Checkout /\ Goes(c, "env")
    /\ UNCHANGED <<env, keyVars, database, credentials, service, failures, kills>>

\* ensure_environment: a new file, or one line after the other.
Lacks(k) == ~Has(env, k)
NextMissing ==
    IF Lacks("provider") THEN "provider" ELSE IF Lacks("vpn") THEN "vpn" ELSE "register"
MutEnsureEnvironment(c) ==
    /\ At(c, "env")
    /\ \/ run[c].torn /\ env' = NewText(run[c].shell) /\ Goes(c, "validate")
       \/ ~run[c].torn /\ env' = <<>> /\ Tears(c)
    /\ UNCHANGED <<keyVars, package, database, credentials, service, failures, kills>>
EnsureEnvironment(c) ==
    /\ At(c, "env")
    /\ \/ run[c].torn /\ env' = NewText(run[c].shell) /\ Goes(c, "validate")
       \/ ~run[c].torn /\ env = None /\ env' = <<>> /\ Tears(c)
       \/ /\ ~run[c].torn /\ env # None
          /\ \E k \in {"provider", "vpn", "register"} : Lacks(k)
          /\ env' = AppendIfMissing(env, NextMissing, run[c].shell[NextMissing])
          /\ UNCHANGED run
       \/ /\ ~run[c].torn /\ env # None
          /\ \A k \in {"provider", "vpn", "register"} : ~Lacks(k)
          /\ Goes(c, "validate")
          /\ UNCHANGED env
    /\ UNCHANGED <<keyVars, package, database, credentials, service, failures, kills>>

\* validate_dns_configuration.  load_environment fails where there is no server.env
\* any more, here and in the two functions that follow.
ValidateDns(c) ==
    /\ At(c, "validate")
    /\ IF env = None \/ (Provider(Values(Text)) # "none" /\ ~credentials)
       THEN Dies(c) ELSE Goes(c, "registry")
    /\ UNCHANGED <<hostVars, failures, kills>>

\* initialize_registry: init and sync-hosts.
InitializeRegistry(c) ==
    /\ At(c, "registry")
    /\ \/ env # None /\ database' = TRUE /\ Goes(c, "dns") /\ UNCHANGED failures
       \/ env # None /\ database' \in {database, TRUE} /\ Fails(c)
       \/ env = None /\ Dies(c) /\ UNCHANGED <<database, failures>>
    /\ UNCHANGED <<env, keyVars, package, credentials, service, kills>>

\* initialize_dns: sync_dns with a provider, whose settings must be valid.
InitializeDns(c) ==
    /\ At(c, "dns")
    /\ \/ env # None /\ ValidDns(Values(Text)) /\ Goes(c, "services") /\ UNCHANGED failures
       \/ (env = None \/ ~ValidDns(Values(Text))) /\ Dies(c) /\ UNCHANGED failures
       \/ Provider(Values(Text)) # "none" /\ Fails(c)
    /\ UNCHANGED <<hostVars, kills>>

\* The unit's EnvironmentFile must exist, the package must be there, and the
\* service exits when its DNS settings are not valid.
MutStartable == env # None /\ ValidDns(Values(Text))
Startable == env # None /\ package # None /\ ValidDns(Values(Text))
Stopped == [up |-> FALSE, values |-> Values(<<>>), package |-> None]
Started ==
    IF Startable THEN [up |-> TRUE, values |-> Values(Text), package |-> package] ELSE Stopped

\* enable_services: an active interface is left alone, the service restarted, which
\* fails at once without the unit's EnvironmentFile.
MutRestarted == IF service # None /\ service.up THEN service ELSE Started
Restarted == Started
\* Each systemctl may fail, and so may what the script reads and prints after them.
InterfaceStarted == IF interface = None THEN conf ELSE interface
EnableServices(c) ==
    /\ At(c, "services")
    /\ \/ /\ interface' = InterfaceStarted
          /\ service' = Restarted
          /\ IF env = None THEN Dies(c) ELSE Goes(c, AfterInstall(run[c]))
          /\ UNCHANGED failures
       \/ Fails(c) /\ UNCHANGED <<interface, service>>
       \/ /\ Fails(c)
          /\ interface' = InterfaceStarted
          /\ service' \in {service, Stopped, Restarted}
    /\ UNCHANGED <<env, privateKey, publicKey, conf, package, database, credentials, kills>>

\* set -e: a command of one of these steps fails and ends the script.  What the step
\* has truncated stays truncated.
StepFails(c) ==
    /\ run[c] # None
    /\ run[c].at \in {"keys", "genkey", "publish", "conf", "files", "env", "validate"}
    /\ Fails(c)
    /\ UNCHANGED <<hostVars, kills>>

InstallerStep(c) ==
    \/ PrepareKeys(c) \/ EnsureConf(c) \/ InstallFiles(c) \/ EnsureEnvironment(c) \/ ValidateDns(c)
    \/ InitializeRegistry(c) \/ InitializeDns(c) \/ EnableServices(c) \/ StepFails(c)

-----------------------------------------------------------------------------
(* systemd.                                                                *)

ServiceCrash ==
    /\ service # None /\ service.up
    /\ failures < MaxFailures
    /\ failures' = failures + 1
    /\ service' = Stopped
    /\ run' = [c \in Commands |-> IF run[c] = None THEN None ELSE [run[c] EXCEPT !.clean = FALSE]]
    /\ UNCHANGED <<env, keyVars, package, database, credentials, kills>>

\* Restart=on-failure, every two seconds.
ServiceRestart ==
    /\ service # None /\ ~service.up
    /\ Startable
    /\ service' = Started
    /\ UNCHANGED <<env, keyVars, package, database, credentials, run, failures, kills>>
==============================================================================
