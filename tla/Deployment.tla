----------------------------- MODULE Deployment -----------------------------
(***************************************************************************)
(* The commands that deploy a gateway on its host: deploy of the command   *)
(* surface, which takes the exact public name, exposes it through          *)
(* gway-web and checks the result; the older deploy, which takes the base  *)
(* domain; and the installer by hand.  The steps of run[c].at are          *)
(*                                                                         *)
(*   patch     server.env takes the new name and provider                  *)
(*   keys ...  the installer, see ServerInstaller.tla                      *)
(*   expose    gway-web makes the name public                              *)
(*   check     the readiness checks                                        *)
(*   rollback  server.env is put back                                      *)
(*   ready, unready, gaveup     what the command answers                   *)
(*   raised    it answers nothing, an exception has left it                *)
(*                                                                         *)
(* Operators edit server.env and store credentials while no command runs.  *)
(***************************************************************************)
EXTENDS ServerInstaller

CONSTANTS
    Targets,        \* names a deployment may be asked for
    MaxEdits        \* bound on edits of server.env by hand

\* A line of server.env, whatever program or operator has written it.
Lines ==
    [key: {"base"}, value: Domains] \cup [key: {"provider"}, value: {"none", "godaddy"}]
      \cup [key: {"vpn", "register"}, value: Names]

\* What the enrolment service may be: whether it runs, with which settings and code.
ServiceStates ==
    [up: BOOLEAN, package: {None, Earlier, Checkout},
     values: [Settings -> Domains \cup Names \cup {"none", "godaddy", None}]]

ASSUME DeploymentAssumption ==
    /\ Targets \subseteq Names
    /\ None \notin Seq(Lines)
    /\ None \notin Domains \cup Names
    /\ None \notin {"none", "godaddy"} /\ None \notin {Earlier, Checkout}
    /\ None \notin ServiceStates
    /\ MaxEdits \in Nat

VARIABLES
    exposed,        \* names gway-web has made public
    edits           \* edits of server.env by hand

vars == <<hostVars, run, failures, kills, exposed, edits>>

\* What the installer takes from its caller: BASE_DOMAIN, and of DNS_PROVIDER,
\* VPN_HOSTNAME and REGISTER_HOSTNAME the defaults, but for those that a command sets.
Shell(d) == [base |-> d, provider |-> "none", vpn |-> Name("vpn", d), register |-> Name("register", d)]

\* The host before the first deployment: nothing; a WireGuard server of Phase 1;
\* one whose configuration was written by hand; a gateway of Phase 3, whose
\* server.env has no DNS settings.
OldService(d) == [up |-> TRUE, values |-> Values(<<[key |-> "base", value |-> d]>>), package |-> Earlier]
NewHost(key, key2, text, old, serving) ==
    /\ privateKey = key /\ publicKey = key
    /\ conf = key2 /\ interface = key2
    /\ env = text /\ package = old /\ service = serving
    /\ database = (serving # None)
Init ==
    /\ \/ NewHost(None, None, None, None, None)
       \/ NewHost(None, ManualKey, None, None, None)
       \/ \E k \in Keys : NewHost(k, k, None, None, None)
       \/ \E k \in Keys, d \in Domains :
             NewHost(k, k, <<[key |-> "base", value |-> d]>>, Earlier, OldService(d))
    /\ credentials = FALSE
    /\ run = [c \in Commands |-> None]
    /\ failures = 0 /\ kills = 0
    /\ exposed = {} /\ edits = 0

-----------------------------------------------------------------------------
(* The readiness of server.env.                                            *)

\* _readiness without an expected domain.
Readiness(text, dns) ==
    /\ text # None
    /\ database
    /\ LET values == Values(text)
       IN  /\ values.base # None
           /\ dns => Provider(values) # "none"
           /\ Provider(values) # "none" => credentials
           /\ values.vpn = Name("vpn", values.base)
           /\ values.register = Name("register", values.base)

\* _domain_preflight: is the domain configured, or can it be deployed?
MutDeployable(d, dns) == env = None \/ Readiness(env, dns)
Deployable(d, dns) ==
    \/ env = None
    \/ env # None /\ Values(env).base = d /\ Readiness(env, dns)

-----------------------------------------------------------------------------
(* The commands.                                                           *)

Quiet == \A c \in Commands : run[c] = None

Begins(c, op, at, target, provider, dns, shell) ==
    /\ run[c] = None
    /\ run' = [run EXCEPT ![c] =
          [op |-> op, at |-> at, torn |-> FALSE, target |-> target, provider |-> provider,
           dns |-> dns, shell |-> shell, before |-> env, original |-> None, clean |-> TRUE,
           predicted |-> op = "legacy" /\ Deployable(target.domain, dns)]]
    /\ UNCHANGED <<hostVars, failures, kills, exposed, edits>>

\* _selected_provider: the option, or what server.env has; None is none.
Selected(option) ==
    IF option # None \/ Provider(Values(Text)) = "none" THEN option ELSE Provider(Values(Text))
With(shell, provider) == IF provider = None THEN shell ELSE [shell EXCEPT !.provider = provider]

StartDeploy(c) ==
    \E target \in Targets, d \in Domains, option \in {None, "godaddy"}, dns \in BOOLEAN :
        Begins(c, "deploy", "patch", target, Selected(option), dns,
               With([Shell(d) EXCEPT !.register = target], Selected(option)))

StartLegacyDeploy(c) ==
    \E d \in Domains, option \in {None, "godaddy"}, dns \in BOOLEAN :
        Begins(c, "legacy", "patch", Name("register", d), option, dns, With(Shell(d), option))

\* deploy of gway_wireguard, and the script by hand.
StartInstall(c) ==
    \E d \in Domains : Begins(c, "install", "keys", Name("register", d), None, FALSE, Shell(d))

\* _replace_env_values and _set_existing_dns_provider.
MutPatched(text, r) ==
    IF r.op = "legacy" THEN SetValue(text, "provider", r.provider)
    ELSE IF r.provider = None THEN text ELSE ReplaceValue(text, "provider", r.provider)
Patched(text, r) ==
    IF r.op = "legacy" THEN SetValue(text, "provider", r.provider)
    ELSE LET named == ReplaceValue(text, "register", r.target)
         IN  IF r.provider = None THEN named ELSE ReplaceValue(named, "provider", r.provider)
Patches(r) == env # None /\ ~(r.op = "legacy" /\ r.provider = None)
Patch(c) ==
    /\ At(c, "patch")
    /\ \/ /\ ~run[c].torn /\ ~Patches(run[c])
          /\ Goes(c, "keys")
          /\ UNCHANGED env
       \/ /\ ~run[c].torn /\ Patches(run[c])
          /\ env' = <<>>
          /\ run' = [run EXCEPT ![c].torn = TRUE, ![c].original = env]
       \/ /\ run[c].torn
          /\ env' = Patched(run[c].original, run[c])
          /\ Goes(c, "keys")
    /\ UNCHANGED <<keyVars, package, database, credentials, service, failures, kills,
                   exposed, edits>>

Install(c) == InstallerStep(c) /\ UNCHANGED <<exposed, edits>>

\* _run_installer: a script that is not found, or a bash that does not start, raises
\* out of the command, and nothing puts server.env back.
InstallerRaises(c) ==
    /\ At(c, "keys") /\ run[c].op # "install"
    /\ failures < MaxFailures
    /\ failures' = failures + 1
    /\ run' = [run EXCEPT ![c].at = "raised", ![c].clean = FALSE]
    /\ UNCHANGED <<hostVars, kills, exposed, edits>>

\* exposure_ensure of gway-web: transactional, and it may raise.
Expose(c) ==
    /\ At(c, "expose")
    /\ \/ exposed' = exposed \cup {run[c].target} /\ Goes(c, "check") /\ UNCHANGED failures
       \/ Fails(c) /\ UNCHANGED exposed
    /\ UNCHANGED <<hostVars, kills, edits>>

\* What a command has to put back: the original text, or no file.
MutRollback(c) ==
    /\ At(c, "rollback")
    /\ \/ ~run[c].torn /\ run[c].original = None /\ Goes(c, "gaveup") /\ UNCHANGED env
       \/ ~run[c].torn /\ run[c].original # None /\ env' = <<>> /\ Tears(c)
       \/ run[c].torn /\ env' = run[c].original /\ Goes(c, "gaveup")
    /\ UNCHANGED <<keyVars, package, database, credentials, service, failures, kills, exposed, edits>>
Rollback(c) ==
    /\ At(c, "rollback")
    /\ \/ ~run[c].torn /\ run[c].original = None /\ env' = None /\ Goes(c, "gaveup")
       \/ ~run[c].torn /\ run[c].original # None /\ env' = <<>> /\ Tears(c)
       \/ run[c].torn /\ env' = run[c].original /\ Goes(c, "gaveup")
    /\ UNCHANGED <<keyVars, package, database, credentials, service, failures, kills,
                   exposed, edits>>

\* The parts of check: the configuration with the exact name, the interface and
\* its listener, the enrolment service, the web exposure, gway.conf.
LocalConfig(r) == Readiness(env, r.dns) /\ Values(env).register = r.target
WireguardUp == interface \notin {None, Keyless}
EnrollmentUp == service # None /\ service.up
WebUp(r) == r.target \in exposed
PeersReadable == conf # None
Checked(r) == LocalConfig(r) /\ WireguardUp /\ EnrollmentUp /\ WebUp(r) /\ PeersReadable
\* The older deploy asks for the configuration alone.
Answer(r) ==
    IF r.op = "deploy" THEN Checked(r)
    ELSE Readiness(env, r.dns) /\ Values(env).base = r.target.domain
Check(c) ==
    /\ At(c, "check")
    /\ \/ Goes(c, IF Answer(run[c]) THEN "ready" ELSE "unready") /\ UNCHANGED failures
       \/ /\ run[c].op = "deploy"
          /\ failures < MaxFailures
          /\ failures' = failures + 1
          /\ run' = [run EXCEPT ![c].at = "unready", ![c].clean = FALSE]
    /\ UNCHANGED <<hostVars, kills, exposed, edits>>

Finished == {"ready", "unready", "gaveup", "raised"}
Returns(c) ==
    /\ run[c] # None /\ run[c].at \in Finished
    /\ run' = [run EXCEPT ![c] = None]
    /\ UNCHANGED <<hostVars, failures, kills, exposed, edits>>

\* A command dies with the script it runs.
Kill(c) ==
    /\ run[c] # None /\ run[c].at \notin Finished
    /\ kills < MaxKills
    /\ kills' = kills + 1
    /\ run' = [run EXCEPT ![c] = None]
    /\ UNCHANGED <<hostVars, failures, exposed, edits>>

-----------------------------------------------------------------------------
(* The host and its operator.                                              *)

Reboot ==
    /\ kills < MaxKills
    /\ kills' = kills + 1
    /\ run' = [c \in Commands |-> None]
    /\ interface' = IF interface = None THEN None ELSE conf
    /\ service' = IF service = None THEN None ELSE Stopped
    /\ UNCHANGED <<env, privateKey, publicKey, conf, package, database, credentials,
                   failures, exposed, edits>>

\* By hand: another VPN name, DNS off.
Edit ==
    /\ Quiet
    /\ env # None
    /\ edits < MaxEdits
    /\ edits' = edits + 1
    /\ \/ \E d \in Domains : env' = SetValue(env, "vpn", Name("vpn", d))
       \/ env' = SetValue(env, "provider", "none")
    /\ UNCHANGED <<keyVars, package, database, credentials, service, run, failures, kills, exposed>>

StoreCredentials ==
    /\ Quiet
    /\ ~credentials
    /\ credentials' = TRUE
    /\ UNCHANGED <<env, keyVars, package, database, service, run, failures, kills, exposed, edits>>

Next ==
    \/ \E c \in Commands :
          \/ StartDeploy(c) \/ StartLegacyDeploy(c) \/ StartInstall(c)
          \/ Patch(c) \/ Install(c) \/ InstallerRaises(c) \/ Expose(c) \/ Rollback(c) \/ Check(c)
          \/ Returns(c) \/ Kill(c)
    \/ Reboot \/ Edit \/ StoreCredentials
    \/ (ServiceCrash \/ ServiceRestart) /\ UNCHANGED <<exposed, edits>>

Spec == Init /\ [][Next]_vars

-----------------------------------------------------------------------------
(* Correctness.                                                            *)

IsText(text) == text \in Seq(Lines)
Texts == Seq(Lines) \cup {None}
Steps ==
    {"patch", "keys", "genkey", "publish", "conf", "files", "env", "validate", "registry", "dns",
     "services", "expose", "check", "rollback", "ready", "unready", "gaveup", "raised"}
ShellValues == [base: Domains, provider: {"none", "godaddy"}, vpn: Names, register: Names]
Command ==
    [op: {"deploy", "legacy", "install"}, at: Steps, torn: BOOLEAN, target: Names,
     provider: {None, "none", "godaddy"}, dns: BOOLEAN, shell: ShellValues,
     before: Texts, original: Texts, clean: BOOLEAN, predicted: BOOLEAN]
ASSUME CommandAssumption == None \notin Command
HostKeys == Keys \cup {None, ManualKey, Keyless}

\* Type correctness: of the texts of server.env, the keys, and what commands carry.
DeploymentTypeOK ==
    /\ env \in Texts
    /\ privateKey \in Keys \cup {None} /\ publicKey \in Keys \cup {None}
    /\ conf \in HostKeys /\ interface \in HostKeys
    /\ package \in {None, Earlier, Checkout}
    /\ run \in [Commands -> Command \cup {None}]
    /\ service # None /\ service.up => service.package \in {Earlier, Checkout}
    /\ exposed \subseteq Targets

Answers(c, op, answer) == run[c] # None /\ run[c].op = op /\ run[c].at = answer

\* A deployment that answers it has failed leaves the server.env it found, or none.
FailedDeployRestores ==
    \A c \in Commands : Answers(c, "deploy", "gaveup") => env = run[c].before

\* No command changes the base domain or a VPN name that server.env had.
SettingsAreKept ==
    \A c \in Commands : run[c] # None /\ run[c].at \in Finished /\ run[c].before # None =>
        /\ env # None
        /\ \A k \in {"base", "vpn"} :
              ValueOf(run[c].before, k) # None => ValueOf(env, k) = ValueOf(run[c].before, k)

\* The key that devices are told is the one the interface has, unless gway.conf
\* was written by somebody else; no death or reboot parts the two.
OneGatewayKey ==
    publicKey # None /\ interface \notin {None, Keyless, ManualKey} => interface = publicKey

\* What a deployment reports ready is what runs: the enrolment service has the
\* configuration of server.env and the code of the checkout, and the interface has
\* the published key, on a host whose gway.conf was not written by somebody else.
ReadyIsRunning ==
    \A c \in Commands : Answers(c, "deploy", "ready") =>
        /\ service.up => service.values = Values(env) /\ service.package = Checkout
        /\ interface # ManualKey => interface = publicKey

\* The documentation's meaning of ready: that a device which enrols is given the key
\* of the interface it is to connect to, whoever wrote gway.conf.
ReadyMeansConnectable ==
    \A c \in Commands : Answers(c, "deploy", "ready") => interface = publicKey

\* A deployment without DNS, of the name register.<base domain>, is ready when
\* nothing went wrong with it, unless an earlier one left gway.conf without a key.
OwnNames(r) ==
    IF r.before = None
    THEN r.target = Name("register", r.shell.base)
    ELSE LET base == ValueOf(r.before, "base")
         IN  /\ r.target = Name("register", base)
             /\ \/ ValueOf(r.before, "vpn") = Name("vpn", base)
                \/ ValueOf(r.before, "vpn") = None /\ r.shell.vpn = Name("vpn", base)
CleanDeployIsReady ==
    \A c \in Commands :
        (/\ run[c] # None /\ run[c].op = "deploy" /\ run[c].at \in Finished
         /\ conf # Keyless /\ run[c].clean
         /\ ~run[c].dns /\ run[c].provider = None /\ OwnNames(run[c]))
        => run[c].at = "ready"

\* A domain that the older check calls deployable is deployed by the older
\* command, unless it demands DNS of a host that has no server.env.
PreflightIsRight ==
    \A c \in Commands :
        (/\ run[c] # None /\ run[c].op = "legacy" /\ run[c].at \in Finished
         /\ run[c].predicted /\ run[c].clean /\ run[c].provider = None
         /\ run[c].before = None => ~run[c].dns)
        => run[c].at = "ready"
==============================================================================
