---------------------- MODULE DeploymentReadinessProofs ----------------------
(***************************************************************************)
(* What a deployment answers, proved for commands that do not overlap: a   *)
(* gateway reported ready is the one that runs, and two promises, that of  *)
(* the older command's check and that of a gateway of its own names, are   *)
(* kept whenever nothing went wrong.                                       *)
(***************************************************************************)
EXTENDS DeploymentProofs

\* A command that has moved keeps what it was given.
Same(r, r2) ==
    /\ r2 \in Command
    /\ r2.op = r.op /\ r2.target = r.target /\ r2.provider = r.provider /\ r2.dns = r.dns
    /\ r2.shell = r.shell /\ r2.before = r.before /\ r2.predicted = r.predicted

LEMMA GoesTo ==
    ASSUME CommandsOK, NEW c \in Commands, run[c] # None, NEW step \in Steps, Goes(c, step)
    PROVE  \E r2 : /\ run' = [run EXCEPT ![c] = r2]
                   /\ Same(run[c], r2)
                   /\ r2.at = step /\ ~r2.torn /\ r2.clean = run[c].clean
                   /\ r2.original = run[c].original
  <1> DEFINE r2 == [run[c] EXCEPT !.at = step, !.torn = FALSE]
  <1>1. run[c] \in Command
    BY DEF CommandsOK, CommandOK
  <1>2. run' = [run EXCEPT ![c] = r2]
    BY <1>1 DEF Goes, CommandsOK
  <1>3. /\ Same(run[c], r2)
        /\ r2.at = step /\ ~r2.torn /\ r2.clean = run[c].clean
        /\ r2.original = run[c].original
    BY <1>1 DEF Same, Command
  <1> QED BY <1>2, <1>3

LEMMA TearsTo ==
    ASSUME CommandsOK, NEW c \in Commands, run[c] # None, Tears(c)
    PROVE  \E r2 : /\ run' = [run EXCEPT ![c] = r2]
                   /\ Same(run[c], r2)
                   /\ r2.at = run[c].at /\ r2.torn /\ r2.clean = run[c].clean
                   /\ r2.original = run[c].original
  <1> DEFINE r2 == [run[c] EXCEPT !.torn = TRUE]
  <1>1. run[c] \in Command
    BY DEF CommandsOK, CommandOK
  <1>2. run' = [run EXCEPT ![c] = r2]
    BY <1>1 DEF Tears, CommandsOK
  <1>3. /\ Same(run[c], r2)
        /\ r2.at = run[c].at /\ r2.torn /\ r2.clean = run[c].clean
        /\ r2.original = run[c].original
    BY <1>1 DEF Same, Command
  <1> QED BY <1>2, <1>3

LEMMA FailsTo ==
    ASSUME CommandsOK, NEW c \in Commands, run[c] # None, Fails(c)
    PROVE  \E r2 : /\ run' = [run EXCEPT ![c] = r2]
                   /\ Same(run[c], r2)
                   /\ r2.at \in {"rollback", "gaveup"} /\ ~r2.torn /\ ~r2.clean
                   /\ r2.original = run[c].original
  <1> DEFINE step == AfterFailure(run[c])
             r2 == [run[c] EXCEPT !.at = step, !.torn = FALSE, !.clean = FALSE]
  <1>1. run[c] \in Command
    BY DEF CommandsOK, CommandOK
  <1>2. run' = [run EXCEPT ![c] = r2]
    BY <1>1 DEF Fails, CommandsOK
  <1>3. step = "rollback" \/ step = "gaveup"
    BY Zenon DEF AfterFailure
  <1>4. step \in Steps
    BY <1>3 DEF Steps
  <1> HIDE DEF step
  <1>5. /\ Same(run[c], r2)
        /\ r2.at = step /\ ~r2.torn /\ ~r2.clean
        /\ r2.original = run[c].original
    BY <1>1, <1>4 DEF Same, Command
  <1> QED BY <1>2, <1>3, <1>5

LEMMA DiesTo ==
    ASSUME CommandsOK, NEW c \in Commands, run[c] # None, Dies(c)
    PROVE  \E r2 : /\ run' = [run EXCEPT ![c] = r2]
                   /\ Same(run[c], r2)
                   /\ r2.at \in {"rollback", "gaveup"} /\ ~r2.torn
                   /\ r2.original = run[c].original
  <1>1. AfterFailure(run[c]) = "rollback" \/ AfterFailure(run[c]) = "gaveup"
    BY Zenon DEF AfterFailure
  <1>2. PICK step \in {"rollback", "gaveup"} : Goes(c, step)
    BY <1>1 DEF Dies
  <1> QED BY <1>2, GoesTo DEF Steps

\* A check that finds nothing wrong answers; one that fails answers too.
LEMMA ChecksTo ==
    ASSUME CommandsOK, NEW c \in Commands, run[c] # None, Check(c)
    PROVE  \E r2 : /\ run' = [run EXCEPT ![c] = r2]
                   /\ Same(run[c], r2)
                   /\ r2.at \in {"ready", "unready"}
                   /\ r2.at = "ready" => Answer(run[c])
                   /\ r2.at = "unready" => ~Answer(run[c]) \/ ~r2.clean
                   /\ r2.clean => run[c].clean
                   /\ r2.original = run[c].original
  <1>1. run[c] \in Command
    BY DEF CommandsOK, CommandOK
  <1>2. CASE Goes(c, IF Answer(run[c]) THEN "ready" ELSE "unready")
    <2>1. PICK step \in {"ready", "unready"} : /\ Goes(c, step)
                                               /\ step = "ready" => Answer(run[c])
                                               /\ step = "unready" => ~Answer(run[c])
      BY <1>2, Zenon
    <2> QED BY <2>1, GoesTo DEF Steps
  <1>3. CASE run' = [run EXCEPT ![c].at = "unready", ![c].clean = FALSE]
    <2> DEFINE r2 == [run[c] EXCEPT !.at = "unready", !.clean = FALSE]
    <2>1. run' = [run EXCEPT ![c] = r2]
      BY <1>1, <1>3 DEF CommandsOK
    <2>2. /\ Same(run[c], r2)
          /\ r2.at = "unready" /\ ~r2.clean
          /\ r2.original = run[c].original
      BY <1>1 DEF Same, Command, Steps
    <2> QED BY <2>1, <2>2
  <1> QED BY <1>2, <1>3 DEF Check

LEMMA RaisesTo ==
    ASSUME CommandsOK, NEW c \in Commands, InstallerRaises(c)
    PROVE  \E r2 : /\ run' = [run EXCEPT ![c] = r2]
                   /\ r2.at = "raised" /\ ~r2.clean /\ r2.original = run[c].original
  <1> DEFINE r2 == [run[c] EXCEPT !.at = "raised", !.clean = FALSE]
  <1>1. run[c] \in Command
    BY DEF CommandsOK, CommandOK, InstallerRaises, At
  <1>2. run' = [run EXCEPT ![c] = r2]
    BY <1>1 DEF InstallerRaises, CommandsOK
  <1>3. r2.at = "raised" /\ ~r2.clean /\ r2.original = run[c].original
    BY <1>1 DEF Command
  <1> QED BY <1>2, <1>3

\* A patch moves on, or keeps the text it is about to replace.
LEMMA PatchTearsTo ==
    ASSUME CommandsOK, env \in Texts, NEW c \in Commands, run[c] # None, run[c].at = "patch",
           run' = [run EXCEPT ![c].torn = TRUE, ![c].original = env]
    PROVE  \E r2 : /\ run' = [run EXCEPT ![c] = r2]
                   /\ Same(run[c], r2)
                   /\ r2.at = "patch" /\ r2.torn /\ r2.clean = run[c].clean
                   /\ r2.original = env
  <1> DEFINE r2 == [run[c] EXCEPT !.torn = TRUE, !.original = env]
  <1>1. run[c] \in Command
    BY DEF CommandsOK, CommandOK
  <1>2. run' = [run EXCEPT ![c] = r2]
    BY <1>1 DEF CommandsOK
  <1>3. /\ Same(run[c], r2)
        /\ r2.at = "patch" /\ r2.torn /\ r2.clean = run[c].clean
        /\ r2.original = env
    BY <1>1 DEF Same, Command
  <1> QED BY <1>2, <1>3

\* What a command begins with.
BeginsDeploy(r) ==
    /\ r.op = "deploy" /\ r.at = "patch"
    /\ r.provider = None => Provider(Values(Text)) = "none"
    /\ \E d \in Domains : r.shell = With([Shell(d) EXCEPT !.register = r.target], r.provider)
BeginsLegacy(r) ==
    /\ r.op = "legacy" /\ r.at = "patch"
    /\ \E d \in Domains :
          /\ r.target = Name("register", d)
          /\ r.shell = With(Shell(d), r.provider)
          /\ r.predicted => Deployable(d, r.dns)
BeginsInstall(r) == r.op = "install" /\ r.at = "keys"

LEMMA BeginsTo ==
    ASSUME TypeInv, NEW c \in Commands, StartDeploy(c) \/ StartLegacyDeploy(c) \/ StartInstall(c)
    PROVE  /\ UNCHANGED <<hostVars, failures, kills, exposed, edits>>
           /\ \E r : /\ run' = [run EXCEPT ![c] = r]
                     /\ r.before = env /\ r.original = None /\ ~r.torn
                     /\ BeginsDeploy(r) \/ BeginsLegacy(r) \/ BeginsInstall(r)
  <1>1. CASE StartDeploy(c)
    <2>1. PICK target \in Targets, d \in Domains, option \in {None, "godaddy"}, dns \in BOOLEAN :
             Begins(c, "deploy", "patch", target, Selected(option), dns,
                    With([Shell(d) EXCEPT !.register = target], Selected(option)))
      BY <1>1 DEF StartDeploy
    <2>2. Selected(option) = None => Provider(Values(Text)) = "none"
      BY ProviderValue, DeploymentAssumption DEF Selected, TypeInv
    <2> DEFINE shell == With([Shell(d) EXCEPT !.register = target], Selected(option))
               predicted == "deploy" = "legacy" /\ Deployable(target.domain, dns)
               r == [op |-> "deploy", at |-> "patch", torn |-> FALSE, target |-> target,
                     provider |-> Selected(option), dns |-> dns, shell |-> shell, before |-> env,
                     original |-> None, clean |-> TRUE, predicted |-> predicted]
    <2>3. run' = [run EXCEPT ![c] = r] /\ UNCHANGED <<hostVars, failures, kills, exposed, edits>>
      BY <2>1 DEF Begins
    <2> HIDE DEF shell, predicted
    <2>4. /\ r.before = env /\ r.original = None /\ ~r.torn /\ r.op = "deploy" /\ r.at = "patch"
          /\ r.provider = Selected(option) /\ r.target = target /\ r.shell = shell
      OBVIOUS
    <2> HIDE DEF r
    <2>5. r.shell = With([Shell(d) EXCEPT !.register = r.target], r.provider)
      BY <2>4 DEF shell
    <2>6. BeginsDeploy(r)
      BY <2>2, <2>4, <2>5 DEF BeginsDeploy
    <2> QED BY <2>3, <2>4, <2>6
  <1>2. CASE StartLegacyDeploy(c)
    <2>1. PICK d \in Domains, option \in {None, "godaddy"}, dns \in BOOLEAN :
             Begins(c, "legacy", "patch", Name("register", d), option, dns, With(Shell(d), option))
      BY <1>2 DEF StartLegacyDeploy
    <2> DEFINE shell == With(Shell(d), option)
               target == Name("register", d)
               predicted == "legacy" = "legacy" /\ Deployable(target.domain, dns)
               r == [op |-> "legacy", at |-> "patch", torn |-> FALSE, target |-> target,
                     provider |-> option, dns |-> dns, shell |-> shell, before |-> env,
                     original |-> None, clean |-> TRUE, predicted |-> predicted]
    <2>2. run' = [run EXCEPT ![c] = r] /\ UNCHANGED <<hostVars, failures, kills, exposed, edits>>
      BY <2>1 DEF Begins
    <2>3. target.domain = d
      BY DEF Name
    <2> HIDE DEF shell, target, predicted
    <2>4. /\ r.before = env /\ r.original = None /\ ~r.torn /\ r.op = "legacy" /\ r.at = "patch"
          /\ r.provider = option /\ r.target = target /\ r.shell = shell /\ r.dns = dns
          /\ r.predicted = predicted
      OBVIOUS
    <2> HIDE DEF r
    <2>5. r.predicted => Deployable(d, r.dns)
      BY <2>3, <2>4 DEF predicted
    <2>6. BeginsLegacy(r)
      BY <2>4, <2>5 DEF BeginsLegacy, shell, target
    <2> QED BY <2>2, <2>4, <2>6
  <1>3. CASE StartInstall(c)
    <2>1. PICK d \in Domains :
             Begins(c, "install", "keys", Name("register", d), None, FALSE, Shell(d))
      BY <1>3 DEF StartInstall
    <2> DEFINE predicted == "install" = "legacy" /\ Deployable(Name("register", d).domain, FALSE)
               r == [op |-> "install", at |-> "keys", torn |-> FALSE,
                     target |-> Name("register", d), provider |-> None, dns |-> FALSE,
                     shell |-> Shell(d), before |-> env,
                     original |-> None, clean |-> TRUE, predicted |-> predicted]
    <2>2. run' = [run EXCEPT ![c] = r] /\ UNCHANGED <<hostVars, failures, kills, exposed, edits>>
      BY <2>1 DEF Begins
    <2> HIDE DEF predicted
    <2>3. r.before = env /\ r.original = None /\ ~r.torn /\ r.op = "install" /\ r.at = "keys"
      OBVIOUS
    <2> HIDE DEF r
    <2> QED BY <2>2, <2>3 DEF BeginsInstall
  <1> QED BY <1>1, <1>2, <1>3

-----------------------------------------------------------------------------
(***************************************************************************)
(* How far a command is says what it has done to the host: the keys are    *)
(* there once it has published them, the code is the checkout's once the   *)
(* files are installed, and after the restart the service that is up runs  *)
(* that code with the server.env that is still there.  A crash or a        *)
(* restart by systemd does not change that; a reboot ends the command.     *)
(***************************************************************************)
Served == {"expose", "check", "ready"}
Installed == {"env", "validate", "registry", "dns", "services"} \cup Served
Published == {"conf", "files"} \cup Installed

RunsInv(r) ==
    /\ r.at \in {"publish"} \cup Published => privateKey # None
    /\ r.at \in Published => publicKey # None
    /\ r.at \in Installed => package = Checkout
    /\ r.at \in Served =>
          /\ env # None
          /\ service.up => service.values = Values(env) /\ service.package = Checkout
    /\ r.at = "ready" /\ r.op = "deploy" => interface \notin {None, Keyless}

RunsOK == \A c \in Commands : run[c] # None => RunsInv(run[c])

LEMMA SoleRun ==
    ASSUME Alone, CommandsOK, NEW c \in Commands, NEW r2, run' = [run EXCEPT ![c] = r2]
    PROVE  \A d \in Commands : d = c /\ run'[d] = r2
  BY DEF Alone, CommandsOK

LEMMA SoleRuns ==
    ASSUME Alone, CommandsOK, NEW c \in Commands, NEW r2, run' = [run EXCEPT ![c] = r2],
           r2 # None => RunsInv(r2)'
    PROVE  RunsOK'
  BY SoleRun DEF RunsOK

\* A command that fails has nothing to say of the host.
LEMMA FailsRuns ==
    ASSUME Alone, CommandsOK, NEW c \in Commands, run[c] # None, Fails(c) \/ Dies(c)
    PROVE  RunsOK'
  <1>1. PICK r2 : run' = [run EXCEPT ![c] = r2] /\ r2.at \in {"rollback", "gaveup"}
    BY FailsTo, DiesTo
  <1>2. RunsInv(r2)'
    BY <1>1 DEF RunsInv, Published, Installed, Served
  <1> QED BY <1>1, <1>2, SoleRuns

\* A command that leaves the host alone, or goes on to a step that says no more.
LEMMA GoesRuns ==
    ASSUME Alone, CommandsOK, RunsOK, NEW c \in Commands, run[c] # None,
           UNCHANGED <<privateKey, publicKey, package>>,
           run[c].at \notin Served, NEW step \in Steps \ Served, Goes(c, step),
           step \in {"publish"} \cup Published => run[c].at \in Published,
           step \in Installed => run[c].at \in Installed
    PROVE  RunsOK'
  <1>1. PICK r2 : run' = [run EXCEPT ![c] = r2] /\ r2.at = step
    BY GoesTo
  <1>2. RunsInv(r2)'
    BY <1>1 DEF RunsOK, RunsInv, Published, Installed, Served
  <1> QED BY <1>1, <1>2, SoleRuns

LEMMA PrepareRuns ==
    ASSUME Alone, CommandsOK, RunsOK, NEW c \in Commands, PrepareKeys(c)
    PROVE  RunsOK'
  <1>0. run[c] # None /\ run[c].at \in {"keys", "genkey", "publish"} /\ None \notin Keys
    BY InstallerAssumption DEF PrepareKeys, At
  <1>1. ASSUME Tears(c), UNCHANGED privateKey PROVE RunsOK'
    <2>1. PICK r2 : run' = [run EXCEPT ![c] = r2] /\ r2.at = run[c].at
      BY <1>0, <1>1, TearsTo
    <2>2. RunsInv(r2)'
      BY <1>0, <1>1, <2>1 DEF RunsOK, RunsInv, Published, Installed, Served
    <2> QED BY <2>1, <2>2, SoleRuns
  <1>2. ASSUME NEW step \in {"genkey", "publish", "conf"}, Goes(c, step),
               step # "genkey" => privateKey' # None, step = "conf" => publicKey' # None
        PROVE  RunsOK'
    <2>1. PICK r2 : run' = [run EXCEPT ![c] = r2] /\ r2.at = step
      BY <1>0, <1>2, GoesTo DEF Steps
    <2>2. RunsInv(r2)'
      BY <1>2, <2>1 DEF RunsInv, Published, Installed, Served
    <2> QED BY <2>1, <2>2, SoleRuns
  <1>3. CASE At(c, "keys") /\ Goes(c, IF LacksKey THEN "genkey" ELSE "publish")
             /\ UNCHANGED <<privateKey, publicKey>>
    BY <1>2, <1>3 DEF LacksKey
  <1>4. CASE At(c, "genkey") /\ ~run[c].torn /\ privateKey' = None /\ Tears(c) /\ UNCHANGED publicKey
    <2>1. PICK r2 : run' = [run EXCEPT ![c] = r2] /\ r2.at = "genkey"
      BY <1>0, <1>4, TearsTo DEF At
    <2>2. RunsInv(r2)'
      BY <2>1 DEF RunsInv, Published, Installed, Served
    <2> QED BY <2>1, <2>2, SoleRuns
  <1>5. CASE At(c, "genkey") /\ run[c].torn /\ privateKey' \in Keys /\ Goes(c, "publish")
    BY <1>0, <1>2, <1>5
  <1>6. CASE At(c, "publish") /\ ~run[c].torn /\ publicKey' = None /\ Tears(c) /\ UNCHANGED privateKey
    BY <1>1, <1>6
  <1>7. CASE At(c, "publish") /\ run[c].torn /\ publicKey' = privateKey /\ Goes(c, "conf")
             /\ UNCHANGED privateKey
    <2>1. privateKey # None
      BY <1>7 DEF At, RunsOK, RunsInv
    <2> QED BY <1>2, <1>7, <2>1
  <1> QED BY <1>3, <1>4, <1>5, <1>6, <1>7 DEF PrepareKeys

LEMMA FilesRuns ==
    ASSUME Alone, CommandsOK, RunsOK, NEW c \in Commands, InstallFiles(c)
    PROVE  RunsOK'
  <1>1. /\ run[c] # None /\ run[c].at = "files" /\ UNCHANGED <<privateKey, publicKey>>
        /\ privateKey # None /\ publicKey # None
    BY DEF InstallFiles, At, RunsOK, RunsInv, Published, keyVars
  <1>2. PICK r2 : /\ run' = [run EXCEPT ![c] = r2]
                  /\ r2.at = "files" \/ (r2.at = "env" /\ package' = Checkout)
    BY <1>1, TearsTo, GoesTo DEF InstallFiles, Steps
  <1>3. RunsInv(r2)'
    BY <1>1, <1>2 DEF RunsInv, Published, Installed, Served
  <1> QED BY <1>2, <1>3, SoleRuns

\* What the service is restarted with.
LEMMA RestartedWith ==
    ASSUME env # None, package = Checkout, service' = Started
    PROVE  service'.up => service'.values = Values(env) /\ service'.package = Checkout
  BY DEF Started, Stopped, Startable, Text

LEMMA ServicesRun ==
    ASSUME Alone, CommandsOK, RunsOK, NEW c \in Commands, EnableServices(c)
    PROVE  RunsOK'
  <1>1. /\ run[c] # None /\ run[c].at = "services"
        /\ UNCHANGED <<privateKey, publicKey, package, env>>
        /\ privateKey # None /\ publicKey # None /\ package = Checkout
    BY DEF EnableServices, At, RunsOK, RunsInv, Published, Installed
  <1>2. CASE env = None \/ Fails(c)
    BY <1>1, <1>2, FailsRuns DEF EnableServices
  <1>3. CASE env # None /\ ~Fails(c)
    <2>1. Goes(c, AfterInstall(run[c])) /\ service' = Started
      BY <1>3 DEF EnableServices, Restarted
    <2>2. /\ AfterInstall(run[c]) \in Served
          /\ AfterInstall(run[c]) = "ready" => run[c].op = "install"
      BY DEF AfterInstall, Served
    <2>3. PICK r2 : run' = [run EXCEPT ![c] = r2] /\ Same(run[c], r2) /\ r2.at = AfterInstall(run[c])
      BY <1>1, <2>1, <2>2, GoesTo DEF Steps, Served
    <2>4. service'.up => service'.values = Values(env') /\ service'.package = Checkout
      BY <1>1, <1>3, <2>1, RestartedWith
    <2>5. RunsInv(r2)'
      BY <1>1, <1>3, <2>2, <2>3, <2>4 DEF RunsInv, Same
    <2> QED BY <2>3, <2>5, SoleRuns
  <1> QED BY <1>2, <1>3

LEMMA InstallerRuns ==
    ASSUME Alone, CommandsOK, RunsOK, NEW c \in Commands, InstallerStep(c)
    PROVE  RunsOK'
  <1>1. CASE PrepareKeys(c)
    BY <1>1, PrepareRuns
  <1>2. CASE EnsureConf(c)
    <2>1. /\ run[c] # None /\ run[c].at = "conf"
          /\ UNCHANGED <<privateKey, publicKey, env, package, service, interface>>
      BY <1>2 DEF EnsureConf, At
    <2>2. PICK r2 : run' = [run EXCEPT ![c] = r2] /\ r2.at \in {"conf", "files"}
      BY <1>2, <2>1, TearsTo, GoesTo DEF EnsureConf, Steps
    <2>3. RunsInv(r2)'
      BY <2>1, <2>2 DEF RunsOK, RunsInv, Published, Installed, Served
    <2> QED BY <2>2, <2>3, SoleRuns
  <1>3. CASE InstallFiles(c)
    BY <1>3, FilesRuns
  <1>4. CASE EnsureEnvironment(c)
    <2>1. run[c] # None /\ run[c].at = "env" /\ UNCHANGED <<privateKey, publicKey, package>>
      BY <1>4 DEF EnsureEnvironment, At, keyVars
    <2>2. PICK r2 : run' = [run EXCEPT ![c] = r2] /\ r2.at \in {"env", "validate"}
      <3>1. CASE UNCHANGED run
        BY <2>1, <3>1 DEF CommandsOK
      <3>2. CASE Goes(c, "validate") \/ Tears(c)
        BY <2>1, <3>2, GoesTo, TearsTo DEF Steps
      <3> QED BY <1>4, <3>1, <3>2 DEF EnsureEnvironment
    <2>3. RunsInv(r2)'
      BY <2>1, <2>2 DEF RunsOK, RunsInv, Published, Installed, Served
    <2> QED BY <2>2, <2>3, SoleRuns
  <1>5. ASSUME run[c] # None, run[c].at \in {"validate", "registry", "dns"}, UNCHANGED <<keyVars, package>>,
               NEW step \in {"registry", "dns", "services"}, Goes(c, step)
        PROVE  RunsOK'
    BY <1>5, GoesRuns DEF keyVars, Steps, Published, Installed, Served
  <1>6. CASE ValidateDns(c)
    BY <1>5, <1>6, FailsRuns DEF ValidateDns, At, hostVars
  <1>7. CASE InitializeRegistry(c)
    BY <1>5, <1>7, FailsRuns DEF InitializeRegistry, At
  <1>8. CASE InitializeDns(c)
    BY <1>5, <1>8, FailsRuns DEF InitializeDns, At, hostVars
  <1>9. CASE EnableServices(c)
    BY <1>9, ServicesRun
  <1>10. CASE StepFails(c)
    BY <1>10, FailsRuns DEF StepFails
  <1> QED
    BY <1>1, <1>2, <1>3, <1>4, <1>6, <1>7, <1>8, <1>9, <1>10 DEF InstallerStep

LEMMA RunsInit == Init => RunsOK
  BY DEF Init, RunsOK

LEMMA StepKeepsRuns == Alone /\ TypeInv /\ RunsOK /\ [Next]_vars => RunsOK'
  <1> SUFFICES ASSUME Alone, TypeInv, RunsOK, [Next]_vars PROVE RunsOK'
    OBVIOUS
  <1>0. CommandsOK /\ env \in Texts
    BY DEF TypeInv
  <1>1. ASSUME NEW c \in Commands, StartDeploy(c) \/ StartLegacyDeploy(c) \/ StartInstall(c)
        PROVE  RunsOK'
    <2>1. PICK r : run' = [run EXCEPT ![c] = r] /\ r.at \in {"patch", "keys"}
      BY <1>1, BeginsTo DEF BeginsDeploy, BeginsLegacy, BeginsInstall
    <2>2. RunsInv(r)'
      BY <2>1 DEF RunsInv, Published, Installed, Served
    <2> QED BY <1>0, <2>1, <2>2, SoleRuns
  <1>2. ASSUME NEW c \in Commands, Install(c) PROVE RunsOK'
    BY <1>0, <1>2, InstallerRuns DEF Install
  <1>3. ASSUME NEW c \in Commands, Patch(c) \/ Rollback(c) PROVE RunsOK'
    <2>1. run[c] # None /\ run[c].at \in {"patch", "rollback"}
      BY <1>3 DEF Patch, Rollback, At
    <2>2. PICK r2 : run' = [run EXCEPT ![c] = r2] /\ r2.at \in {"patch", "keys", "rollback", "gaveup"}
      <3>1. CASE Goes(c, "keys") \/ Goes(c, "gaveup") \/ Tears(c)
        BY <1>0, <2>1, <3>1, GoesTo, TearsTo DEF Steps
      <3>2. CASE run[c].at = "patch" /\ run' = [run EXCEPT ![c].torn = TRUE, ![c].original = env]
        BY <1>0, <2>1, <3>2, PatchTearsTo
      <3> QED BY <1>3, <3>1, <3>2 DEF Patch, Rollback, At
    <2>3. RunsInv(r2)'
      BY <2>2 DEF RunsInv, Published, Installed, Served
    <2> QED BY <1>0, <2>2, <2>3, SoleRuns
  <1>4. ASSUME NEW c \in Commands, Expose(c) PROVE RunsOK'
    <2>1. run[c] # None /\ run[c].at = "expose" /\ UNCHANGED <<keyVars, env, package, service>>
      BY <1>4 DEF Expose, At, hostVars
    <2>2. CASE Goes(c, "check")
      <3>1. PICK r2 : run' = [run EXCEPT ![c] = r2] /\ r2.at = "check"
        BY <1>0, <2>1, <2>2, GoesTo DEF Steps
      <3>2. RunsInv(r2)'
        BY <2>1, <3>1 DEF RunsOK, RunsInv, Published, Installed, Served, keyVars
      <3> QED BY <1>0, <3>1, <3>2, SoleRuns
    <2>3. CASE Fails(c)
      BY <1>0, <2>1, <2>3, FailsRuns
    <2> QED BY <1>4, <2>2, <2>3 DEF Expose
  <1>5. ASSUME NEW c \in Commands, Check(c) PROVE RunsOK'
    <2>1. run[c] # None /\ run[c].at = "check" /\ UNCHANGED <<keyVars, env, package, service>>
      BY <1>5 DEF Check, At, hostVars
    <2>2. PICK r2 : /\ run' = [run EXCEPT ![c] = r2] /\ Same(run[c], r2)
                    /\ r2.at \in {"ready", "unready"}
                    /\ r2.at = "ready" => Answer(run[c])
      BY <1>0, <1>5, <2>1, ChecksTo
    <2>3. r2.at = "ready" /\ r2.op = "deploy" => interface \notin {None, Keyless}
      BY <2>2 DEF Answer, Checked, WireguardUp, Same
    <2>4. RunsInv(r2)'
      BY <2>1, <2>2, <2>3 DEF RunsOK, RunsInv, Published, Installed, Served, keyVars
    <2> QED BY <1>0, <2>2, <2>4, SoleRuns
  <1>6. ASSUME NEW c \in Commands, Returns(c) \/ Kill(c) PROVE RunsOK'
    BY <1>0, <1>6, SoleRuns DEF Returns, Kill
  <1>7. CASE Reboot
    BY <1>7 DEF Reboot, RunsOK
  <1>8. CASE Edit \/ StoreCredentials
    BY <1>8 DEF Edit, StoreCredentials, Quiet, RunsOK
  <1>9. CASE ServiceCrash
    <2>1. /\ UNCHANGED <<env, keyVars, package>> /\ service' = Stopped
          /\ run' = [c \in Commands |-> IF run[c] = None THEN None
                                         ELSE [run[c] EXCEPT !.clean = FALSE]]
      BY <1>9 DEF ServiceCrash
    <2>2. ASSUME NEW c \in Commands, run'[c] # None PROVE RunsInv(run[c])'
      <3>1. run[c] # None /\ run[c] \in Command /\ RunsInv(run[c])
        BY <1>0, <2>1, <2>2 DEF CommandsOK, CommandOK, RunsOK
      <3>2. run'[c].at = run[c].at /\ run'[c].op = run[c].op
        BY <2>1, <3>1 DEF Command
      <3> QED BY <2>1, <3>1, <3>2 DEF RunsInv, Stopped, keyVars
    <2> QED BY <2>2 DEF RunsOK
  <1>10. CASE ServiceRestart
    <2>1. UNCHANGED <<env, keyVars, package, run>> /\ service' = Started
      BY <1>10 DEF ServiceRestart
    <2>2. ASSUME NEW c \in Commands, run[c] # None PROVE RunsInv(run[c])'
      <3>1. RunsInv(run[c])
        BY <2>2 DEF RunsOK
      <3>2. run[c].at \in Served => env # None /\ package = Checkout
        BY <3>1 DEF RunsInv, Installed
      <3>3. run[c].at \in Served =>
               (service'.up => service'.values = Values(env) /\ service'.package = Checkout)
        BY <2>1, <3>2, RestartedWith
      <3> QED BY <2>1, <3>1, <3>3 DEF RunsInv, keyVars
    <2> QED BY <2>1, <2>2 DEF RunsOK
  <1>11. CASE UNCHANGED vars
    BY <1>11 DEF vars, hostVars, keyVars, RunsOK, RunsInv
  <1>12. ASSUME NEW c \in Commands, InstallerRaises(c) PROVE RunsOK'
    <2>1. PICK r2 : run' = [run EXCEPT ![c] = r2] /\ r2.at = "raised"
      BY <1>0, <1>12, RaisesTo
    <2>2. RunsInv(r2)'
      BY <2>1 DEF RunsInv, Published, Installed, Served
    <2> QED BY <1>0, <2>1, <2>2, SoleRuns
  <1> QED
    BY <1>1, <1>2, <1>3, <1>4, <1>5, <1>6, <1>7, <1>8, <1>9, <1>10, <1>11, <1>12 DEF Next

\* When commands do not overlap, what a deployment reports ready is what runs:
\* the service that is up has the configuration that server.env has and the code
\* of the checkout, and the interface, unless somebody else wrote its gway.conf, the
\* key that devices are told.
THEOREM ReadyGatewayRuns == Alone => (Spec => []ReadyIsRunning)
  <1> SUFFICES ASSUME Alone PROVE Spec => []ReadyIsRunning
    OBVIOUS
  <1>1. Init => TypeInv /\ KeyInv /\ RunsOK
    BY TypesInit, KeysInit, RunsInit
  <1>2. TypeInv /\ KeyInv /\ RunsOK /\ [Next]_vars => (TypeInv /\ KeyInv /\ RunsOK)'
    BY StepKeepsTypes, StepKeepsKeys, StepKeepsRuns
  <1>3. KeyInv /\ RunsOK => ReadyIsRunning
    <2> SUFFICES ASSUME KeyInv, RunsOK, NEW c \in Commands, Answers(c, "deploy", "ready")
                 PROVE  /\ service.up => service.values = Values(env) /\ service.package = Checkout
                        /\ interface # ManualKey => interface = publicKey
      BY DEF ReadyIsRunning
    <2>1. run[c].at = "ready" /\ run[c].op = "deploy" /\ RunsInv(run[c])
      BY DEF Answers, RunsOK
    <2> QED BY <2>1 DEF RunsInv, KeyInv, Served, Installed, Published
  <1> QED BY <1>1, <1>2, <1>3, PTL DEF Spec

-----------------------------------------------------------------------------
(***************************************************************************)
(* No program writes the register name twice into server.env.  This is so  *)
(* for any number of commands.                                             *)
(***************************************************************************)
OnceOK ==
    /\ env # None => Once(env, "register")
    /\ \A c \in Commands :
          run[c] # None /\ run[c].original # None => Once(run[c].original, "register")

LEMMA OriginalStays ==
    ASSUME CommandsOK, OnceOK, NEW c \in Commands, NEW r2, run' = [run EXCEPT ![c] = r2],
           r2 # None /\ r2.original # None => Once(r2.original, "register"),
           env' # None => Once(env', "register")
    PROVE  OnceOK'
  BY DEF OnceOK, CommandsOK

LEMMA MovesOnce ==
    ASSUME CommandsOK, OnceOK, NEW c \in Commands, run[c] # None,
           (\E step \in Steps : Goes(c, step)) \/ Tears(c) \/ Fails(c) \/ Dies(c) \/ UNCHANGED run,
           env' # None => Once(env', "register")
    PROVE  OnceOK'
  <1>1. PICK r2 : run' = [run EXCEPT ![c] = r2] /\ r2.original = run[c].original
    <2>1. CASE UNCHANGED run
      BY <2>1 DEF CommandsOK
    <2>2. CASE ~UNCHANGED run
      BY <2>2, GoesTo, TearsTo, FailsTo, DiesTo
    <2> QED BY <2>1, <2>2
  <1>2. r2 # None /\ r2.original # None => Once(r2.original, "register")
    BY <1>1 DEF OnceOK
  <1> QED BY <1>1, <1>2, OriginalStays

LEMMA EmptyOnce == Once(<<>>, "register")
  BY DEF Once

LEMMA ShellIsSettings ==
    ASSUME NEW shell \in ShellValues
    PROVE  shell \in [Settings -> AllValues]
  <1>1. DOMAIN shell = Settings /\ shell = [k \in Settings |-> shell[k]]
    BY DEF ShellValues, Settings
  <1>2. \A k \in Settings : shell[k] \in AllValues
    BY DEF ShellValues, Settings, AllValues
  <1> QED BY <1>1, <1>2

LEMMA NewFileReads ==
    ASSUME NEW shell \in ShellValues
    PROVE  \A k \in Settings : /\ Has(NewText(shell), k) /\ Once(NewText(shell), k)
                               /\ ValueOf(NewText(shell), k) = shell[k]
  <1>1. NewText(shell) \in TextsOf(AllValues) /\ shell \in [Settings -> AllValues]
    BY NewTextIsText, TextsAreTexts, ShellIsSettings
  <1> QED BY <1>1, NewTextReads

LEMMA AppendOnce ==
    ASSUME CommandsOK, OnceOK, env \in Texts, env # None, NEW c \in Commands, run[c] # None
    PROVE  Once(AppendIfMissing(env, NextMissing, run[c].shell[NextMissing]), "register")
  <1>1. NextMissing \in {"provider", "vpn", "register"} /\ run[c].shell \in ShellValues
    BY DEF NextMissing, CommandsOK, CommandOK, Command
  <1>2. NextMissing \in Settings /\ run[c].shell[NextMissing] \in AllValues
    BY <1>1 DEF Settings, ShellValues, AllValues
  <1>3. env \in TextsOf(AllValues) /\ Once(env, "register")
    BY TextsAreTexts DEF Texts, IsText, OnceOK
  <1> HIDE DEF NextMissing
  <1> QED BY <1>2, <1>3, OnceIsKept

LEMMA InstallerOnce ==
    ASSUME TypeInv, OnceOK, NEW c \in Commands, InstallerStep(c)
    PROVE  OnceOK'
  <1>0. CommandsOK /\ env \in Texts
    BY DEF TypeInv
  <1>1. CASE EnsureEnvironment(c)
    <2>1. run[c] # None /\ run[c].shell \in ShellValues
      BY <1>0, <1>1 DEF EnsureEnvironment, At, CommandsOK, CommandOK, Command
    <2>2. Once(NewText(run[c].shell), "register")
      BY <2>1, NewFileReads DEF Settings
    <2>3. env' # None => Once(env', "register")
      BY <1>0, <1>1, <2>1, <2>2, EmptyOnce, AppendOnce DEF EnsureEnvironment, OnceOK
    <2>4. (\E step \in Steps : Goes(c, step)) \/ Tears(c) \/ UNCHANGED run
      BY <1>1 DEF EnsureEnvironment, Steps
    <2> QED BY <1>0, <2>1, <2>3, <2>4, MovesOnce
  <1>2. ASSUME UNCHANGED env, run[c] # None,
               (\E step \in Steps : Goes(c, step)) \/ Tears(c) \/ Fails(c) \/ Dies(c)
        PROVE  OnceOK'
    <2>1. env' # None => Once(env', "register")
      BY <1>2 DEF OnceOK
    <2> QED BY <1>0, <1>2, <2>1, MovesOnce
  <1>3. CASE PrepareKeys(c)
    <2>1. (\E step \in Steps : Goes(c, step)) \/ Tears(c)
      BY <1>3 DEF PrepareKeys, Steps
    <2> QED BY <1>2, <1>3, <2>1 DEF PrepareKeys, At
  <1>4. CASE EnsureConf(c)
    BY <1>2, <1>4 DEF EnsureConf, At, Steps
  <1>5. CASE InstallFiles(c)
    BY <1>2, <1>5 DEF InstallFiles, At, Steps
  <1>6. CASE ValidateDns(c)
    BY <1>2, <1>6 DEF ValidateDns, At, Steps, hostVars
  <1>7. CASE InitializeRegistry(c)
    BY <1>2, <1>7 DEF InitializeRegistry, At, Steps
  <1>8. CASE InitializeDns(c)
    BY <1>2, <1>8 DEF InitializeDns, At, Steps, hostVars
  <1>9. CASE EnableServices(c)
    <2>1. AfterInstall(run[c]) \in Steps
      BY DEF AfterInstall, Steps
    <2> QED BY <1>2, <1>9, <2>1 DEF EnableServices, At
  <1>10. CASE StepFails(c)
    BY <1>2, <1>10 DEF StepFails, hostVars
  <1> QED
    BY <1>1, <1>3, <1>4, <1>5, <1>6, <1>7, <1>8, <1>9, <1>10 DEF InstallerStep

LEMMA PatchedOnce ==
    ASSUME NEW r, CommandOK(r), r.original # None, Once(r.original, "register"),
           r.op = "legacy" => r.provider # None
    PROVE  Once(Patched(r.original, r), "register")
  <1> DEFINE text == r.original
             named == ReplaceValue(text, "register", r.target)
  <1>1. /\ text \in TextsOf(AllValues) /\ r.target \in AllValues
        /\ r.provider # None => r.provider \in AllValues
    BY TextsAreTexts DEF CommandOK, Command, Texts, IsText, AllValues
  <1>2. "register" \in Settings /\ "provider" \in Settings
    BY DEF Settings
  <1>3. named \in TextsOf(AllValues) /\ Once(named, "register")
    BY <1>1, <1>2, ReplaceValueTakesEffect, OnceIsKept
  <1> HIDE DEF text, named
  <1>4. r.provider # None => /\ Once(SetValue(text, "provider", r.provider), "register")
                             /\ Once(ReplaceValue(named, "provider", r.provider), "register")
    BY <1>1, <1>2, <1>3, OnceIsKept DEF text
  <1> QED BY <1>3, <1>4 DEF Patched, text, named

LEMMA OnceInit == Init => OnceOK
  <1> SUFFICES ASSUME Init PROVE OnceOK
    OBVIOUS
  <1>1. \A c \in Commands : run[c] = None
    BY DEF Init
  <1>2. env # None => Once(env, "register")
    <2>1. CASE NewHost(None, None, None, None, None)
      BY <2>1 DEF NewHost
    <2>2. CASE NewHost(None, ManualKey, None, None, None)
      BY <2>2 DEF NewHost
    <2>3. CASE \E k \in Keys : NewHost(k, k, None, None, None)
      BY <2>3 DEF NewHost
    <2>4. CASE \E k \in Keys, d \in Domains :
                  NewHost(k, k, <<[key |-> "base", value |-> d]>>, Earlier, OldService(d))
      BY <2>4 DEF NewHost, Once
    <2> QED BY <2>1, <2>2, <2>3, <2>4 DEF Init
  <1> QED BY <1>1, <1>2 DEF OnceOK

LEMMA StepKeepsOnce == TypeInv /\ OnceOK /\ [Next]_vars => OnceOK'
  <1> SUFFICES ASSUME TypeInv, OnceOK, [Next]_vars PROVE OnceOK'
    OBVIOUS
  <1>0. CommandsOK /\ env \in Texts
    BY DEF TypeInv
  <1>1. ASSUME NEW c \in Commands, StartDeploy(c) \/ StartLegacyDeploy(c) \/ StartInstall(c)
        PROVE  OnceOK'
    <2>1. UNCHANGED env
      BY <1>1, BeginsTo DEF hostVars
    <2>2. PICK r : run' = [run EXCEPT ![c] = r] /\ r.original = None
      BY <1>1, BeginsTo
    <2> QED BY <1>0, <2>1, <2>2, OriginalStays DEF OnceOK
  <1>2. ASSUME NEW c \in Commands, Install(c) PROVE OnceOK'
    BY <1>2, InstallerOnce DEF Install
  <1>3. ASSUME NEW c \in Commands, Patch(c) PROVE OnceOK'
    <2>1. run[c] # None /\ run[c].at = "patch" /\ CommandOK(run[c])
      BY <1>0, <1>3 DEF Patch, At, CommandsOK
    <2>2. CASE Goes(c, "keys") /\ UNCHANGED env
      BY <1>0, <2>1, <2>2, MovesOnce DEF OnceOK, Steps
    <2>3. CASE /\ ~run[c].torn /\ Patches(run[c])
               /\ env' = <<>>
               /\ run' = [run EXCEPT ![c].torn = TRUE, ![c].original = env]
      <3>1. PICK r2 : run' = [run EXCEPT ![c] = r2] /\ r2.original = env
        BY <1>0, <2>1, <2>3, PatchTearsTo
      <3> QED BY <1>0, <2>3, <3>1, OriginalStays, EmptyOnce DEF OnceOK
    <2>4. CASE run[c].torn /\ env' = Patched(run[c].original, run[c]) /\ Goes(c, "keys")
      <3>1. /\ run[c].original # None /\ Once(run[c].original, "register")
            /\ run[c].op = "legacy" => run[c].provider # None
        BY <2>1, <2>4 DEF CommandOK, OnceOK
      <3>2. Once(env', "register")
        BY <2>1, <2>4, <3>1, PatchedOnce
      <3> QED BY <1>0, <2>1, <2>4, <3>2, MovesOnce DEF Steps
    <2> QED BY <1>3, <2>2, <2>3, <2>4 DEF Patch
  <1>4. ASSUME NEW c \in Commands, Rollback(c) PROVE OnceOK'
    <2>1. run[c] # None /\ (Goes(c, "gaveup") \/ Tears(c))
      BY <1>4 DEF Rollback, At
    <2>2. env' # None => Once(env', "register")
      BY <1>4, <2>1, EmptyOnce DEF Rollback, OnceOK
    <2> QED BY <1>0, <2>1, <2>2, MovesOnce DEF Steps
  <1>5. ASSUME NEW c \in Commands, Expose(c) PROVE OnceOK'
    <2>1. run[c] # None /\ (Goes(c, "check") \/ Fails(c)) /\ UNCHANGED env
      BY <1>5 DEF Expose, At, hostVars
    <2> QED BY <1>0, <2>1, MovesOnce DEF Steps, OnceOK
  <1>6. ASSUME NEW c \in Commands, Check(c) PROVE OnceOK'
    <2>1. run[c] # None /\ UNCHANGED env
      BY <1>6 DEF Check, At, hostVars
    <2>2. PICK r2 : run' = [run EXCEPT ![c] = r2] /\ r2.original = run[c].original
      BY <1>0, <1>6, <2>1, ChecksTo
    <2> QED BY <1>0, <2>1, <2>2, OriginalStays DEF OnceOK
  <1>7. ASSUME NEW c \in Commands, Returns(c) \/ Kill(c) PROVE OnceOK'
    BY <1>0, <1>7, OriginalStays DEF Returns, Kill, hostVars, OnceOK
  <1>8. CASE Reboot
    BY <1>8 DEF Reboot, OnceOK
  <1>9. CASE Edit
    <2>1. env # None /\ UNCHANGED run /\ env \in TextsOf(AllValues) /\ Once(env, "register")
      BY <1>0, <1>9, TextsAreTexts DEF Edit, Texts, IsText, OnceOK
    <2>2. ASSUME NEW d \in Domains PROVE Once(SetValue(env, "vpn", Name("vpn", d)), "register")
      <3>1. Name("vpn", d) \in AllValues /\ "vpn" \in Settings
        BY InstallerAssumption DEF Name, Names, AllValues, Settings
      <3> QED BY <2>1, <3>1, OnceIsKept
    <2>3. Once(SetValue(env, "provider", "none"), "register")
      <3>1. "none" \in AllValues /\ "provider" \in Settings
        BY DEF AllValues, Settings
      <3> QED BY <2>1, <3>1, OnceIsKept
    <2>4. Once(env', "register")
      BY <1>9, <2>2, <2>3 DEF Edit
    <2> QED BY <2>1, <2>4 DEF OnceOK
  <1>10. CASE StoreCredentials \/ ServiceRestart
    BY <1>10 DEF StoreCredentials, ServiceRestart, OnceOK
  <1>11. CASE ServiceCrash
    <2>1. \A c \in Commands : run[c] # None => [run[c] EXCEPT !.clean = FALSE].original = run[c].original
      BY <1>0 DEF CommandsOK, CommandOK, Command
    <2>2. /\ UNCHANGED env
          /\ run' = [c \in Commands |-> IF run[c] = None THEN None
                                         ELSE [run[c] EXCEPT !.clean = FALSE]]
      BY <1>11 DEF ServiceCrash
    <2>3. ASSUME NEW c \in Commands, run'[c] # None
          PROVE  run[c] # None /\ run'[c].original = run[c].original
      BY <2>1, <2>2, <2>3
    <2> QED BY <2>2, <2>3 DEF OnceOK
  <1>12. CASE UNCHANGED vars
    BY <1>12 DEF vars, hostVars, OnceOK
  <1>13. ASSUME NEW c \in Commands, InstallerRaises(c) PROVE OnceOK'
    <2>1. PICK r2 : run' = [run EXCEPT ![c] = r2] /\ r2.original = run[c].original
      BY <1>0, <1>13, RaisesTo
    <2>2. run[c] # None /\ UNCHANGED env
      BY <1>13 DEF InstallerRaises, At, hostVars
    <2> QED BY <1>0, <2>1, <2>2, OriginalStays DEF OnceOK
  <1> QED
    BY <1>1, <1>2, <1>3, <1>4, <1>5, <1>6, <1>7, <1>8, <1>9, <1>10, <1>11, <1>12, <1>13 DEF Next

-----------------------------------------------------------------------------
(***************************************************************************)
(* A gway.conf is there from the step that makes it on, and an interface   *)
(* from the start of the services.  No interface was started without a     *)
(* gway.conf, nor without a key from one that has a key: the command that  *)
(* is about to write the key has found no interface.                       *)
(***************************************************************************)
Configured == {"files"} \cup Installed

IntactOK ==
    /\ conf = None => interface = None
    /\ interface = Keyless => conf = Keyless
    /\ \A c \in Commands : run[c] # None =>
          /\ run[c].at \in Configured => conf # None
          /\ run[c].at \in Served => interface # None
          /\ run[c].at = "conf" /\ run[c].torn => interface = None

LEMMA IntactStays ==
    ASSUME Alone, CommandsOK, IntactOK, NEW c \in Commands, NEW r2, run' = [run EXCEPT ![c] = r2],
           UNCHANGED <<conf, interface>>,
           r2 # None => ~(r2.at = "conf" /\ r2.torn),
           r2 # None /\ r2.at \in Configured => run[c] # None /\ run[c].at \in Configured,
           r2 # None /\ r2.at \in Served => run[c] # None /\ run[c].at \in Served
    PROVE  IntactOK'
  <1>1. \A d \in Commands : d = c /\ run'[d] = r2
    BY SoleRun
  <1> QED BY <1>1 DEF IntactOK

LEMMA FailsIntact ==
    ASSUME Alone, CommandsOK, IntactOK, NEW c \in Commands, run[c] # None,
           UNCHANGED <<conf, interface>>, Fails(c) \/ Dies(c)
    PROVE  IntactOK'
  <1>1. PICK r2 : run' = [run EXCEPT ![c] = r2] /\ r2.at \in {"rollback", "gaveup"}
    BY FailsTo, DiesTo
  <1>2. r2.at \notin Configured /\ r2.at \notin Served
    BY <1>1 DEF Configured, Installed, Served
  <1> QED BY <1>1, <1>2, IntactStays

LEMMA ConfIntact ==
    ASSUME Alone, TypeInv, RunsOK, IntactOK, NEW c \in Commands, EnsureConf(c)
    PROVE  IntactOK'
  <1>1. /\ run[c] # None /\ run[c].at = "conf" /\ CommandsOK
        /\ privateKey # None /\ UNCHANGED interface /\ None # Keyless
    BY InstallerAssumption DEF EnsureConf, At, RunsOK, RunsInv, Published, TypeInv
  <1>2. CASE Goes(c, "files")
    <2>1. PICK r2 : run' = [run EXCEPT ![c] = r2] /\ r2.at = "files"
      BY <1>1, <1>2, GoesTo DEF Steps
    <2>2. \A d \in Commands : run'[d] = r2
      BY <1>1, <2>1, SoleRun
    <2>3. conf' # None /\ (UNCHANGED conf \/ interface = None)
      <3>1. CASE run[c].torn /\ conf' = privateKey
        BY <1>1, <3>1 DEF IntactOK
      <3>2. CASE ~run[c].torn /\ conf # None /\ UNCHANGED conf
        BY <3>2
      <3>3. CASE ~run[c].torn /\ Tears(c)
        <4>1. \A d \in Commands : run'[d].at = "conf"
          BY <1>1, <3>3, SoleStep DEF Alone
        <4> QED BY <2>1, <2>2, <4>1
      <3> QED BY <3>1, <3>2, <3>3 DEF EnsureConf
    <2> QED BY <1>1, <2>1, <2>2, <2>3 DEF IntactOK, Served
  <1>3. CASE ~run[c].torn /\ conf = None /\ conf' = Keyless /\ Tears(c)
    <2>1. PICK r2 : run' = [run EXCEPT ![c] = r2] /\ r2.at = "conf"
      BY <1>1, <1>3, TearsTo
    <2>2. \A d \in Commands : run'[d] = r2
      BY <1>1, <2>1, SoleRun
    <2>3. interface = None
      BY <1>3 DEF IntactOK
    <2> QED BY <1>1, <1>3, <2>1, <2>2, <2>3 DEF IntactOK, Configured, Installed, Served
  <1> QED BY <1>2, <1>3 DEF EnsureConf

LEMMA InstallerIntact ==
    ASSUME Alone, TypeInv, RunsOK, IntactOK, NEW c \in Commands, InstallerStep(c)
    PROVE  IntactOK'
  <1>0. CommandsOK
    BY DEF TypeInv
  <1>1. ASSUME UNCHANGED <<conf, interface>>, run[c] # None,
               NEW step \in Steps \ Served, Goes(c, step),
               step \in Configured => run[c].at \in Configured
        PROVE  IntactOK'
    <2>1. PICK r2 : run' = [run EXCEPT ![c] = r2] /\ r2.at = step /\ ~r2.torn
      BY <1>0, <1>1, GoesTo
    <2> QED BY <1>0, <1>1, <2>1, IntactStays
  <1>2. ASSUME UNCHANGED <<conf, interface>>, run[c] # None, run[c].at # "conf", Tears(c)
        PROVE  IntactOK'
    <2>1. PICK r2 : run' = [run EXCEPT ![c] = r2] /\ r2.at = run[c].at
      BY <1>0, <1>2, TearsTo
    <2> QED BY <1>0, <1>2, <2>1, IntactStays
  <1>3. ASSUME UNCHANGED <<conf, interface>>, run[c] # None, Fails(c) \/ Dies(c)
        PROVE  IntactOK'
    BY <1>0, <1>3, FailsIntact
  <1>4. CASE PrepareKeys(c)
    <2>1. /\ run[c] # None /\ run[c].at \in {"keys", "genkey", "publish"}
          /\ UNCHANGED <<conf, interface>>
      BY <1>4 DEF PrepareKeys, At
    <2>2. Tears(c) \/ \E step \in {"genkey", "publish", "conf"} : Goes(c, step)
      BY <1>4 DEF PrepareKeys
    <2> QED BY <1>1, <1>2, <2>1, <2>2 DEF Steps, Configured, Installed, Served
  <1>5. CASE EnsureConf(c)
    BY <1>5, ConfIntact
  <1>6. CASE InstallFiles(c)
    BY <1>1, <1>2, <1>6 DEF InstallFiles, At, Steps, keyVars, Configured, Installed, Served
  <1>7. CASE EnsureEnvironment(c)
    <2>1. run[c] # None /\ run[c].at = "env" /\ UNCHANGED <<conf, interface>>
      BY <1>7 DEF EnsureEnvironment, At, keyVars
    <2>2. CASE UNCHANGED run
      BY <2>1, <2>2 DEF IntactOK
    <2>3. CASE Tears(c) \/ Goes(c, "validate")
      BY <1>1, <1>2, <2>1, <2>3 DEF Steps, Configured, Installed, Served
    <2> QED BY <1>7, <2>2, <2>3 DEF EnsureEnvironment
  <1>8. CASE ValidateDns(c)
    BY <1>1, <1>3, <1>8 DEF ValidateDns, At, Steps, hostVars, keyVars, Configured, Installed, Served
  <1>9. CASE InitializeRegistry(c)
    BY <1>1, <1>3, <1>9 DEF InitializeRegistry, At, Steps, keyVars, Configured, Installed, Served
  <1>10. CASE InitializeDns(c)
    BY <1>1, <1>3, <1>10 DEF InitializeDns, At, Steps, hostVars, keyVars, Configured, Installed, Served
  <1>11. CASE EnableServices(c)
    <2>1. /\ run[c] # None /\ run[c].at = "services" /\ UNCHANGED conf /\ conf # None
          /\ (Fails(c) /\ UNCHANGED interface) \/ interface' = InterfaceStarted
      BY <1>11 DEF EnableServices, At, IntactOK, Configured, Installed
    <2>2. CASE Fails(c) /\ UNCHANGED interface
      BY <1>3, <2>1, <2>2
    <2>3. CASE interface' = InterfaceStarted
      <3>1. (\E step \in {"ready", "expose", "check", "rollback", "gaveup"} : Goes(c, step)) \/ Fails(c)
        BY <1>11 DEF EnableServices, Dies, AfterInstall, AfterFailure
      <3>2. PICK r2 : /\ run' = [run EXCEPT ![c] = r2]
                      /\ r2.at \in {"ready", "expose", "check", "rollback", "gaveup"}
        BY <1>0, <2>1, <3>1, GoesTo, FailsTo DEF Steps
      <3>3. \A d \in Commands : run'[d] = r2
        BY <1>0, <3>2, SoleRun
      <3>4. interface' # None /\ (interface' = Keyless => conf = Keyless)
        BY <2>1, <2>3 DEF InterfaceStarted, IntactOK
      <3> QED BY <2>1, <3>2, <3>3, <3>4 DEF IntactOK
    <2> QED BY <2>1, <2>2, <2>3
  <1>12. CASE StepFails(c)
    BY <1>3, <1>12 DEF StepFails, hostVars, keyVars
  <1> QED
    BY <1>4, <1>5, <1>6, <1>7, <1>8, <1>9, <1>10, <1>11, <1>12 DEF InstallerStep

LEMMA IntactInit == Init => IntactOK
  <1> SUFFICES ASSUME Init PROVE IntactOK
    OBVIOUS
  <1>1. \A c \in Commands : run[c] = None
    BY DEF Init
  <1>2. interface # Keyless /\ (conf = None => interface = None)
    <2>1. CASE NewHost(None, None, None, None, None)
      BY <2>1, InstallerAssumption DEF NewHost
    <2>2. CASE NewHost(None, ManualKey, None, None, None)
      BY <2>2, InstallerAssumption DEF NewHost
    <2>3. CASE \E k \in Keys : NewHost(k, k, None, None, None)
      BY <2>3, InstallerAssumption DEF NewHost
    <2>4. CASE \E k \in Keys, d \in Domains :
                  NewHost(k, k, <<[key |-> "base", value |-> d]>>, Earlier, OldService(d))
      BY <2>4, InstallerAssumption DEF NewHost
    <2> QED BY <2>1, <2>2, <2>3, <2>4 DEF Init
  <1> QED BY <1>1, <1>2 DEF IntactOK

LEMMA StepKeepsIntact == Alone /\ TypeInv /\ RunsOK /\ IntactOK /\ [Next]_vars => IntactOK'
  <1> SUFFICES ASSUME Alone, TypeInv, RunsOK, IntactOK, [Next]_vars PROVE IntactOK'
    OBVIOUS
  <1>0. CommandsOK /\ env \in Texts
    BY DEF TypeInv
  <1>1. ASSUME NEW c \in Commands, StartDeploy(c) \/ StartLegacyDeploy(c) \/ StartInstall(c)
        PROVE  IntactOK'
    <2>1. UNCHANGED <<conf, interface>> /\ run[c] = None
      BY <1>1, BeginsTo DEF hostVars, keyVars, StartDeploy, StartLegacyDeploy, StartInstall, Begins
    <2>2. PICK r : run' = [run EXCEPT ![c] = r] /\ r.at \in {"patch", "keys"}
      BY <1>1, BeginsTo DEF BeginsDeploy, BeginsLegacy, BeginsInstall
    <2>3. r.at \notin Configured /\ r.at \notin Served
      BY <2>2 DEF Configured, Installed, Served
    <2> QED BY <1>0, <2>1, <2>2, <2>3, IntactStays
  <1>2. ASSUME NEW c \in Commands, Install(c) PROVE IntactOK'
    BY <1>2, InstallerIntact DEF Install
  <1>3. ASSUME NEW c \in Commands, Patch(c) \/ Rollback(c) PROVE IntactOK'
    <2>1. /\ run[c] # None /\ run[c].at \in {"patch", "rollback"}
          /\ UNCHANGED <<conf, interface>>
      BY <1>3 DEF Patch, Rollback, At, keyVars
    <2>2. PICK r2 : run' = [run EXCEPT ![c] = r2] /\ r2.at \in {"patch", "keys", "rollback", "gaveup"}
      <3>1. CASE Goes(c, "keys") \/ Goes(c, "gaveup") \/ Tears(c)
        BY <1>0, <2>1, <3>1, GoesTo, TearsTo DEF Steps
      <3>2. CASE run[c].at = "patch" /\ run' = [run EXCEPT ![c].torn = TRUE, ![c].original = env]
        BY <1>0, <2>1, <3>2, PatchTearsTo
      <3> QED BY <1>3, <3>1, <3>2 DEF Patch, Rollback, At
    <2>3. r2.at \notin Configured /\ r2.at \notin Served
      BY <2>2 DEF Configured, Installed, Served
    <2> QED BY <1>0, <2>1, <2>2, <2>3, IntactStays
  <1>4. ASSUME NEW c \in Commands, Expose(c) PROVE IntactOK'
    <2>1. run[c] # None /\ run[c].at = "expose" /\ UNCHANGED <<conf, interface>>
      BY <1>4 DEF Expose, At, hostVars, keyVars
    <2>2. CASE Goes(c, "check")
      <3>1. PICK r2 : run' = [run EXCEPT ![c] = r2] /\ r2.at = "check"
        BY <1>0, <2>1, <2>2, GoesTo DEF Steps
      <3>2. run[c].at \in Served /\ run[c].at \in Configured
        BY <2>1 DEF Configured, Installed, Served
      <3> QED BY <1>0, <2>1, <3>1, <3>2, IntactStays
    <2>3. CASE Fails(c)
      BY <1>0, <2>1, <2>3, FailsIntact
    <2> QED BY <1>4, <2>2, <2>3 DEF Expose
  <1>5. ASSUME NEW c \in Commands, Check(c) PROVE IntactOK'
    <2>1. run[c] # None /\ run[c].at = "check" /\ UNCHANGED <<conf, interface>>
      BY <1>5 DEF Check, At, hostVars, keyVars
    <2>2. PICK r2 : run' = [run EXCEPT ![c] = r2] /\ r2.at \in {"ready", "unready"}
      BY <1>0, <1>5, <2>1, ChecksTo
    <2>3. run[c].at \in Served /\ run[c].at \in Configured
      BY <2>1 DEF Configured, Installed, Served
    <2> QED BY <1>0, <2>1, <2>2, <2>3, IntactStays
  <1>6. ASSUME NEW c \in Commands, Returns(c) \/ Kill(c) PROVE IntactOK'
    <2>1. run' = [run EXCEPT ![c] = None] /\ UNCHANGED <<conf, interface>>
      BY <1>6 DEF Returns, Kill, hostVars, keyVars
    <2> QED BY <1>0, <2>1, IntactStays
  <1>7. ASSUME NEW c \in Commands, InstallerRaises(c) PROVE IntactOK'
    <2>1. PICK r2 : run' = [run EXCEPT ![c] = r2] /\ r2.at = "raised"
      BY <1>0, <1>7, RaisesTo
    <2>2. UNCHANGED <<conf, interface>> /\ r2.at \notin Configured /\ r2.at \notin Served
      BY <1>7, <2>1 DEF InstallerRaises, hostVars, keyVars, Configured, Installed, Served
    <2> QED BY <1>0, <2>1, <2>2, IntactStays
  <1>8. CASE Reboot
    <2>1. /\ UNCHANGED conf /\ interface' = IF interface = None THEN None ELSE conf
          /\ \A d \in Commands : run'[d] = None
      BY <1>8 DEF Reboot
    <2> QED BY <2>1, InstallerAssumption DEF IntactOK
  <1>9. CASE Edit \/ StoreCredentials \/ ServiceRestart
    BY <1>9 DEF Edit, StoreCredentials, ServiceRestart, keyVars, IntactOK
  <1>10. CASE ServiceCrash
    <2>1. /\ UNCHANGED <<conf, interface>>
          /\ run' = [c \in Commands |-> IF run[c] = None THEN None
                                         ELSE [run[c] EXCEPT !.clean = FALSE]]
      BY <1>10 DEF ServiceCrash, keyVars
    <2>2. ASSUME NEW c \in Commands
          PROVE  /\ run'[c] = None <=> run[c] = None
                 /\ run[c] # None => run'[c].at = run[c].at /\ run'[c].torn = run[c].torn
      <3>1. CASE run[c] = None
        BY <2>1, <3>1
      <3>2. CASE run[c] # None
        <4> DEFINE r2 == [run[c] EXCEPT !.clean = FALSE]
        <4>1. run[c] \in Command /\ run'[c] = r2
          BY <1>0, <2>1, <3>2 DEF CommandsOK, CommandOK
        <4>2. r2.at = run[c].at /\ r2.torn = run[c].torn /\ r2 \in Command
          BY <4>1 DEF Command
        <4>3. r2 # None
          BY <4>2, CommandAssumption
        <4> QED BY <3>2, <4>1, <4>2, <4>3
      <3> QED BY <3>1, <3>2
    <2> QED BY <2>1, <2>2 DEF IntactOK
  <1>11. CASE UNCHANGED vars
    BY <1>11 DEF vars, hostVars, keyVars, IntactOK
  <1> QED
    BY <1>1, <1>2, <1>3, <1>4, <1>5, <1>6, <1>7, <1>8, <1>9, <1>10, <1>11 DEF Next

-----------------------------------------------------------------------------
(***************************************************************************)
(* The promises.  A command is promised to succeed by the older check that *)
(* found the domain deployable, or by the names it was given; nothing may  *)
(* go wrong on its way.  Then server.env is right at every step that reads *)
(* it: what it had fits, what is missing is added, and what the patch has  *)
(* replaced is read.                                                       *)
(***************************************************************************)
PromisedByCheck(r) ==
    /\ r.op = "legacy" /\ r.predicted /\ r.clean /\ r.provider = None
    /\ r.before = None => ~r.dns
PromisedByNames(r) ==
    /\ r.op = "deploy" /\ r.clean
    /\ ~r.dns /\ r.provider = None /\ OwnNames(r)
Promised(r) == PromisedByCheck(r) \/ PromisedByNames(r)

\* A text that the command need not change, but for the register name.
Registered(text, r) == ValueOf(text, "register") = r.target
Fits(text, r, stored) ==
    /\ text # None
    /\ ValueOf(text, "base") = r.target.domain
    /\ \/ ValueOf(text, "vpn") = Name("vpn", r.target.domain)
       \/ ~Has(text, "vpn") /\ r.shell.vpn = Name("vpn", r.target.domain)
    /\ r.dns => Provider(Values(text)) # "none"
    /\ Provider(Values(text)) # "none" => stored
Settled(text, r, stored) == Fits(text, r, stored) /\ Registered(text, r) /\ Has(text, "vpn")

\* What the command was given, and the text it has found.
Begun(r, stored) ==
    /\ r.target = Name("register", r.target.domain)
    /\ r.shell.provider = "none"
    /\ r.before = None => r.shell = Shell(r.target.domain)
    /\ r.before # None => Fits(r.before, r, stored)
    /\ r.op = "legacy" => r.original = None /\ (r.before # None => Registered(r.before, r))

Reinstalling == {"keys", "genkey", "publish", "conf", "files", "env"}
Initializing == {"validate", "registry", "dns", "services", "expose", "check"}

PromiseInv(r) ==
    Promised(r) =>
    /\ Begun(r, credentials)
    /\ r.at \notin {"rollback", "gaveup", "raised"}
    /\ r.at = "unready" => r.op = "deploy" /\ conf = Keyless
    /\ r.before = None /\ r.at \in {"patch"} \cup Reinstalling /\ ~(r.at = "env" /\ r.torn)
          => env = None
    /\ r.before # None /\ r.at \in Reinstalling => Fits(env, r, credentials) /\ Registered(env, r)
    /\ r.at \in Initializing => Settled(env, r, credentials)
    /\ r.at \in {"dns", "services", "expose", "check"} => database
    /\ r.op = "deploy" /\ r.at \in {"expose", "check"} => service # None /\ service.up
    /\ r.op = "deploy" /\ r.at = "check" => r.target \in exposed

PromiseOK == \A c \in Commands : run[c] # None => PromiseInv(run[c])

LEMMA SolePromise ==
    ASSUME Alone, CommandsOK, NEW c \in Commands, NEW r2, run' = [run EXCEPT ![c] = r2],
           r2 # None => PromiseInv(r2)'
    PROVE  PromiseOK'
  BY SoleRun DEF PromiseOK

\* A promise was made when the command began.
LEMMA SamePromise ==
    ASSUME NEW r, NEW r2, Same(r, r2), r2.clean => r.clean, Promised(r2)
    PROVE  Promised(r)
  BY DEF Same, Promised, PromisedByCheck, PromisedByNames, OwnNames

LEMMA SameFits ==
    ASSUME NEW r, NEW r2, Same(r, r2), NEW text, NEW stored
    PROVE  /\ Fits(text, r, stored) => Fits(text, r2, stored)
           /\ Registered(text, r) => Registered(text, r2)
           /\ Settled(text, r, stored) => Settled(text, r2, stored)
  BY DEF Same, Fits, Registered, Settled

LEMMA SameBegun ==
    ASSUME NEW r, NEW r2, Same(r, r2), NEW stored, Begun(r, stored),
           r.op = "legacy" => r2.original = r.original
    PROVE  Begun(r2, stored)
  <1>1. r.before # None => Fits(r.before, r2, stored)
    BY SameFits DEF Begun
  <1>2. r.before # None /\ r.op = "legacy" => Registered(r.before, r2)
    BY SameFits DEF Begun
  <1> QED BY <1>1, <1>2 DEF Begun, Same

\* What is known of a promised command that moves on without a mishap.
LEMMA PromiseCarried ==
    ASSUME PromiseOK, NEW c \in Commands, run[c] # None, NEW r2, Same(run[c], r2),
           r2.clean => run[c].clean, Promised(r2),
           run[c].op = "legacy" => r2.original = run[c].original
    PROVE  /\ Promised(run[c]) /\ PromiseInv(run[c])
           /\ Begun(run[c], credentials) /\ Begun(r2, credentials)
  <1>1. Promised(run[c]) /\ PromiseInv(run[c])
    BY SamePromise DEF PromiseOK
  <1>2. Begun(run[c], credentials)
    BY <1>1 DEF PromiseInv
  <1> QED BY <1>1, <1>2, SameBegun

LEMMA FailsPromise ==
    ASSUME Alone, CommandsOK, NEW c \in Commands, run[c] # None, Fails(c)
    PROVE  PromiseOK'
  <1>1. PICK r2 : run' = [run EXCEPT ![c] = r2] /\ ~r2.clean
    BY FailsTo
  <1>2. PromiseInv(r2)'
    BY <1>1 DEF PromiseInv, Promised, PromisedByCheck, PromisedByNames
  <1> QED BY <1>1, <1>2, SolePromise

\* The steps of the installer that leave server.env alone.
LEMMA ReinstallKeepsPromise ==
    ASSUME Alone, CommandsOK, PromiseOK, NEW c \in Commands, run[c] # None,
           run[c].at \in Reinstalling \ {"env"}, UNCHANGED <<env, credentials>>,
           NEW r2, run' = [run EXCEPT ![c] = r2], Same(run[c], r2), r2.clean = run[c].clean,
           r2.original = run[c].original, r2.at \in Reinstalling
    PROVE  PromiseOK'
  <1>1. ASSUME Promised(r2) PROVE PromiseInv(r2)'
    <2>1. PromiseInv(run[c]) /\ Promised(run[c]) /\ Begun(r2, credentials)
      BY <1>1, PromiseCarried
    <2>2. r2.before = None => env = None
      BY <2>1 DEF PromiseInv, Same, Reinstalling
    <2>3. r2.before # None => Fits(env, r2, credentials) /\ Registered(env, r2)
      BY <2>1, SameFits DEF PromiseInv, Same
    <2> QED BY <2>1, <2>2, <2>3 DEF PromiseInv, Reinstalling, Initializing
  <1>2. PromiseInv(r2)'
    BY <1>1 DEF PromiseInv
  <1> QED BY <1>2, SolePromise

\* The steps that follow, up to the answer.
LEMMA InitializingKeepsPromise ==
    ASSUME Alone, CommandsOK, PromiseOK, NEW c \in Commands, run[c] # None,
           run[c].at \in Initializing, UNCHANGED <<env, credentials>>,
           NEW step \in Initializing, Goes(c, step),
           Promised(run[c]) => 
              /\ step \in {"dns", "services", "expose", "check"} => database'
              /\ run[c].op = "deploy" /\ step \in {"expose", "check"} => (service # None /\ service.up)'
              /\ run[c].op = "deploy" /\ step = "check" => run[c].target \in exposed'
    PROVE  PromiseOK'
  <1>1. PICK r2 : /\ run' = [run EXCEPT ![c] = r2] /\ Same(run[c], r2)
                  /\ r2.clean = run[c].clean /\ r2.original = run[c].original /\ r2.at = step
    BY GoesTo DEF Initializing, Steps
  <1>2. ASSUME Promised(r2) PROVE PromiseInv(r2)'
    <2>1. PromiseInv(run[c]) /\ Promised(run[c]) /\ Begun(r2, credentials)
      BY <1>1, <1>2, PromiseCarried
    <2>2. Settled(env, r2, credentials)
      BY <1>1, <2>1, SameFits DEF PromiseInv
    <2>3. r2.at \notin {"patch"} \cup Reinstalling /\ r2.at \notin {"rollback", "gaveup", "raised", "unready"}
      BY <1>1 DEF Initializing, Reinstalling
    <2>4. r2.op = run[c].op /\ r2.target = run[c].target
      BY <1>1 DEF Same
    <2> QED BY <1>1, <2>1, <2>2, <2>3, <2>4 DEF PromiseInv
  <1>3. PromiseInv(r2)'
    BY <1>2 DEF PromiseInv
  <1> QED BY <1>1, <1>3, SolePromise

\* What the settings of a settled text are.
LEMMA SettledReads ==
    ASSUME NEW r, CommandOK(r), Begun(r, credentials), Settled(env, r, credentials)
    PROVE  /\ env # None /\ Text = env
           /\ Provider(Values(Text)) # "none" => credentials
           /\ ValidDns(Values(Text))
           /\ r.dns => Provider(Values(env)) # "none"
           /\ Values(env).base = r.target.domain /\ Values(env).base # None
           /\ Values(env).vpn = Name("vpn", r.target.domain)
           /\ Values(env).register = Name("register", r.target.domain)
  <1>1. env # None /\ Text = env /\ r.target.domain \in Domains
    BY DEF Settled, Fits, Text, CommandOK, Command, Names
  <1>2. /\ Values(env).base = r.target.domain /\ Values(env).base # None
        /\ Values(env).vpn = Name("vpn", r.target.domain)
        /\ Values(env).register = Name("register", r.target.domain)
    BY <1>1, DeploymentAssumption DEF Settled, Fits, Registered, Begun, Values, Settings
  <1> DEFINE d == r.target.domain
  <1>3. /\ Base(Values(env)) = d
        /\ Host(Values(env), "vpn") = Name("vpn", d)
        /\ Host(Values(env), "register") = Name("register", d)
    BY <1>2 DEF Base, Host
  <1>4. /\ Name("vpn", d).domain = d /\ Name("register", d).domain = d
        /\ Name("vpn", d) # Name("register", d)
    BY DEF Name
  <1>5. ValidDns(Values(Text))
    <2>1. Provider(Values(env)) # "none" => credentials
      BY DEF Settled, Fits
    <2> QED BY <1>1, <1>3, <1>4, <2>1 DEF ValidDns
  <1> QED BY <1>1, <1>2, <1>5 DEF Settled, Fits

\* A value that is read is one that was written.
LEMMA ValueRead ==
    ASSUME NEW text, IsText(text), NEW k
    PROVE  /\ Has(text, k) => ValueOf(text, k) \in AllValues
           /\ Has(text, k) /\ k = "vpn" => ValueOf(text, k) \in Names
           /\ ~Has(text, k) => ValueOf(text, k) = None
  <1>1. ASSUME Has(text, k)
        PROVE  ValueOf(text, k) \in AllValues /\ (k = "vpn" => ValueOf(text, k) \in Names)
    <2> DEFINE last == LastLine(text, k)
    <2>1. last \in DOMAIN text /\ text[last].key = k
      BY <1>1, TextsAreTexts, LastLineFound
    <2>2. text[last] \in Lines
      BY <2>1, Element DEF IsText
    <2>3. ValueOf(text, k) = text[last].value
      BY <1>1 DEF ValueOf
    <2> HIDE DEF last
    <2> QED BY <2>1, <2>2, <2>3 DEF Lines, AllValues
  <1>2. ~Has(text, k) => ValueOf(text, k) = None
    BY DEF ValueOf
  <1> QED BY <1>1, <1>2

LEMMA ServiceStarts ==
    ASSUME env \in Texts, Startable, package = Checkout
    PROVE  Started # None /\ Started.up
  <1>1. IsText(Text)
    BY EmptyIsText DEF Text, Texts, IsText
  <1>2. Values(Text) \in [Settings -> Domains \cup Names \cup {"none", "godaddy", None}]
    <2>1. \A k \in Settings : ValueOf(Text, k) \in AllValues \cup {None}
      BY <1>1, ValueRead
    <2> QED BY <2>1 DEF Values, AllValues
  <1> DEFINE values == Values(Text)
  <1>3. Started = [up |-> TRUE, values |-> values, package |-> Checkout]
    BY DEF Started
  <1> HIDE DEF values
  <1>4. Started \in ServiceStates
    BY <1>2, <1>3 DEF ServiceStates, values
  <1> QED BY <1>3, <1>4, DeploymentAssumption

\* A new server.env is right.
LEMMA NewFileSettled ==
    ASSUME NEW r, CommandOK(r), NEW stored, Begun(r, stored), r.before = None, ~r.dns
    PROVE  Settled(NewText(r.shell), r, stored)
  <1> DEFINE d == r.target.domain
  <1>1. r.shell = Shell(d) /\ r.shell \in ShellValues /\ r.target = Name("register", d)
    BY DEF Begun, CommandOK, Command
  <1>2. /\ ValueOf(NewText(r.shell), "base") = r.shell.base
        /\ ValueOf(NewText(r.shell), "provider") = r.shell.provider
        /\ ValueOf(NewText(r.shell), "vpn") = r.shell.vpn
        /\ ValueOf(NewText(r.shell), "register") = r.shell.register
        /\ Has(NewText(r.shell), "vpn")
    BY <1>1, NewFileReads DEF Settings
  <1>3. /\ r.shell.base = d /\ r.shell.provider = "none"
        /\ r.shell.vpn = Name("vpn", d) /\ r.shell.register = Name("register", d)
    BY <1>1 DEF Shell
  <1>4. NewText(r.shell) # None
    <2>1. NewText(r.shell) \in Seq(Lines)
      BY <1>1, NewTextIsText DEF IsText
    <2> QED BY <2>1, DeploymentAssumption
  <1>5. Provider(Values(NewText(r.shell))) = "none"
    BY <1>2, <1>3 DEF Provider, Values, Settings
  <1> QED
    BY <1>1, <1>2, <1>3, <1>4, <1>5 DEF Settled, Fits, Registered

\* What is missing is completed with what fits.
LEMMA CompletionFits ==
    ASSUME env \in Texts, env # None, NEW r, CommandOK(r), NEW stored, Begun(r, stored),
           Fits(env, r, stored), Registered(env, r)
    PROVE  LET new == AppendIfMissing(env, NextMissing, r.shell[NextMissing])
           IN  Fits(new, r, stored) /\ Registered(new, r)
  <1> DEFINE k == NextMissing
             v == r.shell[NextMissing]
             new == AppendIfMissing(env, k, v)
             d == r.target.domain
  <1>1. k \in {"provider", "vpn", "register"} /\ r.shell \in ShellValues
    BY DEF NextMissing, CommandOK, Command
  <1>2. k \in Settings /\ v \in AllValues /\ Line(k, v) \in Lines
    BY <1>1, ShellLines DEF Settings, ShellValues, AllValues
  <1>3. IsText(env) /\ env \in TextsOf(AllValues)
    BY TextsAreTexts DEF Texts, IsText
  <1>4. new # None
    <2>1. IsText(new)
      BY <1>2, <1>3, Written
    <2> QED BY <2>1, DeploymentAssumption DEF IsText
  <1>5. r.target \in Names /\ None \notin Names
    BY DeploymentAssumption DEF CommandOK, Command
  <1>6. v = r.shell[k]
    OBVIOUS
  <1> HIDE DEF k, v, new
  <1>7. /\ ValueOf(new, k) = IF Has(env, k) THEN ValueOf(env, k) ELSE v
        /\ \A k2 \in Settings \ {k} : ValueOf(new, k2) = ValueOf(env, k2)
    BY <1>2, <1>3, AppendIfMissingKeeps DEF new
  <1>8. \A k2 : Has(new, k2) <=> k2 = k \/ Has(env, k2)
    BY <1>2, <1>3, AppendedSetting DEF new
  <1>9. ValueOf(new, "base") = d
    BY <1>1, <1>7 DEF Fits, Settings
  <1>10. Registered(new, r)
    <2>1. Has(env, "register")
      BY <1>3, <1>5, ValueRead DEF Registered
    <2> QED BY <1>7, <2>1 DEF Registered, Settings
  <1>11. \/ ValueOf(new, "vpn") = Name("vpn", d)
         \/ ~Has(new, "vpn") /\ r.shell.vpn = Name("vpn", d)
    <2>1. CASE k = "vpn"
      <3>1. Name("vpn", d) # None
        BY <1>5, InstallerAssumption DEF Name, Names
      <3> QED BY <1>3, <1>6, <1>7, <2>1, <3>1, ValueRead DEF Fits
    <2>2. CASE k # "vpn"
      BY <1>7, <1>8, <2>2 DEF Fits, Settings
    <2> QED BY <2>1, <2>2
  <1>12. Provider(Values(new)) = Provider(Values(env))
    <2>1. CASE k = "provider" /\ ~Has(env, "provider")
      <3>1. ValueOf(new, "provider") = "none" /\ ValueOf(env, "provider") = None
        BY <1>6, <1>7, <2>1 DEF Begun, ValueOf
      <3> QED BY <3>1 DEF Provider, Values, Settings
    <2>2. CASE ~(k = "provider" /\ ~Has(env, "provider"))
      <3>1. ValueOf(new, "provider") = ValueOf(env, "provider")
        BY <1>7, <2>2 DEF Settings
      <3> QED BY <3>1 DEF Provider, Values, Settings
    <2> QED BY <2>1, <2>2
  <1>13. Fits(new, r, stored) /\ Registered(new, r)
    BY <1>4, <1>9, <1>10, <1>11, <1>12 DEF Fits
  <1> QED BY <1>13 DEF new, k, v

\* What a patch leaves is read, when it is the only line.
LEMMA PatchFits ==
    ASSUME NEW r, CommandOK(r), NEW stored, r.op = "deploy", r.provider = None,
           r.original # None, Once(r.original, "register"), Fits(r.original, r, stored)
    PROVE  LET new == Patched(r.original, r)
           IN  Fits(new, r, stored) /\ Registered(new, r)
  <1> DEFINE text == r.original
             new == ReplaceValue(text, "register", r.target)
  <1>1. /\ text \in TextsOf(AllValues) /\ r.target \in AllValues
        /\ "register" \in Settings /\ IsText(text)
        /\ Line("register", r.target) \in Lines
    BY TextsAreTexts DEF CommandOK, Command, Texts, IsText, AllValues, Settings, Line, Lines
  <1>2. new # None
    BY <1>1, Written, DeploymentAssumption DEF IsText
  <1>3. Once(text, "register") /\ Fits(text, r, stored)
    OBVIOUS
  <1> HIDE DEF text, new
  <1>4. /\ \A k \in Settings \ {"register"} : ValueOf(new, k) = ValueOf(text, k)
        /\ ValueOf(new, "register") = r.target
    BY <1>1, <1>3, ReplaceValueTakesEffect DEF new, Once
  <1>5. Has(new, "vpn") <=> Has(text, "vpn")
    BY <1>1, ReplacedSetting DEF new
  <1>6. Provider(Values(new)) = Provider(Values(text))
    BY <1>4 DEF Provider, Values, Settings
  <1>7. Fits(new, r, stored) /\ Registered(new, r)
    BY <1>2, <1>3, <1>4, <1>5, <1>6 DEF Fits, Registered, Settings
  <1>8. Patched(r.original, r) = new
    BY DEF Patched, new, text
  <1> QED BY <1>7, <1>8

LEMMA EnvironmentKeepsPromise ==
    ASSUME Alone, TypeInv, FileOK, PromiseOK, NEW c \in Commands, EnsureEnvironment(c)
    PROVE  PromiseOK'
  <1>1. /\ run[c] # None /\ run[c].at = "env" /\ CommandOK(run[c])
        /\ FileInv(run[c], env) /\ CommandsOK /\ env \in Texts
        /\ UNCHANGED credentials
    BY DEF TypeInv, CommandsOK, EnsureEnvironment, At, FileOK
  <1>2. ASSUME Promised(run[c])
        PROVE  /\ Begun(run[c], credentials)
               /\ run[c].before = None => ~run[c].dns /\ (run[c].torn \/ env = None)
               /\ run[c].before # None => /\ env # None
                                          /\ Fits(env, run[c], credentials)
                                          /\ Registered(env, run[c])
    <2>1. PromiseInv(run[c])
      BY <1>1 DEF PromiseOK
    <2>2. run[c].before = None => ~run[c].dns
      BY <1>2 DEF Promised, PromisedByCheck, PromisedByNames
    <2> QED BY <1>1, <1>2, <2>1, <2>2 DEF PromiseInv, Reinstalling, Fits
  <1>3. ASSUME Goes(c, "validate"),
               Promised(run[c]) => Settled(env', run[c], credentials)
        PROVE  PromiseOK'
    <2>1. PICK r2 : /\ run' = [run EXCEPT ![c] = r2] /\ Same(run[c], r2)
                    /\ r2.clean = run[c].clean /\ r2.original = run[c].original
                    /\ r2.at = "validate"
      BY <1>1, <1>3, GoesTo DEF Steps
    <2>2. ASSUME Promised(r2) PROVE PromiseInv(r2)'
      <3>1. Promised(run[c]) /\ Begun(r2, credentials)
        BY <1>1, <2>1, <2>2, PromiseCarried
      <3>2. Settled(env', r2, credentials)
        BY <1>3, <2>1, <3>1, SameFits
      <3> QED BY <1>1, <2>1, <3>1, <3>2 DEF PromiseInv, Reinstalling
    <2>3. PromiseInv(r2)'
      BY <1>1, <2>2 DEF PromiseInv
    <2> QED BY <1>1, <2>1, <2>3, SolePromise
  <1>4. CASE run[c].torn /\ env' = NewText(run[c].shell) /\ Goes(c, "validate")
    <2>1. run[c].before = None
      BY <1>1, <1>4 DEF FileInv
    <2>2. Promised(run[c]) => Settled(env', run[c], credentials)
      BY <1>1, <1>2, <1>4, <2>1, NewFileSettled
    <2> QED BY <1>3, <1>4, <2>2
  <1>5. CASE ~run[c].torn /\ env = None /\ env' = <<>> /\ Tears(c)
    <2>1. PICK r2 : /\ run' = [run EXCEPT ![c] = r2] /\ Same(run[c], r2)
                    /\ r2.clean = run[c].clean /\ r2.original = run[c].original
                    /\ r2.at = "env" /\ r2.torn
      BY <1>1, <1>5, TearsTo
    <2>2. ASSUME Promised(r2) PROVE PromiseInv(r2)'
      <3>1. Promised(run[c]) /\ Begun(r2, credentials)
        BY <1>1, <2>1, <2>2, PromiseCarried
      <3>2. r2.before = None
        BY <1>2, <1>5, <2>1, <3>1 DEF Same
      <3> QED BY <1>1, <2>1, <3>1, <3>2 DEF PromiseInv, Initializing
    <2>3. PromiseInv(r2)'
      BY <1>1, <2>2 DEF PromiseInv
    <2> QED BY <1>1, <2>1, <2>3, SolePromise
  <1>6. CASE /\ ~run[c].torn /\ env # None
             /\ env' = AppendIfMissing(env, NextMissing, run[c].shell[NextMissing])
             /\ UNCHANGED run
    <2>1. ASSUME Promised(run[c]) PROVE PromiseInv(run[c])'
      <3>1. /\ Begun(run[c], credentials) /\ run[c].before # None
            /\ Fits(env', run[c], credentials) /\ Registered(env', run[c])
        BY <1>1, <1>2, <1>6, <2>1, CompletionFits
      <3> QED BY <1>1, <1>6, <2>1, <3>1 DEF PromiseInv, Initializing
    <2>2. PromiseInv(run[c])'
      BY <1>1, <1>6, <2>1 DEF PromiseInv
    <2> QED BY <1>1, <1>6, <2>2 DEF PromiseOK, Alone
  <1>7. CASE /\ ~run[c].torn /\ env # None
             /\ \A k \in {"provider", "vpn", "register"} : ~Lacks(k)
             /\ Goes(c, "validate")
             /\ UNCHANGED env
    <2>1. Has(env, "vpn")
      BY <1>7 DEF Lacks
    <2>2. Promised(run[c]) => Settled(env', run[c], credentials)
      BY <1>2, <1>7, <2>1 DEF Settled
    <2> QED BY <1>3, <1>7, <2>2
  <1> QED
    BY <1>4, <1>5, <1>6, <1>7 DEF EnsureEnvironment

LEMMA ServicesKeepPromise ==
    ASSUME Alone, TypeInv, RunsOK, PromiseOK, NEW c \in Commands, EnableServices(c)
    PROVE  PromiseOK'
  <1>1. /\ run[c] # None /\ run[c].at = "services" /\ CommandOK(run[c])
        /\ CommandsOK /\ env \in Texts /\ package = Checkout
        /\ UNCHANGED <<env, credentials, database>>
    BY DEF TypeInv, CommandsOK, EnableServices, At, RunsOK, RunsInv, Installed
  <1>2. ASSUME Promised(run[c])
        PROVE  /\ env # None /\ database /\ ValidDns(Values(Text))
               /\ run[c].op = "deploy" \/ run[c].op = "legacy"
    <2>1. PromiseInv(run[c])
      BY <1>1 DEF PromiseOK
    <2>2. Begun(run[c], credentials) /\ Settled(env, run[c], credentials) /\ database
      BY <1>1, <1>2, <2>1 DEF PromiseInv, Initializing
    <2>3. run[c].op = "deploy" \/ run[c].op = "legacy"
      BY <1>2 DEF Promised, PromisedByCheck, PromisedByNames
    <2> QED BY <1>1, <2>2, <2>3, SettledReads
  <1>3. CASE Fails(c)
    BY <1>1, <1>3, FailsPromise
  <1>4. CASE Promised(run[c]) /\ ~Fails(c)
    <2>0. service' = Started /\ (env # None => Goes(c, AfterInstall(run[c])))
      BY <1>4 DEF EnableServices, Restarted
    <2>1. Startable
      BY <1>1, <1>2, <1>4, DeploymentAssumption DEF Startable
    <2>2. (service # None /\ service.up)'
      BY <1>1, <2>0, <2>1, ServiceStarts
    <2>3. /\ AfterInstall(run[c]) \in {"expose", "check"}
          /\ run[c].op = "deploy" => AfterInstall(run[c]) # "check"
      BY <1>2, <1>4 DEF AfterInstall
    <2>4. Goes(c, AfterInstall(run[c]))
      BY <1>2, <1>4, <2>0
    <2>5. PICK step \in {"expose", "check"} : Goes(c, step) /\ (run[c].op = "deploy" => step # "check")
      BY <2>3, <2>4
    <2> QED BY <1>1, <1>2, <1>4, <2>2, <2>5, InitializingKeepsPromise DEF Initializing
  <1>5. CASE ~Promised(run[c]) /\ ~Fails(c)
    <2>1. \E step \in Steps : Goes(c, step)
      BY <1>5 DEF EnableServices, Dies, AfterInstall, AfterFailure, Steps
    <2>2. PICK r2 : /\ run' = [run EXCEPT ![c] = r2] /\ Same(run[c], r2)
                    /\ r2.clean = run[c].clean
      BY <1>1, <2>1, GoesTo
    <2>3. ~Promised(r2)
      BY <1>5, <2>2, SamePromise
    <2>4. PromiseInv(r2)'
      BY <1>1, <2>3 DEF PromiseInv
    <2> QED BY <1>1, <2>2, <2>4, SolePromise
  <1> QED BY <1>3, <1>4, <1>5

\* A command that was promised nothing may move as it likes.
LEMMA UnpromisedMoves ==
    ASSUME Alone, CommandsOK, NEW c \in Commands, run[c] # None,
           ~Promised(run[c]), (\E step \in Steps : Goes(c, step)) \/ Tears(c) \/ Dies(c)
    PROVE  PromiseOK'
  <1>1. PICK r2 : /\ run' = [run EXCEPT ![c] = r2] /\ Same(run[c], r2)
                  /\ r2.clean => run[c].clean
    <2>1. CASE Dies(c)
      <3>1. \E step \in Steps : Goes(c, step)
        BY <2>1 DEF Dies, AfterFailure, Steps
      <3> QED BY <3>1, GoesTo
    <2>2. CASE (\E step \in Steps : Goes(c, step)) \/ Tears(c)
      BY <2>2, GoesTo, TearsTo
    <2> QED BY <2>1, <2>2
  <1>2. ~Promised(r2)
    BY <1>1, SamePromise
  <1>3. PromiseInv(r2)'
    BY <1>2 DEF PromiseInv
  <1> QED BY <1>1, <1>3, SolePromise

LEMMA InstallerKeepsPromise ==
    ASSUME Alone, TypeInv, FileOK, RunsOK, PromiseOK, NEW c \in Commands, InstallerStep(c)
    PROVE  PromiseOK'
  <1>0. CommandsOK
    BY DEF TypeInv
  <1>1. ASSUME run[c] # None, run[c].at \in Reinstalling \ {"env"}, UNCHANGED <<env, credentials>>,
               Tears(c) \/ \E step \in Reinstalling : Goes(c, step)
        PROVE  PromiseOK'
    <2>1. PICK r2 : /\ run' = [run EXCEPT ![c] = r2] /\ Same(run[c], r2)
                    /\ r2.clean = run[c].clean /\ r2.original = run[c].original
                    /\ r2.at \in Reinstalling
      BY <1>0, <1>1, GoesTo, TearsTo DEF Reinstalling, Steps
    <2> QED BY <1>0, <1>1, <2>1, ReinstallKeepsPromise
  <1>2. CASE PrepareKeys(c)
    <2>1. /\ run[c] # None /\ run[c].at \in {"keys", "genkey", "publish"}
          /\ UNCHANGED <<env, credentials>>
      BY <1>2 DEF PrepareKeys, At
    <2>2. Tears(c) \/ \E step \in {"genkey", "publish", "conf"} : Goes(c, step)
      BY <1>2 DEF PrepareKeys
    <2> QED BY <1>1, <2>1, <2>2 DEF Reinstalling
  <1>3. CASE EnsureConf(c)
    BY <1>1, <1>3 DEF EnsureConf, At, Reinstalling
  <1>4. CASE InstallFiles(c)
    BY <1>1, <1>4 DEF InstallFiles, At, Reinstalling
  <1>5. CASE EnsureEnvironment(c)
    BY <1>5, EnvironmentKeepsPromise
  <1>6. ASSUME run[c] # None, run[c].at \in Initializing, Promised(run[c])
        PROVE  /\ env # None
               /\ Provider(Values(Text)) # "none" => credentials
               /\ ValidDns(Values(Text))
               /\ run[c].at = "dns" => database
    <2>1. PromiseInv(run[c]) /\ CommandOK(run[c])
      BY <1>0, <1>6 DEF PromiseOK, CommandsOK
    <2>2. Begun(run[c], credentials) /\ Settled(env, run[c], credentials)
      BY <1>6, <2>1 DEF PromiseInv
    <2> QED BY <1>6, <2>1, <2>2, SettledReads DEF PromiseInv
  <1>7. ASSUME run[c] # None, run[c].at \in Initializing, UNCHANGED <<env, credentials>>,
               NEW step \in {"registry", "dns", "services"}, Goes(c, step),
               Promised(run[c]) /\ step # "registry" => database'
        PROVE  PromiseOK'
    BY <1>0, <1>7, InitializingKeepsPromise DEF Initializing
  <1>8. CASE ValidateDns(c)
    <2>1. /\ run[c] # None /\ run[c].at = "validate" /\ run[c].at \in Initializing
          /\ UNCHANGED <<env, credentials>>
      BY <1>8 DEF ValidateDns, At, hostVars, Initializing
    <2>2. CASE Goes(c, "registry")
      BY <1>7, <2>1, <2>2
    <2>3. CASE Dies(c) /\ (env = None \/ (Provider(Values(Text)) # "none" /\ ~credentials))
      BY <1>0, <1>6, <2>1, <2>3, UnpromisedMoves
    <2> QED BY <1>8, <2>2, <2>3 DEF ValidateDns
  <1>9. CASE InitializeRegistry(c)
    <2>1. /\ run[c] # None /\ run[c].at = "registry" /\ run[c].at \in Initializing
          /\ UNCHANGED <<env, credentials>>
      BY <1>9 DEF InitializeRegistry, At, Initializing
    <2>2. CASE database' = TRUE /\ Goes(c, "dns")
      BY <1>7, <2>1, <2>2
    <2>3. CASE Fails(c)
      BY <1>0, <2>1, <2>3, FailsPromise
    <2>4. CASE env = None /\ Dies(c)
      BY <1>0, <1>6, <2>1, <2>4, UnpromisedMoves
    <2> QED BY <1>9, <2>2, <2>3, <2>4 DEF InitializeRegistry
  <1>10. CASE InitializeDns(c)
    <2>1. /\ run[c] # None /\ run[c].at = "dns" /\ run[c].at \in Initializing
          /\ UNCHANGED <<env, credentials, database>>
      BY <1>10 DEF InitializeDns, At, hostVars, Initializing
    <2>2. CASE Goes(c, "services")
      BY <1>6, <1>7, <2>1, <2>2
    <2>3. CASE Fails(c)
      BY <1>0, <2>1, <2>3, FailsPromise
    <2>4. CASE Dies(c) /\ (env = None \/ ~ValidDns(Values(Text)))
      BY <1>0, <1>6, <2>1, <2>4, UnpromisedMoves
    <2> QED BY <1>10, <2>2, <2>3, <2>4 DEF InitializeDns
  <1>11. CASE EnableServices(c)
    BY <1>11, ServicesKeepPromise
  <1>12. CASE StepFails(c)
    BY <1>0, <1>12, FailsPromise DEF StepFails
  <1> QED
    BY <1>2, <1>3, <1>4, <1>5, <1>8, <1>9, <1>10, <1>11, <1>12 DEF InstallerStep

LEMMA PatchKeepsPromise ==
    ASSUME Alone, TypeInv, FileOK, OnceOK, PromiseOK, NEW c \in Commands, Patch(c)
    PROVE  PromiseOK'
  <1>1. /\ run[c] # None /\ run[c].at = "patch" /\ CommandOK(run[c])
        /\ FileInv(run[c], env) /\ CommandsOK /\ env \in Texts
        /\ UNCHANGED credentials
    BY DEF TypeInv, CommandsOK, Patch, At, FileOK
  <1>2. ASSUME Goes(c, "keys"),
               Promised(run[c]) =>
                  /\ run[c].before = None => env' = None
                  /\ run[c].before # None => Fits(env', run[c], credentials) /\ Registered(env', run[c])
        PROVE  PromiseOK'
    <2>1. PICK r2 : /\ run' = [run EXCEPT ![c] = r2] /\ Same(run[c], r2)
                    /\ r2.clean = run[c].clean /\ r2.original = run[c].original
                    /\ r2.at = "keys"
      BY <1>1, <1>2, GoesTo DEF Steps
    <2>2. ASSUME Promised(r2) PROVE PromiseInv(r2)'
      <3>1. Promised(run[c]) /\ Begun(r2, credentials)
        BY <1>1, <2>1, <2>2, PromiseCarried
      <3>2. /\ r2.before = None => env' = None
            /\ r2.before # None => Fits(env', r2, credentials) /\ Registered(env', r2)
        <4>1. run[c].before = r2.before
          BY <2>1 DEF Same
        <4> QED BY <1>2, <2>1, <3>1, <4>1, SameFits
      <3> QED BY <1>1, <2>1, <3>1, <3>2 DEF PromiseInv, Initializing
    <2>3. PromiseInv(r2)'
      BY <1>1, <2>2 DEF PromiseInv
    <2> QED BY <1>1, <2>1, <2>3, SolePromise
  <1>3. ASSUME Promised(run[c])
        PROVE  /\ Begun(run[c], credentials) /\ run[c].provider = None
               /\ run[c].op = "deploy" \/ run[c].op = "legacy"
    <2>1. PromiseInv(run[c])
      BY <1>1 DEF PromiseOK
    <2>2. run[c].provider = None /\ (run[c].op = "deploy" \/ run[c].op = "legacy")
      BY <1>3 DEF Promised, PromisedByCheck, PromisedByNames
    <2> QED BY <1>3, <2>1, <2>2 DEF PromiseInv
  <1>4. CASE ~run[c].torn /\ ~Patches(run[c]) /\ Goes(c, "keys") /\ UNCHANGED env
    <2>1. env = run[c].before
      BY <1>1, <1>4 DEF FileInv
    <2>2. ASSUME Promised(run[c]), run[c].before # None
          PROVE  Fits(env, run[c], credentials) /\ Registered(env, run[c])
      <3>1. run[c].op = "legacy"
        BY <1>3, <1>4, <2>1, <2>2 DEF Patches
      <3> QED BY <1>3, <2>1, <2>2, <3>1 DEF Begun
    <2> QED BY <1>2, <1>4, <2>1, <2>2
  <1>5. CASE /\ ~run[c].torn /\ Patches(run[c])
             /\ env' = <<>>
             /\ run' = [run EXCEPT ![c].torn = TRUE, ![c].original = env]
    <2>1. PICK r2 : /\ run' = [run EXCEPT ![c] = r2] /\ Same(run[c], r2)
                    /\ r2.clean = run[c].clean /\ r2.original = env
                    /\ r2.at = "patch" /\ r2.torn
      BY <1>1, <1>5, PatchTearsTo
    <2>2. run[c].before = env /\ env # None
      BY <1>1, <1>5 DEF FileInv, Patches
    <2>3. ASSUME Promised(r2) PROVE PromiseInv(r2)'
      <3>1. Promised(run[c])
        BY <1>1, <2>1, <2>3, SamePromise
      <3>2. run[c].op = "deploy"
        BY <1>3, <1>5, <3>1 DEF Patches
      <3>3. Begun(r2, credentials)
        BY <1>3, <2>1, <3>1, <3>2, SameBegun
      <3>4. r2.before # None
        BY <2>1, <2>2 DEF Same
      <3> QED BY <1>1, <2>1, <3>3, <3>4 DEF PromiseInv, Initializing, Reinstalling
    <2>4. PromiseInv(r2)'
      BY <1>1, <2>3 DEF PromiseInv
    <2> QED BY <1>1, <2>1, <2>4, SolePromise
  <1>6. CASE run[c].torn /\ env' = Patched(run[c].original, run[c]) /\ Goes(c, "keys")
    <2>1. /\ run[c].original # None /\ run[c].original = run[c].before
          /\ Once(run[c].original, "register")
      BY <1>1, <1>6 DEF CommandOK, FileInv, OnceOK
    <2>2. ASSUME Promised(run[c])
          PROVE  Fits(env', run[c], credentials) /\ Registered(env', run[c])
      <3>1. run[c].op = "deploy" /\ Fits(run[c].original, run[c], credentials)
        BY <1>1, <1>3, <1>6, <2>1, <2>2 DEF CommandOK, Begun
      <3> QED BY <1>1, <1>3, <1>6, <2>1, <2>2, <3>1, PatchFits
    <2> QED BY <1>2, <1>6, <2>1, <2>2
  <1> QED
    BY <1>4, <1>5, <1>6 DEF Patch

\* What the names of a deployment promise when it begins.
LEMMA NamesPromise ==
    ASSUME env \in Texts, NEW r, BeginsDeploy(r), r.before = env, NEW stored,
           PromisedByNames(r), r.target \in Names
    PROVE  Begun(r, stored)
  <1>1. Provider(Values(Text)) = "none" /\ r.op = "deploy" /\ ~r.dns /\ OwnNames(r)
    BY DEF BeginsDeploy, PromisedByNames
  <1>2. PICK d \in Domains : r.shell = [Shell(d) EXCEPT !.register = r.target]
    BY DEF BeginsDeploy, PromisedByNames, With
  <1>3. /\ r.shell = [base |-> d, provider |-> "none", vpn |-> Name("vpn", d), register |-> r.target]
        /\ r.shell.provider = "none" /\ r.shell.base = d
    BY <1>2 DEF Shell
  <1>4. CASE env = None
    <2>1. r.target = Name("register", d)
      BY <1>1, <1>3, <1>4 DEF OwnNames
    <2>2. r.target.domain = d
      BY <2>1 DEF Name
    <2>3. r.shell = Shell(d)
      BY <1>3, <2>1 DEF Shell
    <2> QED BY <1>1, <1>3, <1>4, <2>1, <2>2, <2>3 DEF Begun
  <1>5. CASE env # None
    <2> DEFINE base == ValueOf(env, "base")
    <2>1. /\ r.target = Name("register", base)
          /\ \/ ValueOf(env, "vpn") = Name("vpn", base)
             \/ ValueOf(env, "vpn") = None /\ r.shell.vpn = Name("vpn", base)
      BY <1>1, <1>5 DEF OwnNames
    <2>2. r.target.domain = base
      BY <2>1 DEF Name
    <2> HIDE DEF base
    <2>3. ValueOf(env, "vpn") = None => ~Has(env, "vpn")
      BY <1>5, ValueRead, DeploymentAssumption DEF Texts, IsText
    <2>4. Provider(Values(env)) = "none"
      BY <1>1, <1>5 DEF Text
    <2>5. Fits(env, r, stored)
      BY <1>1, <1>5, <2>1, <2>2, <2>3, <2>4 DEF Fits, base
    <2> QED BY <1>1, <1>3, <1>5, <2>1, <2>2, <2>5 DEF Begun
  <1> QED BY <1>4, <1>5

\* What the older check promises.
LEMMA CheckPromises ==
    ASSUME NEW r, BeginsLegacy(r), r.before = env, r.original = None, PromisedByCheck(r)
    PROVE  Begun(r, credentials)
  <1>1. PICK d \in Domains : /\ r.target = Name("register", d)
                             /\ r.shell = Shell(d)
                             /\ Deployable(d, r.dns)
    BY DEF BeginsLegacy, PromisedByCheck, With
  <1>2. r.target.domain = d /\ r.shell.provider = "none"
    BY <1>1 DEF Name, Shell
  <1>3. ASSUME env # None
        PROVE  Fits(env, r, credentials) /\ Registered(env, r)
    <2>1. /\ Values(env).base = d /\ Readiness(env, r.dns)
      BY <1>1, <1>3 DEF Deployable
    <2>2. /\ ValueOf(env, "base") = d
          /\ ValueOf(env, "vpn") = Name("vpn", d)
          /\ ValueOf(env, "register") = Name("register", d)
          /\ r.dns => Provider(Values(env)) # "none"
          /\ Provider(Values(env)) # "none" => credentials
      BY <2>1 DEF Readiness, Values, Settings
    <2> QED BY <1>1, <1>2, <1>3, <2>2 DEF Fits, Registered
  <1> QED BY <1>1, <1>2, <1>3 DEF Begun

LEMMA BeginsPromise ==
    ASSUME Alone, TypeInv, NEW c \in Commands,
           StartDeploy(c) \/ StartLegacyDeploy(c) \/ StartInstall(c)
    PROVE  PromiseOK'
  <1>1. /\ CommandsOK /\ env \in Texts /\ CommandsOK'
        /\ UNCHANGED <<env, credentials>>
    BY StartsOK, BeginsTo DEF TypeInv, hostVars
  <1>2. PICK r : /\ run' = [run EXCEPT ![c] = r]
                 /\ r.before = env /\ r.original = None /\ ~r.torn
                 /\ BeginsDeploy(r) \/ BeginsLegacy(r) \/ BeginsInstall(r)
    BY BeginsTo
  <1>3. ASSUME r # None, Promised(r) PROVE PromiseInv(r)'
    <2>1. r.target \in Names
      BY <1>1, <1>2, <1>3, SoleRun DEF CommandsOK, CommandOK, Command
    <2>2. CASE BeginsDeploy(r)
      <3>1. PromisedByNames(r) /\ r.at = "patch"
        BY <1>3, <2>2 DEF Promised, PromisedByCheck, BeginsDeploy
      <3>2. Begun(r, credentials)
        BY <1>1, <1>2, <2>1, <2>2, <3>1, NamesPromise
      <3> QED BY <1>1, <1>2, <3>1, <3>2 DEF PromiseInv, Reinstalling, Initializing
    <2>3. CASE BeginsLegacy(r)
      <3>1. PromisedByCheck(r) /\ r.at = "patch"
        BY <1>3, <2>3 DEF Promised, PromisedByNames, BeginsLegacy
      <3>2. Begun(r, credentials)
        BY <1>2, <2>3, <3>1, CheckPromises
      <3> QED BY <1>1, <1>2, <3>1, <3>2 DEF PromiseInv, Reinstalling, Initializing
    <2>4. CASE BeginsInstall(r)
      BY <1>3, <2>4 DEF Promised, PromisedByNames, PromisedByCheck, BeginsInstall
    <2> QED BY <1>2, <2>2, <2>3, <2>4
  <1>4. r # None => PromiseInv(r)'
    BY <1>1, <1>3 DEF PromiseInv
  <1> QED BY <1>1, <1>2, <1>4, SolePromise

\* A promised deployment finds all it checks for, where gway.conf has a key.
LEMMA PromisedAnswer ==
    ASSUME TypeInv, RunsOK, IntactOK, PromiseOK, NEW c \in Commands,
           run[c] # None, run[c].at = "check", Promised(run[c]),
           run[c].op = "deploy" => conf # Keyless
    PROVE  Answer(run[c])
  <1> DEFINE r == run[c]
  <1>1. PromiseInv(r) /\ CommandOK(r)
    BY DEF TypeInv, CommandsOK, PromiseOK
  <1>2. Begun(r, credentials) /\ Settled(env, r, credentials) /\ database
    BY <1>1 DEF PromiseInv, Initializing
  <1>3. /\ env # None /\ Text = env
        /\ Provider(Values(Text)) # "none" => credentials
        /\ r.dns => Provider(Values(env)) # "none"
        /\ Values(env).base = r.target.domain /\ Values(env).base # None
        /\ Values(env).vpn = Name("vpn", r.target.domain)
        /\ Values(env).register = Name("register", r.target.domain)
    BY <1>1, <1>2, SettledReads
  <1>4. Readiness(env, r.dns)
    BY <1>2, <1>3 DEF Readiness
  <1>5. Values(env).register = r.target
    BY <1>2, <1>3 DEF Begun
  <1>6. CASE r.op = "deploy"
    <2>1. conf # Keyless
      BY <1>6
    <2>2. WireguardUp
      BY <2>1 DEF IntactOK, WireguardUp, Served
    <2>3. PeersReadable
      BY DEF IntactOK, PeersReadable, Configured, Installed, Served
    <2>4. EnrollmentUp /\ WebUp(r)
      BY <1>1, <1>6 DEF PromiseInv, EnrollmentUp, WebUp
    <2> QED BY <1>4, <1>5, <1>6, <2>2, <2>3, <2>4 DEF Answer, Checked, LocalConfig
  <1>7. CASE r.op # "deploy"
    BY <1>3, <1>4, <1>7 DEF Answer
  <1> QED BY <1>6, <1>7

LEMMA PromiseInit == Init => PromiseOK
  BY DEF Init, PromiseOK

PromiseInvs == TypeInv /\ FileOK /\ RunsOK /\ OnceOK /\ IntactOK /\ PromiseOK

LEMMA StepKeepsPromise == Alone /\ PromiseInvs /\ [Next]_vars => PromiseOK'
  <1> SUFFICES ASSUME Alone, PromiseInvs, [Next]_vars PROVE PromiseOK'
    OBVIOUS
  <1>0. /\ TypeInv /\ FileOK /\ RunsOK /\ OnceOK /\ IntactOK /\ PromiseOK
        /\ CommandsOK
    BY DEF PromiseInvs, TypeInv
  <1>1. ASSUME NEW c \in Commands, StartDeploy(c) \/ StartLegacyDeploy(c) \/ StartInstall(c)
        PROVE  PromiseOK'
    BY <1>0, <1>1, BeginsPromise
  <1>2. ASSUME NEW c \in Commands, Install(c) PROVE PromiseOK'
    BY <1>0, <1>2, InstallerKeepsPromise DEF Install
  <1>3. ASSUME NEW c \in Commands, Patch(c) PROVE PromiseOK'
    BY <1>0, <1>3, PatchKeepsPromise
  <1>4. ASSUME NEW c \in Commands, Rollback(c) PROVE PromiseOK'
    <2>1. run[c] # None /\ run[c].at = "rollback"
      BY <1>4 DEF Rollback, At
    <2>2. ~Promised(run[c])
      BY <1>0, <2>1 DEF PromiseOK, PromiseInv
    <2>3. Goes(c, "gaveup") \/ Tears(c)
      BY <1>4 DEF Rollback
    <2> QED BY <1>0, <2>1, <2>2, <2>3, UnpromisedMoves DEF Steps
  <1>5. ASSUME NEW c \in Commands, Expose(c) PROVE PromiseOK'
    <2>1. /\ run[c] # None /\ run[c].at = "expose" /\ run[c].at \in Initializing
          /\ UNCHANGED <<env, credentials, database, service>>
      BY <1>5 DEF Expose, At, hostVars, Initializing
    <2>2. CASE exposed' = exposed \cup {run[c].target} /\ Goes(c, "check")
      <3>1. ASSUME Promised(run[c])
            PROVE  database /\ (run[c].op = "deploy" => service # None /\ service.up)
        BY <1>0, <2>1, <3>1 DEF PromiseOK, PromiseInv
      <3>2. "check" \in Initializing
        BY DEF Initializing
      <3> QED BY <1>0, <2>1, <2>2, <3>1, <3>2, InitializingKeepsPromise
    <2>3. CASE Fails(c)
      BY <1>0, <2>1, <2>3, FailsPromise
    <2> QED BY <1>5, <2>2, <2>3 DEF Expose
  <1>6. ASSUME NEW c \in Commands, Check(c) PROVE PromiseOK'
    <2>1. run[c] # None /\ run[c].at = "check" /\ UNCHANGED <<credentials, conf>>
      BY <1>6 DEF Check, At, hostVars, keyVars
    <2>2. PICK r2 : /\ run' = [run EXCEPT ![c] = r2] /\ Same(run[c], r2)
                    /\ r2.at \in {"ready", "unready"}
                    /\ r2.at = "unready" => ~Answer(run[c]) \/ ~r2.clean
                    /\ r2.clean => run[c].clean
                    /\ r2.original = run[c].original
      BY <1>0, <1>6, <2>1, ChecksTo
    <2>3. ASSUME Promised(r2) PROVE PromiseInv(r2)'
      <3>1. Promised(run[c]) /\ Begun(r2, credentials)
        BY <1>0, <2>1, <2>2, <2>3, PromiseCarried
      <3>2. r2.clean
        BY <2>3 DEF Promised, PromisedByCheck, PromisedByNames
      <3>3. r2.at = "unready" => r2.op = "deploy" /\ conf = Keyless
        BY <1>0, <2>1, <2>2, <3>1, <3>2, PromisedAnswer DEF Same
      <3> QED BY <2>1, <2>2, <3>1, <3>3 DEF PromiseInv, Reinstalling, Initializing
    <2>4. PromiseInv(r2)'
      BY <2>1, <2>3 DEF PromiseInv
    <2> QED BY <1>0, <2>2, <2>4, SolePromise
  <1>7. ASSUME NEW c \in Commands, Returns(c) \/ Kill(c) PROVE PromiseOK'
    BY <1>0, <1>7, SolePromise DEF Returns, Kill
  <1>8. CASE Reboot
    BY <1>8 DEF Reboot, PromiseOK
  <1>9. CASE Edit \/ StoreCredentials
    BY <1>9 DEF Edit, StoreCredentials, Quiet, PromiseOK
  <1>10. CASE ServiceCrash
    <2>1. run' = [c \in Commands |-> IF run[c] = None THEN None ELSE [run[c] EXCEPT !.clean = FALSE]]
      BY <1>10 DEF ServiceCrash
    <2>2. ASSUME NEW c \in Commands, run'[c] # None PROVE PromiseInv(run[c])'
      <3>1. ~run'[c].clean
        BY <1>0, <2>1, <2>2 DEF CommandsOK, CommandOK, Command
      <3> QED BY <3>1 DEF PromiseInv, Promised, PromisedByCheck, PromisedByNames
    <2> QED BY <2>2 DEF PromiseOK
  <1>11. CASE ServiceRestart /\ UNCHANGED <<exposed, edits>>
    <2>1. /\ ~service.up
          /\ UNCHANGED <<env, credentials, database, run, conf, exposed>>
      BY <1>11 DEF ServiceRestart, keyVars
    <2> QED BY <1>0, <2>1 DEF PromiseOK, PromiseInv
  <1>12. CASE UNCHANGED vars
    BY <1>0, <1>12 DEF vars, hostVars, keyVars, PromiseOK, PromiseInv
  <1>13. ASSUME NEW c \in Commands, InstallerRaises(c) PROVE PromiseOK'
    <2>1. PICK r2 : run' = [run EXCEPT ![c] = r2] /\ ~r2.clean
      BY <1>0, <1>13, RaisesTo
    <2>2. PromiseInv(r2)'
      BY <2>1 DEF PromiseInv, Promised, PromisedByCheck, PromisedByNames
    <2> QED BY <1>0, <2>1, <2>2, SolePromise
  <1> QED
    BY <1>1, <1>2, <1>3, <1>4, <1>5, <1>6, <1>7, <1>8, <1>9, <1>10, <1>11, <1>12, <1>13 DEF Next

LEMMA PromiseInvariant == Alone => (Spec => []PromiseInvs)
  <1> SUFFICES ASSUME Alone PROVE Spec => []PromiseInvs
    OBVIOUS
  <1>1. Init => PromiseInvs
    BY TypesInit, FileInit, RunsInit, OnceInit, IntactInit, PromiseInit DEF PromiseInvs
  <1>2. PromiseInvs /\ [Next]_vars => PromiseInvs'
    BY StepKeepsTypes, StepKeepsFile, StepKeepsRuns, StepKeepsOnce, StepKeepsIntact,
       StepKeepsPromise DEF PromiseInvs
  <1> QED BY <1>1, <1>2, PTL DEF Spec

\* When commands do not overlap and nothing goes wrong, a deployment without DNS
\* of the gateway's own register name is ready, from whatever server.env it finds.
THEOREM CleanDeploymentIsReady == Alone => (Spec => []CleanDeployIsReady)
  <1> SUFFICES ASSUME Alone PROVE Spec => []CleanDeployIsReady
    OBVIOUS
  <1>1. PromiseInvs => CleanDeployIsReady
    BY DEF PromiseInvs, PromiseOK, PromiseInv, Promised, PromisedByNames, CleanDeployIsReady, Finished
  <1> QED BY <1>1, PromiseInvariant, PTL

\* When commands do not overlap and nothing goes wrong, the older command deploys
\* the domain that its check has called deployable, unless it demands DNS of a
\* host that has no server.env.
THEOREM CheckedDomainIsDeployed == Alone => (Spec => []PreflightIsRight)
  <1> SUFFICES ASSUME Alone PROVE Spec => []PreflightIsRight
    OBVIOUS
  <1>1. PromiseInvs => PreflightIsRight
    BY DEF PromiseInvs, PromiseOK, PromiseInv, Promised, PromisedByCheck, PreflightIsRight, Finished
  <1> QED BY <1>1, PromiseInvariant, PTL
==============================================================================
