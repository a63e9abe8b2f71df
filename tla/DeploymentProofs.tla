-------------------------- MODULE DeploymentProofs --------------------------
(***************************************************************************)
(* The invariants of the deployment.  Types hold for any number of         *)
(* commands that run at once.  That the keys agree, and what a command     *)
(* leaves in server.env, is proved for commands that do not overlap: there *)
(* is no lock, and two that do may undo each other.                        *)
(***************************************************************************)
EXTENDS Deployment, EnvironmentFileProofs

(***************************************************************************)
(* The types of the keys.                                                  *)
(***************************************************************************)
KeyTypes ==
    /\ privateKey \in Keys \cup {None} /\ publicKey \in Keys \cup {None}
    /\ conf \in HostKeys /\ interface \in HostKeys

LEMMA KeyTypesInit == Init => KeyTypes
  <1> SUFFICES ASSUME Init PROVE KeyTypes
    OBVIOUS
  <1>1. CASE NewHost(None, None, None, None, None)
    BY <1>1 DEF NewHost, KeyTypes, HostKeys
  <1>2. CASE NewHost(None, ManualKey, None, None, None)
    BY <1>2 DEF NewHost, KeyTypes, HostKeys
  <1>3. CASE \E k \in Keys : NewHost(k, k, None, None, None)
    BY <1>3 DEF NewHost, KeyTypes, HostKeys
  <1>4. CASE \E k \in Keys, d \in Domains :
                NewHost(k, k, <<[key |-> "base", value |-> d]>>, Earlier, OldService(d))
    BY <1>4 DEF NewHost, KeyTypes, HostKeys
  <1> QED BY <1>1, <1>2, <1>3, <1>4 DEF Init

LEMMA InstallerKeepsKeyTypes ==
    ASSUME KeyTypes, NEW c, InstallerStep(c)
    PROVE  KeyTypes'
  <1>1. CASE PrepareKeys(c)
    BY <1>1 DEF PrepareKeys, KeyTypes
  <1>2. CASE EnsureConf(c)
    BY <1>2 DEF EnsureConf, KeyTypes, HostKeys
  <1>3. CASE EnableServices(c)
    BY <1>3 DEF EnableServices, InterfaceStarted, KeyTypes
  <1>4. ASSUME UNCHANGED keyVars PROVE KeyTypes'
    BY <1>4 DEF keyVars, KeyTypes
  <1>5. CASE InstallFiles(c)
    BY <1>4, <1>5 DEF InstallFiles
  <1>6. CASE EnsureEnvironment(c)
    BY <1>4, <1>6 DEF EnsureEnvironment
  <1>7. CASE ValidateDns(c)
    BY <1>4, <1>7 DEF ValidateDns, hostVars
  <1>8. CASE InitializeRegistry(c)
    BY <1>4, <1>8 DEF InitializeRegistry
  <1>9. CASE InitializeDns(c) \/ StepFails(c)
    BY <1>4, <1>9 DEF InitializeDns, StepFails, hostVars
  <1> QED
    BY <1>1, <1>2, <1>3, <1>5, <1>6, <1>7, <1>8, <1>9 DEF InstallerStep

LEMMA StepKeepsKeyTypes == KeyTypes /\ [Next]_vars => KeyTypes'
  <1> SUFFICES ASSUME KeyTypes, [Next]_vars PROVE KeyTypes'
    OBVIOUS
  <1>1. ASSUME UNCHANGED keyVars PROVE KeyTypes'
    BY <1>1 DEF keyVars, KeyTypes
  <1>2. ASSUME UNCHANGED hostVars PROVE KeyTypes'
    BY <1>1, <1>2 DEF hostVars
  <1>3. ASSUME NEW c \in Commands, StartDeploy(c) \/ StartLegacyDeploy(c) \/ StartInstall(c)
        PROVE  KeyTypes'
    BY <1>2, <1>3 DEF StartDeploy, StartLegacyDeploy, StartInstall, Begins
  <1>4. ASSUME NEW c \in Commands, Install(c) PROVE KeyTypes'
    BY <1>4, InstallerKeepsKeyTypes DEF Install
  <1>5. ASSUME NEW c \in Commands, Patch(c) \/ Rollback(c) PROVE KeyTypes'
    BY <1>1, <1>5 DEF Patch, Rollback
  <1>6. ASSUME NEW c \in Commands,
               InstallerRaises(c) \/ Expose(c) \/ Check(c) \/ Returns(c) \/ Kill(c)
        PROVE  KeyTypes'
    BY <1>2, <1>6 DEF InstallerRaises, Expose, Check, Returns, Kill
  <1>7. CASE Reboot
    BY <1>7 DEF Reboot, KeyTypes, HostKeys
  <1>8. CASE Edit \/ StoreCredentials \/ ServiceCrash \/ ServiceRestart
    BY <1>1, <1>8 DEF Edit, StoreCredentials, ServiceCrash, ServiceRestart
  <1>9. CASE UNCHANGED vars
    BY <1>2, <1>9 DEF vars
  <1> QED
    BY <1>3, <1>4, <1>5, <1>6, <1>7, <1>8, <1>9 DEF Next

-----------------------------------------------------------------------------
(***************************************************************************)
(* Types: what a command carries, and the texts of server.env.             *)
(***************************************************************************)
CommandOK(r) ==
    /\ r \in Command
    /\ r.op = "deploy" => r.target \in Targets
    /\ r.at = "expose" => r.op = "deploy"
    /\ r.torn /\ r.at \in {"patch", "rollback"} => r.original # None
    /\ r.torn /\ r.at = "patch" => ~(r.op = "legacy" /\ r.provider = None)

CommandsOK ==
    /\ run \in [Commands -> Command \cup {None}]
    /\ \A c \in Commands : run[c] # None => CommandOK(run[c])

TypeInv ==
    /\ KeyTypes
    /\ env \in Texts
    /\ package \in {None, Earlier, Checkout}
    /\ service # None /\ service.up => service.package \in {Earlier, Checkout}
    /\ exposed \subseteq Targets
    /\ CommandsOK

Line(k, v) == [key |-> k, value |-> v]
AllValues == Domains \cup {"none", "godaddy"} \cup Names

LEMMA LargerSet ==
    ASSUME NEW A, NEW B, A \subseteq B, NEW s \in Seq(A)
    PROVE  s \in Seq(B)
  OBVIOUS

\* The lines are those of a text of settings.
LEMMA TextsAreTexts ==
    ASSUME NEW text, IsText(text)
    PROVE  text \in TextsOf(AllValues)
  <1>1. Lines \subseteq [key: Settings, value: AllValues]
    <2>1. [key: {"base"}, value: Domains] \subseteq [key: Settings, value: AllValues]
      BY DEF Settings, AllValues
    <2>2. [key: {"provider"}, value: {"none", "godaddy"}] \subseteq [key: Settings, value: AllValues]
      BY DEF Settings, AllValues
    <2>3. [key: {"vpn", "register"}, value: Names] \subseteq [key: Settings, value: AllValues]
      BY DEF Settings, AllValues
    <2> QED BY <2>1, <2>2, <2>3 DEF Lines
  <1> QED
    BY <1>1, LargerSet DEF IsText, TextsOf

\* The programs that write server.env leave a text of settings.
LEMMA Written ==
    ASSUME NEW text, IsText(text), NEW k \in Settings, NEW v, Line(k, v) \in Lines
    PROVE  /\ IsText(AddLine(text, k, v))
           /\ IsText(AppendIfMissing(text, k, v))
           /\ IsText(ReplaceValue(text, k, v))
           /\ IsText(SetValue(text, k, v))
  <1>1. IsText(AddLine(text, k, v))
    BY DEF IsText, AddLine, Line
  <1>2. IsText(AppendIfMissing(text, k, v))
    BY <1>1 DEF AppendIfMissing
  <1>3. \A i \in DOMAIN text : text[i] \in Lines
    BY Element DEF IsText
  <1>4. \A i \in DOMAIN text : text[i].key = k => [text[i] EXCEPT !.value = v] = Line(k, v)
    <2>1. \A i \in DOMAIN text : text[i] \in [key: Settings, value: AllValues]
      BY TextsAreTexts, Element DEF TextsOf
    <2> QED BY <2>1 DEF Line
  <1>5. IsText(ReplaceValue(text, k, v))
    <2>1. CASE Has(text, k)
      <3>1. FirstLine(text, k) \in DOMAIN text /\ text[FirstLine(text, k)].key = k
        BY <2>1, TextsAreTexts, FirstLineFound
      <3>2. PICK i \in DOMAIN text : /\ text[i].key = k
                                     /\ ReplaceValue(text, k, v) = [text EXCEPT ![i].value = v]
        BY <2>1, <3>1 DEF ReplaceValue
      <3>3. ReplaceValue(text, k, v) = [text EXCEPT ![i] = Line(k, v)]
        BY <1>4, <3>2
      <3> QED BY <3>3 DEF IsText
    <2> QED BY <1>1, <2>1 DEF ReplaceValue
  <1>6. IsText(SetValue(text, k, v))
    <2>1. CASE Has(text, k)
      <3>1. SetValue(text, k, v) = [i \in DOMAIN text |-> IF text[i].key = k THEN Line(k, v) ELSE text[i]]
        BY <1>4, <2>1 DEF SetValue
      <3> QED BY <1>3, <3>1 DEF IsText
    <2> QED BY <1>1, <2>1 DEF SetValue
  <1> QED BY <1>1, <1>2, <1>5, <1>6

LEMMA NewTextIsText ==
    ASSUME NEW shell \in ShellValues
    PROVE  IsText(NewText(shell))
  <1>1. /\ Line("base", shell.base) \in Lines
        /\ Line("provider", shell.provider) \in Lines
        /\ Line("vpn", shell.vpn) \in Lines
        /\ Line("register", shell.register) \in Lines
    BY DEF ShellValues, Lines, Line
  <1> QED BY <1>1 DEF NewText, IsText, Line

LEMMA EmptyIsText == IsText(<<>>)
  BY DEF IsText

\* What a command patches server.env to.
LEMMA PatchedIsText ==
    ASSUME NEW r, CommandOK(r), r.original # None, r.op = "legacy" => r.provider # None
    PROVE  IsText(Patched(r.original, r))
  <1>1. /\ r.original \in Seq(Lines)
        /\ Line("register", r.target) \in Lines
        /\ r.provider # None => Line("provider", r.provider) \in Lines
    BY DEF CommandOK, Command, Texts, Lines, Line
  <1> QED
    BY <1>1, Written DEF Patched, Settings, IsText

\* A command that has moved keeps what it was given.
Moved(r, step, r2) ==
    /\ r2 \in Command
    /\ r2.at = step
    /\ r2.op = r.op /\ r2.target = r.target /\ r2.provider = r.provider
    /\ r2.before = r.before

LEMMA GoesMoves ==
    ASSUME CommandsOK, NEW c \in Commands, run[c] # None, NEW step \in Steps, Goes(c, step)
    PROVE  \E r2 : /\ run' = [run EXCEPT ![c] = r2]
                   /\ Moved(run[c], step, r2)
                   /\ ~r2.torn /\ r2.original = run[c].original
  <1> DEFINE r2 == [run[c] EXCEPT !.at = step, !.torn = FALSE]
  <1>1. run[c] \in Command
    BY DEF CommandsOK, CommandOK
  <1>2. run' = [run EXCEPT ![c] = r2]
    BY <1>1 DEF Goes, CommandsOK
  <1>3. Moved(run[c], step, r2) /\ ~r2.torn /\ r2.original = run[c].original
    BY <1>1 DEF Moved, Command
  <1> QED BY <1>2, <1>3

LEMMA TearsMoves ==
    ASSUME CommandsOK, NEW c \in Commands, run[c] # None, Tears(c)
    PROVE  \E r2 : /\ run' = [run EXCEPT ![c] = r2]
                   /\ Moved(run[c], run[c].at, r2)
                   /\ r2.torn /\ r2.original = run[c].original
  <1> DEFINE r2 == [run[c] EXCEPT !.torn = TRUE]
  <1>1. run[c] \in Command
    BY DEF CommandsOK, CommandOK
  <1>2. run' = [run EXCEPT ![c] = r2]
    BY <1>1 DEF Tears, CommandsOK
  <1>3. Moved(run[c], run[c].at, r2) /\ r2.torn /\ r2.original = run[c].original
    BY <1>1 DEF Moved, Command
  <1> QED BY <1>2, <1>3

LEMMA FailsMoves ==
    ASSUME CommandsOK, NEW c \in Commands, run[c] # None, Fails(c)
    PROVE  \E r2 : /\ run' = [run EXCEPT ![c] = r2]
                   /\ Moved(run[c], AfterFailure(run[c]), r2)
                   /\ ~r2.torn /\ r2.original = run[c].original
  <1> DEFINE step == AfterFailure(run[c])
             r2 == [run[c] EXCEPT !.at = step, !.torn = FALSE, !.clean = FALSE]
  <1>1. run[c] \in Command
    BY DEF CommandsOK, CommandOK
  <1>2. run' = [run EXCEPT ![c] = r2]
    BY <1>1 DEF Fails, CommandsOK
  <1>3. step \in Steps
    <2>1. "rollback" \in Steps /\ "gaveup" \in Steps
      BY DEF Steps
    <2>2. step = "rollback" \/ step = "gaveup"
      BY Zenon DEF AfterFailure
    <2> QED BY <2>1, <2>2
  <1>4. Moved(run[c], step, r2) /\ ~r2.torn /\ r2.original = run[c].original
    BY <1>1, <1>3 DEF Moved, Command
  <1> QED BY <1>2, <1>4

\* A command that an exception leaves.
LEMMA RaisesMoves ==
    ASSUME CommandsOK, NEW c \in Commands, InstallerRaises(c)
    PROVE  \E r2 : /\ run' = [run EXCEPT ![c] = r2]
                   /\ Moved(run[c], "raised", r2)
                   /\ r2.original = run[c].original
  <1> DEFINE r2 == [run[c] EXCEPT !.at = "raised", !.clean = FALSE]
  <1>1. run[c] \in Command
    BY DEF CommandsOK, CommandOK, InstallerRaises, At
  <1>2. run' = [run EXCEPT ![c] = r2]
    BY <1>1 DEF InstallerRaises, CommandsOK
  <1>3. Moved(run[c], "raised", r2) /\ r2.original = run[c].original
    BY <1>1 DEF Moved, Command, Steps
  <1> QED BY <1>2, <1>3

\* One command has moved.
LEMMA CommandsStay ==
    ASSUME CommandsOK, NEW c \in Commands, NEW r2, run' = [run EXCEPT ![c] = r2],
           r2 # None => CommandOK(r2)
    PROVE  CommandsOK'
  BY DEF CommandsOK, CommandOK

LEMMA GoesOK ==
    ASSUME CommandsOK, NEW c \in Commands, run[c] # None, NEW step \in Steps, Goes(c, step),
           step = "expose" => run[c].op = "deploy"
    PROVE  CommandsOK'
  <1>1. PICK r2 : /\ run' = [run EXCEPT ![c] = r2]
                  /\ Moved(run[c], step, r2)
                  /\ ~r2.torn /\ r2.original = run[c].original
    BY GoesMoves
  <1>2. CommandOK(r2)
    BY <1>1 DEF CommandsOK, CommandOK, Moved
  <1> QED BY <1>1, <1>2, CommandsStay

LEMMA TearsOK ==
    ASSUME CommandsOK, NEW c \in Commands, run[c] # None, Tears(c),
           run[c].at # "patch", run[c].at = "rollback" => run[c].original # None
    PROVE  CommandsOK'
  <1>1. PICK r2 : /\ run' = [run EXCEPT ![c] = r2]
                  /\ Moved(run[c], run[c].at, r2)
                  /\ r2.torn /\ r2.original = run[c].original
    BY TearsMoves
  <1>2. CommandOK(r2)
    BY <1>1 DEF CommandsOK, CommandOK, Moved
  <1> QED BY <1>1, <1>2, CommandsStay

LEMMA FailsOK ==
    ASSUME CommandsOK, NEW c \in Commands, run[c] # None, Fails(c)
    PROVE  CommandsOK'
  <1>1. PICK r2 : /\ run' = [run EXCEPT ![c] = r2]
                  /\ Moved(run[c], AfterFailure(run[c]), r2)
                  /\ ~r2.torn /\ r2.original = run[c].original
    BY FailsMoves
  <1>2. AfterFailure(run[c]) = "rollback" \/ AfterFailure(run[c]) = "gaveup"
    BY Zenon DEF AfterFailure
  <1>3. CommandOK(r2)
    BY <1>1, <1>2 DEF CommandsOK, CommandOK, Moved
  <1> QED BY <1>1, <1>3, CommandsStay

LEMMA DiesOK ==
    ASSUME CommandsOK, NEW c \in Commands, run[c] # None, Dies(c)
    PROVE  CommandsOK'
  <1>1. AfterFailure(run[c]) = "rollback" \/ AfterFailure(run[c]) = "gaveup"
    BY Zenon DEF AfterFailure
  <1> QED BY <1>1, GoesOK DEF Dies, Steps

LEMMA RaisesOK ==
    ASSUME CommandsOK, NEW c \in Commands, InstallerRaises(c)
    PROVE  CommandsOK'
  <1>1. PICK r2 : run' = [run EXCEPT ![c] = r2] /\ Moved(run[c], "raised", r2)
    BY RaisesMoves
  <1>2. CommandOK(r2)
    BY <1>1 DEF CommandsOK, CommandOK, Moved, InstallerRaises, At
  <1> QED BY <1>1, <1>2, CommandsStay

LEMMA TypesInit == Init => TypeInv
  <1> SUFFICES ASSUME Init PROVE TypeInv
    OBVIOUS
  <1>1. KeyTypes
    BY KeyTypesInit
  <1>2. CommandsOK
    BY DEF Init, CommandsOK
  <1>3. exposed \subseteq Targets
    BY DEF Init
  <1>4. /\ env \in Texts
        /\ package \in {None, Earlier, Checkout}
        /\ service # None /\ service.up => service.package \in {Earlier, Checkout}
    <2>1. CASE NewHost(None, None, None, None, None)
      BY <2>1 DEF NewHost, Texts
    <2>2. CASE NewHost(None, ManualKey, None, None, None)
      BY <2>2 DEF NewHost, Texts
    <2>3. CASE \E k \in Keys : NewHost(k, k, None, None, None)
      BY <2>3 DEF NewHost, Texts
    <2>4. CASE \E k \in Keys, d \in Domains :
                  NewHost(k, k, <<[key |-> "base", value |-> d]>>, Earlier, OldService(d))
      <3>1. PICK d \in Domains : /\ env = <<[key |-> "base", value |-> d]>>
                                 /\ package = Earlier
                                 /\ service = OldService(d)
        BY <2>4 DEF NewHost
      <3>2. [key |-> "base", value |-> d] \in Lines
        BY DEF Lines
      <3> QED BY <3>1, <3>2 DEF Texts, OldService
    <2> QED BY <2>1, <2>2, <2>3, <2>4 DEF Init
  <1> QED BY <1>1, <1>2, <1>3, <1>4 DEF TypeInv

\* What one line of server.env may become.
LEMMA ShellLines ==
    ASSUME NEW shell \in ShellValues, NEW k \in {"provider", "vpn", "register"}
    PROVE  Line(k, shell[k]) \in Lines /\ k \in Settings
  BY DEF ShellValues, Lines, Line, Settings

LEMMA EnsureEnvironmentText ==
    ASSUME TypeInv, NEW c \in Commands, EnsureEnvironment(c)
    PROVE  env' \in Texts /\ CommandsOK'
  <1>1. run[c] # None /\ run[c].at = "env" /\ run[c].shell \in ShellValues
    BY DEF TypeInv, CommandsOK, CommandOK, Command, EnsureEnvironment, At
  <1>2. CommandsOK
    BY DEF TypeInv
  <1>3. ASSUME Goes(c, "validate") PROVE CommandsOK'
    BY <1>1, <1>2, <1>3, GoesOK DEF Steps
  <1>4. CASE run[c].torn /\ env' = NewText(run[c].shell) /\ Goes(c, "validate")
    BY <1>1, <1>3, <1>4, NewTextIsText DEF IsText, Texts
  <1>5. CASE ~run[c].torn /\ env = None /\ env' = <<>> /\ Tears(c)
    BY <1>1, <1>2, <1>5, TearsOK, EmptyIsText DEF IsText, Texts
  <1>6. CASE /\ ~run[c].torn /\ env # None
             /\ env' = AppendIfMissing(env, NextMissing, run[c].shell[NextMissing])
             /\ UNCHANGED run
    <2>1. NextMissing \in {"provider", "vpn", "register"}
      BY DEF NextMissing
    <2>2. IsText(env)
      BY <1>6 DEF TypeInv, Texts, IsText
    <2>3. IsText(env')
      BY <1>1, <1>6, <2>1, <2>2, ShellLines, Written
    <2>4. CommandsOK'
      BY <1>2, <1>6 DEF CommandsOK
    <2> QED BY <2>3, <2>4 DEF IsText, Texts
  <1>7. CASE ~run[c].torn /\ Goes(c, "validate") /\ UNCHANGED env
    BY <1>3, <1>7 DEF TypeInv
  <1> QED
    BY <1>4, <1>5, <1>6, <1>7 DEF EnsureEnvironment

LEMMA InstallerKeepsTypes ==
    ASSUME TypeInv, NEW c \in Commands, InstallerStep(c)
    PROVE  /\ env' \in Texts
           /\ package' \in {None, Earlier, Checkout}
           /\ (service # None /\ service.up => service.package \in {Earlier, Checkout})'
           /\ CommandsOK'
  <1> DEFINE Kept == /\ package' \in {None, Earlier, Checkout}
                     /\ (service # None /\ service.up => service.package \in {Earlier, Checkout})'
  <1>0. CommandsOK /\ env \in Texts
    BY DEF TypeInv
  <1>1. ASSUME UNCHANGED package, UNCHANGED service PROVE Kept
    BY <1>1 DEF TypeInv
  <1> HIDE DEF Kept
  <1>2. ASSUME NEW step \in Steps \ {"expose"}, Goes(c, step), run[c] # None PROVE CommandsOK'
    BY <1>0, <1>2, GoesOK
  <1>3. ASSUME Tears(c), run[c] # None, run[c].at \notin {"patch", "rollback"} PROVE CommandsOK'
    BY <1>0, <1>3, TearsOK
  <1>4. CASE PrepareKeys(c)
    <2>1. env' = env /\ Kept
      BY <1>1, <1>4 DEF PrepareKeys
    <2>2. CommandsOK'
      BY <1>2, <1>3, <1>4 DEF PrepareKeys, At, Steps
    <2> QED BY <1>0, <2>1, <2>2 DEF Kept
  <1>5. CASE EnsureConf(c)
    <2>1. env' = env /\ Kept
      BY <1>1, <1>5 DEF EnsureConf
    <2>2. CommandsOK'
      BY <1>2, <1>3, <1>5 DEF EnsureConf, At, Steps
    <2> QED BY <1>0, <2>1, <2>2 DEF Kept
  <1>6. CASE InstallFiles(c)
    <2>1. env' = env /\ Kept
      BY <1>6 DEF InstallFiles, Kept, TypeInv
    <2>2. CommandsOK'
      BY <1>2, <1>3, <1>6 DEF InstallFiles, At, Steps
    <2> QED BY <1>0, <2>1, <2>2 DEF Kept
  <1>7. CASE EnsureEnvironment(c)
    BY <1>1, <1>7, EnsureEnvironmentText DEF EnsureEnvironment, Kept
  <1>8. CASE ValidateDns(c)
    <2>1. env' = env /\ Kept
      BY <1>1, <1>8 DEF ValidateDns, hostVars
    <2>2. CommandsOK'
      BY <1>0, <1>2, <1>8, DiesOK DEF ValidateDns, At, Steps
    <2> QED BY <1>0, <2>1, <2>2 DEF Kept
  <1>9. CASE InitializeRegistry(c)
    <2>1. env' = env /\ Kept
      BY <1>1, <1>9 DEF InitializeRegistry
    <2>2. CommandsOK'
      BY <1>0, <1>2, <1>9, DiesOK, FailsOK DEF InitializeRegistry, At, Steps
    <2> QED BY <1>0, <2>1, <2>2 DEF Kept
  <1>10. CASE InitializeDns(c)
    <2>1. env' = env /\ Kept
      BY <1>1, <1>10 DEF InitializeDns, hostVars
    <2>2. CommandsOK'
      BY <1>0, <1>2, <1>10, DiesOK, FailsOK DEF InitializeDns, At, Steps
    <2> QED BY <1>0, <2>1, <2>2 DEF Kept
  <1>11. CASE EnableServices(c)
    <2>1. env' = env /\ package' = package /\ service' \in {service, Stopped, Started}
      BY <1>11 DEF EnableServices, Restarted
    <2>2. Kept
      BY <2>1 DEF Started, Startable, Stopped, Kept, TypeInv
    <2>3. /\ AfterInstall(run[c]) \in Steps
          /\ AfterInstall(run[c]) = "expose" => run[c].op = "deploy"
      BY DEF AfterInstall, Steps
    <2>4. CommandsOK'
      BY <1>0, <1>11, <2>3, GoesOK, DiesOK, FailsOK DEF EnableServices, At
    <2> QED BY <1>0, <2>1, <2>2, <2>4 DEF Kept
  <1>12. CASE StepFails(c)
    <2>1. env' = env /\ Kept
      BY <1>1, <1>12 DEF StepFails, hostVars
    <2>2. CommandsOK'
      BY <1>0, <1>12, FailsOK DEF StepFails
    <2> QED BY <1>0, <2>1, <2>2 DEF Kept
  <1> QED
    BY <1>4, <1>5, <1>6, <1>7, <1>8, <1>9, <1>10, <1>11, <1>12 DEF InstallerStep

LEMMA ProviderValue ==
    ASSUME env \in Texts
    PROVE  Provider(Values(Text)) \in {"none", "godaddy"}
  <1>1. IsText(Text)
    BY EmptyIsText DEF Text, Texts, IsText
  <1>2. \A i \in DOMAIN Text : Text[i] \in Lines
    BY <1>1, Element DEF IsText
  <1>3. CASE Has(Text, "provider")
    <2>1. /\ LastLine(Text, "provider") \in DOMAIN Text
          /\ Text[LastLine(Text, "provider")].key = "provider"
      BY <1>1, <1>3, TextsAreTexts, LastLineFound
    <2>2. Text[LastLine(Text, "provider")].value \in {"none", "godaddy"}
      BY <1>2, <2>1 DEF Lines
    <2>3. ValueOf(Text, "provider") \in {"none", "godaddy"}
      BY <1>3, <2>2 DEF ValueOf
    <2> QED BY <2>3 DEF Provider, Values, Settings
  <1>4. CASE ~Has(Text, "provider")
    BY <1>4 DEF ValueOf, Provider, Values, Settings
  <1> QED BY <1>3, <1>4

LEMMA BeginsOK ==
    ASSUME CommandsOK, env \in Texts,
           NEW c \in Commands, NEW op \in {"deploy", "legacy", "install"}, NEW at \in Steps,
           NEW target \in Names, NEW provider \in {None, "none", "godaddy"}, NEW dns \in BOOLEAN,
           NEW shell \in ShellValues, Begins(c, op, at, target, provider, dns, shell),
           op = "deploy" => target \in Targets, at # "expose"
    PROVE  CommandsOK'
  <1> DEFINE predicted == op = "legacy" /\ Deployable(target.domain, dns)
             r == [op |-> op, at |-> at, torn |-> FALSE, target |-> target, provider |-> provider,
                   dns |-> dns, shell |-> shell, before |-> env, original |-> None,
                   clean |-> TRUE, predicted |-> predicted]
  <1>1. predicted \in BOOLEAN
    OBVIOUS
  <1>2. run' = [run EXCEPT ![c] = r]
    BY DEF Begins
  <1> HIDE DEF predicted
  <1>3. r \in Command
    BY <1>1 DEF Command, Texts
  <1>4. CommandOK(r)
    BY <1>3 DEF CommandOK
  <1> QED BY <1>2, <1>4, CommandsStay

LEMMA StartsOK ==
    ASSUME TypeInv, NEW c \in Commands, StartDeploy(c) \/ StartLegacyDeploy(c) \/ StartInstall(c)
    PROVE  CommandsOK' /\ UNCHANGED <<hostVars, exposed>>
  <1>0. CommandsOK /\ env \in Texts
    BY DEF TypeInv
  <1>1. \A d \in Domains : /\ Shell(d) \in ShellValues
                            /\ Name("vpn", d) \in Names /\ Name("register", d) \in Names
    BY InstallerAssumption DEF Shell, ShellValues, Name, Names
  <1>2. \A shell \in ShellValues, provider \in {None, "none", "godaddy"} :
           With(shell, provider) \in ShellValues
    BY DEF With, ShellValues
  <1>3. CASE StartDeploy(c)
    <2>1. PICK target \in Targets, d \in Domains, option \in {None, "godaddy"}, dns \in BOOLEAN :
             Begins(c, "deploy", "patch", target, Selected(option), dns,
                    With([Shell(d) EXCEPT !.register = target], Selected(option)))
      BY <1>3 DEF StartDeploy
    <2>2. target \in Names
      BY DeploymentAssumption
    <2>3. Selected(option) \in {None, "none", "godaddy"}
      BY <1>0, ProviderValue DEF Selected
    <2>4. [Shell(d) EXCEPT !.register = target] \in ShellValues
      BY <1>1, <2>2 DEF ShellValues
    <2>5. With([Shell(d) EXCEPT !.register = target], Selected(option)) \in ShellValues
      BY <1>2, <2>3, <2>4
    <2>6. CommandsOK'
      BY <1>0, <2>1, <2>2, <2>3, <2>5, BeginsOK DEF Steps
    <2> QED BY <2>1, <2>6 DEF Begins
  <1>4. CASE StartLegacyDeploy(c)
    <2>1. PICK d \in Domains, option \in {None, "godaddy"}, dns \in BOOLEAN :
             Begins(c, "legacy", "patch", Name("register", d), option, dns, With(Shell(d), option))
      BY <1>4 DEF StartLegacyDeploy
    <2>2. CommandsOK'
      BY <1>0, <1>1, <1>2, <2>1, BeginsOK DEF Steps
    <2> QED BY <2>1, <2>2 DEF Begins
  <1>5. CASE StartInstall(c)
    <2>1. PICK d \in Domains :
             Begins(c, "install", "keys", Name("register", d), None, FALSE, Shell(d))
      BY <1>5 DEF StartInstall
    <2>2. CommandsOK'
      BY <1>0, <1>1, <2>1, BeginsOK DEF Steps
    <2> QED BY <2>1, <2>2 DEF Begins
  <1> QED BY <1>3, <1>4, <1>5

\* A command that is about to patch server.env remembers its text.
LEMMA PatchTears ==
    ASSUME CommandsOK, env \in Texts, NEW c \in Commands, run[c] # None, run[c].at = "patch",
           run' = [run EXCEPT ![c].torn = TRUE, ![c].original = env]
    PROVE  \E r2 : /\ run' = [run EXCEPT ![c] = r2]
                   /\ Moved(run[c], "patch", r2)
                   /\ r2.torn /\ r2.original = env
  <1> DEFINE r2 == [run[c] EXCEPT !.torn = TRUE, !.original = env]
  <1>1. run[c] \in Command
    BY DEF CommandsOK, CommandOK
  <1>2. run' = [run EXCEPT ![c] = r2]
    BY <1>1 DEF CommandsOK
  <1>3. Moved(run[c], "patch", r2) /\ r2.torn /\ r2.original = env
    BY <1>1 DEF Moved, Command
  <1> QED BY <1>2, <1>3

LEMMA PatchKeepsTypes ==
    ASSUME TypeInv, NEW c \in Commands, Patch(c)
    PROVE  env' \in Texts /\ CommandsOK'
  <1>0. /\ CommandsOK /\ env \in Texts
        /\ run[c] # None /\ run[c].at = "patch" /\ CommandOK(run[c])
    BY DEF TypeInv, CommandsOK, Patch, At
  <1>1. ASSUME Goes(c, "keys") PROVE CommandsOK'
    BY <1>0, <1>1, GoesOK DEF Steps
  <1>2. CASE ~run[c].torn /\ ~Patches(run[c]) /\ Goes(c, "keys") /\ UNCHANGED env
    BY <1>0, <1>1, <1>2
  <1>3. CASE /\ ~run[c].torn /\ Patches(run[c])
             /\ env' = <<>>
             /\ run' = [run EXCEPT ![c].torn = TRUE, ![c].original = env]
    <2>1. PICK r2 : /\ run' = [run EXCEPT ![c] = r2]
                    /\ Moved(run[c], "patch", r2)
                    /\ r2.torn /\ r2.original = env
      BY <1>0, <1>3, PatchTears
    <2>2. CommandOK(r2)
      BY <1>0, <1>3, <2>1 DEF CommandOK, Moved, Patches
    <2>3. CommandsOK'
      BY <1>0, <2>1, <2>2, CommandsStay
    <2> QED BY <1>3, <2>3, EmptyIsText DEF IsText, Texts
  <1>4. CASE run[c].torn /\ env' = Patched(run[c].original, run[c]) /\ Goes(c, "keys")
    <2>1. run[c].original # None
      BY <1>0, <1>4 DEF CommandOK
    <2>2. IsText(Patched(run[c].original, run[c]))
      BY <1>0, <1>4, <2>1, PatchedIsText DEF CommandOK
    <2> QED BY <1>1, <1>4, <2>2 DEF IsText, Texts
  <1> QED
    BY <1>2, <1>3, <1>4 DEF Patch

LEMMA RollbackKeepsTypes ==
    ASSUME TypeInv, NEW c \in Commands, Rollback(c)
    PROVE  env' \in Texts /\ CommandsOK'
  <1>0. /\ CommandsOK /\ env \in Texts
        /\ run[c] # None /\ run[c].at = "rollback" /\ run[c] \in Command
    BY DEF TypeInv, CommandsOK, CommandOK, Rollback, At
  <1>1. ASSUME Goes(c, "gaveup") PROVE CommandsOK'
    BY <1>0, <1>1, GoesOK DEF Steps
  <1>2. CASE env' = None /\ Goes(c, "gaveup")
    BY <1>1, <1>2 DEF Texts
  <1>3. CASE run[c].original # None /\ env' = <<>> /\ Tears(c)
    BY <1>0, <1>3, TearsOK, EmptyIsText DEF IsText, Texts
  <1>4. CASE env' = run[c].original /\ Goes(c, "gaveup")
    BY <1>0, <1>1, <1>4 DEF Command
  <1> QED
    BY <1>2, <1>3, <1>4 DEF Rollback

LEMMA ExposeKeepsTypes ==
    ASSUME TypeInv, NEW c \in Commands, Expose(c)
    PROVE  exposed' \subseteq Targets /\ CommandsOK'
  <1>0. /\ CommandsOK /\ exposed \subseteq Targets
        /\ run[c] # None /\ run[c].at = "expose" /\ CommandOK(run[c])
    BY DEF TypeInv, CommandsOK, Expose, At
  <1>1. CASE exposed' = exposed \cup {run[c].target} /\ Goes(c, "check")
    <2>1. run[c].target \in Targets
      BY <1>0 DEF CommandOK
    <2> QED BY <1>0, <1>1, <2>1, GoesOK DEF Steps
  <1>2. CASE Fails(c) /\ UNCHANGED exposed
    BY <1>0, <1>2, FailsOK
  <1> QED
    BY <1>1, <1>2 DEF Expose

LEMMA CheckKeepsTypes ==
    ASSUME TypeInv, NEW c \in Commands, Check(c)
    PROVE  CommandsOK'
  <1>0. CommandsOK /\ run[c] # None /\ run[c] \in Command /\ CommandOK(run[c])
    BY DEF TypeInv, CommandsOK, CommandOK, Check, At
  <1>1. CASE Goes(c, IF Answer(run[c]) THEN "ready" ELSE "unready")
    <2>1. PICK step \in {"ready", "unready"} : Goes(c, step)
      BY <1>1, Zenon
    <2> QED BY <1>0, <2>1, GoesOK DEF Steps
  <1>2. CASE run' = [run EXCEPT ![c].at = "unready", ![c].clean = FALSE]
    <2> DEFINE r2 == [run[c] EXCEPT !.at = "unready", !.clean = FALSE]
    <2>1. run' = [run EXCEPT ![c] = r2]
      BY <1>0, <1>2 DEF CommandsOK
    <2>2. CommandOK(r2)
      BY <1>0 DEF CommandOK, Command, Steps
    <2> QED BY <1>0, <2>1, <2>2, CommandsStay
  <1> QED
    BY <1>1, <1>2 DEF Check

LEMMA EditKeepsTypes ==
    ASSUME TypeInv, Edit
    PROVE  env' \in Texts
  <1>1. IsText(env)
    BY DEF TypeInv, Edit, Texts, IsText
  <1>2. ASSUME NEW d \in Domains, env' = SetValue(env, "vpn", Name("vpn", d)) PROVE env' \in Texts
    <2>1. Line("vpn", Name("vpn", d)) \in Lines
      BY InstallerAssumption DEF Line, Lines, Name, Names
    <2> QED BY <1>1, <1>2, <2>1, Written DEF Settings, IsText, Texts
  <1>3. CASE env' = SetValue(env, "provider", "none")
    <2>1. Line("provider", "none") \in Lines
      BY DEF Line, Lines
    <2> QED BY <1>1, <1>3, <2>1, Written DEF Settings, IsText, Texts
  <1> QED BY <1>2, <1>3 DEF Edit

LEMMA CrashKeepsCommands ==
    ASSUME CommandsOK, ServiceCrash
    PROVE  CommandsOK'
  <1>1. run' = [c \in Commands |-> IF run[c] = None THEN None ELSE [run[c] EXCEPT !.clean = FALSE]]
    BY DEF ServiceCrash
  <1>2. ASSUME NEW c \in Commands, run[c] # None PROVE CommandOK([run[c] EXCEPT !.clean = FALSE])
    BY <1>2 DEF CommandsOK, CommandOK, Command
  <1>3. run' \in [Commands -> Command \cup {None}]
    BY <1>1, <1>2 DEF CommandOK
  <1> QED BY <1>1, <1>2, <1>3 DEF CommandsOK

LEMMA StepKeepsTypes == TypeInv /\ [Next]_vars => TypeInv'
  <1> SUFFICES ASSUME TypeInv, [Next]_vars PROVE TypeInv'
    OBVIOUS
  <1>0. KeyTypes'
    BY StepKeepsKeyTypes DEF TypeInv
  <1> DEFINE HostOK == /\ env \in Texts
                       /\ package \in {None, Earlier, Checkout}
                       /\ service # None /\ service.up => service.package \in {Earlier, Checkout}
                       /\ exposed \subseteq Targets
  <1>1. HostOK /\ CommandsOK
    BY DEF TypeInv
  <1>2. ASSUME UNCHANGED <<env, package, service, exposed>> PROVE HostOK'
    BY <1>1, <1>2
  <1>3. SUFFICES HostOK' /\ CommandsOK'
    BY <1>0 DEF TypeInv
  <1>4. ASSUME NEW c \in Commands, StartDeploy(c) \/ StartLegacyDeploy(c) \/ StartInstall(c)
        PROVE  HostOK' /\ CommandsOK'
    BY <1>2, <1>4, StartsOK DEF hostVars
  <1>5. ASSUME NEW c \in Commands, Install(c) PROVE HostOK' /\ CommandsOK'
    BY <1>1, <1>5, InstallerKeepsTypes DEF Install
  <1>6. ASSUME NEW c \in Commands, Patch(c) PROVE HostOK' /\ CommandsOK'
    BY <1>1, <1>6, PatchKeepsTypes DEF Patch
  <1>7. ASSUME NEW c \in Commands, Rollback(c) PROVE HostOK' /\ CommandsOK'
    BY <1>1, <1>7, RollbackKeepsTypes DEF Rollback
  <1>8. ASSUME NEW c \in Commands, Expose(c) PROVE HostOK' /\ CommandsOK'
    BY <1>1, <1>8, ExposeKeepsTypes DEF Expose, hostVars
  <1>9. ASSUME NEW c \in Commands, Check(c) PROVE HostOK' /\ CommandsOK'
    BY <1>2, <1>9, CheckKeepsTypes DEF Check, hostVars
  <1>10. ASSUME NEW c \in Commands, Returns(c) \/ Kill(c) PROVE HostOK' /\ CommandsOK'
    <2>1. run' = [run EXCEPT ![c] = None] /\ HostOK'
      BY <1>2, <1>10 DEF Returns, Kill, hostVars
    <2> QED BY <1>1, <2>1, CommandsStay
  <1>11. CASE Reboot
    BY <1>1, <1>11 DEF Reboot, Stopped, CommandsOK
  <1>12. CASE Edit
    BY <1>1, <1>12, EditKeepsTypes DEF Edit, CommandsOK
  <1>13. CASE StoreCredentials
    BY <1>1, <1>13 DEF StoreCredentials, CommandsOK
  <1>14. CASE ServiceCrash /\ UNCHANGED <<exposed, edits>>
    BY <1>1, <1>14, CrashKeepsCommands DEF ServiceCrash, Stopped
  <1>15. CASE ServiceRestart /\ UNCHANGED <<exposed, edits>>
    BY <1>1, <1>15 DEF ServiceRestart, Started, Startable, CommandsOK
  <1>16. CASE UNCHANGED vars
    BY <1>1, <1>2, <1>16 DEF vars, hostVars, CommandsOK
  <1>17. ASSUME NEW c \in Commands, InstallerRaises(c) PROVE HostOK' /\ CommandsOK'
    BY <1>1, <1>2, <1>17, RaisesOK DEF InstallerRaises, hostVars
  <1> QED
    BY <1>4, <1>5, <1>6, <1>7, <1>8, <1>9, <1>10, <1>11, <1>12, <1>13, <1>14, <1>15, <1>16, <1>17
       DEF Next

\* Type correctness, for any number of commands at once: whatever is killed and
\* whoever edits it, server.env is a text of settings or does not exist.
THEOREM DeploymentTypesHold == Spec => []DeploymentTypeOK
  <1>1. TypeInv => DeploymentTypeOK
    BY DEF TypeInv, KeyTypes, CommandsOK, DeploymentTypeOK, HostKeys
  <1> QED
    BY <1>1, TypesInit, StepKeepsTypes, PTL DEF Spec

-----------------------------------------------------------------------------
(***************************************************************************)
(* The keys, when commands do not overlap: a key, once made, is neither    *)
(* replaced nor parted from its public half, and what is configured or     *)
(* running is that key or was never the installer's.  A command that is    *)
(* about to make a key has found none, and there still is none.            *)
(***************************************************************************)
Alone == \A c, d \in Commands : c = d

KeyInv ==
    /\ publicKey \in {None, privateKey}
    /\ conf \in {None, Keyless, ManualKey, privateKey}
    /\ interface \in {None, Keyless, ManualKey, privateKey}
    /\ \A c \in Commands : run[c] # None /\ run[c].at = "genkey" => privateKey = None

LEMMA KeysInit == Init => KeyInv
  <1> SUFFICES ASSUME Init PROVE KeyInv
    OBVIOUS
  <1>0. \A c \in Commands : run[c] = None
    BY DEF Init
  <1>1. CASE NewHost(None, None, None, None, None)
    BY <1>0, <1>1 DEF NewHost, KeyInv
  <1>2. CASE NewHost(None, ManualKey, None, None, None)
    BY <1>0, <1>2 DEF NewHost, KeyInv
  <1>3. CASE \E k \in Keys : NewHost(k, k, None, None, None)
    BY <1>0, <1>3 DEF NewHost, KeyInv
  <1>4. CASE \E k \in Keys, d \in Domains :
                NewHost(k, k, <<[key |-> "base", value |-> d]>>, Earlier, OldService(d))
    BY <1>0, <1>4 DEF NewHost, KeyInv
  <1> QED BY <1>1, <1>2, <1>3, <1>4 DEF Init

LEMMA KeysStay ==
    ASSUME KeyInv, UNCHANGED keyVars,
           \A c \in Commands :
              run'[c] # None /\ run'[c].at = "genkey" => run[c] # None /\ run[c].at = "genkey"
    PROVE  KeyInv'
  BY DEF KeyInv, keyVars

\* Where the only command is.
LEMMA SoleStep ==
    ASSUME Alone, CommandsOK, NEW c \in Commands, run[c] # None
    PROVE  /\ \A step \in Steps : Goes(c, step) => \A d \in Commands : run'[d].at = step
           /\ Tears(c) => \A d \in Commands : run'[d].at = run[d].at
           /\ Fails(c) \/ Dies(c) => \A d \in Commands : run'[d].at \in {"rollback", "gaveup"}
  <1>0. \A d \in Commands : d = c
    BY DEF Alone
  <1>1. ASSUME NEW step \in Steps, Goes(c, step) PROVE run'[c].at = step
    <2>1. PICK r2 : run' = [run EXCEPT ![c] = r2] /\ Moved(run[c], step, r2)
      BY <1>1, GoesMoves
    <2> QED BY <2>1 DEF Moved, CommandsOK
  <1>2. ASSUME Tears(c) PROVE run'[c].at = run[c].at
    <2>1. PICK r2 : run' = [run EXCEPT ![c] = r2] /\ Moved(run[c], run[c].at, r2)
      BY <1>2, TearsMoves
    <2> QED BY <2>1 DEF Moved, CommandsOK
  <1>3. AfterFailure(run[c]) = "rollback" \/ AfterFailure(run[c]) = "gaveup"
    BY Zenon DEF AfterFailure
  <1>4. ASSUME Fails(c) PROVE run'[c].at \in {"rollback", "gaveup"}
    <2>1. PICK r2 : run' = [run EXCEPT ![c] = r2] /\ Moved(run[c], AfterFailure(run[c]), r2)
      BY <1>4, FailsMoves
    <2> QED BY <1>3, <2>1 DEF Moved, CommandsOK
  <1>5. ASSUME Dies(c) PROVE run'[c].at \in {"rollback", "gaveup"}
    BY <1>1, <1>3, <1>5 DEF Dies, Steps
  <1> QED BY <1>0, <1>1, <1>2, <1>4, <1>5

LEMMA PrepareKeepsKeys ==
    ASSUME Alone, TypeInv, KeyInv, NEW c \in Commands, PrepareKeys(c)
    PROVE  KeyInv'
  <1>0. CommandsOK /\ run[c] # None /\ UNCHANGED <<conf, interface>> /\ privateKey \in Keys \cup {None}
    BY DEF PrepareKeys, At, TypeInv, KeyTypes
  <1>1. CASE At(c, "keys")
    <2>1. UNCHANGED <<privateKey, publicKey>>
      BY <1>1 DEF PrepareKeys, At
    <2>2. CASE LacksKey
      BY <1>0, <2>1, <2>2 DEF LacksKey, KeyInv
    <2>3. CASE ~LacksKey
      <3>1. Goes(c, "publish")
        BY <1>1, <2>3 DEF PrepareKeys, At
      <3>2. \A d \in Commands : run'[d].at = "publish"
        BY <1>0, <3>1, SoleStep DEF Steps
      <3> QED BY <1>0, <2>1, <3>2 DEF KeyInv
    <2> QED BY <2>2, <2>3
  <1>2. CASE At(c, "genkey")
    <2>1. privateKey = None
      BY <1>2 DEF At, KeyInv
    <2>2. CASE privateKey' = None /\ UNCHANGED publicKey
      BY <1>0, <2>1, <2>2 DEF KeyInv
    <2>3. CASE privateKey' \in Keys /\ Goes(c, "publish") /\ UNCHANGED publicKey
      <3>1. \A d \in Commands : run'[d].at = "publish"
        BY <1>0, <2>3, SoleStep DEF Steps
      <3> QED BY <1>0, <2>1, <2>3, <3>1 DEF KeyInv
    <2> QED BY <1>2, <2>2, <2>3 DEF PrepareKeys, At
  <1>3. CASE At(c, "publish")
    <2>1. UNCHANGED privateKey /\ publicKey' \in {None, privateKey} /\ (Goes(c, "conf") \/ Tears(c))
      BY <1>3 DEF PrepareKeys, At
    <2>2. \A d \in Commands : run'[d].at # "genkey"
      <3>1. Goes(c, "conf") => \A d \in Commands : run'[d].at = "conf"
        BY <1>0, SoleStep DEF Steps
      <3>2. Tears(c) => \A d \in Commands : run'[d].at = run[c].at
        BY <1>0, SoleStep DEF Alone
      <3> QED BY <1>3, <2>1, <3>1, <3>2 DEF At
    <2> QED BY <1>0, <2>1, <2>2 DEF KeyInv
  <1> QED BY <1>1, <1>2, <1>3 DEF PrepareKeys

LEMMA InstallerKeepsKeys ==
    ASSUME Alone, TypeInv, KeyInv, NEW c \in Commands, InstallerStep(c)
    PROVE  KeyInv'
  <1>0. CommandsOK
    BY DEF TypeInv
  <1>1. CASE PrepareKeys(c)
    BY <1>1, PrepareKeepsKeys
  <1>2. CASE StepFails(c)
    <2>1. run[c] # None /\ Fails(c) /\ UNCHANGED keyVars
      BY <1>2 DEF StepFails, hostVars
    <2>2. \A d \in Commands : run'[d].at \in {"rollback", "gaveup"}
      BY <1>0, <2>1, SoleStep
    <2> QED BY <2>1, <2>2, KeysStay
  <1>3. ASSUME ~PrepareKeys(c), ~StepFails(c) PROVE \A d \in Commands : run'[d].at # "genkey"
    <2>1. /\ run[c] # None /\ run[c].at # "genkey"
          /\ \/ \E step \in Steps \ {"genkey"} : Goes(c, step)
             \/ Tears(c) \/ Fails(c) \/ Dies(c) \/ UNCHANGED run
      <3>1. AfterInstall(run[c]) \in Steps \ {"genkey"}
        BY DEF AfterInstall, Steps
      <3>2. CASE EnsureConf(c) \/ InstallFiles(c) \/ EnsureEnvironment(c)
        BY <3>2 DEF EnsureConf, InstallFiles, EnsureEnvironment, At, Steps
      <3>3. CASE ValidateDns(c) \/ InitializeRegistry(c) \/ InitializeDns(c)
        BY <3>3 DEF ValidateDns, InitializeRegistry, InitializeDns, At, Steps
      <3>4. CASE EnableServices(c)
        BY <3>1, <3>4 DEF EnableServices, At
      <3> QED BY <1>3, <3>2, <3>3, <3>4 DEF InstallerStep
    <2>2. \A d \in Commands : d = c
      BY DEF Alone
    <2> QED BY <1>0, <2>1, <2>2, SoleStep
  <1>4. CASE EnsureConf(c)
    <2>1. ~PrepareKeys(c)
      BY <1>4 DEF EnsureConf, PrepareKeys, At
    <2> QED BY <1>2, <1>3, <1>4, <2>1 DEF EnsureConf, KeyInv
  <1>5. CASE EnableServices(c)
    <2>1. ~PrepareKeys(c)
      BY <1>5 DEF EnableServices, PrepareKeys, At
    <2> QED BY <1>2, <1>3, <1>5, <2>1 DEF EnableServices, InterfaceStarted, KeyInv
  <1>6. ASSUME UNCHANGED keyVars, ~PrepareKeys(c) PROVE KeyInv'
    BY <1>2, <1>3, <1>6, KeysStay
  <1>7. CASE InstallFiles(c) \/ EnsureEnvironment(c)
    <2>1. UNCHANGED keyVars
      BY <1>7 DEF InstallFiles, EnsureEnvironment
    <2> QED BY <1>1, <1>6, <2>1
  <1>8. CASE ValidateDns(c) \/ InitializeRegistry(c) \/ InitializeDns(c)
    <2>1. UNCHANGED keyVars
      BY <1>8 DEF ValidateDns, InitializeRegistry, InitializeDns, hostVars
    <2> QED BY <1>1, <1>6, <2>1
  <1> QED
    BY <1>1, <1>2, <1>4, <1>5, <1>7, <1>8 DEF InstallerStep

LEMMA StepKeepsKeys == Alone /\ TypeInv /\ KeyInv /\ [Next]_vars => KeyInv'
  <1> SUFFICES ASSUME Alone, TypeInv, KeyInv, [Next]_vars PROVE KeyInv'
    OBVIOUS
  <1>0. CommandsOK
    BY DEF TypeInv
  <1>1. ASSUME NEW c \in Commands, StartDeploy(c) \/ StartLegacyDeploy(c) \/ StartInstall(c)
        PROVE  KeyInv'
    <2>1. ASSUME NEW op, NEW at \in {"patch", "keys"}, NEW target, NEW provider, NEW dns, NEW shell,
                 Begins(c, op, at, target, provider, dns, shell)
          PROVE  UNCHANGED keyVars /\ \A d \in Commands : run'[d].at # "genkey"
      BY <1>0, <2>1 DEF Begins, hostVars, Alone, CommandsOK
    <2>2. UNCHANGED keyVars /\ \A d \in Commands : run'[d].at # "genkey"
      <3>1. CASE StartDeploy(c)
        <4>1. PICK target, d, option, dns :
                 Begins(c, "deploy", "patch", target, Selected(option), dns,
                        With([Shell(d) EXCEPT !.register = target], Selected(option)))
          BY <3>1 DEF StartDeploy
        <4> QED BY <2>1, <4>1
      <3>2. CASE StartLegacyDeploy(c)
        <4>1. PICK d, option, dns :
                 Begins(c, "legacy", "patch", Name("register", d), option, dns, With(Shell(d), option))
          BY <3>2 DEF StartLegacyDeploy
        <4> QED BY <2>1, <4>1
      <3>3. CASE StartInstall(c)
        <4>1. PICK d : Begins(c, "install", "keys", Name("register", d), None, FALSE, Shell(d))
          BY <3>3 DEF StartInstall
        <4> QED BY <2>1, <4>1
      <3> QED BY <1>1, <3>1, <3>2, <3>3
    <2> QED BY <2>2, KeysStay
  <1>2. ASSUME NEW c \in Commands, Install(c) PROVE KeyInv'
    BY <1>2, InstallerKeepsKeys DEF Install
  <1>3. ASSUME NEW c \in Commands, Patch(c) \/ Expose(c) \/ Rollback(c) \/ Check(c) PROVE KeyInv'
    <2>1. UNCHANGED keyVars
      BY <1>3 DEF Patch, Expose, Rollback, Check, hostVars
    <2>2. /\ run[c] # None /\ run[c] \in Command /\ run[c].at # "genkey"
          /\ run \in [Commands -> Command \cup {None}]
      BY <1>0, <1>3 DEF Patch, Expose, Rollback, Check, At, CommandsOK, CommandOK
    <2>3. run'[c].at # "genkey"
      <3>1. \A step \in Steps : Goes(c, step) => run'[c].at = step
        BY <1>0, <2>2, SoleStep
      <3>2. Tears(c) => run'[c].at = run[c].at
        BY <1>0, <2>2, SoleStep
      <3>3. Fails(c) => run'[c].at \in {"rollback", "gaveup"}
        BY <1>0, <2>2, SoleStep
      <3>4. CASE Patch(c)
        BY <2>2, <3>1, <3>4 DEF Patch, Steps, Command
      <3>5. CASE Expose(c)
        BY <3>1, <3>3, <3>5 DEF Expose, Steps
      <3>6. CASE Rollback(c)
        BY <2>2, <3>1, <3>2, <3>6 DEF Rollback, Steps
      <3>7. CASE Check(c)
        <4>1. CASE Goes(c, IF Answer(run[c]) THEN "ready" ELSE "unready")
          <5>1. PICK step \in {"ready", "unready"} : Goes(c, step)
            BY <4>1, Zenon
          <5> QED BY <3>1, <5>1 DEF Steps
        <4>2. CASE run' = [run EXCEPT ![c].at = "unready", ![c].clean = FALSE]
          BY <2>2, <4>2 DEF Command
        <4> QED BY <3>7, <4>1, <4>2 DEF Check
      <3> QED BY <1>3, <3>4, <3>5, <3>6, <3>7
    <2> QED BY <2>1, <2>3, KeysStay DEF Alone
  <1>4. ASSUME NEW c \in Commands, Returns(c) \/ Kill(c) PROVE KeyInv'
    <2>1. UNCHANGED keyVars /\ run'[c] = None
      BY <1>0, <1>4 DEF Returns, Kill, hostVars, CommandsOK
    <2> QED BY <2>1, KeysStay DEF Alone
  <1>5. CASE Reboot
    BY <1>5 DEF Reboot, KeyInv
  <1>6. CASE Edit \/ StoreCredentials \/ ServiceRestart
    BY <1>6, KeysStay DEF Edit, StoreCredentials, ServiceRestart
  <1>7. CASE ServiceCrash
    <2>1. \A c \in Commands : run[c] # None => [run[c] EXCEPT !.clean = FALSE].at = run[c].at
      BY <1>0 DEF CommandsOK, CommandOK, Command
    <2>2. /\ UNCHANGED keyVars
          /\ run' = [c \in Commands |-> IF run[c] = None THEN None
                                         ELSE [run[c] EXCEPT !.clean = FALSE]]
      BY <1>7 DEF ServiceCrash
    <2>3. ASSUME NEW c \in Commands, run'[c] # None, run'[c].at = "genkey"
          PROVE  run[c] # None /\ run[c].at = "genkey"
      BY <2>1, <2>2, <2>3
    <2> QED BY <2>2, <2>3, KeysStay
  <1>8. CASE UNCHANGED vars
    BY <1>8, KeysStay DEF vars, hostVars
  <1>9. ASSUME NEW c \in Commands, InstallerRaises(c) PROVE KeyInv'
    <2>1. PICK r2 : run' = [run EXCEPT ![c] = r2] /\ Moved(run[c], "raised", r2)
      BY <1>0, <1>9, RaisesMoves
    <2>2. UNCHANGED keyVars /\ run'[c].at # "genkey"
      BY <1>0, <1>9, <2>1 DEF InstallerRaises, hostVars, Moved, CommandsOK
    <2> QED BY <2>2, KeysStay DEF Alone
  <1> QED
    BY <1>1, <1>2, <1>3, <1>4, <1>5, <1>6, <1>7, <1>8, <1>9 DEF Next

\* When commands do not overlap, no failure, death or reboot parts the key of the
\* running interface from the one that devices are told.
THEOREM GatewayHasOneKey == Alone => (Spec => []OneGatewayKey)
  <1> SUFFICES ASSUME Alone PROVE Spec => []OneGatewayKey
    OBVIOUS
  <1>1. Init => TypeInv /\ KeyInv
    BY TypesInit, KeysInit
  <1>2. TypeInv /\ KeyInv /\ [Next]_vars => (TypeInv /\ KeyInv)'
    BY StepKeepsTypes, StepKeepsKeys
  <1>3. KeyInv => OneGatewayKey
    BY DEF KeyInv, OneGatewayKey
  <1> QED
    BY <1>1, <1>2, <1>3, PTL DEF Spec

-----------------------------------------------------------------------------
(***************************************************************************)
(* server.env, when commands do not overlap: what a command has to put     *)
(* back is what it found, and all it writes keeps the base domain and the  *)
(* VPN name.  While a file is torn the text is in the memory of the        *)
(* command alone: there the invariant says nothing of the file.            *)
(***************************************************************************)
Keeps(before, text) ==
    \A k \in {"base", "vpn"} :
        ValueOf(before, k) # None => ValueOf(text, k) = ValueOf(before, k)

FileInv(r, text) ==
    /\ r.original # None => r.original = r.before
    /\ r.op = "deploy" /\ r.at # "patch" => r.original = r.before
    /\ r.at = "patch" /\ ~r.torn => text = r.before /\ r.original = None
    /\ r.at = "rollback" => r.op = "deploy" \/ r.original # None
    /\ r.at = "env" /\ r.torn => r.before = None
    /\ r.op = "deploy" /\ r.at = "gaveup" => text = r.before
    /\ r.before # None /\ ~(r.torn /\ r.at \in {"patch", "rollback"})
          => text # None /\ Keeps(r.before, text)

FileOK == \A c \in Commands : run[c] # None => FileInv(run[c], env)

LEMMA SoleCommand ==
    ASSUME Alone, CommandsOK, NEW c \in Commands, NEW r2, run' = [run EXCEPT ![c] = r2],
           r2 # None => FileInv(r2, env')
    PROVE  FileOK'
  <1>1. run'[c] = r2 /\ \A d \in Commands : d = c
    BY DEF Alone, CommandsOK
  <1> QED BY <1>1 DEF FileOK

\* A command goes on and leaves server.env alone.
LEMMA GoesKeepsFile ==
    ASSUME Alone, CommandsOK, FileOK, NEW c \in Commands, run[c] # None, UNCHANGED env,
           NEW step \in Steps \ {"patch"}, Goes(c, step), run[c].at # "patch",
           run[c].torn => run[c].at # "rollback",
           step = "rollback" => run[c].op = "deploy" \/ run[c].original # None,
           step = "gaveup" => run[c].op # "deploy"
    PROVE  FileOK'
  <1>1. PICK r2 : /\ run' = [run EXCEPT ![c] = r2]
                  /\ Moved(run[c], step, r2)
                  /\ ~r2.torn /\ r2.original = run[c].original
    BY GoesMoves
  <1>2. FileInv(r2, env')
    BY <1>1 DEF FileOK, FileInv, Moved
  <1> QED BY <1>1, <1>2, SoleCommand

LEMMA FailsKeepsFile ==
    ASSUME Alone, CommandsOK, FileOK, NEW c \in Commands, run[c] # None, UNCHANGED env,
           Fails(c) \/ Dies(c), run[c].at \notin {"patch", "rollback"}
    PROVE  FileOK'
  <1>1. \/ AfterFailure(run[c]) = "rollback" /\ (run[c].op = "deploy" \/ run[c].original # None)
        \/ AfterFailure(run[c]) = "gaveup" /\ run[c].op # "deploy"
    BY Zenon DEF AfterFailure
  <1>2. CASE Fails(c)
    <2>1. PICK r2 : /\ run' = [run EXCEPT ![c] = r2]
                    /\ Moved(run[c], AfterFailure(run[c]), r2)
                    /\ ~r2.torn /\ r2.original = run[c].original
      BY <1>2, FailsMoves
    <2>2. FileInv(r2, env')
      BY <1>1, <2>1 DEF FileOK, FileInv, Moved
    <2> QED BY <2>1, <2>2, SoleCommand
  <1>3. CASE Dies(c)
    BY <1>1, <1>3, GoesKeepsFile DEF Dies, Steps
  <1> QED BY <1>2, <1>3

LEMMA TearsKeepsFile ==
    ASSUME Alone, CommandsOK, FileOK, NEW c \in Commands, run[c] # None, UNCHANGED env,
           Tears(c), run[c].at \notin {"patch", "env"}
    PROVE  FileOK'
  <1>1. PICK r2 : /\ run' = [run EXCEPT ![c] = r2]
                  /\ Moved(run[c], run[c].at, r2)
                  /\ r2.torn /\ r2.original = run[c].original
    BY TearsMoves
  <1>2. FileInv(r2, env')
    BY <1>1 DEF FileOK, FileInv, Moved
  <1> QED BY <1>1, <1>2, SoleCommand

\* A patch changes neither the base domain nor the VPN name.
LEMMA PatchedKeeps ==
    ASSUME NEW r, CommandOK(r), r.original # None, r.op = "legacy" => r.provider # None,
           NEW k \in {"base", "vpn"}
    PROVE  ValueOf(Patched(r.original, r), k) = ValueOf(r.original, k)
  <1> DEFINE text == r.original
             named == ReplaceValue(text, "register", r.target)
  <1>1. IsText(text) /\ r.target \in AllValues /\ (r.provider # None => r.provider \in AllValues)
    BY DEF CommandOK, Command, Texts, IsText, AllValues
  <1>2. text \in TextsOf(AllValues)
    BY <1>1, TextsAreTexts
  <1> HIDE DEF text
  <1>3. named \in TextsOf(AllValues) /\ ValueOf(named, k) = ValueOf(text, k)
    BY <1>1, <1>2, ReplaceValueTakesEffect DEF Settings
  <1> HIDE DEF named
  <1>4. ASSUME r.provider # None
        PROVE  ValueOf(SetValue(text, "provider", r.provider), k) = ValueOf(text, k)
    <2>1. k \in Settings \ {"provider"} /\ "provider" \in Settings
      BY DEF Settings
    <2> QED BY <1>1, <1>2, <1>4, <2>1, SetValueTakesEffect
  <1>5. ASSUME r.provider # None
        PROVE  ValueOf(ReplaceValue(named, "provider", r.provider), k) = ValueOf(named, k)
    <2>1. k \in Settings \ {"provider"} /\ "provider" \in Settings
      BY DEF Settings
    <2> QED BY <1>1, <1>3, <1>5, <2>1, ReplaceValueTakesEffect
  <1> QED BY <1>3, <1>4, <1>5 DEF Patched, text, named

LEMMA EnvironmentKeepsFile ==
    ASSUME Alone, TypeInv, FileOK, NEW c \in Commands, EnsureEnvironment(c)
    PROVE  FileOK'
  <1>1. /\ run[c] # None /\ run[c].at = "env" /\ run[c].shell \in ShellValues
        /\ FileInv(run[c], env) /\ CommandsOK /\ None \notin Seq(Lines)
    BY DeploymentAssumption
       DEF TypeInv, CommandsOK, CommandOK, Command, EnsureEnvironment, At, FileOK
  <1>2. CASE run[c].torn /\ env' = NewText(run[c].shell) /\ Goes(c, "validate")
    <2>1. PICK r2 : /\ run' = [run EXCEPT ![c] = r2]
                    /\ Moved(run[c], "validate", r2)
                    /\ ~r2.torn /\ r2.original = run[c].original
      BY <1>1, <1>2, GoesMoves DEF Steps
    <2>2. FileInv(r2, env')
      BY <1>1, <1>2, <2>1 DEF FileInv, Moved
    <2> QED BY <1>1, <2>1, <2>2, SoleCommand
  <1>3. CASE ~run[c].torn /\ env = None /\ env' = <<>> /\ Tears(c)
    <2>1. PICK r2 : /\ run' = [run EXCEPT ![c] = r2]
                    /\ Moved(run[c], "env", r2)
                    /\ r2.torn /\ r2.original = run[c].original
      BY <1>1, <1>3, TearsMoves
    <2>2. FileInv(r2, env')
      BY <1>1, <1>3, <2>1 DEF FileInv, Moved
    <2> QED BY <1>1, <2>1, <2>2, SoleCommand
  <1>4. CASE /\ ~run[c].torn /\ env # None
             /\ env' = AppendIfMissing(env, NextMissing, run[c].shell[NextMissing])
             /\ UNCHANGED run
    <2>1. NextMissing \in {"provider", "vpn", "register"}
      BY DEF NextMissing
    <2>2. IsText(env) /\ env \in TextsOf(AllValues)
      BY <1>4, TextsAreTexts DEF TypeInv, Texts, IsText
    <2>3. NextMissing \in Settings /\ Line(NextMissing, run[c].shell[NextMissing]) \in Lines
      BY <1>1, <2>1, ShellLines
    <2>4. IsText(env')
      BY <1>4, <2>2, <2>3, Written
    <2>5. run[c].shell[NextMissing] \in AllValues
      BY <1>1, <2>1 DEF ShellValues, AllValues
    <2>6. Has(env, NextMissing) \/ NextMissing \notin {"base", "vpn"} \/ ValueOf(env, NextMissing) = None
      BY DEF ValueOf
    <2>7. ASSUME NEW k \in {"base", "vpn"}, ValueOf(env, k) # None
          PROVE  ValueOf(env', k) = ValueOf(env, k)
      <3>1. k \in Settings
        BY DEF Settings
      <3>2. CASE k = NextMissing
        BY <1>4, <2>6, <2>7, <3>2 DEF AppendIfMissing
      <3>3. CASE k # NextMissing
        BY <1>4, <2>2, <2>3, <2>5, <3>1, <3>3, AppendIfMissingKeeps
      <3> QED BY <3>2, <3>3
    <2>8. FileInv(run[c], env')
      BY <1>1, <1>4, <2>4, <2>7 DEF FileInv, Keeps, IsText
    <2> QED BY <1>4, <2>8 DEF FileOK, Alone
  <1>5. CASE ~run[c].torn /\ Goes(c, "validate") /\ UNCHANGED env
    BY <1>1, <1>5, GoesKeepsFile DEF Steps
  <1> QED
    BY <1>2, <1>3, <1>4, <1>5 DEF EnsureEnvironment

LEMMA InstallerKeepsFile ==
    ASSUME Alone, TypeInv, FileOK, NEW c \in Commands, InstallerStep(c)
    PROVE  FileOK'
  <1>0. CommandsOK
    BY DEF TypeInv
  <1>1. ASSUME UNCHANGED env, run[c] # None, run[c].at \notin {"patch", "rollback"},
               NEW step \in Steps \ {"patch", "rollback", "gaveup"}, Goes(c, step)
        PROVE  FileOK'
    BY <1>0, <1>1, GoesKeepsFile
  <1>2. ASSUME UNCHANGED env, run[c] # None, run[c].at \notin {"patch", "env"}, Tears(c)
        PROVE  FileOK'
    BY <1>0, <1>2, TearsKeepsFile
  <1>3. ASSUME UNCHANGED env, run[c] # None, run[c].at \notin {"patch", "rollback"},
               Fails(c) \/ Dies(c)
        PROVE  FileOK'
    BY <1>0, <1>3, FailsKeepsFile
  <1>4. CASE PrepareKeys(c)
    BY <1>1, <1>2, <1>4 DEF PrepareKeys, At, Steps
  <1>5. CASE EnsureConf(c)
    BY <1>1, <1>2, <1>5 DEF EnsureConf, At, Steps
  <1>6. CASE InstallFiles(c)
    BY <1>1, <1>2, <1>6 DEF InstallFiles, At, Steps
  <1>7. CASE EnsureEnvironment(c)
    BY <1>7, EnvironmentKeepsFile
  <1>8. CASE ValidateDns(c)
    BY <1>1, <1>3, <1>8 DEF ValidateDns, At, Steps, hostVars
  <1>9. CASE InitializeRegistry(c)
    BY <1>1, <1>3, <1>9 DEF InitializeRegistry, At, Steps
  <1>10. CASE InitializeDns(c)
    BY <1>1, <1>3, <1>10 DEF InitializeDns, At, Steps, hostVars
  <1>11. CASE EnableServices(c)
    <2>1. AfterInstall(run[c]) \in Steps \ {"patch", "rollback", "gaveup"}
      BY DEF AfterInstall, Steps
    <2> QED BY <1>1, <1>3, <1>11, <2>1 DEF EnableServices, At
  <1>12. CASE StepFails(c)
    BY <1>3, <1>12 DEF StepFails, hostVars
  <1> QED
    BY <1>4, <1>5, <1>6, <1>7, <1>8, <1>9, <1>10, <1>11, <1>12 DEF InstallerStep

LEMMA PatchKeepsFile ==
    ASSUME Alone, TypeInv, FileOK, NEW c \in Commands, Patch(c)
    PROVE  FileOK'
  <1>1. /\ run[c] # None /\ run[c].at = "patch" /\ CommandOK(run[c])
        /\ FileInv(run[c], env) /\ CommandsOK /\ env \in Texts /\ None \notin Seq(Lines)
    BY DeploymentAssumption DEF TypeInv, CommandsOK, Patch, At, FileOK
  <1>2. CASE ~run[c].torn /\ ~Patches(run[c]) /\ Goes(c, "keys") /\ UNCHANGED env
    <2>1. PICK r2 : /\ run' = [run EXCEPT ![c] = r2]
                    /\ Moved(run[c], "keys", r2)
                    /\ ~r2.torn /\ r2.original = run[c].original
      BY <1>1, <1>2, GoesMoves DEF Steps
    <2>2. FileInv(r2, env')
      BY <1>1, <1>2, <2>1 DEF FileInv, Moved, Patches
    <2> QED BY <1>1, <2>1, <2>2, SoleCommand
  <1>3. CASE /\ ~run[c].torn /\ Patches(run[c])
             /\ env' = <<>>
             /\ run' = [run EXCEPT ![c].torn = TRUE, ![c].original = env]
    <2>1. PICK r2 : /\ run' = [run EXCEPT ![c] = r2]
                    /\ Moved(run[c], "patch", r2)
                    /\ r2.torn /\ r2.original = env
      BY <1>1, <1>3, PatchTears
    <2>2. FileInv(r2, env')
      BY <1>1, <1>3, <2>1 DEF FileInv, Moved
    <2> QED BY <1>1, <2>1, <2>2, SoleCommand
  <1>4. CASE run[c].torn /\ env' = Patched(run[c].original, run[c]) /\ Goes(c, "keys")
    <2>1. PICK r2 : /\ run' = [run EXCEPT ![c] = r2]
                    /\ Moved(run[c], "keys", r2)
                    /\ ~r2.torn /\ r2.original = run[c].original
      BY <1>1, <1>4, GoesMoves DEF Steps
    <2>2. /\ run[c].original # None
          /\ run[c].op = "legacy" => run[c].provider # None
          /\ run[c].original = run[c].before
      BY <1>1, <1>4 DEF CommandOK, FileInv
    <2>3. IsText(env')
      BY <1>1, <1>4, <2>2, PatchedIsText
    <2>4. Keeps(run[c].before, env')
      BY <1>1, <1>4, <2>2, PatchedKeeps DEF Keeps
    <2>5. FileInv(r2, env')
      BY <1>1, <1>4, <2>1, <2>2, <2>3, <2>4 DEF FileInv, Moved, IsText
    <2> QED BY <1>1, <2>1, <2>5, SoleCommand
  <1> QED
    BY <1>2, <1>3, <1>4 DEF Patch

LEMMA RollbackKeepsFile ==
    ASSUME Alone, TypeInv, FileOK, NEW c \in Commands, Rollback(c)
    PROVE  FileOK'
  <1>1. /\ run[c] # None /\ run[c].at = "rollback" /\ CommandOK(run[c])
        /\ FileInv(run[c], env) /\ CommandsOK
    BY DEF TypeInv, CommandsOK, Rollback, At, FileOK
  <1>2. CASE ~run[c].torn /\ run[c].original # None /\ env' = <<>> /\ Tears(c)
    <2>1. PICK r2 : /\ run' = [run EXCEPT ![c] = r2]
                    /\ Moved(run[c], "rollback", r2)
                    /\ r2.torn /\ r2.original = run[c].original
      BY <1>1, <1>2, TearsMoves
    <2>2. FileInv(r2, env')
      BY <1>1, <1>2, <2>1 DEF FileInv, Moved
    <2> QED BY <1>1, <2>1, <2>2, SoleCommand
  <1>3. ASSUME env' = run[c].original, env' = run[c].before, Goes(c, "gaveup") PROVE FileOK'
    <2>1. PICK r2 : /\ run' = [run EXCEPT ![c] = r2]
                    /\ Moved(run[c], "gaveup", r2)
                    /\ ~r2.torn /\ r2.original = run[c].original
      BY <1>1, <1>3, GoesMoves DEF Steps
    <2>2. FileInv(r2, env')
      BY <1>1, <1>3, <2>1 DEF FileInv, Moved, Keeps
    <2> QED BY <1>1, <2>1, <2>2, SoleCommand
  <1>4. CASE ~run[c].torn /\ run[c].original = None /\ env' = None /\ Goes(c, "gaveup")
    BY <1>1, <1>3, <1>4 DEF FileInv
  <1>5. CASE run[c].torn /\ env' = run[c].original /\ Goes(c, "gaveup")
    <2>1. run[c].original # None
      BY <1>1, <1>5 DEF CommandOK
    <2> QED BY <1>1, <1>3, <1>5, <2>1 DEF FileInv
  <1> QED
    BY <1>2, <1>4, <1>5 DEF Rollback

\* A command begins with the file it finds.
LEMMA BeginsWithFile ==
    ASSUME Alone, TypeInv, NEW c \in Commands, NEW op, NEW at, NEW target, NEW provider, NEW dns,
           NEW shell, Begins(c, op, at, target, provider, dns, shell),
           at = "patch" \/ (at = "keys" /\ op = "install")
    PROVE  FileOK'
  <1> DEFINE r == [op |-> op, at |-> at, torn |-> FALSE, target |-> target, provider |-> provider,
                   dns |-> dns, shell |-> shell, before |-> env, original |-> None,
                   clean |-> TRUE, predicted |-> op = "legacy" /\ Deployable(target.domain, dns)]
  <1>1. run' = [run EXCEPT ![c] = r] /\ UNCHANGED env /\ CommandsOK
    BY DEF Begins, hostVars, TypeInv
  <1>2. /\ r.op = op /\ r.at = at /\ ~r.torn
        /\ r.before = env /\ r.original = None
    OBVIOUS
  <1> HIDE DEF r
  <1>3. FileInv(r, env')
    BY <1>1, <1>2 DEF FileInv, Keeps
  <1> QED BY <1>1, <1>3, SoleCommand

LEMMA FileInit == Init => FileOK
  BY DEF Init, FileOK

LEMMA StepKeepsFile == Alone /\ TypeInv /\ FileOK /\ [Next]_vars => FileOK'
  <1> SUFFICES ASSUME Alone, TypeInv, FileOK, [Next]_vars PROVE FileOK'
    OBVIOUS
  <1>0. CommandsOK
    BY DEF TypeInv
  <1>1. ASSUME NEW c \in Commands, StartDeploy(c) PROVE FileOK'
    <2>1. PICK target, d, option, dns :
             Begins(c, "deploy", "patch", target, Selected(option), dns,
                    With([Shell(d) EXCEPT !.register = target], Selected(option)))
      BY <1>1 DEF StartDeploy
    <2> QED BY <2>1, BeginsWithFile
  <1>2. ASSUME NEW c \in Commands, StartLegacyDeploy(c) PROVE FileOK'
    <2>1. PICK d, option, dns :
             Begins(c, "legacy", "patch", Name("register", d), option, dns, With(Shell(d), option))
      BY <1>2 DEF StartLegacyDeploy
    <2> QED BY <2>1, BeginsWithFile
  <1>3. ASSUME NEW c \in Commands, StartInstall(c) PROVE FileOK'
    <2>1. PICK d : Begins(c, "install", "keys", Name("register", d), None, FALSE, Shell(d))
      BY <1>3 DEF StartInstall
    <2> QED BY <2>1, BeginsWithFile
  <1>4. ASSUME NEW c \in Commands, Install(c) PROVE FileOK'
    BY <1>4, InstallerKeepsFile DEF Install
  <1>5. ASSUME NEW c \in Commands, Patch(c) PROVE FileOK'
    BY <1>5, PatchKeepsFile
  <1>6. ASSUME NEW c \in Commands, Rollback(c) PROVE FileOK'
    BY <1>6, RollbackKeepsFile
  <1>7. ASSUME NEW c \in Commands, Expose(c) PROVE FileOK'
    BY <1>0, <1>7, GoesKeepsFile, FailsKeepsFile DEF Expose, At, Steps, hostVars
  <1>8. ASSUME NEW c \in Commands, Check(c) PROVE FileOK'
    <2>1. run[c] # None /\ run[c].at = "check" /\ UNCHANGED env /\ run[c] \in Command
      BY <1>0, <1>8 DEF Check, At, hostVars, CommandsOK, CommandOK
    <2>2. CASE Goes(c, IF Answer(run[c]) THEN "ready" ELSE "unready")
      <3>1. PICK step \in {"ready", "unready"} : Goes(c, step)
        BY <2>2, Zenon
      <3> QED BY <1>0, <2>1, <3>1, GoesKeepsFile DEF Steps
    <2>3. CASE run' = [run EXCEPT ![c].at = "unready", ![c].clean = FALSE]
      <3> DEFINE r2 == [run[c] EXCEPT !.at = "unready", !.clean = FALSE]
      <3>1. run' = [run EXCEPT ![c] = r2]
        BY <1>0, <2>1, <2>3 DEF CommandsOK
      <3>2. /\ r2.at = "unready" /\ r2.op = run[c].op /\ r2.before = run[c].before
            /\ r2.original = run[c].original
        BY <2>1 DEF Command
      <3> HIDE DEF r2
      <3>3. FileInv(r2, env')
        BY <2>1, <3>2 DEF FileOK, FileInv
      <3> QED BY <1>0, <3>1, <3>3, SoleCommand
    <2> QED BY <1>8, <2>2, <2>3 DEF Check
  <1>9. ASSUME NEW c \in Commands, Returns(c) \/ Kill(c) PROVE FileOK'
    BY <1>0, <1>9, SoleCommand DEF Returns, Kill
  <1>10. CASE Reboot
    BY <1>10 DEF Reboot, FileOK
  <1>11. CASE Edit \/ StoreCredentials
    BY <1>11 DEF Edit, StoreCredentials, Quiet, FileOK
  <1>12. CASE ServiceCrash
    <2>1. /\ env' = env
          /\ run' = [c \in Commands |-> IF run[c] = None THEN None
                                         ELSE [run[c] EXCEPT !.clean = FALSE]]
      BY <1>12 DEF ServiceCrash
    <2>2. ASSUME NEW c \in Commands, run[c] # None
          PROVE  FileInv([run[c] EXCEPT !.clean = FALSE], env)
      <3> DEFINE r2 == [run[c] EXCEPT !.clean = FALSE]
      <3>1. run[c] \in Command
        BY <1>0, <2>2 DEF CommandsOK, CommandOK
      <3>2. /\ r2.at = run[c].at /\ r2.op = run[c].op /\ r2.before = run[c].before
            /\ r2.original = run[c].original /\ r2.torn = run[c].torn
        BY <3>1 DEF Command
      <3>3. FileInv(run[c], env)
        BY <2>2 DEF FileOK
      <3> HIDE DEF r2
      <3>4. FileInv(r2, env)
        BY <3>2, <3>3 DEF FileInv
      <3> QED BY <3>4 DEF r2
    <2> QED BY <2>1, <2>2 DEF FileOK
  <1>13. CASE ServiceRestart \/ UNCHANGED vars
    BY <1>13 DEF ServiceRestart, vars, hostVars, FileOK
  <1>14. ASSUME NEW c \in Commands, InstallerRaises(c) PROVE FileOK'
    <2>1. PICK r2 : /\ run' = [run EXCEPT ![c] = r2]
                    /\ Moved(run[c], "raised", r2)
                    /\ r2.original = run[c].original
      BY <1>0, <1>14, RaisesMoves
    <2>2. FileInv(r2, env')
      BY <1>14, <2>1 DEF InstallerRaises, At, hostVars, FileOK, FileInv, Moved
    <2> QED BY <1>0, <2>1, <2>2, SoleCommand
  <1> QED
    BY <1>1, <1>2, <1>3, <1>4, <1>5, <1>6, <1>7, <1>8, <1>9, <1>10, <1>11, <1>12, <1>13, <1>14
       DEF Next

LEMMA FileInvariant == Alone => (Spec => [](TypeInv /\ FileOK))
  <1> SUFFICES ASSUME Alone PROVE Spec => [](TypeInv /\ FileOK)
    OBVIOUS
  <1>1. Init => TypeInv /\ FileOK
    BY TypesInit, FileInit
  <1>2. TypeInv /\ FileOK /\ [Next]_vars => (TypeInv /\ FileOK)'
    BY StepKeepsTypes, StepKeepsFile
  <1> QED BY <1>1, <1>2, PTL DEF Spec

\* When commands do not overlap, a deployment that answers it failed leaves the server.env
\* it found, or none, wherever it failed and whoever edited the file before.
THEOREM FailureRestores == Alone => (Spec => []FailedDeployRestores)
  <1> SUFFICES ASSUME Alone PROVE Spec => []FailedDeployRestores
    OBVIOUS
  <1>1. FileOK => FailedDeployRestores
    BY DEF FileOK, FileInv, FailedDeployRestores, Answers
  <1> QED BY <1>1, FileInvariant, PTL

\* When commands do not overlap, none of them changes the base domain or a VPN
\* name that server.env had, whatever its lines are.
THEOREM SettingsSurvive == Alone => (Spec => []SettingsAreKept)
  <1> SUFFICES ASSUME Alone PROVE Spec => []SettingsAreKept
    OBVIOUS
  <1>1. FileOK => SettingsAreKept
    BY DEF FileOK, FileInv, SettingsAreKept, Finished, Keeps
  <1> QED BY <1>1, FileInvariant, PTL
==============================================================================
