# Formal models of gway-wireguard

This directory holds TLA+ models of `gway-wireguard`, the program that enrols
devices into a WireGuard network, keeps their registry, names them and revokes
them.  TLC checks the models on small instances; TLAPS proves theorems about the
core of them for every value of their constants.  Source paths are relative to
the repository.

## 1. The system

| Part | State it keeps | Operations |
|---|---|---|
| Device registry, `src/gway_wireguard/registry.py` | SQLite tables `devices` and `enrollment_tokens` | create token, prepare enrolment, consume token, revoke, list |
| Peer manager, `peer_manager.py` | `/etc/wireguard/gway.conf`, the running interface | `ensure_peer`, `remove_peer`, `reserved_networks` |
| Hosts file, `hosts_manager.py` | the managed block of `/etc/hosts` | `sync` |
| Enrolment service, `server/enroll_api.py` | none of its own, a thread per request | `enroll`: transaction, peer, hosts, DNS, token, rollback |
| Administration, `src/gway_wire/admin_ops.py`, `server/admin.py` | none of its own, a process per command | tokens, revoke, sync-hosts, DNS commands |
| Public DNS, `dns/service.py`, `dns/godaddy.py` | the provider's zone | ensure, delete, restore, `sync_devices` |
| Client installer, `install.sh`, `client/enroll.py` | `/etc/gway-wireguard/*` on the device | prepare, enrol once, persist, apply, rerun |
| Server installer, `server/install.sh` and its systemd unit | `server.key`, `server.pub`, `gway.conf`, `server.env`, the code under `/opt`, services | one idempotent installation, function by function |
| Deployment commands, `src/gway_wire/surface/server/__init__.py`, `src/gway_wire/gway/server/__init__.py` | `server.env` | two `deploy` commands with rollback, readiness checks, preflight |
| Topology, configuration, diagnostics, CLI packages | none | pure functions, forwarding, logging |

`src/gway_wire` and `src/gway_wireguard` hold two copies of the same code: the
service and the installer import the second, the `gway` command the first.

The parts of the gateway share state, not messages.  A request thread and an
administrator's command are different processes that meet in the SQLite file, in
`gway.conf`, in the running interface, in `/etc/hosts` and in the zone of the DNS
provider.  Only the SQLite file has a lock.  A client meets the gateway in one
HTTPS request.  A deployment command patches `server.env`, runs the server
installer, which makes keys, files and services from it, asks `gway-web` for the
public name, and puts `server.env` back when something raised.

What is hard, and what makes each part correct:

- **Registry.** A transaction checks a token, allocates an address, and commits
  only after the gateway has been changed.  Keys and addresses must stay unique,
  rows permanent, revocation final, and a token must be spent exactly once.
- **Peer manager.** The file is read, computed and replaced without a lock, by
  threads and by other processes.  It must never be broken by that, and blocks
  an administrator wrote must survive.
- **Enrolment and revocation.** Registry, peers, hosts file and zone are changed
  one after the other and undone one by one, best effort, when a stage fails or
  the lock times out.  They must agree again afterwards, and a revoked device
  must not stay connected, whatever failed or died in between.
- **Public DNS.** A request that raises may have been applied.  Changes must be
  all or nothing, and no device may take an operational name away.
- **Client.** The script may end between truncating a state file and writing it,
  killed or under `set -e`; an answer may be lost or late.  The key and the address must stay
  those the registry has, and a rerun must not enrol again.

- **Deployment.** `server.env` is patched in place, completed by the installer, read
  by the service when it starts, and restored from memory; a script may die at any
  line of it.  A failed deployment must leave the file it found, no setting may get
  lost, the published key must stay the interface's, and "ready" must be true.

PROJECT.json lists each of these hazards at its line, with the properties that
cover it or the reason why none does.

## 2. Modules

```
Gateways                     names shared by the parts of one gateway
EnrollmentLedger             abstract: one atomic step per enrolment
Registry                     transactions on the two tables; implements EnrollmentLedger
PeerManager                  unlocked calls on gway.conf and the interface
EnrollmentService            EXTENDS Registry, PeerManager: requests and commands
DnsManager                   one step per request to the DNS provider
AtomicZone                   abstract: names change together or not at all
PublicDns                    EXTENDS Registry, DnsManager: DNS of requests and commands
ClientInstaller              the machines; their gateway is EnrollmentLedger
EnvironmentFile              the lines of server.env, and who patches and completes them
ServerInstaller              EXTENDS EnvironmentFile: the host and server/install.sh
Deployment                   EXTENDS ServerInstaller: the commands around the installer
RegistryProofs, PeerManagerProofs, EnrollmentServiceProofs, PublicDnsProofs,
ClientInstallerProofs, EnvironmentFileProofs, DeploymentProofs,
DeploymentReadinessProofs                                    theorems
MC*                          constants and symmetry for TLC
```

Definitions named `Mut...` are not part of a model: each is a plausible wrong
version of the definition that follows it, kept to show that a property would
notice.

### Registry

`devices` and `tokens` are the committed tables, `expired` the tokens whose
`expires_at` has passed, `txn[p]` the open enrolment transaction of process `p`:
its draft row and its token.  `BEGIN IMMEDIATE` is `WriteLockFree`.
`BeginEnrollment` is `transaction()` with `prepare_enrollment`, `Refused` the
union of its refusals, `CommitEnrollment` is `consume_token` with the commit,
`Rollback` any exception.  `View(p)` is what a process reads inside its own
transaction.  Addresses are numbers; the network and broadcast addresses are not
among `Hosts`.

### PeerManager

`conf` is the set of `[Peer]` blocks of the file, with the device that a managed
block belongs to or `None` for a hand-written one; `live` is what `wg show`
would print; `call[p]` is the `ensure_peer` or `remove_peer` in progress, with
the text it read.  Reading, changing the interface and replacing the file are
three steps, so calls interleave; `os.replace` makes the replacement one step.
`WgSet` models that WireGuard moves an allowed address from one peer to another.

### EnrollmentService

`proc[p]` is the operation of a process: `op` says which code it is in, `at` which
step comes next (see the module's header).  Every stage of `enroll`, its `except`
clause, `revoke_device` with its own, and `sync_hosts` is an action.  `Fails`
makes a stage raise.  `Crash` is the death of the service with all its threads,
`Kill` that of a command: transactions roll back and nothing else is undone.  A
command that waits 30 seconds for the SQLite lock gives up (`DisableFails`,
`Reject`).  DNS is one stage that succeeds or raises; PublicDns opens it up.

### DnsManager and PublicDns

`zone[n]` is the A record set of name `n`: ours, none, or one that somebody else
wrote.  Each provider request is a step, and one that raises may have been
applied (`Loses`).  PublicDns runs `enroll` with its DNS stage and `dns.restore`,
`revoke_device` with its clean-up, `sync_dns`, `ensure_device_dns`,
`delete_device_dns`, and the installer's sync before it restarts the service;
peers and hosts file are one stage that may raise.  `configured` is what
`server.env` says, `serving` what the running service was started with.
Restarts other than the installer's are left out.

### ClientInstaller

`file`, `conf` and `up` are the state files, `/etc/wireguard/gway.conf` and the
running interface of each machine; `run[c]` is the script in progress with its
variables.  `Writes` is `write_state`, one step to truncate and one to write.
`CutShort` ends a run wherever it is: a signal, or a command that fails under
`set -e`, as `validate_install_config` does when it dies.  `FailsToStart` is the one
failure that leaves something else behind: a `systemctl start` or `restart` that
fails leaves the interface down.
A missing and an empty file are one value because the script tests with `-s`.
`requests` holds what was sent and not handled: the gateway may handle a request
after its sender gave up.  The gateway itself is `EnrollmentLedger`, which the
service is proved to implement (`ServiceImplementsLedger`).  `endpoint` stands for
the endpoint, the tunnel address and the keepalive, which are persisted and
defaulted by the same lines.  One script runs at a time on a machine.

### EnvironmentFile, ServerInstaller and Deployment

`env` is `server.env` as a sequence of lines, because the programs disagree on a
line that occurs twice: `_replace_env_values` changes the first
(`ReplaceValue`), `_set_existing_dns_provider` all (`SetValue`), readers take the
last (`ValueOf`), and the installer appends what is missing (`AppendIfMissing`).
Four settings stand for the file: base domain, provider and the two public names.
A name is a label and a domain.

ServerInstaller has one action per function of the install mode.  `run[c]` is the
command in progress and `run[c].at` the function it is in; `run[c].torn` says that
it has truncated or removed something it is about to write, so a command can die
in between (`Kill`, `Reboot`).  Every function has a failing branch too (`StepFails`
for those in which a command fails under `set -e`, its own in the others), which
ends the script with an error and, in a deployment, begins the rollback.
`privateKey` treats a missing and an empty file alike, as `-s` does; `conf` tells them apart (`None`, `Keyless`), as `-e` does.
`conf` and `interface` name the private key they hold.  `service` is what the
enrolment service was started with; `Startable` says when it gets that far.

Deployment adds the two `deploy` commands and the script by hand: `Patch`,
`Install`, `Expose`, `Check` and `Rollback` in the order of the code.
`InstallerRaises` is an installer that cannot be located or started: the exception
leaves the command, which answers nothing and restores nothing.  `before`
is a history variable, the text a command found; `clean` says that nothing failed
for reasons outside the model while it ran, and `predicted` what the preflight
would have answered.  The initial hosts are an empty one, a WireGuard server of
Phase 1, one whose `gway.conf` was written by hand, and a gateway of Phase 3 whose
`server.env` has no DNS settings.  `Edit` and `StoreCredentials` are the operator,
who acts while no command runs.  Registry, hosts file and zone are stages that
succeed or raise here; an invalid port is one more reason for `Expose` to fail.
`exposed` is the set of names `gway-web` has made public; its own checks of DNS,
certificate and reachability are one condition, `WebUp`, and may fail.  The actions
are written for a command that runs alone: between a test and the write it guards
another command's write is not followed everywhere, and what is claimed of
overlapping commands is only that types hold.

## 3. What is checked

| Run | Question | Instance |
|---|---|---|
| `service_agreement` | Do registry, peers and hosts file agree when the gateway is quiet, is no revoked device connected, and is no key or address given twice? | 2 devices, 2 keys and a hand-written peer's, 2 tokens, 2 threads, 1 command, 1 failing stage, 1 death |
| `service_overlap` | What survives a request and a command at the same time? | 2 devices, 2 keys, 2 tokens, 1 thread, 1 command, 1 failing stage |
| `service_composition` | Is every step a step of Registry and of PeerManager, the whole a ledger, and does every operation return and release the lock? | 1 device, 2 keys, 1 token, 1 thread, 1 command, 2 failures, 1 death |
| `dns_serial` | Are changes of the zone atomic and in step with the registry? | 3 devices, one named like an operational host, 2 tokens, 2 failures |
| `dns_overlap` | Can a request that skipped DNS commit after the service got its provider? | 2 devices, 2 threads, 1 command |
| `client_reruns` | Do key, address and configuration stay those of the registry over reruns? | 1 machine, 2 identities, 2 tokens, manual options, 1 run killed or failing |
| `deploy_serial` | Does a failed deployment restore, does a finished one keep what it must, and is ready true? | 2 domains, 2 keys, 4 kinds of host, names of the base domain and of another, 1 failing step and, beside it, 1 kill or reboot or 1 edit |

Why these bounds are enough to be interesting. Two devices and two tokens allow an
enrolment, a repeated enrolment of the same device, a second device, a token
scoped to the wrong device, and a revocation in between. With a hand-written peer
and the block that a death leaves behind, four host addresses are few enough for
the pool to run out, and in `service_agreement` it does. Conflicts over the lock or
the file need two processes; a third adds no new pair, and the theorems hold for any number. One failing stage
reaches every branch of both `except` clauses; in `service_composition` and
`dns_serial` a second one fails the undoing too. Failures are bounded per stage
(`failed`), deaths by `MaxCrashes`, runs of the client installer that are cut short by
`MaxCuts`, deployments that are killed by `MaxKills`, edits of `server.env` by
`MaxEdits`; nothing else needs a bound, for tokens and devices are finite.

Two runs follow a part of the behaviours only, and say which in their `CONSTRAINT`.
`service_agreement` lets operations overlap as the code can bear it
(`OnlyEnrolmentsOverlap`): enrolments with keys of their own, as long as nothing has
failed or died; every other operation, with its failures and deaths, runs alone.  What
happens outside of that is the subject of `service_overlap`, of `revocation_race` and
of section 4.  `deploy_serial` leaves out an edit and a kill in one behaviour
(`FewMishaps`): a kill and then a failed deployment on what it left, or an edit and
then one, are in.  The theorems have neither
constraint: they assume `Serial` or `OnlyRequests`, and `Alone` (section 5).

Two domains are what it takes for a file of one to be completed with the defaults of
the other, and two keys for a second to be made.
Tokens, keys and processes that are interchangeable are declared symmetric, except
in `service_composition`, which checks liveness. `CHECK_DEADLOCK` is off because a
gateway with spent tokens and no commands has nothing to do, and because TLC does
not go on from a state outside of a constraint.

The properties, briefly (each is stated above its definition):

- `EnabledIsConnected`, `NoOrphanPeer`, `HostsAreCurrent`: the stores agree when
  no operation runs and nothing died, for operations that run alone and for
  enrolments that overlap without failing.
- `RevokedIsIsolated`: no death or failure of operations that run alone leaves a
  device both revoked and connected; that is why the peer is removed before the row is disabled.
- `ConfigurationSound`, `RangesRespected`: the file is never broken, and no
  device gets an address of a hand-written peer.
- `UniqueIdentity`, `DraftStaysValid`, `RowsPermanent`, `ImplementsLedger`: the
  registry's promises; `UsesRegistry` and `UsesPeerManager` carry those of the
  parts over to the whole.
- `EveryOperationReturns`: liveness, under `FairSpec`.
- `ChangesAreAtomic`: the zone without what may still be undone changes as
  `AtomicZone` says; a name appears only with its row.
- `RevokedIsUnnamed`, `EnabledIsNamed`, `EnrolledIsNamed`, `OperationalNamesStay`.
- `RegisteredKeyIsHeld`, `AddressIsRegistered`: hold through kills, failures and
  lost answers.  `InterfaceIsPersisted`, `MachineIsAsRegistered`: hold while no run
  is killed or fails half way.  `OneTokenPerDevice`: holds while no answer is lost
  either.
- `FailedDeployRestores`: the exact deployment, when it answers that its installer
  or its exposure failed.  `SettingsAreKept`: no command that finishes changes a base domain or a
  VPN name.  `OneGatewayKey`: holds through failures, kills and reboots.
- `ReadyIsRunning`: what is reported ready runs the settings of `server.env` and the
  code of the checkout, and the published key where the installer wrote `gway.conf`;
  where somebody else did, `deploy_manual_conf` shows that it need not.  `CleanDeployIsReady` and
  `PreflightIsRight`: the converse, what must succeed.

**Fairness.** `FairSpec` assumes weak fairness of `Steps(p)` for each process: a
thread or a command that can go on does, which is what the operating system's
scheduler gives it.  Nothing is assumed of arrivals, tokens, failures or deaths.
The wait for SQLite's lock is bounded by its time-out in the code; in the model a
process that finds the lock taken may always give up.

## 4. Where the code and its documents disagree

Each of these runs finds one property violated that a document states.

- `revocation_race`: `revoke_device` removes the peer before it takes the write
  lock.  A repeated enrolment of the device that is inside its transaction puts
  the peer back; the row is disabled afterwards and nothing removes the peer.
- `unmanaged_rollback`: a request with the key of a hand-written peer is refused
  by `ensure_peer`, and its rollback takes that peer off the interface.
- `dns_stale_sync`: `sync_dns` works from a list of rows that a revocation
  overtakes, and names the revoked device again.
- `client_torn_state`: a script killed while it rewrites `device-id` leaves the
  file empty, and the next run takes the host name for the machine's identity.
- `deploy_manual_conf`: `docs/server-live-readiness.md:7` says that the check answers
  whether a gateway is "actually ready for a fresh remote device to enroll and establish
  WireGuard connectivity".  On a host with a `gway.conf` written by hand the installer
  makes `server.key` and `server.pub` anew and keeps the file (`server/install.sh:100-113`);
  the check asks that the interface has a public key, not which; the deployment is
  reported ready, and no device that enrols can connect.  `docs/phase-3.md:28` promises
  that the file is kept, for upgrades that have the two key files already.

The bounds and conditions of the passing runs show where else the code promises
less than one may expect.  A service that dies after `ensure_peer` leaves a block
and an address nobody owns.  A revocation that dies before the row is disabled
leaves an enabled row without a peer, and repeating it finishes the job.  A
rollback that overlaps a retry of the same device can remove the retry's peer or
name, and one that overlaps any commit can write an older hosts file.  A script
killed between two state files can use the default endpoint later, and one that is
killed, or whose `systemctl` fails, before the interface has restarted is not repaired
by a rerun.  Once a device named
like an operational host is in the registry, no sync and no installation with a
provider succeeds any more.

Of deployments, `CleanDeployIsReady` has to say which can be ready.  The exact
deployment checks its configuration through the older `_readiness`, which asks for
`register.<base domain>`: any other exact name is patched in, installed and exposed,
and then reported not ready, although `docs/server-live-readiness.md:90` says that Wire
must not derive that name.  On a new host the base domain is the installer's
default, whatever the name.  On a Phase 3 file the missing VPN name comes from that
default too.  A file with a setting twice keeps its old value through a deployment,
for the patch changes the first line and the last one counts.  A kill between
truncating `server.env` and writing it loses the settings for good, and one inside
`gway.conf` leaves an empty file that no run repairs.  An installer that cannot be
located or started raises out of the deployment, which leaves the settings it patched.
A first deployment whose exposure
fails removes `server.env` under the service it has started.  The preflight
calls an empty host deployable even when DNS is required and no provider was chosen.
Two deployments at once restore over each other's changes and may make two keys.

## 5. What is proved

TLAPS checks all eight proof modules from nothing.  The theorems hold for any
sets of devices, keys, tokens, addresses, processes and hand-written blocks that
satisfy the assumptions of the modules: addresses are numbers, `None` is none of
the values (no device, record, row, call, operation, domain, name, version, service
state or command), the gateway's own record set is none of the `Foreign` ones, the
hand-written file has no key twice, threads and commands are disjoint and are all
the processes.  Every invariant that a run checks is now the subject of a theorem,
and each inductive invariant was checked by TLC before it was proved.

- **RegistryProofs.** `UniqueIdentity` is not inductive: a commit installs a row
  that was prepared many steps earlier.  `IInv` adds `DraftStaysValid`, the facts
  established when the draft was made, and `OneWriter`, the reason no other
  transaction can invalidate them.  From `IInv` follow type correctness,
  uniqueness, validity of drafts, permanence of rows, and that every step of the
  registry is a step of the ledger or stutters.
- **PeerManagerProofs.** `PInv` adds `BasesSound`: the text an unfinished call holds
  is sound and has no block of its device.  Since a call writes only a text
  computed from one text that was read, no lock is needed for `ConfigurationSound`.
- **EnrollmentServiceProofs.** Every step of the gateway is a step of the registry
  and of the peer manager or leaves them alone, so both invariants hold of the
  whole.  `SInv` adds `ControlSound`, what an operation promises about the calls it
  makes, and `RangesKept`: an enrolment that waits for the lock holds a superset of
  the administrator's ranges, although it read them before it had the lock.
  From it follow `RangesRespected`, and the theorems of the parts for the whole:
  type correctness, `ConfigurationSound`, `DraftStaysValid`, `ImplementsLedger`.

  The second half proves that the stores agree.  `RevokedIsIsolated` and its
  companions speak of a quiet gateway, so the inductive `AInv` says what each
  operation has achieved at each of its steps.  `Matched`: an operation, its
  transaction and its call are about the same device, key and address.  `OneChanges`:
  at most one operation is between its first change and its last.  `Achieved`: the
  text its call read is still the file's, apart from its own block, which is what an
  unlocked read and write need; the peer is connected once `ensure_peer` returned, and
  gone before the row is disabled.  `OwnBlocks`: a block with the name or the key of a
  registered device is its own, so that removing one device never disconnects another.
  `Strict` adds what needs that no stage failed twice: an enabled device is connected
  unless its own revocation is under way, and a block without an enabled device is
  being made or undone.  `HInv` says the same of the hosts file.

  The conditions of these theorems are what the code needs, and TLC finds each
  property violated without them.  `Serial`: operations do not overlap.  Then
  `RevokedIsIsolated` holds with any number of failures and deaths; `HostsAreCurrent`
  excludes deaths and its own stage's failures in its statement; `EnabledIsConnected`
  and `NoOrphanPeer` need `MaxFailures <= 1`, because a second stage that fails may be
  the undoing of the first.  `OnlyRequests`: requests overlap, no command runs, no
  stage fails and no peer is written by hand.  Then `EnabledIsConnected` holds because
  every change of the file happens inside a transaction, one at a time; a rollback, of
  which a clash with a hand-written key is one cause, changes it outside.
- **PublicDnsProofs.** `TypeInv` ties each call and transaction to the operation that
  made it, and what may be undone to the name of its device: that is why only a sync
  touches an operational name (`OperationalNamesAreKept`).  Every step is a step of the
  registry or leaves it alone (`PublicDnsImplementsRegistry`): the installer's restart
  of the service is one rollback, because only one transaction is ever open.
  `RowInv` says that what an operation read of a row stays true, `CommitInv` carries the
  name of a device from the request that set it to the commit; `NewDeviceIsNamed`
  follows for operations that overlap.  `EnabledDevicesAreNamed` and
  `RevokedDevicesAreUnnamed` assume `Serial`: `NamedInv` says what an operation in progress
  may still change and `UnnamedInv` who has still to remove a name; `dns_stale_sync`
  shows that they fail when operations overlap.

  `ChangesAreTogether` proves the refinement of AtomicZone, under `Serial`, one lemma
  for each group of actions.  The mapping chooses the record a name would go back to;
  `Settles` says what it is without the choice, and `SettledIs` proves the two the same
  as long as no name is changed twice by one operation (`Once`).  The inductive
  `UndoInv` adds that what a call would put back is what it replaced (`Reversible`), that
  something is put back only after a request has raised, and that a sync has every
  name as the rows want it or has still to come to it (`Reconciling`).  Then the
  requests of a sync, and those that undo them, leave the settled zone alone, and its
  return is one step, `Sync`; an enrolment's commit is `Ensure`.  Both conditions are
  needed: TLC finds the property violated when a sync and an enrolment overlap, and
  when a second request raises while the first is being undone.
- **ClientInstallerProofs.** The gateway is the ledger, and rows of the ledger stay.
  `KeyInv`: the key of a request, and of a row, is in the key file of a machine, which
  the script never rewrites, and no two machines have the same; `AddressInv`: wherever
  a machine keeps an address (its run, an answer, its files, `gway.conf`, the
  interface), it is the registry's for its key, unless it was configured by hand.
  Both survive kills, failures and late requests.  `PersistInv` and `IdentityInv` relate the state
  files to `gway.conf` and to the interface at each step of the script and assume
  that no run was cut short; `TokenInv` counts the tokens spent and the devices
  registered, and assumes that no answer was lost either.
- **EnvironmentFileProofs.** For a text of any length: what `SetValue`, `ReplaceValue`
  and `AppendIfMissing` make of each setting.  `ReplaceValueTakesEffect` needs that
  the setting has at most one line, which is the condition under which the patch
  of `deploy` works.  That the first and the last line of a setting exist is
  proved from the least element of a set of numbers.
- **DeploymentProofs.** `DeploymentTypesHold` rests on `TypeInv`, which adds what a command
  must carry at each step, for instance that a torn file's text is in its memory, and
  holds for any number of commands at once.  The other theorems assume `Alone`, that
  commands do not overlap: two that do may make two keys and restore over each other,
  and the claims are false.  `GatewayHasOneKey` rests on `KeyInv`: the published key,
  the key in `gway.conf` and that of the interface are the private key, or missing, or
  somebody else's, and a command about to make a key still finds none.
  `FailureRestores` and `SettingsSurvive` rest on `FileOK`, which relates `server.env` at
  each step to the text the command found, except while the file is torn and the
  text is in the memory of the command alone.
- **DeploymentReadinessProofs.** How far a command is says what it has done to the host
  (`RunsOK`): past the key steps both keys exist, past the installation the package is
  the checkout's, past the restart a service that is up has the settings of the file.
  With it `ReadyGatewayRuns` needs no assumption about failures; of the key it says
  nothing where `gway.conf` was written by somebody else, which is what
  `deploy_manual_conf` is about.  `CleanDeploymentIsReady`
  and `CheckedDomainIsDeployed` are the converse and need more: `OnceOK`, a registration
  name occurs once at most in `server.env`, without which the patch would change nothing;
  `IntactOK`, an interface without a key exists only where `gway.conf` has none; `PromiseOK`, a command
  whose inputs fit patched the file with what its checks will ask for.  All assume
  `Alone`, because nothing in the code keeps two deployments apart.

What stays with TLC is liveness (`EveryOperationReturns`): the provers have no fairness
and no ENABLED.  Every other property of a passing run is stated by a theorem.  The
models use no recursion, so nothing rests on induction over data with an operator as
parameter, which the installed provers cannot do.

## 6. What is not modelled

The HTTP handler decides which requests reach `enroll` and keeps no state.  The
line scanners of `gway.conf` and `/etc/hosts` are abstracted to sets of blocks and
lines; texts with damaged markers, which they refuse, are not states the program
writes.  Token hashing, time stamps, hostnames in the registry, logging, command
line forwarding, quoting and comments in `server.env` are left out, and so is the
installation of packages, which the installer finds done or fails at before its
first change.  Of the environment that
a deployment is called with, the base domain varies; the DNS provider and the public
names are the script's defaults unless the command sets them.  A client machine's
reboot is left out: it would only rebuild the
interface from its file.  `topology.py` keeps nothing: its `sync` runs the hosts sync,
the DNS sync and the client installer, each modelled, for one configuration file after
the other.  `gway/client.py` forwards to the client installer after it refused a token
of this host's own registry.

## 7. Plan

Written in this order, the most important behaviour first: Registry and its
ledger, PeerManager, their composition, the proofs about the three, public DNS,
the client, the deployment, and the proofs about those, until every safety property
was a theorem.  Next:

1. the pure functions as operators checked against reference definitions over
   bounded inputs: the allocator over networks, `_strip_managed_block` over marked
   lines, and `topology.py`, with several servers on one host;
2. restarts of the service and reboots in PublicDns and PeerManager.
