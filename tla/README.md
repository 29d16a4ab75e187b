# A verification development for lstk

`lstk` is the command-line interface that starts, watches and manages LocalStack
emulators in a container runtime. This directory holds TLA+ models of its
concurrent and failure-prone parts, the TLC configurations that check them, and
proofs, checked by TLAPS, of their safety properties. Paths below are relative to the
repository's root; every model is read from the Go code, and `PROJECT.json` maps each
definition to the lines it stands for.

## The system

One `lstk` process runs one command. What makes it a concurrent system is everything
around that command: the daemon and its containers, a terminal UI in a goroutine of
its own, a license server, a keyring, and other `lstk` processes that share the
container name, the cached license, the stored token and the configuration.

| part | state | operations | meets | what makes it correct |
|---|---|---|---|---|
| start orchestration (`internal/container/start.go`) | the container name, `license.json`, the local image | select, heal, pre-flight, pull, create and run, license retry, re-login | Docker, the license server, auth, the UI, the monitor | no container but its own is taken down; only a verdict blocks a start; it ends |
| startup monitor (`startupMonitor.await`) | two timers, the exit channel, the prompt's response channel | probe, prompt, stop, classify | the exit goroutine, the UI, Docker | a ready emulator is not given up; the verdict is true; prompts are read |
| Docker runtime (`internal/runtime`) | none of its own: the daemon's | start, stop, remove, inspect, wait, pull | the daemon | a removal is over when it returns; one exit result per start |
| token storage and login (`internal/auth`) | the keyring's entry, the `auth-token` file | get, set, delete; login, logout, re-login | keyring service, file lock, platform API | one logical token for all commands |
| terminal UI (`internal/ui`) | pending prompt, spinner, buffered lines, pull hint | one per message | the domain goroutine by events and response channels | what is awaited is on screen and has the keys; nothing shown is lost; the terminal is given back |
| output (`internal/output`) | the JSON envelope being built | one per event | every command | one envelope, which agrees with the exit code |
| telemetry (`internal/telemetry`) | a queue of 64 events, the machine id file | emit, close, flush in a detached process | every command | the newest events, once, in order, none after `Close` |
| configuration (`internal/config`) | `config.toml` at one of several places | find, create, edit in place, read | every command | the user's own text survives; what starts is what was chosen |
| ports, environment, mounts (`internal/container/{gateway,expose}.go`, `internal/ports`) | none | pure | start | no clash, and nothing dropped in silence |
| stop, restart, reset, volume, status (`internal/container`, `internal/reset`, `internal/volume`) | none: the daemon's | one each | Docker, start | a restart keeps persistence; the outcome is told once |
| logs (`internal/container/log*.go`) | the ring of the backlog | passes over a growing suffix, then follow | Docker | exactly the last lines, none twice |
| snapshots (`internal/snapshot`, `internal/snap`, `cmd/snapshot.go`) | a local archive, remote pods | save, load, list, diff, show, remove | the emulator's HTTP API, the platform, a bucket | a reported save is found; nothing is lost that was not to be |
| terraform, CDK and SAM wrappers (`internal/iac`) | the generated override file | generate, run, clean up | the wrapped tool | only files lstk wrote are removed; the tool cannot reach the cloud |
| child processes (`internal/proc`) | the signal channel | run, forward | the terminal, the child | each signal reaches the child at most once |
| self-update (`internal/update`) | the executable itself | check, download, verify, replace | the network, the file system | a whole, verified release at the path |
| AWS and Azure profiles (`internal/awsconfig`, `internal/azureconfig`) | `~/.aws`, the Azure CLI's configurations | check, ask, write; five `az` calls and a marker | other tools' files | nothing of the user's is taken over; a marker is true |
| endpoint (`internal/endpoint`) | none | probe, classify | an emulator at a URL | the given endpoint or none |
| extensions, emulator clients, commands, tracing | little | lookup, requests, wiring | | |

How they interact: `ui.Run` runs `container.Start` in a goroutine whose sink sends
events to the Bubble Tea program; a prompt is an event that carries a response
channel of one, and a `UserInputDismissEvent` names the prompt it retracts by that
channel. Ctrl+C cancels the command's context, answers an open prompt as cancelled
and quits the UI. `Start` gets a token from `internal/auth`, goes through selection,
license pre-flight, pull and `startWithLicenseRetry`, and hands each started container
to `startupMonitor.await`, which also listens to the goroutine of
`DockerRuntime.waitForExit`.

Hard behaviours: a `select` with five cases that takes any of the ready ones; calls by
container *name* on objects inspected earlier; best-effort calls whose errors are
dropped; retries nested three deep (port fallback, license retry, re-login); a token
in two places; files that several processes read, edit and remove without a lock;
a UI that answers whom its state says is asking, while spinners end late; a log that
grows between the passes that read it; tools of others run in an environment that may
point at the real cloud.
`PROJECT.json` lists the hazards at their lines.

## The modules

### StartupMonitor

`startupMonitor.await` with everybody it races: the monitor, the container with its
exit goroutine, the two timers, and the UI with its user.

* `pc` is where `await` is: the two calls of its `check` closure (`"isRunning"`,
  `"healthGet"`), the short wait for an exit code (`"exitWait"`), the `select`, the
  stop, or `"returned"`. `why` tells which case started the probe, hence where its
  result goes.
* One action per case of the `select` (`SelectCancelled`, `SelectPromptCancelled`,
  `SelectStop`, `SelectKeepWaiting`, `SelectExit`, `SelectDeadline`, `SelectTick`);
  any that is enabled may be taken, as in Go.
* `Return` runs the deferred dismissal with every return. `SelectPromptCancelled`
  returns after `responseCh` was set to nil, so it has nothing to dismiss.
* The exit goroutine delivers one result, a code or an error, at any time after the
  exit (an error also before it).
* Events reach the UI in order and late: `uiEvents` holds those not yet handled. `await`
  emits at most one unhandled question, because the deadline stays spent under it, so a
  set stands for the queue; `PromptNeverReplaced` checks that premise.
* `readyAtDecision` is a history variable: it changes nothing and records whether the
  emulator was ready when the loop took the deadline or the "s" key.
* Abstracted: durations (a timer may fire whenever it is armed), log lines, the
  spinner, the text of errors. The health probe has no context, so cancellation does
  not interrupt it, only the next call.

`ReadinessWait` is what the caller of `await` is promised, apart from all that: one wait
with one verdict, taken in one step of the container as it is then; a ready container is
never given up on, only a wait with a user stops one, and only a wait without gives up. `StartupMonitor` implements it (`AwaitIsOneWait`) with the mapping at
its end: probes, timers, select cases and everything about the prompt are stuttering
steps, until the step that fixes the verdict.

### StartFlow

`container.Start` for any number of commands in `Procs`. They share the container
name (`slot`: who holds it and in which state), the cached license (`license`: whose
it is), the stored token and the local image. An action is one call to the daemon, the
license server, the file system or the token storage; the code between two calls is
local and goes with one of them, so calls of different commands interleave freely.

* `brief` is the `ContainerBrief` a command inspected, which is what
  `healLeftoverContainer` judges; `RemoveByName` acts on whatever holds the name by
  then. The daemon refuses to remove a running container without force, and
  `DockerRuntime.Remove` reads that refusal as a removal in progress and waits
  (`NameGone`, `NameNotGone`).
* `cmd` is how a command was called: interactive or not, with or without
  `LOCALSTACK_AUTH_TOKEN`, and its emulator as one of three kinds the code tells apart:
  `"pinned"` (validated before the pull), `"latest"` (after it, once the version is
  known) and `"self"` (`SelfValidatesLicense`).
* `attempt` is `forceLicenseValidation`: 1 for the first `startOnce`, 2 after the
  re-login. `refreshed`, `mounted` and `retryCandidate` are the variables of
  `startWithLicenseRetry`; `mounted` also records whose license it is.
* `entitled`, `neighbour` and `writable` are the world, fixed during a behaviour: which
  tokens the license server accepts, what else runs on the daemon or the port, and
  whether the license cache can be written. The server may always fail to give a verdict
  (`LicenseUndecided`), whatever it thinks of the token.
* The readiness wait is one action per outcome of `StartupMonitor`: `AwaitReady`,
  `AwaitExited`, `AwaitTimesOut`, `AwaitStops`.
* Containers exit by themselves, those run with `--rm` are removed by the daemon some
  time later (`SelfRemoves`), and other software takes a free name at any time
  (`OthersTakeName`).
* `Aborts` ends a command before any call: Ctrl+C, a crash, or a daemon that fails.
* Abstracted: the port plan, environment and mounts other than the license, messages,
  telemetry. One container per command (`checkSingleContainer`). A pull is one step
  with two outcomes; the optional port is one port (443), so the fallback can be taken
  once per create.

### CredentialStore and TokenRegister

`CredentialStore` models `internal/auth`: the keyring is asked first, and the
`auth-token` file answers when the keyring has no entry or is unreachable. A call on
the keyring is one action; a call on the file is one action too, because it runs under
`auth-token.lock`, except that a write that fails or a command that dies in it may leave
an empty file (`"blank"`). `login`, `logout` and `start` are the sequences of calls
`cmd/login.go`, `Auth.Logout`, `Auth.GetToken` and `Auth.Relogin` make. The keyring may
stop answering at any moment; `KeyringReturns` says whether it may answer again. Removing `license.json`
is part of `StartFlow`, where it is read.

`TokenRegister` is what a caller wants of it: one token, read or replaced in one step.
`CredentialStore` refines it under the mapping `Held` (the keyring's entry while it
answers, the file otherwise) and `Seen`: a command that found no entry in a keyring that
answers has read "none" at that moment, not when it opens the file.

### AppTUI, Telemetry and Terminal

`AppTUI` has one operator per message of `App.Update`: `app` is the part of `App` that
decides what is shown and which key goes where. Spinner, input prompt, lines kept back
while a stopped spinner waits for its minimum duration, the header that waits for the
plan label, and the flags that end the program are its fields.

`Telemetry` is the client's queue, `Close`, and the flusher that posts what it was
handed. Events are numbers in the order they are emitted.

`Terminal` extends both with everybody who uses them: the command's goroutine (`at`),
first through the steps before a start (update prompt, health, login, emulator
selection), then through a body of spinners, lines, questions and pulls (`steps` bounds
them and gives each question or pull a channel of its own, as each makes one in the
code); the two goroutines of `pullImage`; the goroutine that resolves the plan label;
the loop with its ticks; `ui.Run`, which started them all; and the user and the signals.
`Send` after the end of the loop is a no-op, as in Bubble Tea. A message is handled
when it is sent, because the program's channel is unbuffered; the order of messages of
different goroutines is any.

### Snapshots

One action per call a handler of `lstk snapshot` makes, with what the code does with
its answer. A reference is parsed to a `destination` once (`Parse…`, `SourceCandidates`,
extensions included); the emulator is found through `Endpoint`'s rules or the daemon; a
save streams to a file or registers a remote; a load may reset first; a remove asks.
`dir`, `pods` and `emu` are the files, what the platform and the bucket hold, and what
the emulator holds; the user's application adds to the emulator, others remove files
and stop emulators, and a command may be killed between any two steps.

### Endpoint and Proxies

`Endpoint` is the choice among `--endpoint-url`, `LSTK_ENDPOINT_URL` and
`AWS_ENDPOINT_URL` and what an answer there is taken for. `Proxies` is `lstk aws`, `az`,
`terraform`, `cdk` and `sam`: lstk's flags are taken from the front of the command
line token by token, as the code scans it, an emulator is found, the environment is
made (`DeactivateAccessKey` and the rest act on a function from variables to values),
for terraform the override is written, the bucket provisioned, the tool run, and the
deferred removal happens at every return but a kill. Signals go from terminal and
other processes to lstk and to the child, forwarded or not.

### ContainerPlan and ConfigFiles

`ContainerPlan` is the pure part: image, name, mounts, environment and port mappings of
one `[[containers]]` block, `mergeExposePorts` included. `ConfigFiles` extends it with
the file: a sequence of tables, looked for in the code's order of places, created,
edited by key in one table only, checked, and read; reading, truncating and writing are
separate steps that other processes and the user's editor come between. At its end a
start's plan is the one of the file it read. A file lstk can read (`Toml`) is a list of
tables, and its `expose`, `env` and `GATEWAY_LISTEN` are lists, as the code's types have
it. What goes over a list entry by entry (`Distinct`, `Omitting`, `ParseExposePorts`,
`MergeExposePorts`, `ResolvedEnv`) is a recursive function of the index, so that it can
be reasoned about.

### CloudProfiles, Lifecycle, LogTail, SelfUpdate

`CloudProfiles` has the AWS profile's two sections, checked, asked about and written one
after the other, and the Azure CLI's two configurations with the `az` calls in their
order. `Lifecycle` has stop, restart, reset, volume clear, status and the call of an
extension, each through the layers every command has (`Middleware`: telemetry, JSON
envelope, exit code). `LogTail` reads a backlog by passes of
`n * BacklogFetchFactor^k` lines up to a maximum while the log grows; a line is its number
in the log. `SelfUpdate` takes a release from lookup to the executable's path, by rename,
by copy across devices, or in Windows' two steps, for several processes at once.

## The runs

Every bound is a constant of a `.cfg` or a definition of the `MC` module it names.

| run | instance | shows |
|---|---|---|
| `startup_monitor` | two exit codes, interactive or not; 8 874 states | `TypeOK`, `NoReadyEmulatorGivenUp`, `VerdictTrue`, `NoOrphanPrompt`, `PromptNeverReplaced`, `AwaitIsOneWait`, `AwaitSettles` |
| `startup_stopped` | the same | a violation: see findings |
| `start_flow` | one command in all eighteen ways of `Command` but those with the token "new" in the environment (twelve), every leftover, neighbour and kind of foreign software; 1.1 million states | `TypeOK`, `RejectionIsVerdict`, `StaleLicenseDropped`, `FreshLicenseNotRetried`, `OnlyOthersTakeName`, `RunningContainerSpared`, `StartEnds` |
| `start_flow_pair` | two commands from a script, floating tag, symmetric; 2.5 million states | `RunningContainerSpared` when calls of two starts interleave |
| `start_parked`, `start_own_name` | one command | violations: see findings |
| `credential_store` | two commands of any kind, two tokens, a keyring that may go for good; 89 060 states | `TypeOK`, `OneCopy`, `RegisterSpec` |
| `credential_flaps` | two logouts, two tokens, a keyring that comes and goes; 4 414 states | `LogoutClearsFile` |
| `credential_logout` | one logout, a keyring that comes and goes | a violation: see findings |
| `terminal` | five kinds of session, up to four emissions, two lines kept back, a queue of two and four events; 388 663 states | `KeysReachTheirReader`, `LinesShown`, `NewestEventsSent`, `TerminalReturns` |
| `commands` | every other command, in seven scenes; 907 000 states | one type invariant for all, and the seventeen properties below |
| `snapshot_dry_run` | the scene of the snapshots | a violation: see findings |

`commands` checks, by scene:

* snapshots: `SavedIsFound`, `RemovalConfirmed`, `StateLostOnlyByLoad`;
* proxies: `ToolTargetsEmulator`, `FlagsReachTheirOwner`, `SignalsAtMostOnce`,
  `ForeignOverrideKept`;
* config: `UserConfigKept`, `StartsWhatWasChosen`, `PlannedAsAsked`;
* profiles: `ProfileNotTakenOver`, `MarkerMeansReady`, `InterceptionUndone`;
* lifecycle: `RestartKeepsPersistence`, `OutcomeReportedOnce`;
* logs: `TailExact`; update: `ExecutableSound`.

The components of `MCCommands` share no state, so a behaviour plays one `scene` and the
others rest in a start state: the reachable states are the union of seven separate
checks, and not their product. Inside a scene, the definitions named `…Alone` keep the
second process still where the first is tried on its own (all the references of
snapshots, all the short command lines of `lstk aws`, all the configurations of a
user); the pairs that can disturb each other are listed beside them: a save against a
load, a save and a remove of the same name, two terraform runs in one directory, two
updates, two Azure setups, a setup and a stop of interception, a first start and a
second that edits the same file. They are a choice of what to try, and restrict no
single command.

Why the bounds are enough: two exit codes tell the container's own from any other. One
command meets every leftover, neighbour, entitlement and stranger. What a second command
adds is that somebody else's calls come between two calls of one's own, and two commands
have every such pair; the two that meet in `start_flow_pair` take the longest path there
is without a user. Their safety properties are also proved for any
number of commands. Two tokens tell a replaced token from the current one.

For `terminal`, four emissions let a question follow a pull that followed a spinner
whose stop is still pending, which is the longest chain that any state of `app` depends
on; a queue of two with four events overflows twice. For `commands`, command lines of
three tokens hold a flag, its value and the first word of the tool's, and a flag after
it; three versions of a pod tell the newest from one in between; five log lines with a
first fetch of two and a maximum of four make a tail of two need one, two and all
passes; three releases tell the running one, the one being installed and one published
meanwhile.

Deadlock is checked in the runs of the start, the monitor and the token storage: each of
those specifications has a `Rest` step that is enabled only when its commands are done,
so a command stuck before its end is reported. `terminal` and `commands` really stop when
their commands have ended; that a command at the terminal cannot get stuck is
`TerminalReturns`.

### Fairness

* `StartupMonitor.FairSpec`: weak fairness of the monitor (a ready case of a `select` is
  taken, a call returns: the health client has a two-second limit and the daemon's calls
  the command's context), weak fairness of the timers, and strong fairness of
  `SelectDeadline`, because `select` chooses uniformly among the ready cases and so does
  not pass the deadline over for ever. Nothing is assumed of the container, the daemon,
  the exit goroutine, the UI or the user, so `AwaitSettles` holds with a prompt that nobody
  answers, provided the emulator gets ready or exits or the command is interrupted.
* `StartFlow.FairSpec`: weak fairness of each command's own steps. Its calls return:
  `waitContainerGone` has a limit of ten seconds, the license request a timeout, and the
  readiness wait settles by `AwaitSettles`. Where it asks the user (the login, the
  re-login, a start that takes long) the assumption is that the user answers; without a
  terminal nobody is asked. Nothing is assumed of `Aborts`, so `StartEnds` does not rest on
  interrupts, nor of containers, the daemon's auto-removal or other software.
* `TerminalSpec`: weak fairness of the command's goroutine, of the hint and the end of a
  pull, of the label's request, of the ticks, of the loop's end, of the caller, and of a
  signal that came. Goroutines are scheduled, timers fire, the pull and the label request
  end by themselves or by their context. The goroutine's fairness is of the whole, not of a
  chosen step, so it may emit up to `MaxEmits` things first; nothing is assumed of the
  user, and `TerminalReturns` is about a command that has ended or been cancelled, so no
  unanswered question is in its way: each waits for the context too.
* `CredentialStore` and the components of `MCCommands` have safety properties only: what
  they wait for is a call with a limit of its own, a child, or the user.

### Findings

Five passages of the repository say more than the code does; each has a run with a
counterexample.

* `StoppedIsRecorded`: `startupTimeoutError.stopped` is to record "whether the container
  was stopped on the way out"; `await` sets it even when `rt.Stop` fails, and the user
  reads "LocalStack has been stopped."
* `ParkedContainerKept`: "a foreign container parked on the name ... is never removed"; it
  is, if it takes the name after the inspection, since `pullImages` removes by name again.
* `OwnContainerNeverInTheWay`: removals wait so that a later create "does not race the
  in-flight auto-removal"; the create of the license retry does race it.
* `LogoutRemovesToken`: "Remove stored authentication credentials"; a keyring that does not
  answer when the entry is deleted keeps it, and the logout reports success.
* `DryRunChangesNothing`: "Preview what would change without modifying state (pod refs
  only)"; with a bucket as second argument `snapshot load --dry-run` loads, because that
  branch returns before the flag is looked at.

## What is proved

Eight modules hold the theorems, each for every value of the constants:
`StartupMonitorProofs`, `StartFlowProofs`, `CredentialStoreProofs`, `TerminalProofs`,
`EmulatorProofs` (`Lifecycle`, `LogTail` and `Proxies`), `SnapshotsProofs`,
`UserFilesProofs` (`CloudProfiles`, `SelfUpdate`, `ConfigFiles` and `ContainerPlan`), and
`CommandsProofs` for the commands together. The first seven prove inductive invariants
and, from them, what the runs check. Every invariant and every action property of a
passing run is a theorem, type invariants included, and so are the refinements of
`TokenRegister` and of `ReadinessWait`.

Assumptions are those the modules name, each of which TLC evaluates on the runs:

* exit codes, bounds, tails and queue lengths are natural numbers, and the fetch factor of
  `LogTail` is at least two;
* the constants of `StartFlow`, `CredentialStore`, `Terminal` and `Lifecycle` come from
  their domains, and no command bears one of the reserved names;
* snapshot requests are those the commands parse, `--dry-run` being a flag of `snapshot
  load` alone (`SnapRequestsOK`), and the name of a pod in a reference that passes its
  validation is one of the pods there may be (`SnapNames`, after
  `snapshot.ValidatePodName`);
* the AWS sections at the start, and those a user writes, are of the kinds the code tells
  apart (`ProfileConstants`);
* a proxy's command line is a list of tokens, each a word or a flag (`ProxyConstants`);
* the files there may be, and those a user saves, are missing, in the old format, or
  readable (`ConfigConstants`): a file that go-toml refuses stops the command that loads
  it, as an invalid one does;
* there are finitely many service ports, and neither `MAIN_CONTAINER_NAME` nor
  `GATEWAY_LISTEN` begins with `LOCALSTACK_` (`PlanConstants`).

Two theorems about the credentials have a hypothesis of their own, the value of a
constant. `StorageIsRegister` and `OneCopyHolds`, and the
invariant they rest on, assume `GoneForGood`: a keyring that
stopped answering does not answer again (`KeyringReturns = FALSE`). If it does, the token
it kept is back, as the reader of `credential_logout`'s trace sees, and two places are no
register. `LogoutsClearFile` assumes `OnlyLogouts`, as its run does: a login that comes
between would store a token again; the keyring may come and go. `TypeCorrect` assumes
neither.

* *StartupMonitor.* None of the properties is inductive. `PromptInv` says how the
  monitor's, the queue's and the screen's views of the prompt agree, from which
  `NoOrphanPrompt` follows; `DeadlineInv` says the deadline is spent while a prompt is
  open and that a probe begun by it runs without one, which makes `PromptNeverReplaced` an
  invariant of the step; `DecisionInv` carries the readiness seen at a decision through the
  probe that follows it; `ExitInv` says where an exit code can come from.
  `AwaitImplementsWait` shows step by step that the monitor implements `ReadinessWait`:
  each of its actions is one of that module's steps or a stutter, and the
  invariants above are what makes the deadline's verdict one of a container that is not
  ready.
* *StartFlow.* `LicenseInv` says that a cached license of a command was fetched by it in
  this very attempt, so that the license it may blame is never its own; `AttemptInv` bounds
  the attempts and is what `TypeOK` needs; `OutcomeInv` keeps outcomes to finished
  commands. `RunningContainerSpared` is proved of each step from the type invariant.
* *CredentialStore.* `FallbackInv` (only an unreachable keyring sends a token to the file)
  makes `OneCopy` inductive, and `GotInv` fixes what a command has read when the mapping
  `Seen` changes. `StorageIsRegister` shows that the initial states map to the register's
  and that every step maps to one of its steps or to a stutter. `LogoutsClearFile` needs
  neither: while commands only log out nobody writes the file, and one that is past its
  deletion has left none.
* *Terminal.* `UIInv` joins four parts. `FreshInv`: a channel is used once, so no key is
  bound to, and no answer lies in, one that is still to come. `QuestionInv`: the question
  waited on has the keys and the prompt, and the spinner's text is the prompt's if the
  spinner is on. `PullInv`: ESC belongs to the pull that is on, and the hint comes before
  its end, because `pullImage` waits for `progressDone` before it goes on. `LinesInv`: lines are kept back
  only for a spinner that is going or whose tick is due, and a command that is no start
  quits by itself only when it is over. `KeysReachTheirReader` and `LinesShown` follow.
  `EventsInv` says that the queue is an unbroken run of events up to the last one, whence
  `NewestEventsSent`. `StepsApart` lets the two be proved apart.
* *SelfUpdate.* What is put in place was verified, and the steps that are not one rename
  are taken only on Windows or across devices; so `ExecutableSound` holds for any number of
  updates at once.
* *CloudProfiles.* Setups only ever add to lstk's own Azure configuration, so what one has
  established no other takes back: that makes `MarkerMeansReady` inductive for any number
  of setups. `AwsWriteInv` carries what the check saw to the two writes, for
  `ProfileNotTakenOver`. `InterceptionUndone` is proved of each step: a stop of
  interception reports that it stopped only in its last one, by which the cloud has been
  set back (`RevertedInv`), and a setup of lstk's own configuration changes no other.
* *ConfigFiles.* A file is created only where there is none, so where the user has none
  either, and by one process at a time; an edit changes keys of tables that are there and
  adds at most one table at the end. Without overlap there is a single editor, and what it
  read has all the user wrote: that is `UserConfigKept`. For `StartsWhatWasChosen`,
  `ChosenAt` says at each stage how far the choice has got (from the edit on, the type in
  memory is the file's and the one asked for), `WriteIsSeen` that another process's write
  is never missed, and `FirstIsEdited` that the block an edit sets is the block a start
  reads.
* *ContainerPlan.* `MergeFits` says what the merge has made of the first *n* entries of
  `expose_ports`: what it added clashes with nothing, and each entry is published, clashes
  with a port of lstk's own, or clashes with an earlier entry, which `ValidExpose` rules
  out. `DroppedPorts`: giving up busy optional ports loses nothing that was asked for,
  since nothing asked for is optional. `OwnValuesWin`: no later layer of the environment
  has the token or the container's name. `FitInv` then carries `PlannedAsAsked` through
  the stages: a process that goes on has a valid file in memory, and the plan is made from
  it; only a first run that was asked nothing loads another file after it has planned.
* *Lifecycle.* A restart looks for the entry to carry over in the order of the
  configuration: the entries passed so far had nothing that surely persists, and the
  containers are those it began with unless something excuses it. What the layers
  (`Middleware`) make of an error is a lemma about the layers alone, which every step that
  ends a command uses: telemetry, envelope and exit code agree.
* *LogTail.* The ring holds the last *n* of the lines that survive the filter among those
  the pass has read, line by line. A pass that does not start at line 1 is bounded and has
  read at least what it asked for; so one that is enough has a full ring or the whole log,
  and the tail is exact.
* *Proxies.* `LookedInv` says at which places of a terraform run the file may still be
  written or removed, and that the run saw none there: `ForeignOverrideKept` for any number
  of runs. The inductive form of `SignalsAtMostOnce` counts what the channel still holds of
  each signal (`Pending`), because a relayed signal is on its way before it is received.
  `ToolTargetsEmulator` needs what each stage knows of the emulator, the account and the
  bucket (`RouteInv`), of the file in the directory (`OwnFileInv`) and of the environment
  the child was given (`ChildInv`). `FlagsReachTheirOwner` is about how a command line is
  scanned: what is kept of it and where each kept token came from, by induction on the
  length (`KeptTokens`, `Origin`, `Intact`), and how the first words name the action.
* *Snapshots.* A command is the list of steps it has left, so the invariant (`PlanOK`) is
  about that list: a removal comes right after its prompt, unless it is forced or was agreed
  to, and names the pod of its reference; a load or a reset is ahead only of a `load` that is
  no preview of a pod, or of a start. What parsing may return (`SourceShape`, `CloudOnly`,
  `ParsedLoads`, `ParsedRemoves`) makes it hold where the list is made; `PlanTail` where a
  step is taken off it. `RemovalConfirmed` and `StateLostOnlyByLoad` follow for any number
  of commands and any arguments. For `SavedIsFound`, a file belongs to the place it was
  made for, and two saves with different destinations never share one. `SnapTyped` needs two
  more facts of a plan: every path in it is that of a file or an archive there can be
  (`Placed`), and every pod's version it asks for is one that was parsed or found
  (`Supplied`), which a save that registers a new version keeps for the others too.
* *The commands together.* A step of `CommandsSpec` is a step of one component and leaves
  the variables of the others alone, whatever restriction a scene adds
  (`CommandsProject`). So each component's specification is implied, `CommandsTyped` is
  the conjunction of the seven type theorems, and `CommandsKeep` says that all that was
  proved of a command alone holds among the others.

Induction over the index of a list, for functions that recur on it, is well-founded
induction on the natural numbers stated for a set (`SetInduction` and its like in the
modules that need it), since the library's induction theorems take an operator. That such a
function exists and computes what its equation says is `LoopComputes`.

Only model-checked: the liveness properties `AwaitSettles`, `StartEnds` and
`TerminalReturns`, which rest on fairness, outside the prover's reach. The runs that
expect a violation are counterexamples, and TLC's alone.

## What is not modelled

* Tracing and logging: observability, no state that anything reads.
* What events say: the plain and TUI renderings, wrapping, styles, help, flag
  declarations and messages. The order of events is modelled where something depends on it.
* The machine id: two first runs may each make one, which nothing forbids.
* HCL, INI, TOML and schema parsing as text: their result is modelled, with the cases
  that the code treats apart (broken, partial, absent). Remote-state overrides and the
  fallbacks of the provider's schema are data of the same kind.
* Discovery of the daemon's socket and flavour, listing of an emulator's resources, the
  catalog's and the browser login's requests: a request, its decoding, one result.
* The copying of bytes between terminal, pseudo-terminal and child. Signals are modelled.
* Widths: no integer of the code gets near its own. Durations: a timer may fire whenever
  it is armed.
* The search for an extension and the context it is given; its exit code is modelled.

What is left to do, the most valuable first: restarts and stops racing a start in
`StartFlow`; an abstract bounded queue that `Telemetry` refines (`NewestEventsSent` says of
its contents what such a refinement would).
