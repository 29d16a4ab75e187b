----------------------------- MODULE StartFlow -----------------------------
(***************************************************************************)
(* container.Start of internal/container/start.go, run by one or more lstk *)
(* commands that share a machine: the Docker container name they all want, *)
(* the cached license.json, the local image and the stored token.          *)
(*                                                                         *)
(* One action is one call that reads or changes shared state, in the       *)
(* order Start makes them; everything between two calls is local. The      *)
(* readiness wait is one action per verdict of StartupMonitor. Other       *)
(* software may take the container name at any time, containers exit by    *)
(* themselves, and a command may be interrupted before any of its calls.   *)
(***************************************************************************)
EXTENDS Naturals

CONSTANTS
  Procs,         \* the lstk commands
  Commands,      \* how each may be run: records of Command, below
  Leftovers,     \* what may hold the container name at first
  Neighbours,    \* what else may be running
  Entitlements,  \* which tokens the license server may accept
  Others         \* the kinds of other software that may take the name

Tokens == {"old", "new"}

Command == [interactive : BOOLEAN,                 \* attached to a terminal
            env : Tokens \cup {"none"},            \* LOCALSTACK_AUTH_TOKEN
            emulator : {"pinned", "latest", "self"}]
           \* an image with a pinned tag, with the floating one, or an emulator
           \* that validates its license itself (Snowflake, Azure)

ASSUME CommandsAssumption == Commands \subseteq Command
\* The names below are no command's.
ASSUME ProcsAssumption ==
  Procs \cap {"none", "earlier", "parked", "transient"} = {}

\* Owners of the name: a command of this run, an earlier one, and other software
\* whose container stays ("parked") or removes itself when it exits ("transient").
Managed == Procs \cup {"earlier"}
Owners == Managed \cup {"parked", "transient"}
States == {"created", "running", "exited"}
Free == [state |-> "absent", owner |-> "none"]
Slots == {Free} \cup [state : States, owner : Owners]

\* "emulator" is ours, or LocalStack on the port; "conflict" is another emulator,
\* another port or another program.
ASSUME WorldAssumption ==
  /\ Leftovers \subseteq {c \in Slots : c.owner \notin Procs}
  /\ Neighbours \subseteq {"none", "emulator", "conflict"}
  /\ Entitlements \subseteq SUBSET Tokens
  /\ Others \subseteq {"parked", "transient"}

VARIABLES
  \* what the commands share
  slot,       \* the container that holds the name: its state and its owner
  license,    \* whose license.json is cached: "none", "earlier" or a command's
  store,      \* the stored token
  image,      \* the image is present locally
  \* the world outside
  entitled,   \* the tokens the license server accepts
  neighbour,  \* what else runs
  writable,   \* the license cache can be written and removed from
  \* each command
  cmd, pc, token, attempt, brief, stage, refreshed, mounted, retryCandidate,
  portDropped, outcome

world == <<entitled, neighbour, writable>>
shared == <<slot, license, store, image>>
locals == <<cmd, token, attempt, brief, stage, refreshed, mounted, retryCandidate,
            portDropped>>
vars == <<shared, world, locals, pc, outcome>>

Licenses == {"none", "earlier"} \cup Procs

\* A foreign container that does not remove itself is the only kind that stays.
AutoRemove(owner) == owner # "parked"

Outcomes == {"none", "started", "alreadyRunning", "nameTaken", "notRemoved",
             "portConflict", "pullFailed", "nameConflict", "licenseRejected", "startFailed",
             "timedOut", "stopped", "authFailed", "aborted"}

Working == {"token", "inspect", "heal", "healGone", "scan", "preflight", "validate",
            "clear", "clearGone", "image", "pull", "version", "mount", "create",
            "run", "unbind", "unbindGone", "await", "dropLicense", "rejected",
            "relogin"}

TypeOK ==
  /\ slot \in Slots
  /\ license \in Licenses
  /\ store \in Tokens \cup {"none"}
  /\ image \in BOOLEAN
  /\ entitled \in Entitlements
  /\ neighbour \in Neighbours
  /\ writable \in BOOLEAN
  /\ cmd \in [Procs -> Commands]
  /\ pc \in [Procs -> Working \cup {"done"}]
  /\ token \in [Procs -> Tokens \cup {"none"}]
  /\ attempt \in [Procs -> {1, 2}]
  /\ brief \in [Procs -> Slots]
  /\ stage \in [Procs -> {"prePull", "postPull", "retry"}]
  /\ refreshed \in [Procs -> BOOLEAN]
  /\ mounted \in [Procs -> Licenses]
  /\ retryCandidate \in [Procs -> BOOLEAN]
  /\ portDropped \in [Procs -> BOOLEAN]
  /\ outcome \in [Procs -> Outcomes]

Init ==
  /\ slot \in Leftovers
  /\ license \in {"none", "earlier"}
  /\ store \in {"none", "old"}
  /\ image \in BOOLEAN
  /\ entitled \in Entitlements
  /\ neighbour \in Neighbours
  /\ writable \in BOOLEAN
  /\ cmd \in [Procs -> Commands]
  /\ pc = [p \in Procs |-> "token"]
  /\ token = [p \in Procs |-> "none"]
  /\ attempt = [p \in Procs |-> 1]
  /\ brief = [p \in Procs |-> Free]
  /\ stage = [p \in Procs |-> "prePull"]
  /\ refreshed = [p \in Procs |-> FALSE]
  /\ mounted = [p \in Procs |-> "none"]
  /\ retryCandidate = [p \in Procs |-> FALSE]
  /\ portDropped = [p \in Procs |-> FALSE]
  /\ outcome = [p \in Procs |-> "none"]
-----------------------------------------------------------------------------
(* How a command moves *)

Goto(p, from, to) ==
  /\ pc[p] = from
  /\ pc' = [pc EXCEPT ![p] = to]
  /\ UNCHANGED <<world, outcome>>

Finish(p, from, result) ==
  /\ pc[p] = from
  /\ pc' = [pc EXCEPT ![p] = "done"]
  /\ outcome' = [outcome EXCEPT ![p] = result]
  /\ UNCHANGED world

Own(p, state) == slot = [state |-> state, owner |-> p]

ForceRemoveByName == slot' = Free

\* DockerRuntime.Remove without force: the daemon refuses a running container,
\* and Remove takes that refusal for a removal in progress.
RemoveByName == slot' = IF slot.state = "running" THEN slot ELSE Free

\* A token that cannot be stored or deleted is a warning, a license file that
\* cannot be removed a line in the log.
StoreOrWarn(t) == store' \in {t, store}
DropLicense == license' = IF writable THEN "none" ELSE license

-----------------------------------------------------------------------------
(* Start: the token *)

\* GetToken: LOCALSTACK_AUTH_TOKEN, then the stored token, then a login.
HasToken(p) ==
  /\ Goto(p, "token", "inspect")
  /\ \/ cmd[p].env # "none" /\ token' = [token EXCEPT ![p] = cmd[p].env]
     \/ cmd[p].env = "none" /\ store # "none" /\ token' = [token EXCEPT ![p] = store]
  /\ UNCHANGED <<shared, cmd, attempt, brief, stage, refreshed, mounted,
                 retryCandidate, portDropped>>

LogsIn(p) ==
  /\ cmd[p].env = "none" /\ store = "none"
  /\ cmd[p].interactive
  /\ Goto(p, "token", "inspect")
  /\ token' = [token EXCEPT ![p] = "new"]
  /\ StoreOrWarn("new")
  /\ UNCHANGED <<slot, license, image, cmd, attempt, brief, stage, refreshed, mounted,
                 retryCandidate, portDropped>>

\* No terminal to log in from, or a login that fails.
HasNoToken(p) ==
  /\ cmd[p].env = "none" /\ store = "none"
  /\ Finish(p, "token", "authFailed")
  /\ UNCHANGED <<shared, locals>>

-----------------------------------------------------------------------------
(* selectContainersToStart: the name, the leftover on it, the neighbours *)

InspectRunning(p) ==
  /\ slot.state = "running"
  /\ Finish(p, "inspect", "alreadyRunning")
  /\ UNCHANGED <<shared, locals>>

InspectLeftover(p) ==
  /\ slot.state \in {"created", "exited"}
  /\ Goto(p, "inspect", "heal")
  /\ brief' = [brief EXCEPT ![p] = slot]
  /\ UNCHANGED <<shared, cmd, token, attempt, stage, refreshed, mounted,
                 retryCandidate, portDropped>>

InspectFree(p) ==
  /\ slot = Free
  /\ Goto(p, "inspect", "scan")
  /\ UNCHANGED <<shared, locals>>

RemovableByAutoRemoveOnly(c) == AutoRemove(c.owner) /\ c.state # "created"

\* healLeftoverContainer: labelled by lstk, or on its own way out.
Removable(c) ==
  \/ c.owner \in Managed
  \/ AutoRemove(c.owner) /\ c.state # "created"

HealRefuses(p) ==
  /\ ~Removable(brief[p])
  /\ Finish(p, "heal", "nameTaken")
  /\ UNCHANGED <<shared, locals>>

\* The removal goes by name: it is for whatever holds the name by now.
HealRemoves(p) ==
  /\ Removable(brief[p])
  /\ Goto(p, "heal", "healGone")
  /\ RemoveByName
  /\ UNCHANGED <<license, store, image, locals>>

\* waitContainerGone, after any of the three removals by name.
NameGone(p) ==
  /\ slot = Free
  /\ \/ Goto(p, "healGone", "scan")
     \/ Goto(p, "clearGone", "image")
     \/ Goto(p, "unbindGone", "create")
  /\ UNCHANGED <<shared, locals>>

NameNotGone(p) ==
  /\ slot # Free
  /\ \/ Finish(p, "healGone", "notRemoved")
     \/ Finish(p, "clearGone", "notRemoved")
     \/ Finish(p, "unbindGone", "startFailed")
  /\ UNCHANGED <<shared, locals>>

EmulatorRuns ==
  \/ neighbour = "emulator"
  \/ slot.state = "running" /\ slot.owner \in Managed

ScanFindsEmulator(p) ==
  /\ EmulatorRuns
  /\ Finish(p, "scan", "alreadyRunning")
  /\ UNCHANGED <<shared, locals>>

\* Whatever runs under the name by now may be another emulator, or on the port.
ScanFindsConflict(p) ==
  /\ neighbour = "conflict" \/ slot.state = "running"
  /\ Finish(p, "scan", "portConflict")
  /\ UNCHANGED <<shared, locals>>

ScanFindsNothing(p) ==
  /\ neighbour = "none" /\ ~EmulatorRuns
  /\ Goto(p, "scan", "preflight")
  /\ UNCHANGED <<shared, locals>>

-----------------------------------------------------------------------------
(* tryPrePullLicenseValidation, validateLicensesFromImages, validateLicense *)

\* Only a pinned tag is checked before the pull, and not even that one when its
\* image is local, unless the first attempt was rejected.
PreflightSkips(p) ==
  /\ cmd[p].emulator = "pinned" => image /\ attempt[p] = 1
  /\ Goto(p, "preflight", "clear")
  /\ UNCHANGED <<shared, locals>>

\* The probe for the image may fail, and then the license is checked.
PreflightChecks(p) ==
  /\ cmd[p].emulator = "pinned"
  /\ Goto(p, "preflight", "validate")
  /\ stage' = [stage EXCEPT ![p] = "prePull"]
  /\ UNCHANGED <<shared, cmd, token, attempt, brief, refreshed, mounted,
                 retryCandidate, portDropped>>

AfterValidation(p) == IF stage[p] = "prePull" THEN "clear" ELSE "mount"

\* A valid license is cached; a failure to write the cache is only logged.
LicenseAccepted(p) ==
  /\ token[p] \in entitled
  /\ Goto(p, "validate", AfterValidation(p))
  /\ \/ writable /\ license' = p /\ refreshed' = [refreshed EXCEPT ![p] = TRUE]
     \/ UNCHANGED <<license, refreshed>>
  /\ UNCHANGED <<slot, store, image, cmd, token, attempt, brief, stage, mounted,
                 retryCandidate, portDropped>>

LicenseUndecidedRejects(p) ==
  /\ Goto(p, "validate", "rejected")
  /\ DropLicense
  /\ UNCHANGED <<slot, store, image, locals>>

\* No answer, an unsupported tag or an unexpected status is no verdict.
LicenseUndecided(p) ==
  /\ Goto(p, "validate", AfterValidation(p))
  /\ UNCHANGED <<shared, locals>>

LicenseRejectedKeepsCache(p) ==
  /\ token[p] \notin entitled
  /\ Goto(p, "validate", "rejected")
  /\ UNCHANGED <<shared, locals>>

LicenseRejected(p) ==
  /\ token[p] \notin entitled
  /\ Goto(p, "validate", "rejected")
  /\ DropLicense
  /\ UNCHANGED <<slot, store, image, locals>>

VersionResolved(p) ==
  /\ Goto(p, "version", "validate")
  /\ UNCHANGED <<shared, locals>>

VersionUnknown(p) ==
  /\ Finish(p, "version", "startFailed")
  /\ UNCHANGED <<shared, locals>>

-----------------------------------------------------------------------------
(* pullImages *)

\* Whatever holds the name is removed again, without a second look at it.
ClearRemoves(p) ==
  /\ Goto(p, "clear", "clearGone")
  /\ RemoveByName
  /\ UNCHANGED <<license, store, image, locals>>

AfterPull(p) == IF cmd[p].emulator = "latest" THEN "version" ELSE "mount"

ImageReused(p) ==
  /\ image /\ cmd[p].emulator # "latest"
  /\ Goto(p, "image", AfterPull(p))
  /\ UNCHANGED <<shared, locals>>

ImageToPull(p) ==
  /\ ~image \/ cmd[p].emulator # "pinned"
  /\ Goto(p, "image", "pull")
  /\ stage' = [stage EXCEPT ![p] = "postPull"]
  /\ UNCHANGED <<shared, cmd, token, attempt, brief, refreshed, mounted,
                 retryCandidate, portDropped>>

PullSucceeds(p) ==
  /\ Goto(p, "pull", AfterPull(p))
  /\ image' = TRUE
  /\ UNCHANGED <<slot, license, store, locals>>

\* A failed or skipped pull falls back to the local image, if there is one.
PullFails(p) ==
  /\ \/ image /\ Goto(p, "pull", AfterPull(p))
     \/ ~image /\ Finish(p, "pull", "pullFailed")
  /\ UNCHANGED <<shared, locals>>

-----------------------------------------------------------------------------
(* startWithLicenseRetry, startContainers, startWithOptionalPortFallback *)

\* Each of the two starts asks for every port again.
Mounts(p, candidate) ==
  /\ Goto(p, "mount", "create")
  /\ mounted' = [mounted EXCEPT ![p] = license]
  /\ retryCandidate' = [retryCandidate EXCEPT ![p] = candidate]
  /\ portDropped' = [portDropped EXCEPT ![p] = FALSE]
  /\ UNCHANGED <<shared, cmd, token, attempt, brief, stage, refreshed>>

MountsIgnoringRefresh(p) ==
  \/ stage[p] # "retry" /\ license # "none" /\ Mounts(p, TRUE)
  \/ (stage[p] = "retry" \/ license = "none") /\ Mounts(p, FALSE)

\* Only a cached license this run did not fetch may be blamed for a failed start.
MountsLicense(p) ==
  \/ stage[p] # "retry" /\ license # "none" /\ ~refreshed[p] /\ Mounts(p, TRUE)
  \/ (stage[p] = "retry" \/ license = "none" \/ refreshed[p]) /\ Mounts(p, FALSE)

Creates(p) ==
  /\ slot = Free
  /\ Goto(p, "create", "run")
  /\ slot' = [state |-> "created", owner |-> p]
  /\ UNCHANGED <<license, store, image, locals>>

CreateConflicts(p) ==
  /\ slot # Free
  /\ Finish(p, "create", "nameConflict")
  /\ UNCHANGED <<shared, locals>>

Runs(p) ==
  /\ Own(p, "created")
  /\ Goto(p, "run", "await")
  /\ slot' = [state |-> "running", owner |-> p]
  /\ UNCHANGED <<license, store, image, locals>>

\* The daemon rejects the bind of an optional port: try again without it, once
\* the container that was created but not started is out of the way.
OptionalBindFailsForEver(p) ==
  /\ Own(p, "created")
  /\ Goto(p, "run", "unbind")
  /\ UNCHANGED <<shared, locals>>

OptionalBindFails(p) ==
  /\ Own(p, "created")
  /\ ~portDropped[p]
  /\ Goto(p, "run", "unbind")
  /\ portDropped' = [portDropped EXCEPT ![p] = TRUE]
  /\ UNCHANGED <<shared, cmd, token, attempt, brief, stage, refreshed, mounted,
                 retryCandidate>>

UnbindRemoves(p) ==
  /\ Goto(p, "unbind", "unbindGone")
  /\ RemoveByName
  /\ UNCHANGED <<license, store, image, locals>>

\* Any other refusal leaves the created container behind.
RunFails(p) ==
  /\ Finish(p, "run", "startFailed")
  /\ UNCHANGED <<shared, locals>>

AwaitReady(p) ==
  /\ Own(p, "running")
  /\ Finish(p, "await", "started")
  /\ UNCHANGED <<shared, locals>>

\* The container stopped running: its logs may blame the license.
AwaitExited(p) ==
  /\ ~Own(p, "running")
  /\ \/ Finish(p, "await", "startFailed")
     \/ retryCandidate[p] /\ Goto(p, "await", "dropLicense")
  /\ UNCHANGED <<shared, locals>>

\* Without a terminal the container is left running when the deadline passes.
AwaitTimesOut(p) ==
  /\ ~cmd[p].interactive
  /\ Finish(p, "await", "timedOut")
  /\ UNCHANGED <<shared, locals>>

\* With one, the user may choose to stop it: best effort.
AwaitStops(p) ==
  /\ cmd[p].interactive
  /\ Finish(p, "await", "stopped")
  /\ \/ slot.owner = p /\ slot' = Free
     \/ UNCHANGED slot
  /\ UNCHANGED <<license, store, image, locals>>

DropsLicense(p) ==
  /\ Goto(p, "dropLicense", CASE cmd[p].emulator = "pinned" -> "validate"
                               [] cmd[p].emulator = "latest" -> "version"
                               [] OTHER -> "mount")
  /\ DropLicense
  /\ stage' = [stage EXCEPT ![p] = "retry"]
  /\ UNCHANGED <<slot, store, image, cmd, token, attempt, brief, refreshed, mounted,
                 retryCandidate, portDropped>>

-----------------------------------------------------------------------------
(* Start: the rejection and the fresh login *)

Declines(p) ==
  /\ Finish(p, "rejected", "licenseRejected")
  /\ UNCHANGED <<shared, locals>>

AcceptsEveryRelogin(p) ==
  /\ cmd[p].interactive
  /\ Goto(p, "rejected", "relogin")
  /\ StoreOrWarn("none")
  /\ DropLicense
  /\ UNCHANGED <<slot, image, locals>>

\* Relogin forgets the stored token and the cached license before it logs in.
AcceptsRelogin(p) ==
  /\ cmd[p].interactive /\ attempt[p] = 1
  /\ Goto(p, "rejected", "relogin")
  /\ StoreOrWarn("none")
  /\ DropLicense
  /\ UNCHANGED <<slot, image, locals>>

ReloginSucceeds(p) ==
  /\ Goto(p, "relogin", "inspect")
  /\ StoreOrWarn("new")
  /\ token' = [token EXCEPT ![p] = "new"]
  /\ attempt' = [attempt EXCEPT ![p] = @ + 1]
  /\ stage' = [stage EXCEPT ![p] = "prePull"]
  /\ refreshed' = [refreshed EXCEPT ![p] = FALSE]
  /\ UNCHANGED <<slot, license, image, cmd, brief, mounted, retryCandidate, portDropped>>

ReloginFails(p) ==
  /\ Finish(p, "relogin", "authFailed")
  /\ UNCHANGED <<shared, locals>>

\* Ctrl+C, a crash or a daemon that does not answer, before any call: whatever
\* the command did to the shared state stays.
Aborts(p) ==
  /\ pc[p] # "done"
  /\ Finish(p, pc[p], "aborted")
  /\ UNCHANGED <<shared, locals>>

-----------------------------------------------------------------------------
(* Containers and other software *)

ContainerExits ==
  /\ slot.state = "running"
  /\ slot' = [slot EXCEPT !.state = "exited"]
  /\ UNCHANGED <<license, store, image, world, locals, pc, outcome>>

SelfRemoves ==
  /\ slot.state = "exited" /\ AutoRemove(slot.owner)
  /\ slot' = Free
  /\ UNCHANGED <<license, store, image, world, locals, pc, outcome>>

OthersTakeName ==
  /\ slot = Free
  /\ slot' \in [state : States, owner : Others]
  /\ UNCHANGED <<license, store, image, world, locals, pc, outcome>>

Rest == (\A p \in Procs : pc[p] = "done") /\ UNCHANGED vars

Selects(p) ==
  \/ HasToken(p) \/ LogsIn(p) \/ HasNoToken(p)
  \/ InspectRunning(p) \/ InspectLeftover(p) \/ InspectFree(p)
  \/ HealRefuses(p) \/ HealRemoves(p) \/ NameGone(p) \/ NameNotGone(p)
  \/ ScanFindsEmulator(p) \/ ScanFindsConflict(p) \/ ScanFindsNothing(p)

Prepares(p) ==
  \/ PreflightSkips(p) \/ PreflightChecks(p)
  \/ LicenseAccepted(p) \/ LicenseUndecided(p) \/ LicenseRejected(p)
  \/ VersionResolved(p) \/ VersionUnknown(p)
  \/ ClearRemoves(p) \/ ImageReused(p) \/ ImageToPull(p) \/ PullSucceeds(p) \/ PullFails(p)

Launches(p) ==
  \/ MountsLicense(p) \/ Creates(p) \/ CreateConflicts(p)
  \/ Runs(p) \/ OptionalBindFails(p) \/ UnbindRemoves(p) \/ RunFails(p)
  \/ AwaitReady(p) \/ AwaitExited(p) \/ AwaitTimesOut(p) \/ AwaitStops(p)
  \/ DropsLicense(p)
  \/ Declines(p) \/ AcceptsRelogin(p) \/ ReloginSucceeds(p) \/ ReloginFails(p)

Proceeds(p) == Selects(p) \/ Prepares(p) \/ Launches(p)

Next ==
  \/ \E p \in Procs : Proceeds(p) \/ Aborts(p)
  \/ ContainerExits \/ SelfRemoves \/ OthersTakeName
  \/ Rest

Spec == Init /\ [][Next]_vars

\* A command that can take its next step takes it: its calls return, the readiness
\* wait settles (StartupMonitor.AwaitSettles), and the user answers the prompts.
FairSpec == Spec /\ \A p \in Procs : WF_vars(Proceeds(p))

-----------------------------------------------------------------------------
(* Properties *)

\* validateLicense's invariant: the pre-flight never blocks a start over anything
\* but the license server's own verdict on the token the container would use.
RejectionIsVerdict ==
  \A p \in Procs :
    pc[p] = "rejected" \/ outcome[p] = "licenseRejected" => token[p] \notin entitled

\* A rejection never leaves the license of an earlier run cached, for a later
\* start whose pre-flight is skipped to fail against.
StaleLicenseDropped ==
  \A p \in Procs :
    writable /\ (pc[p] \in {"rejected", "relogin"} \/ outcome[p] = "licenseRejected")
      => license # "earlier"

\* The retry is for a stale license only: a license this very attempt fetched and
\* the container still refused is a verdict, and is not dropped and fetched again.
FreshLicenseNotRetried ==
  \A p \in Procs : pc[p] = "dropLicense" => mounted[p] \notin {"none", p}

\* No start takes down a running container but its own, and its own only when the
\* user chose to stop it: the removals by name all spare what runs by then.
RunningContainerSpared ==
  [][slot.state = "running" /\ slot' # slot =>
       \/ slot' = [slot EXCEPT !.state = "exited"]
       \/ \E p \in Procs : slot.owner = p /\ pc[p] = "await" /\ outcome'[p] = "stopped"]_vars

\* The name is never refused on account of a container an lstk command left.
OnlyOthersTakeName ==
  \A p \in Procs : outcome[p] = "nameTaken" => brief[p].owner \notin Managed

\* Every start ends: neither the port fallback, nor the license retry, nor the
\* fresh login repeats itself for ever.
StartEnds == \A p \in Procs : <>(pc[p] = "done")

\* healLeftoverContainer: "Anything else ... a foreign container parked on the
\* name ... is never removed".
ParkedContainerKept ==
  [][slot.owner = "parked" /\ slot.state # "running" => slot' = slot]_vars

\* Remove waits "so a subsequent create reusing the same name does not race the
\* in-flight auto-removal": no start fails on the name its own container holds.
OwnContainerNeverInTheWay ==
  \A p \in Procs : outcome[p] = "nameConflict" => slot.owner # p
=============================================================================
