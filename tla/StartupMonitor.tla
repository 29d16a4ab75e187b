--------------------------- MODULE StartupMonitor ---------------------------
(***************************************************************************)
(* startupMonitor.await of internal/container/start.go: the loop that      *)
(* watches a container lstk has just started until it is healthy, exits,   *)
(* is given up on, or the command is interrupted.                          *)
(*                                                                         *)
(* Four actors take interleaved steps: the monitor's select loop and its   *)
(* two-call probe; the container and the goroutine that waits for its exit *)
(* (DockerRuntime.waitForExit); the two timers; and the terminal UI that   *)
(* shows the "keep waiting?" prompt and may be interrupted at any time.    *)
(***************************************************************************)
EXTENDS Integers

CONSTANT ExitCodes  \* the exit codes the container may end with

ASSUME ExitCodesAssumption == ExitCodes # {} /\ ExitCodes \subseteq Nat

\* containerExitedError.exitCode and ExitResult.ExitCode when no code is known
Unknown == -1

\* An exit channel or a response channel that holds nothing
Empty == -2
NoKey == "none"

VARIABLES
  interactive,      \* startupMonitor.interactive
  emulator,         \* the container: "starting", "ready" (answers 200) or "exited"
  exitCode,         \* the code it exited with
  cancelled,        \* the command's context is done
  waiter,           \* waitForExit's goroutine has not delivered its one result yet
  exitCh,           \* the result in exitCh's buffer of one
  trustExitCh,      \* await's exitCh is not nil
  pc, why,          \* where await is, and which case of the loop started the probe
  deadline,         \* the deadline timer: "armed", "fired" (undrained) or "spent"
  tick,             \* the ticker's channel holds a tick
  asking, response, \* responseCh is not nil; the key in its buffer of one
  uiEvents,         \* prompt events emitted and not yet handled by the UI
  shown, uiOpen,    \* the UI shows the prompt; the UI has not quit
  result,           \* what await returned
  readyAtDecision   \* history: was the emulator ready when the loop took the
                    \* deadline, or the "s" key, that made it consider giving up?

container == <<emulator, exitCode, cancelled, waiter>>
ui == <<shown, uiOpen>>
vars == <<interactive, container, exitCh, trustExitCh, pc, why, deadline, tick,
          asking, response, uiEvents, ui, result, readyAtDecision>>

\* "timeout" and "stopped" are startupTimeoutError without and with its stopped flag.
Outcomes == [kind : {"none", "ready", "exited", "timeout", "stopped", "cancelled",
                     "checkFailed"},
             code : ExitCodes \cup {Unknown}]
Outcome(kind) == [kind |-> kind, code |-> Unknown]
Exited(code) == [kind |-> "exited", code |-> code]
Pending == Outcome("none")

\* Every variable has its type.
TypeOK ==
  /\ interactive \in BOOLEAN
  /\ emulator \in {"starting", "ready", "exited"}
  /\ exitCode \in ExitCodes \cup {Unknown}
  /\ cancelled \in BOOLEAN
  /\ waiter \in BOOLEAN
  /\ exitCh \in ExitCodes \cup {Unknown, Empty}
  /\ trustExitCh \in BOOLEAN
  /\ pc \in {"isRunning", "exitWait", "healthGet", "select", "stopping", "returned"}
  /\ why \in {"first", "tick", "deadline", "key"}
  /\ deadline \in {"armed", "fired", "spent"}
  /\ tick \in BOOLEAN
  /\ asking \in BOOLEAN
  /\ response \in {NoKey, "w", "s", "cancelled"}
  /\ uiEvents \subseteq {"ask", "dismiss"}
  /\ shown \in BOOLEAN
  /\ uiOpen \in BOOLEAN
  /\ result \in Outcomes
  /\ readyAtDecision \in BOOLEAN

Init ==
  /\ interactive \in BOOLEAN
  /\ emulator = "starting"
  /\ exitCode = Unknown
  /\ cancelled = FALSE
  /\ waiter = TRUE
  /\ exitCh = Empty
  /\ trustExitCh = TRUE
  /\ pc = "isRunning"
  /\ why = "first"
  /\ deadline = "armed"
  /\ tick = FALSE
  /\ asking = FALSE
  /\ response = NoKey
  /\ uiEvents = {}
  /\ shown = FALSE
  /\ uiOpen = interactive
  /\ result = Pending
  /\ readyAtDecision = FALSE

-----------------------------------------------------------------------------
(* await's probe: IsRunning, then the health endpoint *)

ReturnWithoutDismiss(r) ==
  /\ pc' = "returned"
  /\ result' = r
  /\ UNCHANGED uiEvents

\* A return from await runs its deferred call: a prompt that is still
\* unanswered is retracted.
Return(r) ==
  /\ pc' = "returned"
  /\ result' = r
  /\ uiEvents' = IF asking THEN uiEvents \cup {"dismiss"} ELSE uiEvents

Probe(reason) ==
  /\ pc' = "isRunning"
  /\ why' = reason
  /\ UNCHANGED <<uiEvents, result>>

\* IsRunning fails: because the context was cancelled, or because the daemon did.
IsRunningFails ==
  /\ pc = "isRunning"
  /\ Return(Outcome(IF cancelled THEN "cancelled" ELSE "checkFailed"))
  /\ UNCHANGED <<interactive, container, exitCh, trustExitCh, why, deadline, tick,
                 asking, response, ui, readyAtDecision>>

IsRunningAnswers ==
  /\ pc = "isRunning"
  /\ ~cancelled
  /\ pc' = IF emulator = "exited" THEN "exitWait" ELSE "healthGet"
  /\ UNCHANGED <<interactive, container, exitCh, trustExitCh, why, deadline, tick,
                 asking, response, uiEvents, ui, result, readyAtDecision>>

\* exitedError: the exit is certain, its code is awaited for a moment.
ExitWaitReceives ==
  /\ pc = "exitWait"
  /\ trustExitCh
  /\ exitCh # Empty
  /\ exitCh' = Empty
  /\ Return(Exited(exitCh))
  /\ UNCHANGED <<interactive, container, trustExitCh, why, deadline, tick, asking,
                 response, ui, readyAtDecision>>

ExitWaitTimesOut ==
  /\ pc = "exitWait"
  /\ ~(trustExitCh /\ exitCh # Empty)
  /\ Return(Exited(Unknown))
  /\ UNCHANGED <<interactive, container, exitCh, trustExitCh, why, deadline, tick,
                 asking, response, ui, readyAtDecision>>

HealthAnswers200 ==
  /\ pc = "healthGet"
  /\ emulator = "ready"
  /\ Return(Outcome("ready"))
  /\ UNCHANGED <<interactive, container, exitCh, trustExitCh, why, deadline, tick,
                 asking, response, ui, readyAtDecision>>

NotReady(reasons) ==
  /\ pc = "healthGet"
  /\ emulator # "ready"
  /\ why \in reasons
  /\ UNCHANGED <<interactive, container, exitCh, trustExitCh, why, tick, ui,
                 readyAtDecision>>

KeepPolling ==
  /\ NotReady({"first", "tick"})
  /\ pc' = "select"
  /\ UNCHANGED <<deadline, asking, response, uiEvents, result>>

TimeOut ==
  /\ NotReady({"deadline"})
  /\ ~interactive
  /\ Return(Outcome("timeout"))
  /\ UNCHANGED <<deadline, asking, response>>

\* The bug of re-arming the deadline under the open prompt.
AskUserAndRearm ==
  /\ NotReady({"deadline"})
  /\ interactive
  /\ pc' = "select"
  /\ asking' = TRUE
  /\ response' = NoKey
  /\ uiEvents' = uiEvents \cup {"ask"}
  /\ deadline' = "armed"
  /\ UNCHANGED result

\* The prompt gets a channel of its own; the deadline stays spent under it.
AskUser ==
  /\ NotReady({"deadline"})
  /\ interactive
  /\ pc' = "select"
  /\ asking' = TRUE
  /\ response' = NoKey
  /\ uiEvents' = uiEvents \cup {"ask"}
  /\ UNCHANGED <<deadline, result>>

ConfirmStop ==
  /\ NotReady({"key"})
  /\ pc' = "stopping"
  /\ UNCHANGED <<deadline, asking, response, uiEvents, result>>

\* rt.Stop is best effort: whether or not it stopped the container, await
\* returns a timeout error whose stopped flag is set.
StopAndReturn ==
  /\ pc = "stopping"
  /\ \/ /\ ~cancelled
        /\ emulator # "exited"
        /\ emulator' = "exited"
        /\ exitCode' \in ExitCodes
     \/ UNCHANGED <<emulator, exitCode>>
  /\ Return(Outcome("stopped"))
  /\ UNCHANGED <<interactive, cancelled, waiter, exitCh, trustExitCh, why, deadline,
                 tick, asking, response, ui, readyAtDecision>>

-----------------------------------------------------------------------------
(* await's select loop: any ready case may be taken *)

SelectCancelled ==
  /\ pc = "select"
  /\ cancelled
  /\ Return(Outcome("cancelled"))
  /\ UNCHANGED <<interactive, container, exitCh, trustExitCh, why, deadline, tick,
                 asking, response, ui, readyAtDecision>>

\* responseCh is set to nil before the response is looked at.
Receive(key) ==
  /\ pc = "select"
  /\ asking
  /\ response = key
  /\ asking' = FALSE
  /\ response' = NoKey
  /\ UNCHANGED <<interactive, container, exitCh, trustExitCh, tick, ui>>

SelectPromptCancelled ==
  /\ Receive("cancelled")
  /\ pc' = "returned"
  /\ result' = Outcome("cancelled")
  /\ UNCHANGED <<why, deadline, uiEvents, readyAtDecision>>

SelectStopUnchecked ==
  /\ Receive("s")
  /\ readyAtDecision' = (emulator = "ready")
  /\ pc' = "stopping"
  /\ why' = "key"
  /\ UNCHANGED <<deadline, uiEvents, result>>

SelectStop ==
  /\ Receive("s")
  /\ readyAtDecision' = (emulator = "ready")
  /\ Probe("key")
  /\ UNCHANGED deadline

SelectKeepWaiting ==
  /\ Receive("w")
  /\ deadline' = "armed"
  /\ UNCHANGED <<pc, why, uiEvents, result, readyAtDecision>>

SelectExitFromClosed ==
  /\ pc = "select"
  /\ trustExitCh
  /\ exitCh' = Empty
  /\ Return(Exited(exitCh))
  /\ UNCHANGED <<interactive, container, trustExitCh, why, deadline, tick, asking,
                 response, ui, readyAtDecision>>

SelectExitTrustingErrors ==
  /\ exitCh # Empty
  /\ SelectExitFromClosed

\* A failed wait only stops await from listening to exitCh.
SelectExit ==
  /\ pc = "select"
  /\ trustExitCh
  /\ exitCh # Empty
  /\ exitCh' = Empty
  /\ IF exitCh = Unknown
       THEN /\ trustExitCh' = FALSE
            /\ UNCHANGED <<pc, result, uiEvents>>
       ELSE /\ Return(Exited(exitCh))
            /\ UNCHANGED trustExitCh
  /\ UNCHANGED <<interactive, container, why, deadline, tick, asking, response, ui,
                 readyAtDecision>>

SelectDeadline ==
  /\ pc = "select"
  /\ deadline = "fired"
  /\ deadline' = "spent"
  /\ readyAtDecision' = (emulator = "ready")
  /\ Probe("deadline")
  /\ UNCHANGED <<interactive, container, exitCh, trustExitCh, tick, asking, response, ui>>

SelectTickOnlyUnprompted ==
  /\ pc = "select"
  /\ ~asking
  /\ tick
  /\ tick' = FALSE
  /\ Probe("tick")
  /\ UNCHANGED <<interactive, container, exitCh, trustExitCh, deadline, asking,
                 response, ui, readyAtDecision>>

SelectTick ==
  /\ pc = "select"
  /\ tick
  /\ tick' = FALSE
  /\ Probe("tick")
  /\ UNCHANGED <<interactive, container, exitCh, trustExitCh, deadline, asking,
                 response, ui, readyAtDecision>>

Monitor ==
  \/ IsRunningFails \/ IsRunningAnswers
  \/ ExitWaitReceives \/ ExitWaitTimesOut
  \/ HealthAnswers200 \/ KeepPolling \/ TimeOut \/ AskUser \/ ConfirmStop
  \/ StopAndReturn
  \/ SelectCancelled \/ SelectPromptCancelled \/ SelectStop \/ SelectKeepWaiting
  \/ SelectExit \/ SelectDeadline \/ SelectTick

-----------------------------------------------------------------------------
(* The container and the goroutine that waits for its exit *)

BecomeReady ==
  /\ emulator = "starting"
  /\ emulator' = "ready"
  /\ UNCHANGED <<interactive, exitCode, cancelled, waiter, exitCh, trustExitCh, pc,
                 why, deadline, tick, asking, response, uiEvents, ui, result,
                 readyAtDecision>>

ContainerExits ==
  /\ emulator # "exited"
  /\ emulator' = "exited"
  /\ exitCode' \in ExitCodes
  /\ UNCHANGED <<interactive, cancelled, waiter, exitCh, trustExitCh, pc, why,
                 deadline, tick, asking, response, uiEvents, ui, result,
                 readyAtDecision>>

\* The goroutine sends one result into a buffer of one, so it never blocks.
Deliver(code) ==
  /\ waiter
  /\ waiter' = FALSE
  /\ exitCh' = code
  /\ UNCHANGED <<interactive, emulator, exitCode, cancelled, trustExitCh, pc, why,
                 deadline, tick, asking, response, uiEvents, ui, result,
                 readyAtDecision>>

WaitDelivers == emulator = "exited" /\ Deliver(exitCode)

\* The wait request may fail at any time, and fails when the context is done.
WaitFails == Deliver(Unknown)

-----------------------------------------------------------------------------
(* Timers, the terminal UI and the user *)

DeadlineFires ==
  /\ deadline = "armed"
  /\ deadline' = "fired"
  /\ UNCHANGED <<interactive, container, exitCh, trustExitCh, pc, why, tick, asking,
                 response, uiEvents, ui, result, readyAtDecision>>

TickFires ==
  /\ ~tick
  /\ tick' = TRUE
  /\ UNCHANGED <<interactive, container, exitCh, trustExitCh, pc, why, deadline,
                 asking, response, uiEvents, ui, result, readyAtDecision>>

\* App.Update takes the events in the order they were emitted: a question before
\* its retraction.
UiShows ==
  /\ uiOpen
  /\ "ask" \in uiEvents
  /\ shown' = TRUE
  /\ uiEvents' = uiEvents \ {"ask"}
  /\ UNCHANGED <<interactive, container, exitCh, trustExitCh, pc, why, deadline, tick,
                 asking, response, uiOpen, result, readyAtDecision>>

UiRetracts ==
  /\ uiOpen
  /\ uiEvents = {"dismiss"}
  /\ shown' = FALSE
  /\ uiEvents' = {}
  /\ UNCHANGED <<interactive, container, exitCh, trustExitCh, pc, why, deadline, tick,
                 asking, response, uiOpen, result, readyAtDecision>>

\* A key press hides the prompt and sends its option to the prompt's channel.
UserAnswers(key) ==
  /\ shown
  /\ shown' = FALSE
  /\ response' = key
  /\ UNCHANGED <<interactive, container, exitCh, trustExitCh, pc, why, deadline, tick,
                 asking, uiEvents, uiOpen, result, readyAtDecision>>

\* Ctrl+C: the context is cancelled, an open prompt answered as cancelled, and
\* the UI quits; without a UI the signal handler cancels the context.
Interrupt ==
  /\ ~cancelled
  /\ cancelled' = TRUE
  /\ response' = IF shown THEN "cancelled" ELSE response
  /\ shown' = FALSE
  /\ uiOpen' = FALSE
  /\ UNCHANGED <<interactive, emulator, exitCode, waiter, exitCh, trustExitCh, pc, why,
                 deadline, tick, asking, uiEvents, result, readyAtDecision>>

\* await has returned and everything else has come to rest.
Rest == pc = "returned" /\ UNCHANGED vars

Next ==
  \/ Monitor
  \/ BecomeReady \/ ContainerExits \/ WaitDelivers \/ WaitFails
  \/ DeadlineFires \/ TickFires
  \/ UiShows \/ UiRetracts \/ (\E key \in {"w", "s"} : UserAnswers(key)) \/ Interrupt
  \/ Rest

Spec == Init /\ [][Next]_vars

\* The Go scheduler runs the monitor whenever a case of its select is ready, and
\* timers fire. select picks among the ready cases uniformly at random, so the
\* deadline is not passed over for a tick for ever: strong fairness. Nothing is
\* assumed of the container, the daemon or the user.
Fairness ==
  /\ WF_vars(Monitor) /\ SF_vars(SelectDeadline)
  /\ WF_vars(DeadlineFires) /\ WF_vars(TickFires)
FairSpec == Spec /\ Fairness
-----------------------------------------------------------------------------
(* Properties *)

\* await never gives up on an emulator that was ready when it took the deadline
\* or the "s" key: unless it has crashed since, the probe made between that
\* moment and the stop (or the timeout error) finds it ready.
NoReadyEmulatorGivenUp ==
  (pc = "stopping" \/ result.kind \in {"timeout", "stopped"}) /\ readyAtDecision
     => emulator = "exited"

\* What await returns is true of the container: "ready" only after it answered
\* 200, "exited" only once it has stopped running and never with another code
\* than its own, "cancelled" only when the command was interrupted.
VerdictTrue ==
  /\ result.kind = "ready" => emulator # "starting"
  /\ result.kind = "exited" => emulator = "exited" /\ result.code \in {Unknown, exitCode}
  /\ result.kind = "cancelled" => cancelled

\* await is one wait with one verdict: its loop of probes, timers and questions
\* does nothing a caller could tell from ReadinessWait, where each verdict is one
\* step that is true of the container, and of the command, when it is taken.
WaitStage ==
  CASE pc = "returned" -> "over" [] pc = "stopping" -> "stopping" [] OTHER -> "waiting"
Wait == INSTANCE ReadinessWait WITH
  state <- emulator, code <- exitCode, interrupted <- cancelled, stage <- WaitStage,
  verdict <- result
AwaitIsOneWait == Wait!Spec

\* A prompt on screen is one await still listens to, or its retraction is on the
\* way: the deferred UserInputDismissEvent leaves no prompt that nobody reads.
NoOrphanPrompt ==
  shown /\ uiEvents = {} => asking /\ pc # "returned"

\* A second prompt never replaces one the user has not answered, whose channel
\* would then be lost: the deadline timer stays spent while a prompt is open.
PromptNeverReplaced == [][AskUser => ~asking]_vars

\* await returns once the emulator is ready or gone, or the command interrupted,
\* even while the user leaves the prompt open; and, without a user, always.
AwaitSettles ==
  (~interactive \/ cancelled \/ emulator # "starting") ~> pc = "returned"

\* startupTimeoutError's comment: "stopped records whether the container was
\* stopped on the way out ... so the error messaging can reflect its actual
\* state". The code sets it whatever rt.Stop returned.
StoppedIsRecorded == result.kind = "stopped" => emulator = "exited"
=============================================================================
