------------------------------ MODULE Terminal ------------------------------
(***************************************************************************)
(* A command at the terminal: the event loop with the UI (AppTUI), the     *)
(* goroutine that runs the command and talks to it, the pull with its two  *)
(* goroutines, the one that waits for the plan label, the function that    *)
(* started them all and waits for the loop, and the user, who answers,     *)
(* skips the pull, interrupts, or is a signal from elsewhere. Events for   *)
(* Telemetry come from the goroutine and from the command around it.       *)
(***************************************************************************)
EXTENDS AppTUI, Telemetry

CONSTANTS
  Sessions,   \* the commands: [start, loading, login, select, local, emits, events]
  MaxEmits    \* bound on the spinners, lines, questions and pulls of any of them

ASSUME TerminalConstants ==
  /\ MaxEmits \in Nat
  /\ \A s \in Sessions : s.start \in BOOLEAN /\ s.loading \in BOOLEAN /\ s.emits \in 0..MaxEmits

VARIABLES
  session,
  app,
  ticks,      \* the minimum durations that still run
  at,         \* where the command's goroutine is
  steps,      \* what it has left to emit
  spins,      \* whether it has a spinner going
  replies,    \* what each channel of a question holds
  skips,      \* the pulls whose skip channel holds a signal
  pull,       \* the pull that is on: its channel, its result, and the hint that ESC skips it
  label,      \* the plan label: not resolved, resolved, delivered
  cancelled,  \* whether the context is
  outcome,    \* what the goroutine left for the caller
  ended       \* how the event loop ended, whether a signal came, whether the caller returned

uiVars == <<session, app, ticks, at, steps, spins, replies, skips, pull, label, cancelled, outcome, ended>>
tuiVars == <<uiVars, tmVars>>

Chans == 1..MaxEmits
Questions == {"asked-update", "asked-login", "asked-emulator", "asked"}
Asking == at \in Questions
-----------------------------------------------------------------------------
TerminalInit ==
  /\ session \in Sessions
  /\ app = NewApp(session.loading)
  /\ ticks = 0
  /\ at = IF session.start THEN "notify" ELSE "body"
  /\ steps = session.emits
  /\ spins = FALSE
  /\ replies = [c \in Chans |-> "none"]
  /\ skips = {}
  /\ pull = [chan |-> NoChan, result |-> "none", hint |-> "none"]
  /\ label = "unresolved"
  /\ cancelled = FALSE
  /\ outcome = "none"
  /\ ended = [loop |-> "running", signal |-> FALSE, caller |-> FALSE]
  /\ tmEnabled = session.events /\ TelemetryInit

\* After the loop has ended a Send is a no-op.
LoopRuns == ended.loop = "running"
Sends(new) == app' = IF LoopRuns THEN new ELSE app
Quiet == UNCHANGED <<session, skips, label, cancelled, ended, tmVars>>

\* The goroutine ends: what it leaves, and the message it sends last, if any.
Leaves(result, new) ==
  /\ at' = "over" /\ outcome' = result
  /\ Sends(new)
  /\ UNCHANGED <<ticks, steps, spins, replies, pull>>
-----------------------------------------------------------------------------
\* Questions: each has a channel of its own, and the goroutine waits for an
\* answer or for the context.
Asks(from, to) ==
  /\ at = from /\ steps > 0
  /\ at' = to /\ steps' = steps - 1
  /\ Sends(UserInputRequest(app, steps))
  /\ UNCHANGED <<ticks, spins, replies, pull, outcome>>
  /\ Quiet
ThisChan == steps + 1

\* The update prompt at the start: updated, and the command is not run; not
\* now; or there is nothing to ask.
NotifiesUpdate ==
  \/ Asks("notify", "asked-update")
  \/ /\ at = "notify" /\ at' = "health"
     /\ UNCHANGED <<app, ticks, steps, spins, replies, pull, outcome>> /\ Quiet
UpdateAnswered ==
  /\ at = "asked-update"
  /\ Quiet
  /\ \/ /\ replies[ThisChan] = "yes"
        /\ Leaves("done", RunDone(HeaderLabel(app)))
     \/ /\ replies[ThisChan] # "none" \/ cancelled
        /\ at' = "health"
        /\ UNCHANGED <<app, ticks, steps, spins, replies, pull, outcome>>

ChecksHealth ==
  /\ at = "health"
  /\ Quiet
  /\ \/ cancelled /\ Leaves("done", app)
     \/ Leaves("done", RunErr(ErrorEvent(app)))
     \/ /\ at' = IF session.login THEN "login" ELSE "choose"
        /\ UNCHANGED <<app, ticks, steps, spins, replies, pull, outcome>>

\* Without a token the user logs in first; then a new configuration asks for
\* the emulator.
LogsIn ==
  \/ Asks("login", "asked-login")
  \/ at = "login" /\ Quiet /\ Leaves("failed", RunErr(app))
LoginAnswered ==
  /\ at = "asked-login"
  /\ Quiet
  /\ \/ /\ replies[ThisChan] = "yes"
        /\ at' = "choose" /\ Sends(AuthComplete(app))
        /\ UNCHANGED <<ticks, steps, spins, replies, pull, outcome>>
     \/ cancelled /\ Leaves("done", app)
     \/ /\ replies[ThisChan] \in {"yes", "no", "cancelled"}
        /\ Leaves("failed", RunErr(app))
SelectsEmulator ==
  \/ session.select /\ Asks("choose", "asked-emulator")
  \/ /\ at = "choose" /\ ~session.select
     /\ at' = "body"
     /\ UNCHANGED <<app, ticks, steps, spins, replies, pull, outcome>> /\ Quiet
EmulatorSelected ==
  /\ at = "asked-emulator"
  /\ Quiet
  /\ \/ /\ replies[ThisChan] \in {"yes", "no"}
        /\ at' = "body"
        /\ UNCHANGED <<app, ticks, steps, spins, replies, pull, outcome>>
     \/ (replies[ThisChan] = "cancelled" \/ cancelled) /\ Leaves("done", app)
     \/ Leaves("done", RunErr(app))
-----------------------------------------------------------------------------
\* The body of a command: spinners, lines, questions, pulls.
StartsSpinner ==
  /\ at = "body" /\ steps > 0 /\ ~spins
  /\ spins' = TRUE /\ steps' = steps - 1
  /\ Sends(SpinnerStart(app))
  /\ UNCHANGED <<ticks, at, replies, pull, outcome>> /\ Quiet
StopsSpinner ==
  /\ spins' = FALSE
  /\ \/ Sends(SpinnerStopNow(app)) /\ UNCHANGED ticks
     \/ Sends(SpinnerStopLater(app)) /\ ticks' = IF LoopRuns THEN ticks + 1 ELSE ticks
EndsSpinner ==
  /\ at = "body" /\ spins
  /\ StopsSpinner
  /\ UNCHANGED <<at, steps, replies, pull, outcome>> /\ Quiet
EmitsLine ==
  /\ at = "body" /\ steps > 0
  /\ steps' = steps - 1
  /\ Sends(AddLine(app))
  /\ UNCHANGED <<ticks, at, spins, replies, pull, outcome>> /\ Quiet
AsksInBody == Asks("body", "asked")
\* The startup monitor stops waiting for an answer, and dismisses its
\* question, when the container has decided the matter.
Answered ==
  /\ at = "asked"
  /\ \/ (replies[ThisChan] # "none" \/ cancelled) /\ UNCHANGED app
     \/ spins /\ session.start /\ Sends(UserInputDismiss(app, ThisChan))
  /\ at' = "body"
  /\ UNCHANGED <<ticks, steps, spins, replies, pull, outcome>> /\ Quiet

\* pullImage. The progress goroutine offers ESC once layers are downloaded
\* and a local image exists; the main one takes the result or the signal.
StartsPull ==
  /\ at = "body" /\ steps > 0 /\ ~spins /\ session.start
  /\ at' = "pulling" /\ steps' = steps - 1 /\ spins' = TRUE
  /\ pull' = [chan |-> steps, result |-> "none", hint |-> "none"]
  /\ Sends(SpinnerStart(app))
  /\ UNCHANGED <<ticks, replies, outcome>> /\ Quiet
LayerDownloads ==
  /\ at \in {"pulling", "pulled"} /\ pull.result = "none" /\ session.local /\ pull.hint = "none"
  /\ pull' = [pull EXCEPT !.hint = "due"]
  /\ UNCHANGED <<app, ticks, at, steps, spins, replies, outcome>> /\ Quiet
HintShown ==
  /\ pull.hint = "due"
  /\ pull' = [pull EXCEPT !.hint = "shown"]
  /\ Sends(PullSkippable(app, pull.chan))
  /\ UNCHANGED <<ticks, at, steps, spins, replies, outcome>> /\ Quiet
PullEnds ==
  /\ at \in {"pulling", "skipping"} /\ pull.result = "none"
  /\ \E r \in {"ok", "failed"} \cup (IF cancelled \/ at = "skipping" THEN {"cancelled"} ELSE {}) :
       pull' = [pull EXCEPT !.result = r]
  /\ UNCHANGED <<app, ticks, at, steps, spins, replies, outcome>> /\ Quiet
TakesResult ==
  /\ at = "pulling" /\ pull.result # "none"
  /\ at' = "pulled"
  /\ UNCHANGED <<app, ticks, steps, spins, replies, pull, outcome>> /\ Quiet
TakesSkip ==
  /\ at = "pulling" /\ pull.chan \in skips
  /\ at' = "skipping"
  /\ UNCHANGED <<app, ticks, steps, spins, replies, pull, outcome>> /\ Quiet
\* The pull is over when its result is there and its progress is drained.
PullOver == at \in {"pulled", "skipping"} /\ pull.result # "none" /\ pull.hint # "due"
FinishesPull ==
  /\ PullOver
  /\ StopsSpinner
  /\ at' = CASE at = "skipping" -> "body"
             [] at = "pulled" /\ pull.result = "cancelled" -> "stopped"
             [] at = "pulled" /\ pull.result = "failed" /\ ~session.local -> "erring"
             [] OTHER -> "body"
  /\ UNCHANGED <<steps, replies, pull, outcome>> /\ Quiet
-----------------------------------------------------------------------------
\* The ends of a command: done (a start has its label resolved meanwhile),
\* failed, cancelled. What the start does not report, Run takes for done.
Completes ==
  /\ at = "body" /\ ~spins
  /\ UNCHANGED <<session, skips, cancelled, ended, tmVars>>
  /\ label' = IF session.start THEN "resolving" ELSE label
  /\ Leaves("done", RunDone(app))
Fails ==
  /\ at \in {"body", "erring"}
  /\ Quiet
  /\ Leaves("failed", RunErr(ErrorEvent(app)))
Stops ==
  /\ at \in {"body", "stopped"} /\ cancelled
  /\ Quiet
  /\ Leaves("cancelled", IF session.start THEN app ELSE RunDone(app))
LabelResolved ==
  /\ label = "resolving" /\ label' = "resolved"
  /\ UNCHANGED <<session, app, ticks, at, steps, spins, replies, skips, pull, cancelled, outcome, ended, tmVars>>
LabelDelivered ==
  /\ label \in {"resolving", "resolved"}
  /\ \/ label = "resolved" /\ Sends(HeaderLabel(app))
     \/ cancelled /\ UNCHANGED app
  /\ label' = "delivered"
  /\ UNCHANGED <<session, ticks, at, steps, spins, replies, skips, pull, cancelled, outcome, ended, tmVars>>
-----------------------------------------------------------------------------
\* The loop, and its caller.
TickElapses ==
  /\ ticks > 0 /\ LoopRuns
  /\ ticks' = ticks - 1
  /\ app' = MinDurationElapsed(app)
  /\ UNCHANGED <<session, at, steps, spins, replies, skips, pull, label, cancelled, outcome, ended, tmVars>>
LoopQuits ==
  /\ app.quit /\ LoopRuns
  /\ ended' = [ended EXCEPT !.loop = "quit"]
  /\ UNCHANGED <<session, app, ticks, at, steps, spins, replies, skips, pull, label, cancelled, outcome, tmVars>>
\* An error of the UI is returned at once; else the goroutine's is waited for.
CallerReturns ==
  /\ ~LoopRuns /\ ~ended.caller
  /\ app.err \/ ended.loop = "interrupted" \/ outcome # "none"
  /\ ended' = [ended EXCEPT !.caller = TRUE]
  /\ cancelled' = TRUE
  /\ UNCHANGED <<session, app, ticks, at, steps, spins, replies, skips, pull, label, outcome, tmVars>>

\* The user.
Answers ==
  /\ LoopRuns /\ app.pendingInput # NoChan
  /\ \E a \in {"yes", "no"} : replies' = [replies EXCEPT ![app.pendingInput] = a]
  /\ app' = AnswerKey(app)
  /\ UNCHANGED <<session, ticks, at, steps, spins, skips, pull, label, cancelled, outcome, ended, tmVars>>
SkipsPull ==
  /\ LoopRuns /\ app.pullSkip # NoChan
  /\ skips' = skips \cup {app.pullSkip}
  /\ app' = EscKey(app)
  /\ UNCHANGED <<session, ticks, at, steps, spins, replies, pull, label, cancelled, outcome, ended, tmVars>>
Interrupts ==
  /\ LoopRuns /\ ~app.err
  /\ replies' = IF app.pendingInput = NoChan THEN replies ELSE [replies EXCEPT ![app.pendingInput] = "cancelled"]
  /\ app' = InterruptKey(app)
  /\ cancelled' = TRUE
  /\ UNCHANGED <<session, ticks, at, steps, spins, skips, pull, label, outcome, ended, tmVars>>
\* A signal cancels the context and ends the loop, each in its own time.
SignalCancels ==
  /\ LoopRuns /\ ~cancelled /\ cancelled' = TRUE
  /\ ended' = [ended EXCEPT !.signal = TRUE]
  /\ UNCHANGED <<session, app, ticks, at, steps, spins, replies, skips, pull, label, outcome, tmVars>>
SignalEndsLoop ==
  /\ LoopRuns /\ ended.signal
  /\ \E how \in {"interrupted", "terminated"} : ended' = [ended EXCEPT !.loop = how]
  /\ UNCHANGED <<session, app, ticks, at, steps, spins, replies, skips, pull, label, cancelled, outcome, tmVars>>

\* Telemetry: events of the start, which may still run when the caller has
\* returned; the command's own event, last, and then Close.
GoroutineReports == at = "body" /\ session.start /\ Emit /\ UNCHANGED uiVars
CommandReports == ended.caller /\ Emit /\ UNCHANGED uiVars
ClientCloses == ended.caller /\ Close /\ UNCHANGED uiVars
FlusherPosts == PostsEvent /\ UNCHANGED uiVars
-----------------------------------------------------------------------------
Goroutine ==
  \/ NotifiesUpdate \/ UpdateAnswered \/ ChecksHealth \/ LogsIn \/ LoginAnswered
  \/ SelectsEmulator \/ EmulatorSelected
  \/ StartsSpinner \/ EndsSpinner \/ EmitsLine \/ AsksInBody \/ Answered
  \/ StartsPull \/ TakesResult \/ TakesSkip \/ FinishesPull
  \/ Completes \/ Fails \/ Stops
PullGoroutines == LayerDownloads \/ HintShown \/ PullEnds
Labels == LabelResolved \/ LabelDelivered
Loop == TickElapses \/ LoopQuits
User == Answers \/ SkipsPull \/ Interrupts \/ SignalCancels \/ SignalEndsLoop
Reports == GoroutineReports \/ CommandReports \/ ClientCloses \/ FlusherPosts
TerminalNext == Goroutine \/ PullGoroutines \/ Labels \/ Loop \/ CallerReturns \/ User \/ Reports

\* Timers fire, messages arrive, goroutines run, pulls and label requests end
\* by themselves or by the context; users need not do anything.
TerminalFairness ==
  /\ WF_tuiVars(Goroutine) /\ WF_tuiVars(HintShown \/ PullEnds) /\ WF_tuiVars(Labels)
  /\ WF_tuiVars(TickElapses) /\ WF_tuiVars(LoopQuits) /\ WF_tuiVars(CallerReturns)
  /\ WF_tuiVars(SignalEndsLoop)
TerminalSpec == TerminalInit /\ [][TerminalNext]_tuiVars /\ TerminalFairness
-----------------------------------------------------------------------------
\* What the user sees and can press is what the command waits for: a question
\* it waits on that has not been answered is on screen, and ESC is bound to
\* a pull only while that pull is watched, never to one that is over. (DEVX-1045,
\* app.go, start.go pullImage)
KeysReachTheirReader ==
  /\ LoopRuns /\ Asking /\ replies[ThisChan] = "none" =>
       app.pendingInput = ThisChan /\ ShowsPrompt(app)
  /\ LoopRuns /\ app.pullSkip # NoChan =>
       app.pullSkip = pull.chan /\ at \in {"pulling", "pulled", "skipping"}

\* A command that runs to its end has its lines on screen when the UI ends,
\* however the ends of spinners fall. A start is left out: its label may come
\* while lines are kept back, and the UI then ends without them. (app.go,
\* runDoneMsg, headerLabelMsg)
LinesShown ==
  ended.loop = "quit" /\ outcome = "done" /\ ~app.err /\ ~session.start => app.buffered = 0

\* Once the command's goroutine is over, or the user or a signal has asked
\* for the end, the caller returns. (run.go)
TerminalReturns == outcome # "none" \/ cancelled ~> ended.caller
=============================================================================
