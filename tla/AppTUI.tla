------------------------------- MODULE AppTUI -------------------------------
(***************************************************************************)
(* The terminal UI as its event loop runs it: App is its state, and one    *)
(* operator for each message says what App.Update makes of it. A message   *)
(* is handled at once by whoever sends it: the program's channel is        *)
(* unbuffered, and only the loop touches the state.                        *)
(***************************************************************************)
EXTENDS Naturals

CONSTANT MaxLines   \* bound on the lines kept back

ASSUME AppConstants == MaxLines \in Nat \ {0}

NoChan == 0
\* What the line of the spinner says beside its own text.
Texts == {"", "work", "prompt", "hint"}

NewApp(loading) ==
  [visible      |-> FALSE,    \* the spinner is on screen
   pendingStop  |-> FALSE,    \* it is stopped, and stays until its minimum duration is over
   text         |-> "",
   prompt       |-> FALSE,    \* inputPrompt is shown
   pendingInput |-> NoChan,   \* the channel the answer goes to
   pullSkip     |-> NoChan,   \* the channel ESC goes to
   buffered     |-> 0,        \* the lines kept back while the stop is pending
   headerLoading |-> loading,
   quitting     |-> FALSE,
   err          |-> FALSE,
   quit         |-> FALSE]    \* tea.Quit is on its way

Quits(app) == [app EXCEPT !.quit = TRUE]
Flushed(app) == [app EXCEPT !.buffered = 0]
QuitsIfQuitting(app) == IF app.quitting THEN Quits(app) ELSE app
ForceStopped(app) == [app EXCEPT !.visible = FALSE, !.pendingStop = FALSE]
-----------------------------------------------------------------------------
\* Ctrl+C and q; the pending question, if any, is answered as cancelled.
InterruptKey(app) ==
  Quits([app EXCEPT !.pendingInput = NoChan, !.err = TRUE,
                    !.prompt = @ /\ app.pendingInput = NoChan])
EscKey(app) == [app EXCEPT !.pullSkip = NoChan, !.text = ""]
AnswerKey(app) == [app EXCEPT !.pendingInput = NoChan, !.prompt = FALSE, !.text = ""]

\* The prompt has a place of its own, and the spinner's text mirrors it.
\* Mutant: as it was before, in the spinner's text or in its own place.
UserInputRequestInSpinner(app, chan) ==
  [app EXCEPT !.pendingInput = chan, !.prompt = ~app.visible, !.text = IF app.visible THEN "prompt" ELSE @]
UserInputRequest(app, chan) ==
  [app EXCEPT !.pendingInput = chan, !.prompt = TRUE, !.text = IF app.visible THEN "prompt" ELSE @]
UserInputDismiss(app, chan) ==
  IF app.pendingInput # chan THEN app
  ELSE [app EXCEPT !.pendingInput = NoChan, !.prompt = FALSE, !.text = ""]

PullSkippable(app, chan) == [app EXCEPT !.pullSkip = chan, !.text = "hint"]

SpinnerStart(app) == [app EXCEPT !.visible = TRUE, !.pendingStop = FALSE, !.text = "work"]
\* The stop takes effect now, or when the minimum duration is over.
SpinnerStopNow(app) ==
  QuitsIfQuitting(Flushed([ForceStopped(app) EXCEPT !.pullSkip = NoChan]))
SpinnerStopLater(app) == [app EXCEPT !.pullSkip = NoChan, !.pendingStop = TRUE]
MinDurationElapsed(app) ==
  QuitsIfQuitting(Flushed(IF app.pendingStop THEN ForceStopped(app) ELSE app))

AddLine(app) ==
  IF app.pendingStop /\ app.buffered < MaxLines THEN [app EXCEPT !.buffered = @ + 1] ELSE app
ErrorEvent(app) == Flushed([ForceStopped(app) EXCEPT !.headerLoading = FALSE])
\* What the login has written is dropped, and the header shown.
AuthComplete(app) == Flushed(app)

\* Mutant: the label comes and the program does not end for it.
HeaderLabelOnly(app) == [app EXCEPT !.headerLoading = FALSE]
HeaderLabel(app) == QuitsIfQuitting([app EXCEPT !.headerLoading = FALSE])
\* Mutant: a pending stop does not hold the end back.
RunDoneAtOnce(app) ==
  IF app.headerLoading THEN [app EXCEPT !.quitting = TRUE] ELSE Quits(app)
RunDone(app) ==
  IF app.pendingStop \/ app.headerLoading THEN [app EXCEPT !.quitting = TRUE] ELSE Quits(app)
RunErr(app) == Quits([Flushed(ForceStopped(app)) EXCEPT !.err = TRUE])

\* View renders the spinner's line or the prompt.
ShowsPrompt(app) == IF app.visible THEN app.text = "prompt" ELSE app.prompt
=============================================================================
