--------------------------- MODULE TerminalProofs ---------------------------
(***************************************************************************)
(* The safety properties of Terminal and of Telemetry inside it, proved    *)
(* for any commands, limits and queue. What the user sees follows from     *)
(* channels that are used once and a spinner that hands ESC back when it   *)
(* stops; what the flusher gets, from the queue holding an unbroken run of *)
(* events up to the last one.                                              *)
(***************************************************************************)
EXTENDS Terminal, TLAPS

-----------------------------------------------------------------------------
\* Telemetry. The queue holds the last events emitted, in their order.
QueueInv ==
  /\ tmEmitted \in 0..MaxEvents
  /\ tmPending \in Seq(Nat) /\ Len(tmPending) <= PendingCap /\ Len(tmPending) <= tmEmitted
  /\ \A i \in 1..Len(tmPending) : tmPending[i] = tmEmitted - Len(tmPending) + i
\* What was handed over increases, is new, and was posted from its front.
FlushInv ==
  /\ tmPosted \in Seq(Nat) /\ tmBatch \in Seq(Nat) /\ tmClosed \in Nat
  /\ tmClosed = NotClosed => tmPosted = <<>> /\ tmBatch = <<>>
  /\ \A i, j \in 1..Len(tmPosted) : i < j => tmPosted[i] < tmPosted[j]
  /\ \A i, j \in 1..Len(tmBatch) : i < j => tmBatch[i] < tmBatch[j]
  /\ \A i \in 1..Len(tmPosted), j \in 1..Len(tmBatch) : tmPosted[i] < tmBatch[j]
  /\ \A i \in 1..Len(tmPosted) : tmEnabled /\ tmPosted[i] \in Newest(tmClosed)
  /\ \A i \in 1..Len(tmBatch) : tmEnabled /\ tmBatch[i] \in Newest(tmClosed)
EventsInv == QueueInv /\ FlushInv

\* Nothing is queued at the start.
LEMMA TelemetryInitInv == TelemetryInit => EventsInv
BY TelemetryConstants DEF TelemetryInit, EventsInv, QueueInv, FlushInv, NotClosed

\* A full queue drops its oldest: it still ends with the last event.
LEMMA EmitInv ==
  ASSUME EventsInv, Emit
  PROVE  EventsInv'
<1> DEFINE q == IF Len(tmPending) >= PendingCap THEN Tail(tmPending) ELSE tmPending
<1>1. /\ tmEmitted \in Nat /\ tmEmitted < MaxEvents /\ tmEmitted' = tmEmitted + 1
      /\ tmPending' = Append(q, tmEmitted + 1) /\ PendingCap \in Nat \ {0} /\ MaxEvents \in Nat
  BY TelemetryConstants DEF Emit, Enqueue, EventsInv, QueueInv
<1>2. /\ q \in Seq(Nat) /\ Len(q) < PendingCap /\ Len(q) <= tmEmitted
      /\ \A i \in 1..Len(q) : q[i] = tmEmitted - Len(q) + i
  <2>1. CASE Len(tmPending) >= PendingCap
    <3>1. tmPending # <<>> /\ q = Tail(tmPending)
      BY <1>1, <2>1 DEF EventsInv, QueueInv
    <3>2. Len(q) = Len(tmPending) - 1 /\ \A i \in 1..Len(q) : q[i] = tmPending[i + 1]
      BY <3>1 DEF EventsInv, QueueInv
    <3> HIDE DEF q
    <3>3. q \in Seq(Nat)
      BY <3>1 DEF EventsInv, QueueInv
    <3> QED BY <1>1, <2>1, <3>2, <3>3 DEF EventsInv, QueueInv
  <2>2. CASE ~(Len(tmPending) >= PendingCap)
    BY <1>1, <2>2 DEF EventsInv, QueueInv
  <2> QED BY <2>1, <2>2
<1> HIDE DEF q
<1>3. QueueInv'
  <2>1. Len(tmPending') = Len(q) + 1 /\ tmPending' \in Seq(Nat)
    BY <1>1, <1>2
  <2>2. ASSUME NEW i \in 1..Len(tmPending') PROVE tmPending'[i] = tmEmitted' - Len(tmPending') + i
    <3>1. CASE i = Len(q) + 1
      BY <1>1, <1>2, <2>1, <3>1
    <3>2. CASE i \in 1..Len(q)
      BY <1>1, <1>2, <2>1, <3>2
    <3> QED BY <1>2, <2>1, <2>2, <3>1, <3>2
  <2> QED BY <1>1, <1>2, <2>1, <2>2 DEF QueueInv
<1>4. FlushInv'
  BY DEF Emit, EventsInv, FlushInv, NotClosed, Newest
<1> QED BY <1>3, <1>4 DEF EventsInv

\* Close hands the queue over as it is, or loses it. (client.go, Close)
LEMMA CloseInv ==
  ASSUME EventsInv, Close
  PROVE  EventsInv'
<1>1. /\ tmEmitted \in 0..MaxEvents /\ tmClosed' = tmEmitted /\ tmEmitted' = tmEmitted /\ tmPending' = <<>>
      /\ tmPosted = <<>> /\ tmPosted' = <<>> /\ tmEnabled /\ tmEnabled'
      /\ PendingCap \in Nat \ {0} /\ MaxEvents \in Nat
  BY TelemetryConstants DEF Close, EventsInv, QueueInv, FlushInv
<1>2. QueueInv'
  BY <1>1 DEF QueueInv
<1>3. CASE tmBatch' = <<>>
  BY <1>1, <1>2, <1>3 DEF EventsInv, FlushInv, NotClosed
<1>4. CASE tmBatch' = tmPending
  <2>1. \A i \in 1..Len(tmBatch') : tmBatch'[i] \in Newest(tmEmitted)
    BY <1>1, <1>4 DEF EventsInv, QueueInv, Newest
  <2>2. \A i, j \in 1..Len(tmBatch') : i < j => tmBatch'[i] < tmBatch'[j]
    BY <1>1, <1>4 DEF EventsInv, QueueInv
  <2>3. tmBatch' \in Seq(Nat) /\ tmClosed' # NotClosed /\ tmClosed' \in Nat
    BY <1>1, <1>4 DEF EventsInv, QueueInv, NotClosed
  <2> QED BY <1>1, <1>2, <2>1, <2>2, <2>3 DEF EventsInv, FlushInv, Newest, NotClosed
<1> QED BY <1>3, <1>4 DEF Close

\* Posting, or failing to, drops events and never reorders them.
LEMMA PostsInv ==
  ASSUME EventsInv, PostsEvent
  PROVE  EventsInv'
<1>1. /\ tmBatch \in Seq(Nat) /\ tmBatch # <<>> /\ tmPosted \in Seq(Nat)
      /\ UNCHANGED <<tmEnabled, tmEmitted, tmPending, tmClosed>>
  BY DEF PostsEvent, EventsInv, FlushInv
<1>2. QueueInv'
  BY <1>1 DEF EventsInv, QueueInv
<1>3. tmClosed # NotClosed /\ tmClosed' # NotClosed'
  BY <1>1 DEF EventsInv, FlushInv, NotClosed
<1>4. /\ tmBatch' \in Seq(Nat)
      /\ Len(tmBatch') < Len(tmBatch) /\ \A i \in 1..Len(tmBatch') : tmBatch'[i] = tmBatch[i + 1]
  <2>1. CASE tmBatch' = Tail(tmBatch)
    BY <1>1, <2>1
  <2>2. CASE tmBatch' = <<>>
    BY <1>1, <2>2
  <2> QED BY <2>1, <2>2 DEF PostsEvent
<1>5. /\ tmPosted' \in Seq(Nat)
      /\ \A i \in 1..Len(tmPosted') :
           \/ i \in 1..Len(tmPosted) /\ tmPosted'[i] = tmPosted[i]
           \/ i = Len(tmPosted) + 1 /\ tmPosted'[i] = tmBatch[1]
  <2>1. CASE tmPosted' = tmPosted
    BY <1>1, <2>1
  <2>2. CASE tmPosted' = Append(tmPosted, Head(tmBatch))
    <3>1. tmBatch[1] \in Nat /\ Head(tmBatch) = tmBatch[1]
      BY <1>1
    <3> QED BY <1>1, <2>2, <3>1
  <2> QED BY <2>1, <2>2 DEF PostsEvent
<1>6. 1 \in 1..Len(tmBatch) /\ \A i \in 1..Len(tmBatch') : i + 1 \in 1..Len(tmBatch) /\ i + 1 > 1
  BY <1>1, <1>4
<1>7. FlushInv'
  <2>1. \A i, j \in 1..Len(tmPosted') : i < j => tmPosted'[i] < tmPosted'[j]
    <3> SUFFICES ASSUME NEW i \in 1..Len(tmPosted'), NEW j \in 1..Len(tmPosted'), i < j
                 PROVE  tmPosted'[i] < tmPosted'[j]
      OBVIOUS
    <3>1. Len(tmPosted) \in Nat /\ i \in Nat /\ j \in Nat
      BY <1>1, <1>5
    <3>2. i \in 1..Len(tmPosted) /\ tmPosted'[i] = tmPosted[i]
      <4>1. i # Len(tmPosted) + 1
        BY <1>5, <3>1
      <4> QED BY <1>5, <4>1
    <3>3. CASE j \in 1..Len(tmPosted) /\ tmPosted'[j] = tmPosted[j]
      BY <3>2, <3>3 DEF EventsInv, FlushInv
    <3>4. CASE tmPosted'[j] = tmBatch[1]
      BY <1>6, <3>2, <3>4 DEF EventsInv, FlushInv
    <3> QED BY <1>5, <3>3, <3>4
  <2>2. \A i, j \in 1..Len(tmBatch') : i < j => tmBatch'[i] < tmBatch'[j]
    BY <1>1, <1>4, <1>6 DEF EventsInv, FlushInv
  <2>3. \A i \in 1..Len(tmPosted'), j \in 1..Len(tmBatch') : tmPosted'[i] < tmBatch'[j]
    BY <1>1, <1>4, <1>5, <1>6 DEF EventsInv, FlushInv
  <2>4. /\ \A i \in 1..Len(tmPosted') : tmEnabled /\ tmPosted'[i] \in Newest(tmClosed)
        /\ \A i \in 1..Len(tmBatch') : tmEnabled /\ tmBatch'[i] \in Newest(tmClosed)
    BY <1>1, <1>4, <1>5, <1>6 DEF EventsInv, FlushInv
  <2>5. tmClosed' \in Nat
    BY <1>1 DEF EventsInv, FlushInv
  <2> QED BY <1>1, <1>3, <1>4, <1>5, <2>1, <2>2, <2>3, <2>4, <2>5 DEF FlushInv, Newest
<1> QED BY <1>2, <1>7 DEF EventsInv

\* The property speaks of what was posted and what still is to be, in a row.
LEMMA EventsInvImplies == EventsInv => NewestEventsSent
<1> SUFFICES ASSUME EventsInv PROVE NewestEventsSent
  OBVIOUS
<1> DEFINE sent == tmPosted \o tmBatch
<1>1. tmPosted \in Seq(Nat) /\ tmBatch \in Seq(Nat)
  BY DEF EventsInv, FlushInv
<1>2. /\ Len(sent) = Len(tmPosted) + Len(tmBatch) /\ DOMAIN sent = 1..Len(sent)
      /\ \A i \in 1..Len(sent) :
           sent[i] = IF i <= Len(tmPosted) THEN tmPosted[i] ELSE tmBatch[i - Len(tmPosted)]
  BY <1>1
<1> HIDE DEF sent
<1>3. \A i \in 1..Len(sent) : i > Len(tmPosted) => i - Len(tmPosted) \in 1..Len(tmBatch)
  BY <1>1, <1>2
<1>4. \A i \in 1..Len(sent) : i <= Len(tmPosted) => i \in 1..Len(tmPosted)
  BY <1>1, <1>2
<1>5. ASSUME NEW i \in 1..Len(sent), NEW j \in 1..Len(sent), i < j PROVE sent[i] < sent[j]
  <2>0. Len(tmPosted) \in Nat /\ i \in Nat /\ j \in Nat
    BY <1>1, <1>2
  <2>1. CASE j <= Len(tmPosted)
    <3>1. i <= Len(tmPosted)
      BY <1>5, <2>0, <2>1
    <3>2. /\ i \in 1..Len(tmPosted) /\ sent[i] = tmPosted[i]
          /\ j \in 1..Len(tmPosted) /\ sent[j] = tmPosted[j]
      BY <1>2, <1>4, <2>1, <3>1
    <3> QED BY <1>5, <3>2 DEF EventsInv, FlushInv
  <2>2. CASE i <= Len(tmPosted) /\ ~(j <= Len(tmPosted))
    <3>1. /\ i \in 1..Len(tmPosted) /\ sent[i] = tmPosted[i]
          /\ j - Len(tmPosted) \in 1..Len(tmBatch) /\ sent[j] = tmBatch[j - Len(tmPosted)]
      BY <1>2, <1>3, <1>4, <2>0, <2>2
    <3> QED BY <3>1 DEF EventsInv, FlushInv
  <2>3. CASE ~(i <= Len(tmPosted))
    <3>1. ~(j <= Len(tmPosted))
      BY <1>5, <2>0, <2>3
    <3>2. /\ i - Len(tmPosted) \in 1..Len(tmBatch) /\ sent[i] = tmBatch[i - Len(tmPosted)]
          /\ j - Len(tmPosted) \in 1..Len(tmBatch) /\ sent[j] = tmBatch[j - Len(tmPosted)]
      BY <1>2, <1>3, <2>0, <2>3, <3>1
    <3>3. i - Len(tmPosted) < j - Len(tmPosted)
      BY <1>5, <2>0
    <3> QED BY <3>2, <3>3 DEF EventsInv, FlushInv
  <2> QED BY <2>1, <2>2, <2>3
<1>6. ASSUME NEW i \in 1..Len(sent) PROVE tmEnabled /\ sent[i] \in Newest(tmClosed)
  <2>1. CASE i <= Len(tmPosted)
    <3>1. i \in 1..Len(tmPosted) /\ sent[i] = tmPosted[i]
      BY <1>2, <1>4, <2>1
    <3> QED BY <3>1 DEF EventsInv, FlushInv
  <2>2. CASE ~(i <= Len(tmPosted))
    <3>1. i - Len(tmPosted) \in 1..Len(tmBatch) /\ sent[i] = tmBatch[i - Len(tmPosted)]
      BY <1>1, <1>2, <1>3, <2>2
    <3> QED BY <3>1 DEF EventsInv, FlushInv
  <2> QED BY <2>1, <2>2
<1> QED BY <1>2, <1>5, <1>6 DEF NewestEventsSent, sent

-----------------------------------------------------------------------------
\* The terminal.
Pulling == {"pulling", "pulled", "skipping"}
Places ==
  {"notify", "health", "login", "choose", "body", "erring", "stopped", "over"} \cup Questions \cup Pulling
Apps ==
  [visible : BOOLEAN, pendingStop : BOOLEAN, text : Texts, prompt : BOOLEAN, pendingInput : 0..MaxEmits,
   pullSkip : 0..MaxEmits, buffered : 0..MaxLines, headerLoading : BOOLEAN, quitting : BOOLEAN,
   err : BOOLEAN, quit : BOOLEAN]

Types ==
  /\ session \in Sessions /\ session.start \in BOOLEAN
  /\ app \in Apps /\ at \in Places /\ steps \in 0..MaxEmits /\ spins \in BOOLEAN
  /\ replies \in [Chans -> {"none", "yes", "no", "cancelled"}]
  /\ pull \in [chan : 0..MaxEmits, result : {"none", "ok", "failed", "cancelled"}, hint : {"none", "due", "shown"}]
  /\ label \in {"unresolved", "resolving", "resolved", "delivered"}
  /\ outcome \in {"none", "done", "failed", "cancelled"}
  /\ ended \in [loop : {"running", "quit", "interrupted", "terminated"}, signal : BOOLEAN, caller : BOOLEAN]
\* A channel is used for one question: those to come hold nothing, and no key
\* is bound to them.
FreshInv ==
  /\ \A c \in Chans : c <= steps => replies[c] = "none"
  /\ app.pendingInput = NoChan \/ app.pendingInput > steps
\* The question that is waited on has the keys and the screen.
QuestionInv ==
  /\ Asking => steps < MaxEmits
  /\ LoopRuns /\ Asking /\ replies[ThisChan] = "none" =>
       app.pendingInput = ThisChan /\ app.prompt /\ (app.visible => app.text = "prompt")
\* ESC is the running pull's, and its hint comes before the pull is over.
PullInv ==
  /\ LoopRuns /\ app.pullSkip # NoChan => app.pullSkip = pull.chan /\ at \in Pulling
  /\ pull.hint = "due" => at \in Pulling
\* Lines are kept back for a spinner that is going or ends soon; a command
\* that is no start quits on its own only when it is over, without any.
LinesInv ==
  /\ LoopRuns /\ ~spins /\ app.buffered > 0 => app.pendingStop
  /\ ended.loop = "quit" => app.quit
  /\ outcome # "none" => at = "over"
  /\ ~session.start =>
       /\ at \in {"body", "asked", "over"} /\ label = "unresolved"
       /\ app.quitting \/ (app.quit /\ ~app.err) => at = "over"
       /\ app.quit /\ ~app.err /\ outcome = "done" => app.buffered = 0
UIInv == Types /\ FreshInv /\ QuestionInv /\ PullInv /\ LinesInv

\* No message takes the UI's state out of its type. (app.go)
LEMMA AppTypes ==
  ASSUME NEW a \in Apps, NEW c \in 0..MaxEmits
  PROVE  /\ InterruptKey(a) \in Apps /\ EscKey(a) \in Apps /\ AnswerKey(a) \in Apps
         /\ UserInputRequest(a, c) \in Apps /\ UserInputDismiss(a, c) \in Apps
         /\ PullSkippable(a, c) \in Apps /\ SpinnerStart(a) \in Apps /\ SpinnerStopNow(a) \in Apps
         /\ SpinnerStopLater(a) \in Apps /\ MinDurationElapsed(a) \in Apps /\ AddLine(a) \in Apps
         /\ ErrorEvent(a) \in Apps /\ AuthComplete(a) \in Apps /\ HeaderLabel(a) \in Apps
         /\ RunDone(a) \in Apps /\ RunErr(a) \in Apps
<1>a. \A n \in 0..MaxLines : n < MaxLines => n + 1 \in 0..MaxLines
  BY AppConstants
<1>0. /\ 0 \in 0..MaxEmits /\ 0 \in 0..MaxLines
      /\ "" \in Texts /\ "work" \in Texts /\ "prompt" \in Texts /\ "hint" \in Texts
  BY AppConstants, TerminalConstants DEF Texts
<1> USE <1>0 DEF NoChan
<1>1. EscKey(a) \in Apps /\ AnswerKey(a) \in Apps /\ InterruptKey(a) \in Apps
  BY Zenon DEF EscKey, AnswerKey, InterruptKey, Quits, Apps
<1>2. UserInputRequest(a, c) \in Apps /\ UserInputDismiss(a, c) \in Apps
  BY Zenon DEF UserInputRequest, UserInputDismiss, Apps
<1>3. PullSkippable(a, c) \in Apps /\ SpinnerStart(a) \in Apps /\ SpinnerStopLater(a) \in Apps
  BY Zenon DEF PullSkippable, SpinnerStart, SpinnerStopLater, Apps
<1>4. SpinnerStopNow(a) \in Apps /\ MinDurationElapsed(a) \in Apps
  BY Zenon DEF SpinnerStopNow, MinDurationElapsed, QuitsIfQuitting, Quits, Flushed, ForceStopped, Apps
<1>5. AddLine(a) \in Apps
  <2>1. a.buffered < MaxLines => a.buffered + 1 \in 0..MaxLines
    <3>1. a.buffered \in 0..MaxLines
      BY Zenon DEF Apps
    <3> QED BY <3>1, <1>a, Zenon
  <2> QED BY <2>1, Zenon DEF AddLine, Apps
<1>6. ErrorEvent(a) \in Apps /\ AuthComplete(a) \in Apps
  BY Zenon DEF ErrorEvent, AuthComplete, Flushed, ForceStopped, Apps
<1>7. HeaderLabel(a) \in Apps /\ RunDone(a) \in Apps
  BY Zenon DEF HeaderLabel, RunDone, QuitsIfQuitting, Quits, Apps
<1>8. RunErr(a) \in Apps
  BY Zenon DEF RunErr, Quits, Flushed, ForceStopped, Apps
<1> QED BY <1>1, <1>2, <1>3, <1>4, <1>5, <1>6, <1>7, <1>8

\* What a message leaves of the keys, of the lines and the end, and of both.
SameKeys(a, b) == b.pendingInput = a.pendingInput /\ b.pullSkip = a.pullSkip
SameEnd(a, b) == b.quitting = a.quitting /\ b.err = a.err /\ b.quit = a.quit
SameLines(a, b) == b.buffered = a.buffered /\ b.pendingStop = a.pendingStop /\ SameEnd(a, b)

\* The messages that bind and free keys. (app.go)
LEMMA KeyEffects ==
  ASSUME NEW a \in Apps, NEW c \in 0..MaxEmits
  PROVE  /\ /\ EscKey(a).pendingInput = a.pendingInput /\ EscKey(a).pullSkip = NoChan
            /\ SameLines(a, EscKey(a))
         /\ /\ AnswerKey(a).pendingInput = NoChan /\ AnswerKey(a).pullSkip = a.pullSkip
            /\ SameLines(a, AnswerKey(a))
         /\ /\ InterruptKey(a).pendingInput = NoChan /\ InterruptKey(a).pullSkip = a.pullSkip
            /\ InterruptKey(a).err /\ InterruptKey(a).buffered = a.buffered
            /\ InterruptKey(a).pendingStop = a.pendingStop /\ InterruptKey(a).quitting = a.quitting
         /\ /\ UserInputRequest(a, c).pendingInput = c /\ UserInputRequest(a, c).pullSkip = a.pullSkip
            /\ UserInputRequest(a, c).prompt
            /\ UserInputRequest(a, c).visible => UserInputRequest(a, c).text = "prompt"
            /\ SameLines(a, UserInputRequest(a, c))
         /\ /\ UserInputDismiss(a, c).pendingInput \in {a.pendingInput, NoChan}
            /\ UserInputDismiss(a, c).pullSkip = a.pullSkip /\ SameLines(a, UserInputDismiss(a, c))
         /\ /\ PullSkippable(a, c).pendingInput = a.pendingInput /\ PullSkippable(a, c).pullSkip = c
            /\ SameLines(a, PullSkippable(a, c))
BY Zenon DEF EscKey, AnswerKey, InterruptKey, UserInputRequest, UserInputDismiss, PullSkippable, Quits,
             NoChan, Apps, SameLines, SameEnd

\* Spinner messages end by handing ESC back and by showing the lines kept back.
LEMMA SpinnerEffects ==
  ASSUME NEW a \in Apps
  PROVE  /\ /\ SameKeys(a, SpinnerStart(a)) /\ SpinnerStart(a).buffered = a.buffered
            /\ SameEnd(a, SpinnerStart(a))
         /\ /\ SpinnerStopLater(a).pendingInput = a.pendingInput /\ SpinnerStopLater(a).pullSkip = NoChan
            /\ SpinnerStopLater(a).buffered = a.buffered /\ SpinnerStopLater(a).pendingStop
            /\ SameEnd(a, SpinnerStopLater(a))
         /\ /\ SpinnerStopNow(a).pendingInput = a.pendingInput /\ SpinnerStopNow(a).pullSkip = NoChan
            /\ SpinnerStopNow(a).buffered = 0 /\ SpinnerStopNow(a).quitting = a.quitting
            /\ SpinnerStopNow(a).err = a.err /\ (SpinnerStopNow(a).quit => a.quit \/ a.quitting)
         /\ /\ SameKeys(a, MinDurationElapsed(a)) /\ MinDurationElapsed(a).prompt = a.prompt
            /\ (MinDurationElapsed(a).visible => a.visible) /\ MinDurationElapsed(a).text = a.text
            /\ MinDurationElapsed(a).buffered = 0 /\ MinDurationElapsed(a).quitting = a.quitting
            /\ MinDurationElapsed(a).err = a.err
            /\ (MinDurationElapsed(a).quit => a.quit \/ a.quitting)
         /\ /\ SameKeys(a, AddLine(a)) /\ AddLine(a).pendingStop = a.pendingStop
            /\ (AddLine(a).buffered = a.buffered \/ a.pendingStop) /\ SameEnd(a, AddLine(a))
BY Zenon DEF SpinnerStart, SpinnerStopLater, SpinnerStopNow, MinDurationElapsed, AddLine, QuitsIfQuitting,
             Quits, Flushed, ForceStopped, NoChan, Apps, SameKeys, SameEnd

\* The last messages leave the keys alone.
LEMMA EndEffects ==
  ASSUME NEW a \in Apps
  PROVE  /\ SameKeys(a, AuthComplete(a)) /\ AuthComplete(a).buffered = 0 /\ SameEnd(a, AuthComplete(a))
         /\ /\ SameKeys(a, HeaderLabel(a)) /\ HeaderLabel(a).buffered = a.buffered
            /\ HeaderLabel(a).pendingStop = a.pendingStop /\ HeaderLabel(a).prompt = a.prompt
            /\ HeaderLabel(a).visible = a.visible /\ HeaderLabel(a).text = a.text
            /\ HeaderLabel(a).err = a.err
         /\ /\ SameKeys(a, RunDone(a)) /\ RunDone(a).buffered = a.buffered
            /\ RunDone(a).pendingStop = a.pendingStop /\ RunDone(a).err = a.err
            /\ (RunDone(a).quit => a.quit \/ ~a.pendingStop)
         /\ /\ SameKeys(a, RunErr(a)) /\ RunErr(a).buffered = 0 /\ RunErr(a).err
         /\ /\ SameKeys(a, ErrorEvent(a)) /\ ErrorEvent(a).buffered = 0 /\ SameEnd(a, ErrorEvent(a))
BY Zenon DEF AuthComplete, HeaderLabel, RunDone, RunErr, ErrorEvent, QuitsIfQuitting, Quits, Flushed,
             ForceStopped, NoChan, Apps, SameKeys, SameEnd

-----------------------------------------------------------------------------
\* The goroutine goes on without a word.
LEMMA MovesInv ==
  ASSUME UIInv, UNCHANGED <<session, app, steps, spins, replies, pull, label, outcome, ended>>,
         at' \in Places, at' \notin Questions, at # "over",
         at \in Pulling => at' \in Pulling, ~session.start => at' = "body"
  PROVE  UIInv'
<1>1. Types'
  BY DEF UIInv, Types
<1>2. FreshInv' /\ QuestionInv' /\ PullInv' /\ LinesInv'
  BY DEF UIInv, FreshInv, QuestionInv, PullInv, LinesInv, Asking, LoopRuns
<1> QED BY <1>1, <1>2 DEF UIInv

\* The goroutine asks, on a channel not used before.
LEMMA AsksInv ==
  ASSUME UIInv, NEW from \in Places \ (Pulling \cup {"over"}), NEW to \in Questions, Asks(from, to),
         ~session.start => to = "asked"
  PROVE  UIInv'
<1>0. /\ at = from /\ at' = to /\ steps > 0 /\ steps' = steps - 1 /\ Sends(UserInputRequest(app, steps))
      /\ UNCHANGED <<session, spins, replies, pull, outcome, label, ended>>
  BY DEF Asks, Quiet
<1>1. /\ steps \in 1..MaxEmits /\ steps \in 0..MaxEmits /\ steps' \in 0..MaxEmits /\ steps' < MaxEmits
      /\ steps' + 1 = steps /\ steps \in Chans /\ app \in Apps /\ MaxEmits \in Nat
  BY <1>0, TerminalConstants DEF UIInv, Types, Chans
<1>2. Types'
  BY <1>0, <1>1, AppTypes DEF UIInv, Types, Sends, Places
<1>3. app' = app \/ app' = UserInputRequest(app, steps)
  BY <1>0 DEF Sends
<1>4. FreshInv'
  <2>1. \A c \in Chans : c <= steps' => replies'[c] = "none"
    BY <1>0, <1>1 DEF UIInv, FreshInv, Chans
  <2>2. app'.pendingInput = app.pendingInput \/ app'.pendingInput = steps
    BY <1>1, <1>3, KeyEffects
  <2>3. app.pendingInput \in 0..MaxEmits
    BY <1>1, Zenon DEF Apps
  <2>4. app.pendingInput = NoChan \/ app.pendingInput > steps
    BY DEF UIInv, FreshInv
  <2>5. app'.pendingInput = NoChan \/ app'.pendingInput > steps'
    <3>1. steps \in Nat /\ steps' \in Nat /\ steps > steps' /\ MaxEmits \in Nat
      BY <1>0, <1>1
    <3>2. ASSUME NEW c \in 0..MaxEmits, c > steps PROVE c > steps'
      BY <3>2, <3>1
    <3> QED BY <2>2, <2>3, <2>4, <3>1, <3>2, Zenon
  <2> QED BY <2>1, <2>5, Zenon DEF FreshInv, NoChan
<1>5. QuestionInv'
  BY <1>0, <1>1, KeyEffects DEF QuestionInv, Asking, LoopRuns, Sends, ThisChan
<1>6. PullInv'
  BY <1>0, <1>1, <1>3, KeyEffects DEF UIInv, PullInv, LoopRuns
<1>7. LinesInv'
  BY <1>0, <1>1, <1>3, KeyEffects DEF UIInv, LinesInv, LoopRuns, SameLines, SameEnd
<1> QED BY <1>2, <1>4, <1>5, <1>6, <1>7 DEF UIInv

\* The goroutine ends, with a last message that keeps the keys.
LEMMA LeavesInv ==
  ASSUME UIInv, NEW result \in {"done", "failed", "cancelled"}, NEW new \in Apps, Leaves(result, new),
         UNCHANGED <<session, ended>>, label' = label \/ (session.start /\ label' = "resolving"),
         at \notin Pulling \cup {"over"}, SameKeys(app, new),
         LoopRuns /\ ~spins /\ new.buffered > 0 => new.pendingStop,
         LoopRuns /\ ~session.start /\ result = "done" /\ new.quit /\ ~new.err => new.buffered = 0
  PROVE  UIInv'
<1>0. /\ at' = "over" /\ outcome' = result /\ UNCHANGED <<steps, spins, replies, pull>>
      /\ app' = IF LoopRuns THEN new ELSE app
  BY DEF Leaves, Sends
<1>1. Types'
  BY <1>0 DEF UIInv, Types, Places
<1>2. FreshInv' /\ QuestionInv' /\ PullInv'
  BY <1>0 DEF UIInv, FreshInv, QuestionInv, PullInv, Asking, Questions, LoopRuns, SameKeys
<1>3. LinesInv'
  BY <1>0 DEF UIInv, LinesInv, LoopRuns
<1> QED BY <1>1, <1>2, <1>3 DEF UIInv

\* The ends: an error, or a command that ends as it was.
LEMMA ErrsInv ==
  ASSUME UIInv, Leaves("failed", RunErr(app)) \/ Leaves("done", RunErr(app)), UNCHANGED <<session, label, ended>>,
         at \notin Pulling \cup {"over"}
  PROVE  UIInv'
<1>1. app \in Apps /\ RunErr(app) \in Apps
  BY AppTypes, TerminalConstants DEF UIInv, Types
<1>2. SameKeys(app, RunErr(app)) /\ RunErr(app).buffered = 0
  BY <1>1, EndEffects
<1> QED BY <1>1, <1>2, LeavesInv

\* An error that is shown.
LEMMA ReportsErrInv ==
  ASSUME UIInv, Leaves("failed", RunErr(ErrorEvent(app))) \/ Leaves("done", RunErr(ErrorEvent(app))),
         UNCHANGED <<session, label, ended>>, at \notin Pulling \cup {"over"}
  PROVE  UIInv'
<1>1. app \in Apps /\ ErrorEvent(app) \in Apps /\ RunErr(ErrorEvent(app)) \in Apps
  BY AppTypes, TerminalConstants DEF UIInv, Types
<1>2. SameKeys(app, RunErr(ErrorEvent(app))) /\ RunErr(ErrorEvent(app)).buffered = 0
  BY <1>1, EndEffects DEF SameKeys
<1> QED BY <1>1, <1>2, LeavesInv

\* A start that ends without a message.
LEMMA StaysInv ==
  ASSUME UIInv, NEW result \in {"done", "cancelled"}, Leaves(result, app), UNCHANGED <<session, label, ended>>,
         at \notin Pulling \cup {"over"}, session.start
  PROVE  UIInv'
<1>1. app \in Apps /\ SameKeys(app, app) /\ (LoopRuns /\ ~spins /\ app.buffered > 0 => app.pendingStop)
  BY DEF UIInv, Types, SameKeys, LinesInv
<1> QED BY <1>1, LeavesInv

\* A message of the goroutine at its work, or of its pull, with no question up.
LEMMA WorksInv ==
  ASSUME UIInv, NEW new \in Apps, Sends(new), UNCHANGED <<session, replies, label, outcome, ended>>,
         at \in {"body"} \cup Pulling, at' \in {"body", "erring", "stopped"} \cup Pulling,
         steps' \in 0..MaxEmits, steps' <= steps, spins' \in BOOLEAN,
         pull' \in [chan : 0..MaxEmits, result : {"none", "ok", "failed", "cancelled"},
                    hint : {"none", "due", "shown"}],
         new.pendingInput = app.pendingInput,
         LoopRuns /\ new.pullSkip # NoChan => new.pullSkip = pull'.chan /\ at' \in Pulling,
         pull'.hint = "due" => at' \in Pulling,
         LoopRuns /\ ~spins' /\ new.buffered > 0 => new.pendingStop,
         ~session.start => at' = "body",
         new.quitting = app.quitting, new.err = app.err, new.quit => app.quit \/ app.quitting
  PROVE  UIInv'
<1>0. app' = (IF LoopRuns THEN new ELSE app) /\ steps \in 0..MaxEmits /\ MaxEmits \in Nat
      /\ app.pendingInput \in 0..MaxEmits
  <2>1. app \in Apps => app.pendingInput \in 0..MaxEmits
    BY Zenon DEF Apps
  <2> QED BY <2>1, TerminalConstants DEF Sends, UIInv, Types
<1>1. Types'
  BY <1>0 DEF UIInv, Types, Places
<1>2. FreshInv'
  <2>1. app'.pendingInput = app.pendingInput
    BY <1>0
  <2> QED BY <1>0, <2>1 DEF UIInv, FreshInv, Chans
<1>3. QuestionInv'
  BY DEF QuestionInv, Asking, Questions, Pulling
<1>4. PullInv'
  BY <1>0 DEF UIInv, PullInv, LoopRuns
<1>5. LinesInv'
  BY <1>0 DEF UIInv, LinesInv, LoopRuns, Pulling
<1> QED BY <1>1, <1>2, <1>3, <1>4, <1>5 DEF UIInv

\* The goroutine at its work, and at a pull.
LEMMA WorkingInv ==
  ASSUME UIInv, StartsSpinner \/ EndsSpinner \/ EmitsLine
  PROVE  UIInv'
<1>0. /\ app \in Apps /\ steps \in 0..MaxEmits /\ MaxEmits \in Nat /\ spins \in BOOLEAN
      /\ pull \in [chan : 0..MaxEmits, result : {"none", "ok", "failed", "cancelled"}, hint : {"none", "due", "shown"}]
      /\ LoopRuns => app.pullSkip = NoChan \/ at \in Pulling
      /\ pull.hint = "due" => at \in Pulling
      /\ LoopRuns /\ ~spins /\ app.buffered > 0 => app.pendingStop
  BY TerminalConstants DEF UIInv, Types, PullInv, LinesInv
<1>1. /\ SpinnerStart(app) \in Apps /\ SpinnerStopNow(app) \in Apps /\ SpinnerStopLater(app) \in Apps
      /\ AddLine(app) \in Apps
  BY <1>0, AppTypes
<1>2. "body" \notin Pulling
  BY DEF Pulling
<1>3. CASE StartsSpinner
  <2>1. /\ at = "body" /\ at' = "body" /\ steps' = steps - 1 /\ steps > 0 /\ spins' = TRUE /\ pull' = pull
        /\ Sends(SpinnerStart(app)) /\ UNCHANGED <<session, replies, label, outcome, ended>>
    BY <1>3 DEF StartsSpinner, Quiet
  <2>2. steps' \in 0..MaxEmits /\ steps' <= steps
    BY <1>0, <2>1
  <2> QED BY <1>0, <1>1, <1>2, <2>1, <2>2, SpinnerEffects, WorksInv DEF SameKeys, SameEnd
<1>4. CASE EndsSpinner
  <2>1. /\ at = "body" /\ at' = "body" /\ steps' = steps /\ spins' = FALSE /\ pull' = pull
        /\ Sends(SpinnerStopNow(app)) \/ Sends(SpinnerStopLater(app))
        /\ UNCHANGED <<session, replies, label, outcome, ended>>
    BY <1>4 DEF EndsSpinner, StopsSpinner, Quiet
  <2>2. steps' \in 0..MaxEmits /\ steps' <= steps
    BY <1>0, <2>1
  <2>3. CASE Sends(SpinnerStopNow(app))
    <3> DEFINE new == SpinnerStopNow(app)
    <3>1. /\ new \in Apps /\ new.pendingInput = app.pendingInput /\ new.pullSkip = NoChan /\ ~(new.buffered > 0)
          /\ new.quitting = app.quitting /\ new.err = app.err /\ (new.quit => app.quit \/ app.quitting)
      BY <1>0, <1>1, SpinnerEffects
    <3> HIDE DEF new
    <3> QED BY <1>0, <1>2, <2>1, <2>2, <2>3, <3>1, WorksInv DEF new
  <2>4. CASE Sends(SpinnerStopLater(app))
    BY <1>0, <1>1, <1>2, <2>1, <2>2, <2>4, SpinnerEffects, WorksInv DEF SameEnd
  <2> QED BY <2>1, <2>3, <2>4
<1>5. CASE EmitsLine
  <2>1. /\ at = "body" /\ at' = "body" /\ steps' = steps - 1 /\ steps > 0 /\ spins' = spins /\ pull' = pull
        /\ Sends(AddLine(app)) /\ UNCHANGED <<session, replies, label, outcome, ended>>
    BY <1>5 DEF EmitsLine, Quiet
  <2>2. steps' \in 0..MaxEmits /\ steps' <= steps
    BY <1>0, <2>1
  <2> QED BY <1>0, <1>1, <1>2, <2>1, <2>2, SpinnerEffects, WorksInv DEF SameKeys, SameEnd
<1> QED BY <1>3, <1>4, <1>5

\* A pull, its progress and its skip. (start.go, pullImage)
LEMMA PullingInv ==
  ASSUME UIInv, StartsPull \/ TakesResult \/ TakesSkip \/ FinishesPull \/ LayerDownloads \/ HintShown \/ PullEnds
  PROVE  UIInv'
<1> DEFINE Pulls == [chan : 0..MaxEmits, result : {"none", "ok", "failed", "cancelled"}, hint : {"none", "due", "shown"}]
<1>0. /\ app \in Apps /\ steps \in 0..MaxEmits /\ MaxEmits \in Nat /\ spins \in BOOLEAN /\ pull \in Pulls
      /\ LoopRuns /\ app.pullSkip # NoChan => app.pullSkip = pull.chan /\ at \in Pulling
      /\ pull.hint = "due" => at \in Pulling
      /\ LoopRuns /\ ~spins /\ app.buffered > 0 => app.pendingStop
  BY TerminalConstants DEF UIInv, Types, PullInv, LinesInv
<1>1. pull.chan \in 0..MaxEmits /\ pull.chan \in Nat
  <2>1. pull.chan \in 0..MaxEmits
    BY <1>0, Zenon
  <2> QED BY <1>0, <2>1
<1>2. /\ SpinnerStart(app) \in Apps /\ SpinnerStopNow(app) \in Apps /\ SpinnerStopLater(app) \in Apps
      /\ PullSkippable(app, pull.chan) \in Apps
  BY <1>0, <1>1, AppTypes
<1>3. "body" \notin Pulling /\ steps <= steps
  BY <1>0 DEF Pulling
<1>4. at \in Pulling => session.start
  BY DEF UIInv, LinesInv, Pulling
<1>5. CASE StartsPull
  <2>1. /\ at = "body" /\ at' = "pulling" /\ steps' = steps - 1 /\ steps > 0 /\ spins' = TRUE
        /\ pull' = [chan |-> steps, result |-> "none", hint |-> "none"]
        /\ Sends(SpinnerStart(app)) /\ UNCHANGED <<session, replies, label, outcome, ended>> /\ session.start
    BY <1>5 DEF StartsPull, Quiet
  <2>2. steps' \in 0..MaxEmits /\ steps' <= steps
    BY <1>0, <2>1
  <2>3. pull' \in Pulls /\ pull'.hint # "due"
    BY <1>0, <2>1, Zenon
  <2>4. at' \in Pulling
    BY <2>1 DEF Pulling
  <2> HIDE DEF Pulls
  <2> QED BY <1>0, <1>2, <1>3, <2>1, <2>2, <2>3, <2>4, SpinnerEffects, WorksInv DEF SameKeys, SameEnd, Pulls
<1>6. CASE TakesResult \/ TakesSkip
  <2>1. /\ at \in Pulling /\ at' \in Pulling /\ UNCHANGED <<app, steps, spins, pull>> /\ Sends(app)
        /\ UNCHANGED <<session, replies, label, outcome, ended>>
    BY <1>6 DEF TakesResult, TakesSkip, Pulling, Quiet, Sends
  <2> QED BY <1>0, <1>3, <1>4, <2>1, WorksInv
<1>7. CASE LayerDownloads \/ PullEnds
  <2>1. /\ at \in Pulling /\ at' = at /\ UNCHANGED <<app, steps, spins>> /\ Sends(app)
        /\ UNCHANGED <<session, replies, label, outcome, ended>>
    BY <1>7 DEF LayerDownloads, PullEnds, Pulling, Quiet, Sends
  <2>2. \/ pull' = [pull EXCEPT !.hint = "due"]
        \/ \E r \in {"ok", "failed", "cancelled"} : pull' = [pull EXCEPT !.result = r]
    BY <1>7, Zenon DEF LayerDownloads, PullEnds
  <2>3. pull' \in Pulls /\ pull'.chan = pull.chan
    BY <1>0, <2>2, Zenon
  <2> QED BY <1>0, <1>3, <1>4, <2>1, <2>3, WorksInv
<1>8. CASE HintShown
  <2>1. /\ at \in Pulling /\ at' = at /\ UNCHANGED <<steps, spins>> /\ Sends(PullSkippable(app, pull.chan))
        /\ UNCHANGED <<session, replies, label, outcome, ended>> /\ pull' = [pull EXCEPT !.hint = "shown"]
    BY <1>0, <1>8 DEF HintShown, Quiet
  <2>2. pull' \in Pulls /\ pull'.chan = pull.chan
    BY <1>0, <2>1, Zenon
  <2> QED BY <1>0, <1>1, <1>2, <1>3, <1>4, <2>1, <2>2, KeyEffects, WorksInv DEF SameLines, SameEnd
<1>9. CASE FinishesPull
  <2>1. /\ at \in Pulling /\ at' \in {"body", "erring", "stopped"} /\ UNCHANGED <<steps, pull>> /\ spins' = FALSE
        /\ Sends(SpinnerStopNow(app)) \/ Sends(SpinnerStopLater(app))
        /\ pull.hint # "due"
        /\ UNCHANGED <<session, replies, label, outcome, ended>>
    BY <1>9 DEF FinishesPull, PullOver, StopsSpinner, Pulling, Quiet
  <2>2. CASE Sends(SpinnerStopNow(app))
    <3> DEFINE new == SpinnerStopNow(app)
    <3>1. /\ new \in Apps /\ new.pendingInput = app.pendingInput /\ new.pullSkip = NoChan /\ ~(new.buffered > 0)
          /\ new.quitting = app.quitting /\ new.err = app.err /\ (new.quit => app.quit \/ app.quitting)
      BY <1>0, <1>2, SpinnerEffects
    <3> HIDE DEF new
    <3> QED BY <1>0, <1>3, <1>4, <2>1, <2>2, <3>1, WorksInv DEF new
  <2>3. CASE Sends(SpinnerStopLater(app))
    BY <1>0, <1>2, <1>3, <1>4, <2>1, <2>3, SpinnerEffects, WorksInv DEF SameEnd
  <2> QED BY <2>1, <2>2, <2>3
<1> QED BY <1>5, <1>6, <1>7, <1>8, <1>9

-----------------------------------------------------------------------------
\* The steps before the body, which only a start takes.
LEMMA StartInv ==
  ASSUME UIInv, NotifiesUpdate \/ UpdateAnswered \/ ChecksHealth \/ LogsIn \/ LoginAnswered
                \/ SelectsEmulator \/ EmulatorSelected
  PROVE  UIInv'
<1>0. /\ app \in Apps /\ RunErr(app) \in Apps /\ HeaderLabel(app) \in Apps /\ RunDone(HeaderLabel(app)) \in Apps
      /\ AuthComplete(app) \in Apps
      /\ LoopRuns /\ ~spins /\ app.buffered > 0 => app.pendingStop
      /\ at \notin {"body", "asked", "over"} => session.start
  BY AppTypes, TerminalConstants DEF UIInv, Types, LinesInv
<1>1. NotifiesUpdate => UIInv'
  <2>1. Asks("notify", "asked-update") => UIInv'
    <3>1. Asks("notify", "asked-update") => session.start
      BY <1>0 DEF Asks
    <3> QED BY <3>1, AsksInv DEF Places, Pulling, Questions
  <2>2. ASSUME at = "notify" /\ at' = "health", Quiet,
               UNCHANGED <<app, ticks, steps, spins, replies, pull, outcome>>
        PROVE  UIInv'
    BY <1>0, <2>2, MovesInv DEF Quiet, Places, Pulling, Questions
  <2> QED BY <2>1, <2>2 DEF NotifiesUpdate
<1>2. UpdateAnswered => UIInv'
  <2>1. ASSUME at = "asked-update", Quiet, Leaves("done", RunDone(HeaderLabel(app))) PROVE UIInv'
    <3> DEFINE new == RunDone(HeaderLabel(app))
    <3>1. /\ new \in Apps /\ SameKeys(app, new) /\ new.buffered = app.buffered
          /\ new.pendingStop = app.pendingStop
      BY <1>0, EndEffects DEF SameKeys
    <3>2. session.start /\ at \notin Pulling \cup {"over"} /\ UNCHANGED <<session, label, ended>>
      BY <1>0, <2>1 DEF Pulling, Quiet
    <3>3. LoopRuns /\ ~spins /\ new.buffered > 0 => new.pendingStop
      BY <1>0, <3>1
    <3> HIDE DEF new
    <3> QED BY <2>1, <3>1, <3>2, <3>3, LeavesInv DEF new
  <2>2. ASSUME at = "asked-update" /\ at' = "health", Quiet,
               UNCHANGED <<app, ticks, steps, spins, replies, pull, outcome>>
        PROVE  UIInv'
    BY <1>0, <2>2, MovesInv DEF Quiet, Places, Pulling, Questions
  <2> QED BY <2>1, <2>2 DEF UpdateAnswered
<1>3. ChecksHealth => UIInv'
  <2>1. ASSUME at = "health", Quiet PROVE session.start /\ at \notin Pulling \cup {"over"} /\ UNCHANGED <<session, label, ended>>
    BY <1>0, <2>1 DEF Pulling, Quiet
  <2>2. ASSUME at = "health", Quiet, Leaves("done", app) \/ Leaves("done", RunErr(ErrorEvent(app))) PROVE UIInv'
    BY <2>1, <2>2, StaysInv, ReportsErrInv
  <2>3. ASSUME at = "health", at' \in {"login", "choose"}, Quiet,
               UNCHANGED <<app, ticks, steps, spins, replies, pull, outcome>>
        PROVE  UIInv'
    BY <1>0, <2>3, MovesInv DEF Quiet, Places, Pulling, Questions
  <2> QED BY <2>2, <2>3 DEF ChecksHealth
<1>4. LogsIn => UIInv'
  <2>1. Asks("login", "asked-login") => UIInv'
    <3>1. Asks("login", "asked-login") => session.start
      BY <1>0 DEF Asks
    <3> QED BY <3>1, AsksInv DEF Places, Pulling, Questions
  <2>2. ASSUME at = "login", Quiet, Leaves("failed", RunErr(app)) PROVE UIInv'
    BY <2>2, ErrsInv DEF Quiet, Pulling
  <2> QED BY <2>1, <2>2 DEF LogsIn
<1>5. LoginAnswered => UIInv'
  <2>1. ASSUME at = "asked-login", at' = "choose", Quiet, Sends(AuthComplete(app)),
               UNCHANGED <<ticks, steps, spins, replies, pull, outcome>>
        PROVE  UIInv'
    <3>1. /\ app' \in Apps /\ SameKeys(app, app') /\ app'.quit = app.quit
          /\ app'.buffered = 0 \/ app' = app
      BY <1>0, <2>1, EndEffects DEF Sends, SameEnd, SameKeys
    <3>2. session.start /\ UNCHANGED <<session, steps, spins, replies, pull, label, outcome, ended>>
      BY <1>0, <2>1 DEF Quiet
    <3>3. Types' /\ FreshInv'
      <4>1. Types'
        BY <2>1, <3>1, <3>2 DEF UIInv, Types, Places
      <4>2. app'.pendingInput = app.pendingInput
        BY <3>1 DEF SameKeys
      <4> QED BY <3>2, <4>1, <4>2 DEF UIInv, FreshInv
    <3>4. QuestionInv' /\ PullInv'
      BY <2>1, <3>1, <3>2 DEF UIInv, QuestionInv, PullInv, Asking, Questions, Pulling, LoopRuns, SameKeys
    <3>5. LinesInv'
      BY <2>1, <3>1, <3>2 DEF UIInv, LinesInv, LoopRuns
    <3> QED BY <3>3, <3>4, <3>5 DEF UIInv
  <2>2. ASSUME at = "asked-login", Quiet, Leaves("done", app) \/ Leaves("failed", RunErr(app)) PROVE UIInv'
    <3>1. session.start /\ at \notin Pulling \cup {"over"} /\ UNCHANGED <<session, label, ended>>
      BY <1>0, <2>2 DEF Pulling, Quiet
    <3> QED BY <2>2, <3>1, StaysInv, ErrsInv
  <2> QED BY <2>1, <2>2 DEF LoginAnswered
<1>6. SelectsEmulator => UIInv'
  <2>1. Asks("choose", "asked-emulator") => UIInv'
    <3>1. Asks("choose", "asked-emulator") => session.start
      BY <1>0 DEF Asks
    <3> QED BY <3>1, AsksInv DEF Places, Pulling, Questions
  <2>2. ASSUME at = "choose" /\ at' = "body", Quiet,
               UNCHANGED <<app, ticks, steps, spins, replies, pull, outcome>>
        PROVE  UIInv'
    BY <1>0, <2>2, MovesInv DEF Quiet, Places, Pulling, Questions
  <2> QED BY <2>1, <2>2 DEF SelectsEmulator
<1>7. EmulatorSelected => UIInv'
  <2>1. ASSUME at = "asked-emulator" /\ at' = "body", Quiet,
               UNCHANGED <<app, ticks, steps, spins, replies, pull, outcome>>
        PROVE  UIInv'
    BY <1>0, <2>1, MovesInv DEF Quiet, Places, Pulling, Questions
  <2>2. ASSUME at = "asked-emulator", Quiet, Leaves("done", app) \/ Leaves("done", RunErr(app)) PROVE UIInv'
    <3>1. session.start /\ at \notin Pulling \cup {"over"} /\ UNCHANGED <<session, label, ended>>
      BY <1>0, <2>2 DEF Pulling, Quiet
    <3> QED BY <2>2, <3>1, StaysInv, ErrsInv
  <2> QED BY <2>1, <2>2 DEF EmulatorSelected
<1> QED BY <1>1, <1>2, <1>3, <1>4, <1>5, <1>6, <1>7

\* Questions in the body, and the ends.
LEMMA BodyInv ==
  ASSUME UIInv, AsksInBody \/ Answered \/ Completes \/ Fails \/ Stops
  PROVE  UIInv'
<1>0. /\ app \in Apps /\ RunDone(app) \in Apps
      /\ LoopRuns /\ ~spins /\ app.buffered > 0 => app.pendingStop
      /\ at \in {"erring", "stopped"} => session.start
      /\ ~session.start /\ at # "over" => ~app.quitting /\ (app.quit => app.err)
      /\ steps \in 0..MaxEmits
  BY AppTypes, TerminalConstants DEF UIInv, Types, LinesInv
<1>1. AsksInBody => UIInv'
  BY AsksInv DEF AsksInBody, Places, Pulling, Questions
<1>2. Answered => UIInv'
  <2> SUFFICES ASSUME Answered PROVE UIInv'
    OBVIOUS
  <2>1. /\ at = "asked" /\ at' = "body" /\ UNCHANGED <<session, steps, spins, replies, pull, label, outcome, ended>>
        /\ \/ app' = app
           \/ session.start /\ Sends(UserInputDismiss(app, ThisChan))
    BY DEF Answered, Quiet
  <2>2. CASE app' = app
    BY <2>1, <2>2, MovesInv DEF Places, Pulling, Questions
  <2>3. CASE session.start /\ Sends(UserInputDismiss(app, ThisChan))
    <3>1. steps < MaxEmits /\ ThisChan \in 0..MaxEmits
      <4>1. steps < MaxEmits
        BY <2>1 DEF UIInv, QuestionInv, Asking, Questions
      <4> QED BY <1>0, <4>1, TerminalConstants DEF ThisChan
    <3> DEFINE new == UserInputDismiss(app, ThisChan)
    <3>2. /\ new \in Apps /\ new.pendingInput \in {app.pendingInput, NoChan} /\ new.pullSkip = app.pullSkip
          /\ SameLines(app, new)
      BY <1>0, <3>1, AppTypes, KeyEffects
    <3>3. app' = app \/ app' = new
      BY <2>3 DEF Sends
    <3> HIDE DEF new
    <3>4. /\ app' \in Apps /\ app'.pendingInput \in {app.pendingInput, NoChan} /\ app'.pullSkip = app.pullSkip
          /\ app'.buffered = app.buffered /\ app'.pendingStop = app.pendingStop /\ app'.quit = app.quit
      BY <1>0, <3>2, <3>3, Zenon DEF SameLines, SameEnd
    <3>5. Types'
      BY <2>1, <3>4 DEF UIInv, Types, Places
    <3>6. FreshInv' /\ QuestionInv'
      BY <2>1, <3>4 DEF UIInv, FreshInv, QuestionInv, Asking, Questions
    <3>7. PullInv' /\ LinesInv'
      BY <2>1, <2>3, <3>4 DEF UIInv, PullInv, LinesInv, LoopRuns, Pulling
    <3> QED BY <3>5, <3>6, <3>7 DEF UIInv
  <2> QED BY <2>1, <2>2, <2>3
<1>3. ASSUME NEW result \in {"done", "cancelled"}, Leaves(result, RunDone(app)), at \in {"body", "stopped"}, ~spins,
             UNCHANGED <<session, ended>>, label' = label \/ (session.start /\ label' = "resolving"),
             result = "cancelled" => ~session.start
      PROVE  UIInv'
  <2> DEFINE new == RunDone(app)
  <2>1. /\ new \in Apps /\ SameKeys(app, new) /\ new.buffered = app.buffered /\ new.pendingStop = app.pendingStop
        /\ new.err = app.err /\ (new.quit => app.quit \/ ~app.pendingStop)
    BY <1>0, EndEffects
  <2>2. at \notin Pulling \cup {"over"}
    BY <1>3 DEF Pulling
  <2>3. app.buffered \in Nat
    <3>1. app.buffered \in 0..MaxLines
      BY <1>0, Zenon DEF Apps
    <3> QED BY <3>1
  <2>4. LoopRuns /\ ~session.start /\ result = "done" /\ new.quit /\ ~new.err => new.buffered = 0
    BY <1>0, <1>3, <2>1, <2>2, <2>3
  <2>5. LoopRuns /\ ~spins /\ new.buffered > 0 => new.pendingStop
    BY <1>0, <2>1
  <2> HIDE DEF new
  <2> QED BY <1>3, <2>1, <2>2, <2>4, <2>5, LeavesInv DEF new
<1>4. Completes => UIInv'
  BY <1>3 DEF Completes
<1>5. Fails => UIInv'
  BY ReportsErrInv DEF Fails, Quiet, Pulling
<1>6. Stops => UIInv'
  <2> SUFFICES ASSUME Stops PROVE UIInv'
    OBVIOUS
  <2>1. /\ at \in {"body", "stopped"} /\ at \notin Pulling \cup {"over"} /\ UNCHANGED <<session, label, ended>>
        /\ Leaves("cancelled", IF session.start THEN app ELSE RunDone(app))
    BY DEF Stops, Quiet, Pulling
  <2>2. CASE session.start
    BY <2>1, <2>2, StaysInv
  <2>3. CASE ~session.start
    <3> DEFINE new == RunDone(app)
    <3>1. /\ new \in Apps /\ SameKeys(app, new) /\ new.buffered = app.buffered /\ new.pendingStop = app.pendingStop
      BY <1>0, EndEffects
    <3>2. LoopRuns /\ ~spins /\ new.buffered > 0 => new.pendingStop
      BY <1>0, <3>1
    <3> HIDE DEF new
    <3> QED BY <2>1, <2>3, <3>1, <3>2, LeavesInv DEF new
  <2> QED BY <2>2, <2>3
<1> QED BY <1>1, <1>2, <1>4, <1>5, <1>6

-----------------------------------------------------------------------------
\* The plan label, the loop, and the caller.
LEMMA LoopInv ==
  ASSUME UIInv, LabelResolved \/ LabelDelivered \/ TickElapses \/ LoopQuits \/ CallerReturns
  PROVE  UIInv'
<1>0. /\ app \in Apps /\ MinDurationElapsed(app) \in Apps /\ HeaderLabel(app) \in Apps
      /\ label # "unresolved" => session.start
  BY AppTypes, TerminalConstants DEF UIInv, Types, LinesInv
<1>1. CASE LabelResolved
  BY <1>0, <1>1 DEF LabelResolved, UIInv, Types, FreshInv, QuestionInv, PullInv, LinesInv, Asking, ThisChan, LoopRuns
<1>2. CASE LabelDelivered
  <2>1. /\ app' = app \/ app' = HeaderLabel(app)
        /\ session.start /\ label' = "delivered"
        /\ UNCHANGED <<session, at, steps, spins, replies, pull, outcome, ended>>
        /\ ~LoopRuns => app' = app
    BY <1>0, <1>2 DEF LabelDelivered, Sends
  <2>2. /\ app' \in Apps /\ SameKeys(app, app') /\ app'.buffered = app.buffered
        /\ app'.pendingStop = app.pendingStop /\ app'.prompt = app.prompt
        /\ app'.visible = app.visible /\ app'.text = app.text
    BY <1>0, <2>1, EndEffects, Zenon DEF SameKeys
  <2>3. Types'
    BY <2>1, <2>2 DEF UIInv, Types
  <2>4. FreshInv' /\ QuestionInv'
    BY <2>1, <2>2, Zenon DEF UIInv, FreshInv, QuestionInv, Asking, LoopRuns, SameKeys, ThisChan
  <2>5. PullInv' /\ LinesInv'
    BY <2>1, <2>2 DEF UIInv, PullInv, LinesInv, LoopRuns, SameKeys
  <2> QED BY <2>3, <2>4, <2>5 DEF UIInv
<1>3. CASE TickElapses
  <2> DEFINE new == MinDurationElapsed(app)
  <2>1. /\ app' = new /\ LoopRuns
        /\ UNCHANGED <<session, at, steps, spins, replies, pull, label, outcome, ended>>
    BY <1>3 DEF TickElapses
  <2>2. /\ new \in Apps /\ SameKeys(app, new) /\ new.prompt = app.prompt /\ (new.visible => app.visible)
        /\ new.text = app.text /\ new.buffered = 0 /\ new.quitting = app.quitting /\ new.err = app.err
        /\ (new.quit => app.quit \/ app.quitting)
    BY <1>0, SpinnerEffects
  <2> HIDE DEF new
  <2>3. Types'
    BY <2>1, <2>2 DEF UIInv, Types
  <2>4. FreshInv' /\ QuestionInv'
    BY <2>1, <2>2, Zenon DEF UIInv, FreshInv, QuestionInv, Asking, LoopRuns, SameKeys, ThisChan
  <2>5. PullInv' /\ LinesInv'
    BY <2>1, <2>2 DEF UIInv, PullInv, LinesInv, LoopRuns, SameKeys
  <2> QED BY <2>3, <2>4, <2>5 DEF UIInv
<1>4. CASE LoopQuits \/ CallerReturns
  <2>1. /\ UNCHANGED <<session, app, at, steps, spins, replies, pull, label, outcome>>
        /\ \/ ended' = [ended EXCEPT !.loop = "quit"] /\ app.quit
           \/ ended' = [ended EXCEPT !.caller = TRUE]
    BY <1>4 DEF LoopQuits, CallerReturns
  <2>2. /\ ended' \in [loop : {"running", "quit", "interrupted", "terminated"}, signal : BOOLEAN, caller : BOOLEAN]
        /\ LoopRuns' => LoopRuns
        /\ ended'.loop = "quit" => ended.loop = "quit" \/ app.quit
    <3>1. ended \in [loop : {"running", "quit", "interrupted", "terminated"}, signal : BOOLEAN, caller : BOOLEAN]
      BY DEF UIInv, Types
    <3> QED BY <2>1, <3>1, Zenon DEF LoopRuns
  <2> QED BY <2>1, <2>2 DEF UIInv, Types, FreshInv, QuestionInv, PullInv, LinesInv, Asking, ThisChan
<1> QED BY <1>1, <1>2, <1>3, <1>4

\* Keys and signals: an answer goes to the question that has the keys.
LEMMA UserInv ==
  ASSUME UIInv, User
  PROVE  UIInv'
<1>0. /\ app \in Apps /\ EscKey(app) \in Apps /\ AnswerKey(app) \in Apps /\ InterruptKey(app) \in Apps
      /\ MaxEmits \in Nat /\ steps \in 0..MaxEmits
      /\ replies \in [Chans -> {"none", "yes", "no", "cancelled"}]
  BY AppTypes, TerminalConstants DEF UIInv, Types
<1>1. app.pendingInput \in 0..MaxEmits /\ (app.pendingInput # NoChan => app.pendingInput \in Chans)
  <2>1. app.pendingInput \in 0..MaxEmits
    BY <1>0, Zenon DEF Apps
  <2> QED BY <1>0, <2>1 DEF Chans, NoChan
<1>2. app.pendingInput # NoChan => app.pendingInput > steps
  BY DEF UIInv, FreshInv
<1>3. ASSUME NEW a \in {"yes", "no", "cancelled"}, app.pendingInput # NoChan,
             replies' = [replies EXCEPT ![app.pendingInput] = a]
      PROVE  /\ replies' \in [Chans -> {"none", "yes", "no", "cancelled"}]
             /\ \A c \in Chans : c <= steps => replies'[c] = replies[c]
             /\ replies'[app.pendingInput] # "none"
             /\ \A c \in Chans : c # app.pendingInput => replies'[c] = replies[c]
  BY <1>0, <1>1, <1>2, <1>3
<1>4. CASE Answers
  <2> DEFINE new == AnswerKey(app)
  <2>1. /\ app' = new /\ UNCHANGED <<session, at, steps, spins, pull, label, outcome, ended>>
        /\ LoopRuns /\ app.pendingInput # NoChan
        /\ \E a \in {"yes", "no"} : replies' = [replies EXCEPT ![app.pendingInput] = a]
    BY <1>4 DEF Answers
  <2>2. /\ replies' \in [Chans -> {"none", "yes", "no", "cancelled"}]
        /\ \A c \in Chans : c <= steps => replies'[c] = replies[c]
        /\ replies'[app.pendingInput] # "none"
        /\ \A c \in Chans : c # app.pendingInput => replies'[c] = replies[c]
    BY <1>3, <2>1
  <2>3. /\ new \in Apps /\ new.pendingInput = NoChan /\ new.pullSkip = app.pullSkip /\ new.quit = app.quit
        /\ new.buffered = app.buffered /\ new.pendingStop = app.pendingStop
        /\ new.err = app.err /\ new.quitting = app.quitting
    BY <1>0, KeyEffects DEF SameLines, SameEnd
  <2> HIDE DEF new
  <2>4. Types' /\ FreshInv'
    BY <2>1, <2>2, <2>3 DEF UIInv, Types, FreshInv
  <2>5. QuestionInv'
    <3>1. Asking => ThisChan \in Chans
      <4>1. Asking => steps < MaxEmits
        BY DEF UIInv, QuestionInv
      <4> QED BY <1>0, <4>1 DEF ThisChan, Chans
    <3>2. Asking /\ replies'[ThisChan] = "none" => FALSE
      BY <2>1, <2>2, <3>1 DEF UIInv, QuestionInv
    <3> QED BY <2>1, <3>2, Zenon DEF UIInv, QuestionInv, Asking, ThisChan
  <2>6. PullInv' /\ LinesInv'
    BY <2>1, <2>3 DEF UIInv, PullInv, LinesInv, LoopRuns
  <2> QED BY <2>4, <2>5, <2>6 DEF UIInv
<1>5. CASE SkipsPull
  <2> DEFINE new == EscKey(app)
  <2>1. /\ app' = new /\ UNCHANGED <<session, at, steps, spins, replies, pull, label, outcome, ended>>
        /\ LoopRuns /\ app.pullSkip # NoChan
    BY <1>5 DEF SkipsPull
  <2>2. /\ new \in Apps /\ new.pendingInput = app.pendingInput /\ new.pullSkip = NoChan /\ new.quit = app.quit
        /\ new.buffered = app.buffered /\ new.pendingStop = app.pendingStop
        /\ new.err = app.err /\ new.quitting = app.quitting
    BY <1>0, KeyEffects DEF SameLines, SameEnd
  <2> HIDE DEF new
  <2>3. at \in Pulling
    BY <2>1 DEF UIInv, PullInv
  <2>4. Types' /\ FreshInv'
    BY <2>1, <2>2 DEF UIInv, Types, FreshInv
  <2>5. QuestionInv'
    BY <2>1, <2>3 DEF QuestionInv, Asking, Questions, Pulling
  <2>6. PullInv' /\ LinesInv'
    BY <2>1, <2>2 DEF UIInv, PullInv, LinesInv, LoopRuns
  <2> QED BY <2>4, <2>5, <2>6 DEF UIInv
<1>6. CASE Interrupts
  <2> DEFINE new == InterruptKey(app)
  <2>1. /\ app' = new /\ UNCHANGED <<session, at, steps, spins, pull, label, outcome, ended>> /\ LoopRuns
        /\ replies' = IF app.pendingInput = NoChan THEN replies
                      ELSE [replies EXCEPT ![app.pendingInput] = "cancelled"]
    BY <1>6 DEF Interrupts
  <2>2. /\ new \in Apps /\ new.pendingInput = NoChan /\ new.pullSkip = app.pullSkip /\ new.err
        /\ new.buffered = app.buffered /\ new.pendingStop = app.pendingStop /\ new.quitting = app.quitting
    BY <1>0, KeyEffects
  <2> HIDE DEF new
  <2>3. /\ replies' \in [Chans -> {"none", "yes", "no", "cancelled"}]
        /\ \A c \in Chans : c <= steps => replies'[c] = replies[c]
        /\ app.pendingInput # NoChan => replies'[app.pendingInput] # "none"
        /\ \A c \in Chans : c # app.pendingInput => replies'[c] = replies[c]
    BY <1>0, <1>3, <2>1
  <2>4. Types' /\ FreshInv'
    BY <2>1, <2>2, <2>3 DEF UIInv, Types, FreshInv
  <2>5. QuestionInv'
    <3>1. Asking => ThisChan \in Chans /\ ThisChan # NoChan
      <4>1. Asking => steps < MaxEmits
        BY DEF UIInv, QuestionInv
      <4> QED BY <1>0, <4>1 DEF ThisChan, Chans, NoChan
    <3>2. Asking /\ replies'[ThisChan] = "none" => FALSE
      BY <2>1, <2>3, <3>1 DEF UIInv, QuestionInv
    <3> QED BY <2>1, <3>2, Zenon DEF UIInv, QuestionInv, Asking, ThisChan
  <2>6. PullInv' /\ LinesInv'
    BY <2>1, <2>2 DEF UIInv, PullInv, LinesInv, LoopRuns
  <2> QED BY <2>4, <2>5, <2>6 DEF UIInv
<1>7. CASE SignalCancels \/ SignalEndsLoop
  <2>1. /\ UNCHANGED <<session, app, at, steps, spins, replies, pull, label, outcome>>
        /\ \/ ended' = [ended EXCEPT !.signal = TRUE]
           \/ \E how \in {"interrupted", "terminated"} : ended' = [ended EXCEPT !.loop = how]
    BY <1>7 DEF SignalCancels, SignalEndsLoop
  <2>2. /\ ended' \in [loop : {"running", "quit", "interrupted", "terminated"}, signal : BOOLEAN, caller : BOOLEAN]
        /\ LoopRuns' => LoopRuns
        /\ ended'.loop = "quit" => ended.loop = "quit"
    <3>1. ended \in [loop : {"running", "quit", "interrupted", "terminated"}, signal : BOOLEAN, caller : BOOLEAN]
      BY DEF UIInv, Types
    <3> QED BY <1>7, <2>1, <3>1, Zenon DEF LoopRuns
  <2> QED BY <2>1, <2>2 DEF UIInv, Types, FreshInv, QuestionInv, PullInv, LinesInv, Asking, ThisChan
<1> QED BY <1>4, <1>5, <1>6, <1>7 DEF User

\* A new UI, with nothing asked and nothing kept back.
LEMMA UIInitInv == TerminalInit => UIInv
<1> SUFFICES ASSUME TerminalInit PROVE UIInv
  OBVIOUS
<1> USE DEF TerminalInit
<1>1. /\ session \in Sessions /\ session.start \in BOOLEAN /\ session.loading \in BOOLEAN
      /\ steps \in 0..MaxEmits /\ 0 \in 0..MaxEmits /\ 0 \in 0..MaxLines
  BY AppConstants, TerminalConstants
<1>2. /\ app \in Apps /\ app.pendingInput = NoChan /\ app.pullSkip = NoChan /\ app.buffered = 0
      /\ ~app.quitting /\ ~app.quit
  <2>1. "" \in Texts
    BY Zenon DEF Texts
  <2>2. app = NewApp(session.loading)
    OBVIOUS
  <2> HIDE DEF TerminalInit
  <2>3. app \in Apps
    BY <1>1, <2>1, <2>2, Zenon DEF NewApp, Apps, NoChan
  <2>4. /\ app.pendingInput = NoChan /\ app.pullSkip = NoChan /\ app.buffered = 0
        /\ app.quitting = FALSE /\ app.quit = FALSE
    BY <2>2, Zenon DEF NewApp
  <2> QED BY <2>3, <2>4
<1>3. /\ ended \in [loop : {"running", "quit", "interrupted", "terminated"}, signal : BOOLEAN, caller : BOOLEAN]
      /\ ended.loop # "quit"
  BY Zenon
<1>4. /\ pull \in [chan : 0..MaxEmits, result : {"none", "ok", "failed", "cancelled"}, hint : {"none", "due", "shown"}]
      /\ pull.hint # "due"
  BY <1>1, Zenon DEF NoChan
<1>5. at \in {"notify", "body"} /\ (~session.start => at = "body") /\ ~Asking
  BY DEF Asking, Questions
<1>6. /\ replies \in [Chans -> {"none", "yes", "no", "cancelled"}]
      /\ \A c \in Chans : replies[c] = "none"
  OBVIOUS
<1>7. spins = FALSE /\ outcome = "none" /\ label = "unresolved"
  OBVIOUS
<1> HIDE DEF TerminalInit
<1>8. Types
  BY <1>1, <1>2, <1>3, <1>4, <1>5, <1>6, <1>7 DEF Types, Places
<1>9. FreshInv /\ QuestionInv /\ PullInv /\ LinesInv
  BY <1>2, <1>3, <1>4, <1>5, <1>6, <1>7 DEF FreshInv, QuestionInv, PullInv, LinesInv
<1> QED BY <1>8, <1>9 DEF UIInv

-----------------------------------------------------------------------------
\* A step changes the UI's part or Telemetry's, and a step of Telemetry's is
\* one of its three operations. (run.go, client.go)
LEMMA StepsApart ==
  ASSUME [TerminalNext]_tuiVars
  PROVE  \/ UNCHANGED uiVars /\ (Emit \/ Close \/ PostsEvent \/ UNCHANGED tmVars)
         \/ UNCHANGED tmVars /\ (Goroutine \/ PullGoroutines \/ Labels \/ Loop \/ CallerReturns \/ User)
<1>1. CASE UNCHANGED tuiVars
  BY <1>1 DEF tuiVars
<1>2. CASE Reports
  BY <1>2 DEF Reports, GoroutineReports, CommandReports, ClientCloses, FlusherPosts
<1>3. CASE Goroutine
  BY <1>3 DEF Goroutine, NotifiesUpdate, UpdateAnswered, ChecksHealth, LogsIn, LoginAnswered, SelectsEmulator,
              EmulatorSelected, StartsSpinner, EndsSpinner, EmitsLine, AsksInBody, Answered, StartsPull,
              TakesResult, TakesSkip, FinishesPull, Completes, Fails, Stops, Asks, Quiet
<1>4. CASE PullGoroutines
  BY <1>4 DEF PullGoroutines, LayerDownloads, HintShown, PullEnds, Quiet
<1>5. CASE Labels \/ Loop \/ CallerReturns
  BY <1>5 DEF Labels, LabelResolved, LabelDelivered, Loop, TickElapses, LoopQuits, CallerReturns
<1>6. CASE User
  BY <1>6 DEF User, Answers, SkipsPull, Interrupts, SignalCancels, SignalEndsLoop
<1> QED BY <1>1, <1>2, <1>3, <1>4, <1>5, <1>6 DEF TerminalNext

\* Every step keeps the UI's invariant.
LEMMA UINextInv == UIInv /\ [TerminalNext]_tuiVars => UIInv'
<1> SUFFICES ASSUME UIInv, [TerminalNext]_tuiVars PROVE UIInv'
  OBVIOUS
<1>1. CASE UNCHANGED uiVars
  BY <1>1 DEF uiVars, UIInv, Types, FreshInv, QuestionInv, PullInv, LinesInv, Asking, ThisChan, LoopRuns
<1>2. CASE Goroutine
  BY <1>2, StartInv, WorkingInv, PullingInv, BodyInv DEF Goroutine
<1>3. CASE PullGoroutines
  BY <1>3, PullingInv DEF PullGoroutines
<1>4. CASE Labels \/ Loop \/ CallerReturns
  BY <1>4, LoopInv DEF Labels, Loop
<1>5. CASE User
  BY <1>5, UserInv
<1> QED BY <1>1, <1>2, <1>3, <1>4, <1>5, StepsApart

\* Every step keeps Telemetry's.
LEMMA EventsNextInv == EventsInv /\ [TerminalNext]_tuiVars => EventsInv'
<1> SUFFICES ASSUME EventsInv, [TerminalNext]_tuiVars PROVE EventsInv'
  OBVIOUS
<1>1. CASE UNCHANGED tmVars
  BY <1>1 DEF tmVars, EventsInv, QueueInv, FlushInv, Newest, NotClosed
<1> QED BY <1>1, EmitInv, CloseInv, PostsInv, StepsApart

\* The inductive invariants hold in every state of a command at the terminal.
THEOREM InvHolds == TerminalSpec => [](UIInv /\ EventsInv)
<1>1. TerminalInit => UIInv /\ EventsInv
  BY UIInitInv, TelemetryInitInv DEF TerminalInit
<1>2. UIInv /\ EventsInv /\ [TerminalNext]_tuiVars => (UIInv /\ EventsInv)'
  BY UINextInv, EventsNextInv
<1> QED BY <1>1, <1>2, PTL DEF TerminalSpec

\* A question that is waited on has the keys and the screen, and ESC is the
\* running pull's, for any commands and any number of questions and pulls.
\* (app.go, Update; start.go, pullImage)
THEOREM KeysReach == TerminalSpec => []KeysReachTheirReader
<1>1. UIInv => KeysReachTheirReader
  BY DEF UIInv, QuestionInv, PullInv, Pulling, KeysReachTheirReader, ShowsPrompt
<1> QED BY <1>1, InvHolds, PTL

\* No line is left in the buffer of a UI that ends with its command's success,
\* for any number of lines and spinners. (app.go, runDoneMsg)
THEOREM LinesAllShown == TerminalSpec => []LinesShown
<1>1. UIInv => LinesShown
  BY DEF UIInv, LinesInv, LinesShown
<1> QED BY <1>1, InvHolds, PTL

\* Events are flushed once, in order, and the newest of them, for any number
\* of events and any queue. (client.go, flush.go)
THEOREM NewestSent == TerminalSpec => []NewestEventsSent
<1> QED BY EventsInvImplies, InvHolds, PTL
=============================================================================
