------------------------ MODULE StartupMonitorProofs ------------------------
(***************************************************************************)
(* The safety properties of StartupMonitor, proved for every set of exit   *)
(* codes from one inductive invariant, Inv. Each of its parts is the       *)
(* history a property needs: what the prompt's three views agree on, why   *)
(* the deadline is spent under a prompt, what a decision leaves to be      *)
(* probed, and where an exit code may come from.                           *)
(***************************************************************************)
EXTENDS StartupMonitor, TLAPS

Probing == pc \in {"isRunning", "exitWait", "healthGet"}

\* The prompt, as its three views agree on it: the monitor's (asking), the
\* events in flight, and the screen.
PromptInv ==
  /\ "dismiss" \in uiEvents => pc = "returned"
  /\ pc = "returned" /\ "ask" \in uiEvents => "dismiss" \in uiEvents
  /\ "ask" \in uiEvents => asking /\ ~shown /\ response = NoKey
  /\ shown /\ pc # "returned" => asking /\ response = NoKey
  /\ shown /\ pc = "returned" => uiEvents = {"dismiss"}

\* The deadline is spent while a prompt is open, and while a probe started by
\* the deadline runs there is no prompt. Where there is nobody to ask there is
\* neither a prompt nor what only an answer leads to.
DeadlineInv ==
  /\ asking => deadline = "spent" /\ interactive
  /\ Probing /\ why = "deadline" => deadline = "spent" /\ ~asking
  /\ Probing /\ why = "key" => ~asking /\ interactive
  /\ pc = "stopping" => ~asking /\ interactive

\* A decision taken on a ready emulator is still under probe, or is void.
DecisionInv ==
  /\ Probing /\ why \in {"deadline", "key"} /\ readyAtDecision => emulator # "starting"
  /\ NoReadyEmulatorGivenUp

\* Every exit code on its way to the result is the container's own, and a prompt
\* is answered as cancelled only by an interrupt.
ExitInv ==
  /\ emulator = "exited" => exitCode \in ExitCodes
  /\ pc = "exitWait" => emulator = "exited"
  /\ exitCh \in ExitCodes => emulator = "exited" /\ exitCh = exitCode
  /\ response = "cancelled" => cancelled
  /\ VerdictTrue

ResultInv == pc # "returned" => result = Pending

Inv == TypeOK /\ PromptInv /\ DeadlineInv /\ DecisionInv /\ ExitInv /\ ResultInv

\* TypeOK in two parts: SMT reasons about the values, Zenon about the flags.
Values ==
  /\ emulator \in {"starting", "ready", "exited"}
  /\ exitCode \in ExitCodes \cup {Unknown}
  /\ exitCh \in ExitCodes \cup {Unknown, Empty}
  /\ pc \in {"isRunning", "exitWait", "healthGet", "select", "stopping", "returned"}
  /\ why \in {"first", "tick", "deadline", "key"}
  /\ deadline \in {"armed", "fired", "spent"}
  /\ response \in {NoKey, "w", "s", "cancelled"}
  /\ uiEvents \subseteq {"ask", "dismiss"}
  /\ result \in Outcomes

Flags ==
  /\ interactive \in BOOLEAN
  /\ cancelled \in BOOLEAN
  /\ waiter \in BOOLEAN
  /\ trustExitCh \in BOOLEAN
  /\ tick \in BOOLEAN
  /\ asking \in BOOLEAN
  /\ shown \in BOOLEAN
  /\ uiOpen \in BOOLEAN
  /\ readyAtDecision \in BOOLEAN

-----------------------------------------------------------------------------
\* What await returns is an outcome.
LEMMA OutcomeTypes ==
  /\ \A k \in {"none", "ready", "timeout", "stopped", "cancelled", "checkFailed"} :
       Outcome(k) \in Outcomes
  /\ \A c \in ExitCodes \cup {Unknown} : Exited(c) \in Outcomes
BY DEF Outcome, Exited, Outcomes

\* Every step keeps the variables in their types.
LEMMA TypeStep == Inv /\ [Next]_vars => TypeOK'
<1> SUFFICES ASSUME Inv, [Next]_vars PROVE Values' /\ Flags'
  BY DEF TypeOK, Values, Flags
<1>0. Values /\ Flags
  BY DEF Inv, TypeOK, Values, Flags
<1> USE ExitCodesAssumption, <1>0 DEF container, ui
<1>1. CASE IsRunningFails
  <2>1. Values'
    BY <1>1, OutcomeTypes DEF IsRunningFails, Return, Values, Unknown, Empty, NoKey
  <2>2. Flags'
    BY <1>1, Zenon DEF IsRunningFails, Return, Flags
  <2> QED
    BY <2>1, <2>2
<1>2. CASE IsRunningAnswers
  <2>1. Values'
    BY <1>2, OutcomeTypes DEF IsRunningAnswers, Values, Unknown, Empty, NoKey
  <2>2. Flags'
    BY <1>2, Zenon DEF IsRunningAnswers, Flags
  <2> QED
    BY <2>1, <2>2
<1>3. CASE ExitWaitReceives
  <2>1. Values'
    BY <1>3, OutcomeTypes DEF ExitWaitReceives, Return, Values, Unknown, Empty, NoKey,
      Inv, ExitInv
  <2>2. Flags'
    BY <1>3, Zenon DEF ExitWaitReceives, Return, Flags
  <2> QED
    BY <2>1, <2>2
<1>4. CASE ExitWaitTimesOut
  <2>1. Values'
    BY <1>4, OutcomeTypes DEF ExitWaitTimesOut, Return, Values, Unknown, Empty, NoKey
  <2>2. Flags'
    BY <1>4, Zenon DEF ExitWaitTimesOut, Return, Flags
  <2> QED
    BY <2>1, <2>2
<1>5. CASE HealthAnswers200
  <2>1. Values'
    BY <1>5, OutcomeTypes DEF HealthAnswers200, Return, Values, Unknown, Empty, NoKey
  <2>2. Flags'
    BY <1>5, Zenon DEF HealthAnswers200, Return, Flags
  <2> QED
    BY <2>1, <2>2
<1>6. CASE KeepPolling
  <2>1. Values'
    BY <1>6, OutcomeTypes DEF KeepPolling, NotReady, Values, Unknown, Empty, NoKey
  <2>2. Flags'
    BY <1>6, Zenon DEF KeepPolling, NotReady, Flags
  <2> QED
    BY <2>1, <2>2
<1>7. CASE TimeOut
  <2>1. Values'
    BY <1>7, OutcomeTypes DEF TimeOut, NotReady, Return, Values, Unknown, Empty, NoKey
  <2>2. Flags'
    BY <1>7, Zenon DEF TimeOut, NotReady, Return, Flags
  <2> QED
    BY <2>1, <2>2
<1>8. CASE AskUser
  <2>1. Values'
    BY <1>8, OutcomeTypes DEF AskUser, NotReady, Values, Unknown, Empty, NoKey
  <2>2. Flags'
    BY <1>8, Zenon DEF AskUser, NotReady, Flags
  <2> QED
    BY <2>1, <2>2
<1>9. CASE ConfirmStop
  <2>1. Values'
    BY <1>9, OutcomeTypes DEF ConfirmStop, NotReady, Values, Unknown, Empty, NoKey
  <2>2. Flags'
    BY <1>9, Zenon DEF ConfirmStop, NotReady, Flags
  <2> QED
    BY <2>1, <2>2
<1>10. CASE StopAndReturn
  <2>1. Values'
    BY <1>10, OutcomeTypes DEF StopAndReturn, Return, Values, Unknown, Empty, NoKey
  <2>2. Flags'
    BY <1>10, Zenon DEF StopAndReturn, Return, Flags
  <2> QED
    BY <2>1, <2>2
<1>11. CASE SelectCancelled
  <2>1. Values'
    BY <1>11, OutcomeTypes DEF SelectCancelled, Return, Values, Unknown, Empty, NoKey
  <2>2. Flags'
    BY <1>11, Zenon DEF SelectCancelled, Return, Flags
  <2> QED
    BY <2>1, <2>2
<1>12. CASE SelectPromptCancelled
  <2>1. Values'
    BY <1>12, OutcomeTypes DEF SelectPromptCancelled, Receive, Values, Unknown, Empty,
      NoKey
  <2>2. Flags'
    BY <1>12, Zenon DEF SelectPromptCancelled, Receive, Flags
  <2> QED
    BY <2>1, <2>2
<1>13. CASE SelectStop
  <2>1. Values'
    BY <1>13, OutcomeTypes DEF SelectStop, Receive, Probe, Values, Unknown, Empty, NoKey
  <2>2. Flags'
    BY <1>13, Zenon DEF SelectStop, Receive, Probe, Flags
  <2> QED
    BY <2>1, <2>2
<1>14. CASE SelectKeepWaiting
  <2>1. Values'
    BY <1>14, OutcomeTypes DEF SelectKeepWaiting, Receive, Values, Unknown, Empty, NoKey
  <2>2. Flags'
    BY <1>14, Zenon DEF SelectKeepWaiting, Receive, Flags
  <2> QED
    BY <2>1, <2>2
<1>15. CASE SelectExit
  <2>1. Values'
    BY <1>15, OutcomeTypes DEF SelectExit, Return, Values, Unknown, Empty, NoKey
  <2>2. Flags'
    BY <1>15, Zenon DEF SelectExit, Return, Flags
  <2> QED
    BY <2>1, <2>2
<1>16. CASE SelectDeadline
  <2>1. Values'
    BY <1>16, OutcomeTypes DEF SelectDeadline, Probe, Values, Unknown, Empty, NoKey
  <2>2. Flags'
    BY <1>16, Zenon DEF SelectDeadline, Probe, Flags
  <2> QED
    BY <2>1, <2>2
<1>17. CASE SelectTick
  <2>1. Values'
    BY <1>17, OutcomeTypes DEF SelectTick, Probe, Values, Unknown, Empty, NoKey
  <2>2. Flags'
    BY <1>17, Zenon DEF SelectTick, Probe, Flags
  <2> QED
    BY <2>1, <2>2
<1>18. CASE BecomeReady
  <2>1. Values'
    BY <1>18, OutcomeTypes DEF BecomeReady, Values, Unknown, Empty, NoKey
  <2>2. Flags'
    BY <1>18, Zenon DEF BecomeReady, Flags
  <2> QED
    BY <2>1, <2>2
<1>19. CASE ContainerExits
  <2>1. Values'
    BY <1>19, OutcomeTypes DEF ContainerExits, Values, Unknown, Empty, NoKey
  <2>2. Flags'
    BY <1>19, Zenon DEF ContainerExits, Flags
  <2> QED
    BY <2>1, <2>2
<1>20. CASE WaitDelivers
  <2>1. Values'
    BY <1>20, OutcomeTypes DEF WaitDelivers, Deliver, Values, Unknown, Empty, NoKey,
      Inv, ExitInv
  <2>2. Flags'
    BY <1>20, Zenon DEF WaitDelivers, Deliver, Flags
  <2> QED
    BY <2>1, <2>2
<1>21. CASE WaitFails
  <2>1. Values'
    BY <1>21, OutcomeTypes DEF WaitFails, Deliver, Values, Unknown, Empty, NoKey
  <2>2. Flags'
    BY <1>21, Zenon DEF WaitFails, Deliver, Flags
  <2> QED
    BY <2>1, <2>2
<1>22. CASE DeadlineFires
  <2>1. Values'
    BY <1>22, OutcomeTypes DEF DeadlineFires, Values, Unknown, Empty, NoKey
  <2>2. Flags'
    BY <1>22, Zenon DEF DeadlineFires, Flags
  <2> QED
    BY <2>1, <2>2
<1>23. CASE TickFires
  <2>1. Values'
    BY <1>23, OutcomeTypes DEF TickFires, Values, Unknown, Empty, NoKey
  <2>2. Flags'
    BY <1>23, Zenon DEF TickFires, Flags
  <2> QED
    BY <2>1, <2>2
<1>24. CASE UiShows
  <2>1. Values'
    BY <1>24, OutcomeTypes DEF UiShows, Values, Unknown, Empty, NoKey
  <2>2. Flags'
    BY <1>24, Zenon DEF UiShows, Flags
  <2> QED
    BY <2>1, <2>2
<1>25. ASSUME NEW key \in {"w", "s"}, UserAnswers(key) PROVE Values' /\ Flags'
  <2>1. Values'
    BY <1>25, OutcomeTypes DEF UserAnswers, Values, Unknown, Empty, NoKey
  <2>2. Flags'
    BY <1>25, Zenon DEF UserAnswers, Flags
  <2> QED
    BY <2>1, <2>2
<1>26. CASE Interrupt
  <2>1. Values'
    BY <1>26, OutcomeTypes DEF Interrupt, Values, Unknown, Empty, NoKey
  <2>2. Flags'
    BY <1>26, Zenon DEF Interrupt, Flags
  <2> QED
    BY <2>1, <2>2
<1>27. CASE UNCHANGED vars
  BY <1>27 DEF vars, Values, Flags
<1>28. CASE UiRetracts
  <2>1. Values'
    BY <1>28, OutcomeTypes DEF UiRetracts, Values, Unknown, Empty, NoKey
  <2>2. Flags'
    BY <1>28, Zenon DEF UiRetracts, Flags
  <2> QED
    BY <2>1, <2>2
<1> QED
  BY <1>1, <1>2, <1>3, <1>4, <1>5, <1>6, <1>7, <1>8, <1>9, <1>10, <1>11, <1>12, <1>13,
    <1>14, <1>15, <1>16, <1>17, <1>18, <1>19, <1>20, <1>21, <1>22, <1>23, <1>24, <1>25,
    <1>26, <1>27, <1>28 DEF Next, Monitor, Rest

\* Every step keeps monitor, events and screen agreed on the prompt.
LEMMA PromptStep == Inv /\ [Next]_vars => PromptInv'
<1> SUFFICES ASSUME Inv, [Next]_vars PROVE PromptInv'
  OBVIOUS
<1> USE ExitCodesAssumption DEF Inv, TypeOK, PromptInv, DeadlineInv, Probing, NoKey,
  container, ui
<1>1. CASE IsRunningFails
  BY <1>1 DEF IsRunningFails, Return
<1>2. CASE IsRunningAnswers
  BY <1>2 DEF IsRunningAnswers
<1>3. CASE ExitWaitReceives
  BY <1>3 DEF ExitWaitReceives, Return
<1>4. CASE ExitWaitTimesOut
  BY <1>4 DEF ExitWaitTimesOut, Return
<1>5. CASE HealthAnswers200
  BY <1>5 DEF HealthAnswers200, Return
<1>6. CASE KeepPolling
  BY <1>6 DEF KeepPolling, NotReady
<1>7. CASE TimeOut
  BY <1>7 DEF TimeOut, NotReady, Return
<1>8. CASE AskUser
  BY <1>8 DEF AskUser, NotReady
<1>9. CASE ConfirmStop
  BY <1>9 DEF ConfirmStop, NotReady
<1>10. CASE StopAndReturn
  BY <1>10 DEF StopAndReturn, Return
<1>11. CASE SelectCancelled
  BY <1>11 DEF SelectCancelled, Return
<1>12. CASE SelectPromptCancelled
  BY <1>12 DEF SelectPromptCancelled, Receive
<1>13. CASE SelectStop
  BY <1>13 DEF SelectStop, Receive, Probe
<1>14. CASE SelectKeepWaiting
  BY <1>14 DEF SelectKeepWaiting, Receive
<1>15. CASE SelectExit
  BY <1>15 DEF SelectExit, Return
<1>16. CASE SelectDeadline
  BY <1>16 DEF SelectDeadline, Probe
<1>17. CASE SelectTick
  BY <1>17 DEF SelectTick, Probe
<1>18. CASE BecomeReady
  BY <1>18 DEF BecomeReady
<1>19. CASE ContainerExits
  BY <1>19 DEF ContainerExits
<1>20. CASE WaitDelivers
  BY <1>20 DEF WaitDelivers, Deliver
<1>21. CASE WaitFails
  BY <1>21 DEF WaitFails, Deliver
<1>22. CASE DeadlineFires
  BY <1>22 DEF DeadlineFires
<1>23. CASE TickFires
  BY <1>23 DEF TickFires
<1>24. CASE UiShows
  BY <1>24 DEF UiShows
<1>25. ASSUME NEW key \in {"w", "s"}, UserAnswers(key) PROVE PromptInv'
  BY <1>25 DEF UserAnswers
<1>26. CASE Interrupt
  BY <1>26 DEF Interrupt
<1>27. CASE UNCHANGED vars
  BY <1>27 DEF vars
<1>28. CASE UiRetracts
  BY <1>28 DEF UiRetracts
<1> QED
  BY <1>1, <1>2, <1>3, <1>4, <1>5, <1>6, <1>7, <1>8, <1>9, <1>10, <1>11, <1>12, <1>13,
    <1>14, <1>15, <1>16, <1>17, <1>18, <1>19, <1>20, <1>21, <1>22, <1>23, <1>24, <1>25,
    <1>26, <1>27, <1>28 DEF Next, Monitor, Rest

\* No step re-arms the deadline under a prompt.
LEMMA DeadlineStep == Inv /\ [Next]_vars => DeadlineInv'
<1> SUFFICES ASSUME Inv, [Next]_vars PROVE DeadlineInv'
  OBVIOUS
<1> USE ExitCodesAssumption DEF Inv, TypeOK, DeadlineInv, Probing, container, ui
<1>1. CASE IsRunningFails
  BY <1>1 DEF IsRunningFails, Return
<1>2. CASE IsRunningAnswers
  BY <1>2 DEF IsRunningAnswers
<1>3. CASE ExitWaitReceives
  BY <1>3 DEF ExitWaitReceives, Return
<1>4. CASE ExitWaitTimesOut
  BY <1>4 DEF ExitWaitTimesOut, Return
<1>5. CASE HealthAnswers200
  BY <1>5 DEF HealthAnswers200, Return
<1>6. CASE KeepPolling
  BY <1>6 DEF KeepPolling, NotReady
<1>7. CASE TimeOut
  BY <1>7 DEF TimeOut, NotReady, Return
<1>8. CASE AskUser
  BY <1>8 DEF AskUser, NotReady
<1>9. CASE ConfirmStop
  BY <1>9 DEF ConfirmStop, NotReady
<1>10. CASE StopAndReturn
  BY <1>10 DEF StopAndReturn, Return
<1>11. CASE SelectCancelled
  BY <1>11 DEF SelectCancelled, Return
<1>12. CASE SelectPromptCancelled
  BY <1>12 DEF SelectPromptCancelled, Receive
<1>13. CASE SelectStop
  BY <1>13 DEF SelectStop, Receive, Probe
<1>14. CASE SelectKeepWaiting
  BY <1>14 DEF SelectKeepWaiting, Receive
<1>15. CASE SelectExit
  BY <1>15 DEF SelectExit, Return
<1>16. CASE SelectDeadline
  BY <1>16 DEF SelectDeadline, Probe
<1>17. CASE SelectTick
  BY <1>17 DEF SelectTick, Probe
<1>18. CASE BecomeReady
  BY <1>18 DEF BecomeReady
<1>19. CASE ContainerExits
  BY <1>19 DEF ContainerExits
<1>20. CASE WaitDelivers
  BY <1>20 DEF WaitDelivers, Deliver
<1>21. CASE WaitFails
  BY <1>21 DEF WaitFails, Deliver
<1>22. CASE DeadlineFires
  BY <1>22 DEF DeadlineFires
<1>23. CASE TickFires
  BY <1>23 DEF TickFires
<1>24. CASE UiShows
  BY <1>24 DEF UiShows
<1>25. ASSUME NEW key \in {"w", "s"}, UserAnswers(key) PROVE DeadlineInv'
  BY <1>25 DEF UserAnswers
<1>26. CASE Interrupt
  BY <1>26 DEF Interrupt
<1>27. CASE UNCHANGED vars
  BY <1>27 DEF vars
<1>28. CASE UiRetracts
  BY <1>28 DEF UiRetracts
<1> QED
  BY <1>1, <1>2, <1>3, <1>4, <1>5, <1>6, <1>7, <1>8, <1>9, <1>10, <1>11, <1>12, <1>13,
    <1>14, <1>15, <1>16, <1>17, <1>18, <1>19, <1>20, <1>21, <1>22, <1>23, <1>24, <1>25,
    <1>26, <1>27, <1>28 DEF Next, Monitor, Rest

\* No step forgets that the emulator was ready at the decision.
LEMMA DecisionStep == Inv /\ [Next]_vars => DecisionInv'
<1> SUFFICES ASSUME Inv, [Next]_vars PROVE DecisionInv'
  OBVIOUS
<1> USE ExitCodesAssumption DEF Inv, TypeOK, DecisionInv, NoReadyEmulatorGivenUp,
  ResultInv, Probing, Outcome, Exited, Pending, container, ui
<1>1. CASE IsRunningFails
  BY <1>1 DEF IsRunningFails, Return
<1>2. CASE IsRunningAnswers
  BY <1>2 DEF IsRunningAnswers
<1>3. CASE ExitWaitReceives
  BY <1>3 DEF ExitWaitReceives, Return
<1>4. CASE ExitWaitTimesOut
  BY <1>4 DEF ExitWaitTimesOut, Return
<1>5. CASE HealthAnswers200
  BY <1>5 DEF HealthAnswers200, Return
<1>6. CASE KeepPolling
  BY <1>6 DEF KeepPolling, NotReady
<1>7. CASE TimeOut
  BY <1>7 DEF TimeOut, NotReady, Return
<1>8. CASE AskUser
  BY <1>8 DEF AskUser, NotReady
<1>9. CASE ConfirmStop
  BY <1>9 DEF ConfirmStop, NotReady
<1>10. CASE StopAndReturn
  BY <1>10 DEF StopAndReturn, Return
<1>11. CASE SelectCancelled
  BY <1>11 DEF SelectCancelled, Return
<1>12. CASE SelectPromptCancelled
  BY <1>12 DEF SelectPromptCancelled, Receive
<1>13. CASE SelectStop
  <2>1. readyAtDecision' => emulator = "ready"
    BY <1>13, Zenon DEF SelectStop
  <2> QED
    BY <1>13, <2>1 DEF SelectStop, Receive, Probe
<1>14. CASE SelectKeepWaiting
  BY <1>14 DEF SelectKeepWaiting, Receive
<1>15. CASE SelectExit
  <2>1. CASE exitCh = Unknown
    BY <1>15, <2>1 DEF SelectExit
  <2>2. CASE exitCh # Unknown
    BY <1>15, <2>2 DEF SelectExit, Return
  <2> QED
    BY <2>1, <2>2
<1>16. CASE SelectDeadline
  <2>1. readyAtDecision' => emulator = "ready"
    BY <1>16, Zenon DEF SelectDeadline
  <2> QED
    BY <1>16, <2>1 DEF SelectDeadline, Probe
<1>17. CASE SelectTick
  BY <1>17 DEF SelectTick, Probe
<1>18. CASE BecomeReady
  BY <1>18 DEF BecomeReady
<1>19. CASE ContainerExits
  BY <1>19 DEF ContainerExits
<1>20. CASE WaitDelivers
  BY <1>20 DEF WaitDelivers, Deliver
<1>21. CASE WaitFails
  BY <1>21 DEF WaitFails, Deliver
<1>22. CASE DeadlineFires
  BY <1>22 DEF DeadlineFires
<1>23. CASE TickFires
  BY <1>23 DEF TickFires
<1>24. CASE UiShows
  BY <1>24 DEF UiShows
<1>25. ASSUME NEW key \in {"w", "s"}, UserAnswers(key) PROVE DecisionInv'
  BY <1>25 DEF UserAnswers
<1>26. CASE Interrupt
  BY <1>26 DEF Interrupt
<1>27. CASE UNCHANGED vars
  BY <1>27 DEF vars
<1>28. CASE UiRetracts
  BY <1>28 DEF UiRetracts
<1> QED
  BY <1>1, <1>2, <1>3, <1>4, <1>5, <1>6, <1>7, <1>8, <1>9, <1>10, <1>11, <1>12, <1>13,
    <1>14, <1>15, <1>16, <1>17, <1>18, <1>19, <1>20, <1>21, <1>22, <1>23, <1>24, <1>25,
    <1>26, <1>27, <1>28 DEF Next, Monitor, Rest

\* No step invents an exit, an exit code or an interrupt.
LEMMA ExitStep == Inv /\ [Next]_vars => ExitInv'
<1> SUFFICES ASSUME Inv, [Next]_vars PROVE ExitInv'
  OBVIOUS
<1> USE ExitCodesAssumption DEF Inv, TypeOK, ExitInv, VerdictTrue, ResultInv, Outcome,
  Exited, Pending, Unknown, Empty, NoKey, container, ui
<1>1. CASE IsRunningFails
  BY <1>1 DEF IsRunningFails, Return
<1>2. CASE IsRunningAnswers
  BY <1>2 DEF IsRunningAnswers
<1>3. CASE ExitWaitReceives
  BY <1>3 DEF ExitWaitReceives, Return
<1>4. CASE ExitWaitTimesOut
  BY <1>4 DEF ExitWaitTimesOut, Return
<1>5. CASE HealthAnswers200
  BY <1>5 DEF HealthAnswers200, Return
<1>6. CASE KeepPolling
  BY <1>6 DEF KeepPolling, NotReady
<1>7. CASE TimeOut
  BY <1>7 DEF TimeOut, NotReady, Return
<1>8. CASE AskUser
  BY <1>8 DEF AskUser, NotReady
<1>9. CASE ConfirmStop
  BY <1>9 DEF ConfirmStop, NotReady
<1>10. CASE StopAndReturn
  BY <1>10 DEF StopAndReturn, Return
<1>11. CASE SelectCancelled
  BY <1>11 DEF SelectCancelled, Return
<1>12. CASE SelectPromptCancelled
  BY <1>12 DEF SelectPromptCancelled, Receive
<1>13. CASE SelectStop
  BY <1>13 DEF SelectStop, Receive, Probe
<1>14. CASE SelectKeepWaiting
  BY <1>14 DEF SelectKeepWaiting, Receive
<1>15. CASE SelectExit
  <2>1. CASE exitCh = Unknown
    BY <1>15, <2>1 DEF SelectExit
  <2>2. CASE exitCh # Unknown
    BY <1>15, <2>2 DEF SelectExit, Return
  <2> QED
    BY <2>1, <2>2
<1>16. CASE SelectDeadline
  BY <1>16 DEF SelectDeadline, Probe
<1>17. CASE SelectTick
  BY <1>17 DEF SelectTick, Probe
<1>18. CASE BecomeReady
  BY <1>18 DEF BecomeReady
<1>19. CASE ContainerExits
  BY <1>19 DEF ContainerExits
<1>20. CASE WaitDelivers
  BY <1>20 DEF WaitDelivers, Deliver
<1>21. CASE WaitFails
  BY <1>21 DEF WaitFails, Deliver
<1>22. CASE DeadlineFires
  BY <1>22 DEF DeadlineFires
<1>23. CASE TickFires
  BY <1>23 DEF TickFires
<1>24. CASE UiShows
  BY <1>24 DEF UiShows
<1>25. ASSUME NEW key \in {"w", "s"}, UserAnswers(key) PROVE ExitInv'
  BY <1>25 DEF UserAnswers
<1>26. CASE Interrupt
  BY <1>26 DEF Interrupt
<1>27. CASE UNCHANGED vars
  BY <1>27 DEF vars
<1>28. CASE UiRetracts
  BY <1>28 DEF UiRetracts
<1> QED
  BY <1>1, <1>2, <1>3, <1>4, <1>5, <1>6, <1>7, <1>8, <1>9, <1>10, <1>11, <1>12, <1>13,
    <1>14, <1>15, <1>16, <1>17, <1>18, <1>19, <1>20, <1>21, <1>22, <1>23, <1>24, <1>25,
    <1>26, <1>27, <1>28 DEF Next, Monitor, Rest

\* Only a return sets the result.
LEMMA ResultStep == Inv /\ [Next]_vars => ResultInv'
<1> SUFFICES ASSUME Inv, [Next]_vars PROVE ResultInv'
  OBVIOUS
<1> USE ExitCodesAssumption DEF Inv, ResultInv, container, ui
<1>1. CASE IsRunningFails
  BY <1>1 DEF IsRunningFails, Return
<1>2. CASE IsRunningAnswers
  BY <1>2 DEF IsRunningAnswers
<1>3. CASE ExitWaitReceives
  BY <1>3 DEF ExitWaitReceives, Return
<1>4. CASE ExitWaitTimesOut
  BY <1>4 DEF ExitWaitTimesOut, Return
<1>5. CASE HealthAnswers200
  BY <1>5 DEF HealthAnswers200, Return
<1>6. CASE KeepPolling
  BY <1>6 DEF KeepPolling, NotReady
<1>7. CASE TimeOut
  BY <1>7 DEF TimeOut, NotReady, Return
<1>8. CASE AskUser
  BY <1>8 DEF AskUser, NotReady
<1>9. CASE ConfirmStop
  BY <1>9 DEF ConfirmStop, NotReady
<1>10. CASE StopAndReturn
  BY <1>10 DEF StopAndReturn, Return
<1>11. CASE SelectCancelled
  BY <1>11 DEF SelectCancelled, Return
<1>12. CASE SelectPromptCancelled
  BY <1>12 DEF SelectPromptCancelled, Receive
<1>13. CASE SelectStop
  BY <1>13 DEF SelectStop, Receive, Probe
<1>14. CASE SelectKeepWaiting
  BY <1>14 DEF SelectKeepWaiting, Receive
<1>15. CASE SelectExit
  BY <1>15 DEF SelectExit, Return
<1>16. CASE SelectDeadline
  BY <1>16 DEF SelectDeadline, Probe
<1>17. CASE SelectTick
  BY <1>17 DEF SelectTick, Probe
<1>18. CASE BecomeReady
  BY <1>18 DEF BecomeReady
<1>19. CASE ContainerExits
  BY <1>19 DEF ContainerExits
<1>20. CASE WaitDelivers
  BY <1>20 DEF WaitDelivers, Deliver
<1>21. CASE WaitFails
  BY <1>21 DEF WaitFails, Deliver
<1>22. CASE DeadlineFires
  BY <1>22 DEF DeadlineFires
<1>23. CASE TickFires
  BY <1>23 DEF TickFires
<1>24. CASE UiShows
  BY <1>24 DEF UiShows
<1>25. ASSUME NEW key \in {"w", "s"}, UserAnswers(key) PROVE ResultInv'
  BY <1>25 DEF UserAnswers
<1>26. CASE Interrupt
  BY <1>26 DEF Interrupt
<1>27. CASE UNCHANGED vars
  BY <1>27 DEF vars
<1>28. CASE UiRetracts
  BY <1>28 DEF UiRetracts
<1> QED
  BY <1>1, <1>2, <1>3, <1>4, <1>5, <1>6, <1>7, <1>8, <1>9, <1>10, <1>11, <1>12, <1>13,
    <1>14, <1>15, <1>16, <1>17, <1>18, <1>19, <1>20, <1>21, <1>22, <1>23, <1>24, <1>25,
    <1>26, <1>27, <1>28 DEF Next, Monitor, Rest

\* The invariant holds initially.
LEMMA InitInv == Init => Inv
<1> SUFFICES ASSUME Init PROVE Inv
  OBVIOUS
<1> USE ExitCodesAssumption
<1>1. Values
  BY OutcomeTypes DEF Init, Values, Pending
<1>2. Flags
  BY Zenon DEF Init, Flags
<1>3. PromptInv /\ DeadlineInv /\ ResultInv
  BY DEF Init, PromptInv, DeadlineInv, ResultInv, Probing
<1>4. DecisionInv
  BY DEF Init, DecisionInv, NoReadyEmulatorGivenUp, Pending, Outcome
<1>5. ExitInv
  BY DEF Init, ExitInv, VerdictTrue, Pending, Outcome, Empty, NoKey
<1> QED
  BY <1>1, <1>2, <1>3, <1>4, <1>5 DEF Inv, TypeOK, Values, Flags

\* Inv is an invariant of await.
THEOREM InvHolds == Spec => []Inv
<1>1. Inv /\ [Next]_vars => Inv'
  BY TypeStep, PromptStep, DeadlineStep, DecisionStep, ExitStep, ResultStep DEF Inv
<1> QED
  BY InitInv, <1>1, PTL DEF Spec

\* Every variable of await keeps its type.
THEOREM TypeCorrect == Spec => []TypeOK
<1>1. Inv => TypeOK
  BY DEF Inv
<1> QED
  BY InvHolds, <1>1, PTL

\* await never gives up on an emulator that was ready when it took the deadline
\* or the "s" key.
THEOREM ReadyEmulatorKept == Spec => []NoReadyEmulatorGivenUp
<1>1. Inv => NoReadyEmulatorGivenUp
  BY DEF Inv, DecisionInv
<1> QED
  BY InvHolds, <1>1, PTL

\* What await returns is true of the container.
THEOREM VerdictIsTrue == Spec => []VerdictTrue
<1>1. Inv => VerdictTrue
  BY DEF Inv, ExitInv
<1> QED
  BY InvHolds, <1>1, PTL

\* No prompt is left on screen that nobody reads.
THEOREM PromptsAreRead == Spec => []NoOrphanPrompt
<1>1. Inv => NoOrphanPrompt
  BY DEF Inv, PromptInv, NoOrphanPrompt
<1> QED
  BY InvHolds, <1>1, PTL

\* No prompt replaces an unanswered one.
THEOREM PromptsAreKept == Spec => PromptNeverReplaced
<1>1. Inv /\ [Next]_vars => [AskUser => ~asking]_vars
  BY DEF Inv, DeadlineInv, Probing, AskUser, NotReady
<1> QED
  BY InvHolds, <1>1, PTL DEF Spec, PromptNeverReplaced

-----------------------------------------------------------------------------
\* The refinement. Where await is tells which stage its wait is at.
LEMMA Stages ==
  ASSUME TypeOK
  PROVE  /\ pc = "returned" <=> WaitStage = "over"
         /\ pc = "stopping" <=> WaitStage = "stopping"
         /\ pc \in {"isRunning", "exitWait", "healthGet", "select"} <=> WaitStage = "waiting"
BY DEF TypeOK, WaitStage

LEMMA WaitInit == Init => Wait!Init
BY DEF Init, Wait!Init, WaitStage, Pending, Outcome, Wait!Verdict

\* A return from the loop ends the wait, and one from the stop its last stage.
LEMMA ReturnEnds ==
  ASSUME TypeOK, TypeOK', NEW v, pc # "returned", pc' = "returned", result' = v,
         UNCHANGED <<interactive, cancelled>>
  PROVE  /\ pc # "stopping" => Wait!Ends("waiting", v)
         /\ pc = "stopping" => Wait!Ends("stopping", v)
<1>1. WaitStage' = "over"
  BY DEF WaitStage
<1>2. (pc # "stopping" => WaitStage = "waiting") /\ (pc = "stopping" => WaitStage = "stopping")
  BY Stages DEF TypeOK
<1> QED BY <1>1, <1>2, Zenon DEF Wait!Ends

\* Every step of await and around it is a step of the wait, or none.
LEMMA WaitStep == Inv /\ Inv' /\ [Next]_vars => [Wait!Next]_(Wait!vars)
<1> SUFFICES ASSUME Inv, Inv', [Next]_vars PROVE Wait!Next \/ UNCHANGED Wait!vars
  BY DEF Wait!vars
<1> USE ExitCodesAssumption DEF container, ui
<1>0. /\ TypeOK /\ TypeOK' /\ DeadlineInv /\ ExitInv
      /\ \A k : Outcome(k) = Wait!Verdict(k)
  BY DEF Inv, Outcome, Wait!Verdict
\* What leaves the container, the command, the stage and the result alone.
<1>q. ASSUME UNCHANGED <<interactive, emulator, exitCode, cancelled, result>>,
             pc' = pc \/ {pc, pc'} \cap {"stopping", "returned"} = {}
      PROVE  UNCHANGED Wait!vars
  BY <1>q DEF Wait!vars, WaitStage
<1>1. CASE IsRunningFails
  <2>1. CASE cancelled
    <3>1. Wait!FindsInterrupt
      BY <1>0, <1>1, <2>1, ReturnEnds DEF IsRunningFails, Return, Wait!FindsInterrupt
    <3> QED BY <3>1 DEF Wait!Next
  <2>2. CASE ~cancelled
    <3>1. Wait!CheckFails
      BY <1>0, <1>1, <2>2, ReturnEnds DEF IsRunningFails, Return, Wait!CheckFails
    <3> QED BY <3>1 DEF Wait!Next
  <2> QED BY <2>1, <2>2
<1>2. CASE IsRunningAnswers
  BY <1>2, <1>q DEF IsRunningAnswers
<1>3. CASE ExitWaitReceives \/ ExitWaitTimesOut
  <2>1. PICK c \in {exitCode, Unknown} : Exited(c) = result'
    BY <1>0, <1>3 DEF ExitWaitReceives, ExitWaitTimesOut, Return, TypeOK, ExitInv, Exited
  <2>2. Wait!FindsExited
    BY <1>0, <1>3, <2>1, ReturnEnds
      DEF ExitWaitReceives, ExitWaitTimesOut, Return, ExitInv, Exited, Wait!FindsExited
  <2> QED BY <2>2 DEF Wait!Next
<1>4. CASE HealthAnswers200
  <2>1. Wait!FindsReady
    BY <1>0, <1>4, ReturnEnds DEF HealthAnswers200, Return, Wait!FindsReady
  <2> QED BY <2>1 DEF Wait!Next
<1>5. CASE KeepPolling \/ AskUser
  BY <1>5, <1>q DEF KeepPolling, AskUser, NotReady
<1>6. CASE TimeOut
  <2>1. Wait!GivesUp
    BY <1>0, <1>6, ReturnEnds DEF TimeOut, NotReady, Return, Wait!GivesUp
  <2> QED BY <2>1 DEF Wait!Next
<1>7. CASE ConfirmStop
  <2>1. interactive /\ WaitStage = "waiting" /\ WaitStage' = "stopping"
    BY <1>0, <1>7 DEF ConfirmStop, NotReady, DeadlineInv, Probing, WaitStage
  <2>2. Wait!ChoosesStop
    BY <1>7, <2>1 DEF ConfirmStop, NotReady, Wait!ChoosesStop
  <2> QED BY <2>2 DEF Wait!Next
<1>8. CASE StopAndReturn
  <2>1. Wait!Stops
    BY <1>0, <1>8, ReturnEnds DEF StopAndReturn, Return, Wait!Stops
  <2> QED BY <2>1 DEF Wait!Next
<1>9. CASE SelectCancelled \/ SelectPromptCancelled
  <2>1. Wait!FindsInterrupt
    BY <1>0, <1>9, ReturnEnds
      DEF SelectCancelled, SelectPromptCancelled, Receive, Return, ExitInv, Wait!FindsInterrupt
  <2> QED BY <2>1 DEF Wait!Next
<1>10. CASE SelectStop \/ SelectKeepWaiting \/ SelectDeadline \/ SelectTick
  BY <1>10, <1>q DEF SelectStop, SelectKeepWaiting, SelectDeadline, SelectTick, Receive, Probe
<1>11. CASE SelectExit
  <2>1. CASE exitCh = Unknown
    BY <1>11, <2>1, <1>q DEF SelectExit
  <2>2. CASE exitCh # Unknown
    <3>1. exitCh = exitCode /\ emulator = "exited"
      BY <1>0, <1>11, <2>2 DEF SelectExit, TypeOK, ExitInv
    <3>2. Wait!FindsExited
      BY <1>0, <1>11, <2>2, <3>1, ReturnEnds DEF SelectExit, Return, Exited, Wait!FindsExited
    <3> QED BY <3>2 DEF Wait!Next
  <2> QED BY <2>1, <2>2
<1>12. CASE BecomeReady
  <2>1. Wait!BecomesReady
    BY <1>12 DEF BecomeReady, Wait!BecomesReady, WaitStage
  <2> QED BY <2>1 DEF Wait!Next
<1>13. CASE ContainerExits
  <2>1. Wait!Exits
    BY <1>13 DEF ContainerExits, Wait!Exits, WaitStage
  <2> QED BY <2>1 DEF Wait!Next
<1>14. CASE WaitDelivers \/ WaitFails \/ DeadlineFires \/ TickFires \/ UiShows \/ UiRetracts
  BY <1>14, <1>q DEF WaitDelivers, WaitFails, Deliver, DeadlineFires, TickFires, UiShows, UiRetracts
<1>15. ASSUME NEW key \in {"w", "s"}, UserAnswers(key) PROVE UNCHANGED Wait!vars
  BY <1>15, <1>q DEF UserAnswers
<1>16. CASE Interrupt
  <2>1. Wait!Interrupts
    BY <1>16 DEF Interrupt, Wait!Interrupts, WaitStage
  <2> QED BY <2>1 DEF Wait!Next
<1>17. CASE UNCHANGED vars
  BY <1>17, <1>q DEF vars
<1> QED
  BY <1>1, <1>2, <1>3, <1>4, <1>5, <1>6, <1>7, <1>8, <1>9, <1>10, <1>11, <1>12, <1>13, <1>14,
    <1>15, <1>16, <1>17 DEF Next, Monitor, Rest

\* await is one wait with one verdict, for any exit codes: whatever its loop of
\* probes, timers and questions does, a caller sees a step of ReadinessWait.
THEOREM AwaitImplementsWait == Spec => AwaitIsOneWait
<1> QED
  BY InvHolds, WaitInit, WaitStep, PTL DEF Spec, AwaitIsOneWait, Wait!Spec
=============================================================================
