--------------------------- MODULE ReadinessWait ---------------------------
(***************************************************************************)
(* What the wait for a started container promises its caller: one verdict, *)
(* and each verdict taken in one step, of the container as it is then. A   *)
(* container that is ready at that moment is never given up on; only a     *)
(* wait with a user stops one, and only a wait without gives up.           *)
(***************************************************************************)
EXTENDS Integers

CONSTANTS
  ExitCodes,  \* the exit codes the container may end with
  Unknown     \* in place of a code nobody could tell

VARIABLES
  interactive,  \* there is a user to ask
  state, code,  \* the container: "starting", "ready" or "exited", and its exit code
  interrupted,  \* the command has been interrupted
  stage,        \* "waiting", "stopping" once the user asked for it, "over"
  verdict       \* its kind, and the exit code it tells

vars == <<interactive, state, code, interrupted, stage, verdict>>

Verdict(kind) == [kind |-> kind, code |-> Unknown]

Init ==
  /\ interactive \in BOOLEAN
  /\ state = "starting" /\ code = Unknown
  /\ interrupted = FALSE
  /\ stage = "waiting" /\ verdict = Verdict("none")

Ends(from, v) ==
  /\ stage = from /\ stage' = "over"
  /\ verdict' = v
  /\ UNCHANGED <<interactive, interrupted>>

FindsReady == state = "ready" /\ Ends("waiting", Verdict("ready")) /\ UNCHANGED <<state, code>>

FindsExited ==
  /\ state = "exited"
  /\ \E c \in {code, Unknown} : Ends("waiting", [kind |-> "exited", code |-> c])
  /\ UNCHANGED <<state, code>>

GivesUp ==
  /\ ~interactive /\ state # "ready"
  /\ Ends("waiting", Verdict("timeout"))
  /\ UNCHANGED <<state, code>>

\* The user asks for a stop, and the container is not ready by then.
ChoosesStop ==
  /\ interactive /\ state # "ready"
  /\ stage = "waiting" /\ stage' = "stopping"
  /\ UNCHANGED <<interactive, state, code, interrupted, verdict>>

\* The stop is best effort: it may leave the container as it is.
Stops ==
  /\ Ends("stopping", Verdict("stopped"))
  /\ \/ ~interrupted /\ state # "exited" /\ state' = "exited" /\ code' \in ExitCodes
     \/ UNCHANGED <<state, code>>

FindsInterrupt == interrupted /\ Ends("waiting", Verdict("cancelled")) /\ UNCHANGED <<state, code>>
CheckFails == ~interrupted /\ Ends("waiting", Verdict("checkFailed")) /\ UNCHANGED <<state, code>>

BecomesReady ==
  /\ state = "starting" /\ state' = "ready"
  /\ UNCHANGED <<interactive, code, interrupted, stage, verdict>>

Exits ==
  /\ state # "exited" /\ state' = "exited" /\ code' \in ExitCodes
  /\ UNCHANGED <<interactive, interrupted, stage, verdict>>

Interrupts ==
  /\ interrupted' = TRUE
  /\ UNCHANGED <<interactive, state, code, stage, verdict>>

Next ==
  \/ FindsReady \/ FindsExited \/ GivesUp \/ ChoosesStop \/ Stops \/ FindsInterrupt \/ CheckFails
  \/ BecomesReady \/ Exits \/ Interrupts

Spec == Init /\ [][Next]_vars
=============================================================================
