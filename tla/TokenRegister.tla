--------------------------- MODULE TokenRegister ---------------------------
(***************************************************************************)
(* What the token storage promises the commands that share it: one stored  *)
(* token, read and replaced in one step each. A command may read nothing   *)
(* (storage errors count as no token), but never a token that has been     *)
(* replaced or forgotten.                                                  *)
(***************************************************************************)
CONSTANTS
  Procs,   \* the lstk commands
  Values   \* what may be stored

VARIABLES
  held,  \* the stored token, or "none"
  seen   \* what each command read last

Init ==
  /\ held \in Values \cup {"none"}
  /\ seen = [p \in Procs |-> "none"]

Read(p) ==
  /\ seen' = [seen EXCEPT ![p] = held]
  /\ UNCHANGED held

Miss(p) ==
  /\ seen' = [seen EXCEPT ![p] = "none"]
  /\ UNCHANGED held

Store(v) ==
  /\ held' = v
  /\ UNCHANGED seen

Forget ==
  /\ held' = "none"
  /\ UNCHANGED seen

Next ==
  \/ \E p \in Procs : Read(p) \/ Miss(p)
  \/ \E v \in Values : Store(v)
  \/ Forget

Spec == Init /\ [][Next]_<<held, seen>>
=============================================================================
