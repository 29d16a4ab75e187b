---------------------------- MODULE MCStartFlow ----------------------------
(***************************************************************************)
(* One command: every way to run it, in every world it may find. Two       *)
(* commands: the worlds in which they meet on the container name.          *)
(***************************************************************************)
EXTENDS StartFlow, TLC

MCCommands == {c \in Command : c.env # "new"}

\* Started from a script.
MCScripted == {[interactive |-> FALSE, env |-> "old", emulator |-> "latest"]}

MCLeftovers == {c \in Slots : c.owner \notin Procs}
MCFewLeftovers == {Free, [state |-> "created", owner |-> "earlier"]}

\* The old token may have lost its license, and a new one may not have it either.
MCEntitlements == {{}, {"new"}, Tokens}
MCFewEntitlements == {{}, Tokens}

MCSymmetry == Permutations(Procs)
=============================================================================
