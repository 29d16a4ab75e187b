----------------------------- MODULE MCTerminal -----------------------------
(***************************************************************************)
(* Terminal with the sessions TLC tries: the first start of a new user,    *)
(* later ones with and without a cached label, and any other command.      *)
(***************************************************************************)
EXTENDS Terminal, TLC

Session(start, loading, login, select, local, emits, events) ==
  [start |-> start, loading |-> loading, login |-> login, select |-> select, local |-> local,
   emits |-> emits, events |-> events]
MCSessions ==
  { Session(TRUE, TRUE, TRUE, TRUE, FALSE, 4, FALSE), Session(TRUE, FALSE, FALSE, FALSE, TRUE, 2, FALSE),
    Session(TRUE, TRUE, FALSE, FALSE, FALSE, 2, FALSE), Session(FALSE, FALSE, FALSE, FALSE, FALSE, 4, FALSE),
    Session(TRUE, FALSE, FALSE, FALSE, FALSE, 1, TRUE) }
=============================================================================
