CONSTANTS
  Procs = {p1, p2}
  Kinds = {"logout"}
  Tokens = {t1, t2}
  KeyringReturns = TRUE
SPECIFICATION Spec
INVARIANT LogoutClearsFile
