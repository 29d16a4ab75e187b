CONSTANTS
  Procs = {p1, p2}
  Kinds = {"login", "logout", "start"}
  Tokens = {t1, t2}
  KeyringReturns = FALSE
SPECIFICATION Spec
INVARIANTS TypeOK OneCopy
PROPERTIES RegisterSpec
