CONSTANTS
  Procs = {p1}
  Kinds = {"logout"}
  Tokens = {t1}
  KeyringReturns = TRUE
SPECIFICATION Spec
INVARIANT LogoutRemovesToken
