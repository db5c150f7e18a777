CONSTANTS
  Requests = {a, b}
  Tokens = {t1, t2, t3}
  NoToken = NoToken
SPECIFICATION LiveSpec
INVARIANTS TypeOK AuthenticatedHasToken LogoutEndsSession
PROPERTY EveryRequestSettles
