SPECIFICATION AdminSpec
CONSTANTS
  Requests = {r1, r2}
  Tokens = {t1, t2}
  BadTokens = {t2}
  EnvToken = t1
  Keys = {k1, k2}
  Blank = Blank
  Tabs = {tab1, tab2}
  Names = {admin, bar}
  BarNames = {bar}
  Passwords = {p1, p2}
  TokenExpiry = 2
  NoCookie = NoCookie
INVARIANTS
  AdminTypeOK
  CopiesAgree
  SessionLasts
PROPERTIES
  KeyKept
  CredentialsProved
