\* Two overlapping requests of the web app, two overlapping checks of the app.
CONSTANTS
  Codes = {k1, k2}
  Tokens = {t1, t2}
  Requests = {r1, r2}
  Checks = {c1, c2}
  Busy = 2
  NoCode = NoCode
  NoToken = NoToken
  NoRequest = NoRequest
SPECIFICATION Spec
SYMMETRY Symmetry
INVARIANTS
  TypeOK
  EarlierCodesRetired
  OneSessionPerCode
  SessionsVerified
  SignedInWithToken
  LoadingIsChecked
