SPECIFICATION Spec
CONSTANTS
  Existing = {ann}
  Emails = {ann, new}
  Devices = {Unknown, GoogleOAuth}
  Unknown = Unknown
  GoogleOAuth = GoogleOAuth
  Requests = {r1, r2, r3}
  None = None
CHECK_DEADLOCK FALSE
SYMMETRY Symmetry
INVARIANTS
  CreatedHasAccount
  OneRowPerEmail
  EnabledIsVerified
  TokensKeepToTheirUser
PROPERTY ClosedByOwner
