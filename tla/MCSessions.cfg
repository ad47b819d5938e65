SPECIFICATION Spec
CONSTANTS
  Users = {ann, bob}
  Registered = {ann}
  Admins = {ann}
  Otps = {o1, o2}
  Requests = {r1, r2, r3, r4}
  None = None
CHECK_DEADLOCK FALSE
SYMMETRY Symmetry
INVARIANTS
  SessionIsProved
  UsedOtpIsGone
  TrailSound
PROPERTY RevokedIsRefused
