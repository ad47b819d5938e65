SPECIFICATION Spec
CONSTANTS
  ann = ann  first = first  second = second
  Users = {ann, bob}
  Cards = {first, second}
  Otps = {o1, o2}
  Owner <- OwnerOf
  Issued = {first}
  Requests = {r1, r2, r3}
  None = None
CHECK_DEADLOCK FALSE
SYMMETRY Symmetry
INVARIANTS
  AuditTrailSound
  StatusMatchesDates
  RevealIsChallenged
