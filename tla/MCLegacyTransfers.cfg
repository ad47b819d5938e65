SPECIFICATION Spec
CONSTANTS
  ann = ann  bob = bob  checking = checking  other = other
  Users = {ann, bob}
  Accounts = {checking, other}
  Owner <- OwnerOf
  Keys = {k1, k2}
  Requests = {r1, r2, r3}
  Calls <- CallsMade
  StepUpAmount = 5000
  OpeningBalance <- Opening
  Outside = Outside
  None = None
CHECK_DEADLOCK FALSE
SYMMETRY Symmetry
INVARIANTS
  NoOverdraft
  RowsSound
  OnlyExtremeRejected
  OnlyOppositeTransfersDeadlock
PROPERTY ImplementsLedger
