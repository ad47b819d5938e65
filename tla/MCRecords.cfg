SPECIFICATION Spec
CONSTANTS
  ann = ann  bob = bob  iban = iban  other = other
  early = early  credit = credit  debit = debit  late = late
  Customers = {ann, bob}
  Ibans = {iban, other}
  OldRows <- Old
  Entries = {early, credit, debit, late}
  AccountOf <- Account  SideOf <- Side  DateOf <- Date
  From = {2, 3}  To = {2}
  Requests = {r1, r2}
  Polls = {p1, p2}
  None = None
CHECK_DEADLOCK FALSE
SYMMETRY Symmetry
CONSTRAINT OnePart
INVARIANTS
  TrailSound
  LatestNoticeAgrees
  ToastsSound
  StatementAddsUp
