SPECIFICATION Spec
CONSTANTS
  ann = ann  bob = bob
  checking = checking  savings = savings  other = other  settlement = settlement
  external = external
  payee = payee  shop = shop
  Users = {ann}
  Accounts = {checking, savings, settlement}
  System = {settlement}
  Owner <- OwnerAnn
  Payees = {}
  PayeeOwner <- Nothing
  PayeeAccount <- Nothing
  Merchants = {shop}
  ActiveMerchants = {shop}
  Settlement <- SettlementOf
  Keys = {k1, k2}
  NoKey = NoKey
  None = None
  Requests = {r1, r2}
  Calls <- CallsCrossing
  Threshold = 5
  MaxAttempts = 2
  OpeningBalance <- OpeningCrossing
CHECK_DEADLOCK FALSE
INVARIANTS
  NoOverdraft
  OpenTransactionsSound
PROPERTIES
  EveryRequestEnds
  ImplementsLedger
