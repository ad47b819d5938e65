SPECIFICATION Safety
CONSTANTS
  ann = ann  bob = bob
  checking = checking  savings = savings  other = other  settlement = settlement
  external = external
  payee = payee  shop = shop
  Users = {bob}
  Accounts = {settlement, external}
  System = {settlement, external}
  Owner <- OwnerBank
  Payees = {}
  PayeeOwner <- Nothing
  PayeeAccount <- Nothing
  Merchants = {shop}
  ActiveMerchants = {shop}
  Settlement <- SettlementExternal
  Keys = {k1}
  NoKey = NoKey
  None = None
  Requests = {r1, r2}
  Calls <- CallsSettlement
  Threshold = 5
  MaxAttempts = 2
  OpeningBalance <- OpeningSettlement
CHECK_DEADLOCK FALSE
INVARIANTS
  PaymentsSpareSystemAccounts
