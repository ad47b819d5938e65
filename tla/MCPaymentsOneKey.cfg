SPECIFICATION Safety
CONSTANTS
  ann = ann  bob = bob
  checking = checking  savings = savings  other = other  settlement = settlement
  external = external
  payee = payee  shop = shop
  Users = {ann, bob}
  Accounts = {checking, savings, other, settlement}
  System = {settlement}
  Owner <- OwnerOf
  Payees = {payee}
  PayeeOwner <- PayeeOwnerOf
  PayeeAccount <- PayeeAccountOf
  Merchants = {shop}
  ActiveMerchants = {shop}
  Settlement <- SettlementOf
  Keys = {k1}
  NoKey = NoKey
  None = None
  Requests = {r1, r2, r3}
  Calls <- CallsOneKey
  Threshold = 1
  MaxAttempts = 2
  OpeningBalance <- OpeningOneKey
CHECK_DEADLOCK FALSE
SYMMETRY Symmetry
INVARIANTS
  TypeOK
  AtMostOncePerKey
  KeyRowsMatchPostings
  AnswersAreTrue
  LargePaymentsConfirmed
  MerchantNoticeAtomic
  LedgerBacked
PROPERTY ImplementsApi
