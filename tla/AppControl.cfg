SPECIFICATION Spec
CONSTANTS
  Payloads <- MCPayloads
  UrlLen = 26
  AddLen = 81
  MaxOps = 2
  MaxChanges = 1
  MaxLost = 1
CHECK_DEADLOCK FALSE
INVARIANTS TypeOK LastCommandHolds PayloadDelivered WaitBounded
PROPERTIES OnlyAsAsked
