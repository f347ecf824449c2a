CONSTANTS
  None = None
  AnyValue = AnyValue
  Credential <- PartialCredential
  Singleton = {"A", "B"}
  Obtainable = {"A", "B", "D"}
  Invalid <- NoneInvalid
  Requests <- PartialRequests
  Wallets <- PartialWallets
  MaxAdded = 1
SPECIFICATION Spec
INVARIANT AnswerIsOffered
CHECK_DEADLOCK FALSE
