CONSTANTS
  None = None
  AnyValue = AnyValue
  Credential <- CrossedCredential
  Singleton = {"B"}
  Obtainable = {"A", "B"}
  Invalid <- NoneInvalid
  Requests <- CrossedRequests
  Wallets <- CrossedWallets
  MaxAdded = 1
SPECIFICATION Spec
INVARIANT StreamSurvives
CHECK_DEADLOCK FALSE
