CONSTANTS
  None = None
  AnyValue = AnyValue
  Credential <- WalkCredential
  Singleton = {"B"}
  Obtainable = {"A", "B"}
  Invalid <- WalkInvalid
  Requests <- WalkRequests
  Wallets <- WalkWallets
  MaxAdded = 3
SPECIFICATION Spec
INVARIANTS TypeOK AnswerIsOffered DialogIsValid WizardLeadsOn StreamSurvives CurrentStepIsPlanned
PROPERTIES ChoiceKept ObtainedStays ReportedIsForgotten
CHECK_DEADLOCK FALSE
