CONSTANTS
  Pin = {p5, p8}
  LongPin = {p8}
  MaxRequests = 2
SPECIFICATION FairSpec
INVARIANTS TypeOK PinFits AnswersAreOwn OpenAfterPin
PROPERTIES WaitersAreAnswered
