SPECIFICATION FairSpec
CONSTANTS
  a1 = a1
  a2 = a2
  Asks <- Two
  Front <- PayingAndOthers
  Long = {a2}
  Price <- Prices
  Max <- Maxima
  MaxParallel = 1
  MaxFaults = 1
CHECK_DEADLOCK FALSE
INVARIANTS TypeOK SlotsAreFull
PROPERTIES KeepsContract PaidIsAnswered AskSettles ServerLetsGo
