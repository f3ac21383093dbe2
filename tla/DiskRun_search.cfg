SPECIFICATION FairSpec
CONSTANTS
  Keys = {0, 1, 2, 3, 4, 5}
  PageSizes = {1, 2, 3}
  MaxCapacity = 6
  FilterBits <- MCFilterBits
  Word = 31
INVARIANTS TypeOK SearchesAreDefined LookupIsExact RangeIsExact AnswersAsLSM
PROPERTY CallsReturn
