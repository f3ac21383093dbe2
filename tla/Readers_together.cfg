SPECIFICATION Spec
CONSTANTS
  Rounds <- OneTwoThree
  MaxLookups = 1
INVARIANT LookupsComeThrough
