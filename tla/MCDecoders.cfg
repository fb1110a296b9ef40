CONSTANTS
  Narrow <- MCNarrow
  Wide <- MCWide
  First <- MCFirst
SPECIFICATION Spec
INVARIANTS TypeOK DifferExactly ExpansionAgrees StallsMatch
