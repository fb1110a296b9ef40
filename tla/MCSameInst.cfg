CONSTANTS
  Narrow <- MCPlainNarrow
  Wide <- MCPlainWide
  First <- MCFirst
SPECIFICATION Spec
INVARIANTS SameInstruction
