SPECIFICATION DividerSpec
CONSTANT W = 4
INVARIANT AnswersIsa
