SPECIFICATION DividerSpec
CONSTANT W = 4
INVARIANTS DividerTypeOK AnsweredOnTime Balanced QuotientRight RemainderRight SignedIdentity
