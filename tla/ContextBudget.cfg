SPECIFICATION Spec
CONSTANTS
  MaxMessages = 4
  Lengths = {2, 3}
  EmptyLength = 2
  BytesPerToken = 2
  FixedTokens = 1
  MaxInputTokens = 7
  RecentMessageLimit = 3
  FocusedMessageLimit = 2
INVARIANTS WithinBudget BestChoice RequestKept
