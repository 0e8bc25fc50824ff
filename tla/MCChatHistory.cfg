CONSTANTS
  Prompts <- MCPrompts
  Replies <- MCReplies
  Empty = ""
  Notable <- MCNotable
  Normal <- MCNormal
  Tokens <- MCTokens
  Budget = 20
  MaxExchanges = 4
SPECIFICATION FairSpec
INVARIANTS TypeOK TurnOrder RequestFits NothingForgotten
PROPERTIES EveryPromptSettled
