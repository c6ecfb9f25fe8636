SPECIFICATION MCSpec
CONSTANTS
  Letters = {"1", "-"}
  IntMax = 10
  MaxLength = 7
  Char = {"a", "b"}
  MaxLen = 4
  MaxRounds = 5
INVARIANTS
  HelpersTypeOK
  SplitKeepsText
  FirstDefinitionWins
  PortIsConfigured
  FindIsFirst
  ReplacesGiven
PROPERTIES
  LoopsEnd
