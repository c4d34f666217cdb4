\* A primary coder that asks, a sub-agent that does not, two producers.
SPECIFICATION FairSpec
CONSTANTS
  p = p  s = s
  Coders = {p, s}
  Primary = p
  Registry <- PrimaryFirst
  Askers = {p}
  Producers = {tui, ws}
  Set = Set
  MaxTexts = 3
  MaxQuestions = 2
INVARIANTS InputTypeOK TextIsHeard
PROPERTIES TextGetsThrough UncrowdedQuestionReturns
\* texts and questions are bounded
CHECK_DEADLOCK FALSE
