\* ... and a sub-agent that asks while the primary waits for input.
SPECIFICATION FairSpec
CONSTANTS
  p = p  s = s
  Coders = {p, s}
  Primary = p
  Registry <- PrimaryFirst
  Askers = {p, s}
  Producers = {tui, ws}
  Set = Set
  MaxTexts = 1
  MaxQuestions = 2
PROPERTIES QuestionReturns
\* texts and questions are bounded
CHECK_DEADLOCK FALSE
