SPECIFICATION FairSpec
CONSTANTS
  MaxCalls = 6
  MaxLaunches = 3
  MaxQuestions = 2
INVARIANTS AnswersMatch QuestionsAnswered ResultNotDropped TheyTakeTurns 
PROPERTY CallsReturn
CHECK_DEADLOCK FALSE
