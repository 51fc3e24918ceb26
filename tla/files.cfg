CONSTANTS
  Misfit = Misfit
  NoValue = NoValue
SPECIFICATION Spec
   
PROPERTY OthersDataSurvives
CHECK_DEADLOCK FALSE
