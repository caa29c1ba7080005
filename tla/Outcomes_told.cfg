SPECIFICATION OutcomeSpec
CHECK_DEADLOCK FALSE
CONSTANTS
  MaxAttempts = 3
  MaxAnswers = 3
  Codes <- MCCodes
  OutcomeHabits = {}
INVARIANT KnownOutcomeIsReported
