SPECIFICATION RelaySpec
CONSTANTS
  Fill = {0, 1}
  PageSize = 1
  MaxAnswers = 1
INVARIANT RelayTypeOK
PROPERTIES
  SecretsOnlyWhenReady
  SecretsPublished
CHECK_DEADLOCK FALSE
