SPECIFICATION Spec
CONSTANTS
  PoolSize = 3
  MaxPin = 1
PROPERTY JustReleasedSurvives
