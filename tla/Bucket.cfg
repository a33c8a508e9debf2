SPECIFICATION Spec
CONSTANTS
  Keys = {"k"}
  Rate = 2
  Window = 3
  BurstSize = 0
  Requests = {1, 2, 3}
  Delays = {0, 1}
  Horizon = 7
INVARIANTS
  NeverOverGrants
  AnswersAreTight
  ConstantRate
