SPECIFICATION Spec
CONSTANTS
  ZeroVelocity = 2
  MovingHold = 4
  MaxDt = 2
  BaselineCount = 2
  PollMoving = 2
  PollStill = 4
  ClockRange = 17
INVARIANTS
  TypeOK
  SamplingGoesOn
  MovingIsPolledFast
  ReportFollowsMovement
  RestIsNoticed
