SPECIFICATION Spec
CONSTANTS
  Payloads <- Answers
  Noise = {1, 35}
  kMaxSlaveCount = 7
  MaxFrames = 4
INVARIANTS TypeOK OnlySentAccepted DamageIsContained OnlyHitFrameLost SurvivesNoise
CHECK_DEADLOCK FALSE
