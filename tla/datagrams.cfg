CONSTANTS
  Byte = 16
  Sources <- TwoSenders
  Numbers = {0, 237, 255}
  Windows = {0, 223, 224}
  Bodies <- SmallBodies
SPECIFICATION Spec
CHECK_DEADLOCK FALSE
INVARIANTS DamageIsCaught IntactPasses OneSource
