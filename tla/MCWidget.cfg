SPECIFICATION MCSpec
CONSTANTS
  Parts = {"widget", "endpoint", "cart"}
  MaxPresses = 2
  MaxTurns = 2
  MaxSentences = 2
  MaxLoops = 1
  None = None
  Shop = {s1, s2}
  Variant = {v1, v2}
  Req = {q1, q2}
  MaxRetries = 1
  MaxCarts = 2
  MaxAsks = 3
  Rooms = {8, 14}
  Voices = {45}
  Tone = 60
  ToneTime = 2
  Frames = {1, 3}
  CalibrateFrom = 1
  CalibrateTo = 3
  MinSpeech = 3
  CompleteTime = 2
  SilenceTime = 3
  HangingTime = 4
  GiveUpTime = 6
  MaxUtterance = 9
  StartsBy = 4
INVARIANTS
  OneVoiceAtATime
  RetractedIsSilent
  MicIsReleased
  OnlyWhatWasSaid
  NeverMoreThanAsked
  AddsAreKept
  SalesAreTraceable
CHECK_DEADLOCK FALSE
