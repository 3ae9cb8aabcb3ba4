CONSTANTS
  FocusDistances <- MCFocusDistances
  MinFocusDistances <- MCMinFocusDistances
  Windows <- MCWindows
  Resolutions <- MCResolutions
  IaCoordMax = 8192
  MaxFocusDistance = 5000
  ZeroFocusAction = "none"
  NoRegion = NoRegion
  ConvergeSpeeds <- MCConvergeSpeeds
  SpeedTime <- MCSpeedTime
  AwbGainMax = 255
  NormStart = 1
  NormEnd = 8
INIT InitAf
NEXT NextAf
INVARIANTS
  SettledScanLocksContinuousPicture
