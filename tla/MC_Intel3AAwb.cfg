CONSTANTS
  AwbPresets <- MCAwbPresets
  CctRanges <- MCCctRanges
  WhitePoints <- MCWhitePoints
  AwbGainSets <- MCAwbGainSets
  ColorMatrices = {M1, M2}
  ColorGainSets <- MCColorGainSets
  ZeroMatrix = ZeroMatrix
  EngineMatrix = EngineMatrix
  EngineGains <- MCEngineGains
  EngineRatios <- MCEngineRatios
  AwbSpeedModes = {"HAL"}
  ConvergeSpeeds = {"NORMAL"}
  SpeedTime <- MCSpeedTime
  IaCoordMax = 8192
  AwbGainMax = 255
  NormStart = 1
  NormEnd = 8
  Windows <- MCWindows
  Resolutions <- MCResolutions
  NoRegion = NoRegion
INIT InitAwb
NEXT NextAwb
INVARIANTS
  AwbTypeOK
PROPERTIES
  ResultOverridesFollowLatestRequest
