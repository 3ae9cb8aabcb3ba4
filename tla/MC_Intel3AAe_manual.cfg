CONSTANTS
  SceneModes <- MCSceneModes
  PlatformExpRange <- MCPlatformExpRange
  PlatformGainRange <- MCPlatformGainRange
  Unsupported = Unsupported
  ExposureNum <- MCExposureNum
  MaxExposures = 2
  BaseIso = 100
  IntMax = 5000
  ExpTimes <- ManualExpTimes
  Gains <- ManualGains
  Isos <- ManualIsos
  AePriorities <- ManualPriorities
  FpsRanges <- FixedFpsRanges
  FpsValues <- FixedFpsValues
  ExpTimeRanges <- FixedExpTimeRanges
  GainRanges <- FixedGainRanges
  EvShifts = {0}
  BlcAreaModes = {"ON"}
  AeSpeedModes = {"HAL"}
  ConvergeSpeeds = {"NORMAL"}
  SpeedTime <- MCSpeedTime
  IaCoordMax = 8192
  AwbGainMax = 255
  NormStart = 1
  NormEnd = 8
  Windows <- MCWindows
  Resolutions <- MCResolutions
  NoRegion = NoRegion
INIT InitAe
NEXT NextAe
INVARIANTS
  AeTypeOK
  ManualArraysFromLatestRequest
