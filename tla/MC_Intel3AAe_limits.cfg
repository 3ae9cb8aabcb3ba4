CONSTANTS
  SceneModes <- MCSceneModes
  PlatformExpRange <- MCPlatformExpRange
  PlatformGainRange <- MCPlatformGainRange
  Unsupported = Unsupported
  ExposureNum <- MCExposureNum
  MaxExposures = 2
  BaseIso = 100
  IntMax = 5000
  ExpTimes <- LimitExpTimes
  Gains <- LimitGains
  Isos <- LimitIsos
  AePriorities <- LimitPriorities
  FpsRanges <- LimitFpsRanges
  FpsValues <- LimitFpsValues
  ExpTimeRanges <- LimitExpTimeRanges
  GainRanges <- LimitGainRanges
  EvShifts = {0}
  BlcAreaModes = {"ON"}
  AeSpeedModes = {"HAL"}
  ConvergeSpeeds = {"NORMAL"}
  SpeedTime <- MCSpeedTime
  IaCoordMax = 8192
  AwbGainMax = 255
  NormStart = 1
  NormEnd = 8
  Windows <- MCWindows
  Resolutions <- MCResolutions
  NoRegion = NoRegion
INIT InitAe
NEXT NextAe
INVARIANTS
  ManualLimitsWithinPlatform
  IsoLimitsPaired
