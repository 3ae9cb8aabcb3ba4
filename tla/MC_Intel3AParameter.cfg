CONSTANTS
  ParamRequests <- MCParamRequests
  SensorDescriptors = {D1}
  ZeroDescriptor = ZeroDescriptor
  SceneModes <- MCSceneModes
  PlatformExpRange <- MCPlatformExpRange
  PlatformGainRange <- MCPlatformGainRange
  Unsupported = Unsupported
  ExposureNum <- MCExposureNum
  MaxExposures = 2
  BaseIso = 100
  IntMax = 5000
  ExpTimes = {800}
  Gains = {20}
  Isos = {200}
  AePriorities = {"AUTO"}
  FpsRanges <- MCFpsRanges
  FpsValues = {0}
  ExpTimeRanges <- MCExpTimeRanges
  GainRanges <- MCGainRanges
  EvShifts = {0}
  BlcAreaModes = {"OFF"}
  AeSpeedModes = {"AIQ", "HAL"}
  AwbSpeedModes = {"AIQ", "HAL"}
  ConvergeSpeeds = {"NORMAL", "MID"}
  SpeedTime <- MCSpeedTime
  AwbPresets = {}
  CctRanges <- MCCctRanges
  WhitePoints <- MCWhitePoints
  AwbGainSets <- MCAwbGainSets
  ColorMatrices = {"M1"}
  ColorGainSets <- MCColorGainSets
  ZeroMatrix = ZeroMatrix
  EngineMatrix = EngineMatrix
  EngineGains <- MCEngineGains
  EngineRatios <- MCEngineRatios
  FocusDistances = {1}
  MinFocusDistances = {5}
  MaxFocusDistance = 5000
  ZeroFocusAction = "none"
  IaCoordMax = 8192
  AwbGainMax = 255
  NormStart = 1
  NormEnd = 8
  Windows = {}
  Resolutions <- MCResolutions
  NoRegion = NoRegion
INIT Init
NEXT Next
INVARIANTS
  ConvergenceModeConsistent
  InitClearsOverrides
