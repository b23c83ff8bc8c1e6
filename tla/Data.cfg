SPECIFICATION DataSpec
CONSTANTS
  KeepRuns = 5
  CatchUp = 2
  RunRetention = 3
  MarkGap = 2
  Contents = {c1, c2}
  SaveFaults = 1
  LastSlot = 4
  SplitMinutes = 3
  SunPowers = {0, 2}
  MeterPowers <- SplitMeter
  BatteryPowers <- SplitBattery
  MaxHold = 1
  HalfWindow = 1
  IdlePower = 1
  Capacity = 3
  Silent = Silent
  LedgerHours = 2
  FullHour = 2
  FullEnough = 2
  KeepMeasured = 2
  DayLength = 2
  BackHours = 2
  LookBack = 2
  Room = 2
  Weather <- LedgerWeather
  LedgerRestarts = 1
  LedgerMishaps = {"import", "backfill", "rebuild"}
  ExportKind = "statistics"
  KeyOfEntity <- ImportKeys
  ExportRows = 2
  ExportSections = 2
  LastMinute0 = 2
  ExportValues = {0, 2}
  IdleFill = 4
  PriceFill = 2
  DefaultFill = 2
  StateFill = 1
  Unmapped = Unmapped
  Uploaders = {u1, u2}
  MaxUploads = 2
  BillNumbers = {1, 2}
  BillPeriods <- Periods
  PriceLists <- Prices
  DailyUse = 100
  MonthFee = 599
  DayFee = 27
  MonthDays = 30
  Slips = {"position", "tax", "days", "meter"}
  Covered = {40, 100}
  SeriesKinds = {"session", "charge", "flat", "compressor", "rest", "stretch"}
  LastRow = 6
  SeriesValues = {0, 1}
  GapRows = 1
  EnoughRows = 2
  MinRuntime0 = 2
  WatchStarts = 2
  ManyStarts = 3
  BatteryRows <- CheckRows
  CheckStart = 1
  CheckEnd = 7
  Midnights = {1, 3, 6}
  WindowLength = 4
  LevelSize = 5
  LevelStep = 1
  RestPower = 1
  RestMinutes = 2
  StretchMinutes = 2
  StretchLevels = 1
  FullLevel = 2
  LowLevel = 1
  TopLevel = 2
  LossOdd = 5
  ResidualEnough = 1
  SourceDays = 2
  HeatRows <- HeatRows0
  HeatMinutes = 5
  HourMinutes = 4
  MinuteLimit = 4
  GapLimit = 1
  BufferWindow = 2
  PowerLimit = 2
  CopBase = 3
  CopContent = 1
  LossDivisor = 2
  LossUseful = 3
  StoveLow = 2
  StoveHigh = 4
  StoveLevels = 3
  RoomPart = 2
  Circuits <- HeatCircuits
  Scale = 6
  EnergyRows <- HourlyRows
  MonthDays0 <- TwoMonths
  ClockChanges <- Changes
  DayLocalHours = 3
  WeekDays = 2
  ChangeAt = 4
  RankEnough = 4
  VatRate = 19
  ShiftRows <- ShiftRows0
  ShiftDays = 1
  DayHours1 = 4
  FullMinutes = 50
  HoursNeeded = 2
  PartNeeded = 8
  PumpNeeded = 1
  DeviceLimit = 2
  FeedIn = 8
  Rounds = 8
  Fine = 60
INVARIANTS ForecastsServe BookedRight  VerdictRight RunsRight CheckAddsUp  BucketsAddUp 
 
CHECK_DEADLOCK FALSE
