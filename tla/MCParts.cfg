SPECIFICATION PartsSpec
CONSTANTS
  Vehicles = {a}
  ProbeAfter = 2
  MaxStreams = 2
  Days <- LiveDays
  Tabs = {t}
  Accounts = {x, y}
  NoAccount = NoAccount
  MaxRequests = 3
  MaxPods = 2
  Catalogue <- FieldCatalogue
  Withheld = {"new"}
  FieldRules <- LeastDeltas
  Absent = Absent
  Trips <- ConsentTrips
  Prices = {10, 23}
  Scale = 10
  DayLength = 2
  Stops <- ChargeStops
  None = None
  Months <- PricingMonths
  Quiet = 1
  MaxInterval = 2
  Volatile = 2
  Stale = 3
  Level = 9
  Nothing = Nothing
  Logs <- CarLogs
  Null = Null
  DayTime = 12
  CarryTime = 3
  Lives <- BatteryLives
  Garage = {1, 2}
  Ids = {1, 2, 3, 4, 5, 6, 7}
  Horizon = 6
  PageSize = 2
  Nil = Nil
  MaxPoints = 12
  Evenings <- SomeEvenings
  Unsaid = Unsaid
  MaxCodes = 2
  Bodies <- RivianBodies
  MaxFrames = 2
  MaxAsks = 3
INVARIANTS
  PartsTypes
  OneReconnect
  SignInSound
  ConsentSound
  HistorySound
  SocketSound
PROPERTIES
  Converges
  PricingSound
  CarTold
CHECK_DEADLOCK FALSE
