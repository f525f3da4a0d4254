CONSTANTS
  outlet = outlet
  Subjects = {"desk", "board", "payees", "payments", "webhooks", "verification", "stand-ins",
              "funding", "clock", "registry"}
  Clerks = {"sweep", "request"}
  Sweep = "sweep"
  Names = {1, 2}
  Outlets = {outlet}
  Contents <- MCContents
  Blank = Blank
  None = None
  Mid <- MCMid
  Codes = {"03"}
  Unknown = "99"
  MaxUploads = 2
  MaxRequests = 1
  MaxFaults = 1
  MaxDeskRestarts = 1
  Callers = {"x", "y"}
  Asks <- MCAsks
  Ids = {1, 2, 3}
  Enforce = TRUE
  Own <- MCOwn
  MaxAsks = 3
  MaxSaveFaults = 1
  MaxBoots = 1
  Urls = {"receiver", "down", "evil"}
  Permitted = {"receiver", "down"}
  Receiver = "receiver"
  DefaultUrl = "receiver"
  MaxTry = 2
  MaxSubscriptions = 2
  MaxCards = 1
  MaxFlips = 1
  Requests = {"r", "s"}
  Orders <- MCOrders
  NoKey = ""
  Seeded <- MCSeeded
  Credits <- MCCredits
  Openings <- MCOpenings
  Word = 1000
  MaxOrders = 2
  MaxLost = 1
  MaxCredits = 1
  Payers = {"first", "second"}
  Merchants <- MCMerchants
  Hash <- MCHash
  HalfWord = 8
  Lists <- MCLists
  MaxPolls = 2
  MaxGates = 2
  MaxMissed = 1
  MaxVerifyRestarts = 1
  Plugins = {"p"}
  Descriptors <- MCDescriptors
  Buttons <- MCButtons
  Slots = {1, 2}
  Nil = Nil
  ShownAtStart = FALSE
  MaxConsoleAsks = 3
  MaxConsoleFails = 1
  MaxConsoleRestarts = 1
  MaxVersion = 1
  MaxMoney = 1
  Provisioners = {"x", "y"}
  OpeningCounts = {1}
  BatchShapes <- MCShapes
  Standings = {"fail"}
  Unregistered = Unregistered
  Mids = {21, 22, 23, 25}
  MidOf <- MCMidOf
  PayeeIds <- MCPayeeIds
  NoRef = 0
  MaxIds = 5
  MaxErrands = 2
  MaxSaveFails = 1
  MaxRegistryRestarts = 1
SPECIFICATION Spec
CHECK_DEADLOCK FALSE
INVARIANTS
  ReceiptsAnswer
  CreatedOnce
  BlockHolds
  BooksAgree
  OneMovePerKey
  RecordsTellTheTruth
  DeclineHolds
  StandInsAsAsked
  ChecksHold
  OutletTellsTheRail
PROPERTIES
  LegibleIsAnswered
