CONSTANTS
  BufLen = 4
  MaxLine = 8
  Bytes = {"x", "y"}
  TextLength = 3
  Texts <- MCTexts
  TagValues <- MCTagValues
  MaxParams = 5
  MaxWide = 1
  NULL = NULL
  Widths = {1, 2, 4}
  Room = 4
  RawLimit = 12
  MaxMessage = 4
  MaxWrites = 6
  MaxChanges = 2
  MaxUserNicks = 1
  MaxCuts = 1
  MaxLists = 1
  MaxEntries = 2
  MaxMarks = 2
  People = {me, ann}
  Me = me
  Nicks = {n1, n2, n3}
  FilterChats = {"srv->chat"}
  MarkedNicks = {n2}
  NoChat = NoChat
  Buffers = {b1, b2}
  NoBuffer = NoBuffer
  MaxTyped = 2
  MaxClicks = 2
  MaxUnread = 1
  Names = {"alpha", "beta"}
  SystemFile <- MCSystemFile
  UserFiles <- MCUserFiles
  Malformed = Malformed
  Secrets = {"alpha"}
  OwnConfig <- MCOwnConfig
  MaxMade = 3
  Colors = {c1}
  NoColor = NoColor
  Invalid = Invalid
  Absent = Absent
  Channels = {"#a"}
  Listing <- MCListing
  MaxRequests = 2
  MaxListCuts = 1
  Participants = {u1, u2, u3}
  Values <- MCValues
  MaxOpts = 2
  SrvNames = {"A"}
  Configured <- MCConfigured
  PanelNicks = {"nick1"}
  MaxAsking = 1
  MaxListed = 1
  MaxHistory = 1
  Typable = {"a", "/", " "}
  Bound <- MCBound
  Members <- MCMembers
  MaxKeys = 4
  MaxSent = 2
SPECIFICATION Spec
INVARIANTS
  TypeOK
  LinesRecover
  HeardAsMeant
  HeardAsSent
  
  LogIsWhatWasShown
  CurrentAgrees
  ConfigsLive
  AllReloaded
  ShownAsAsked
  LateAnswersHarmless
  ListShown
  StatisticsAgree
  ReadAsWritten
PROPERTIES
  ConnectionRegisters
  NickReclaimed
  SentAsAsked
  InputKept
CHECK_DEADLOCK FALSE
