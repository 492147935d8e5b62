CONSTANTS
  Slot = {c1, c2}
  User = {}
  Staff = Staff
  MaxCalls = 6
  RecoveryCode = {r1, r2}
  MaxChallenges = 2
  MaxSecrets = 2
  MaxStep = 3
  AuthKey = {k1, k2}
  m1 = m1
  m2 = m2
  m3 = m3
  Mail <- Mails
  NoMail = NoMail
  AnswerTo <- Answers
  Ttl = 3
  Limit = 2
  Skew = 1
  MaxClock = 8
  MaxHits = 6
  Date <- Dates
  MaxClients = 4
  u1 = u1
  u2 = u2
  p1 = p1
  Reader = {u1, u2}
  Post = {p1}
  CreatedAt <- Created
  StartDate <- Starts
  EndDate <- Ends
  Fans <- Interests
  DeadlineWindow = 3
  RecentWindow = 2
  InsertChunk = 1
  LastHour = 4
  MaxFaults = 1
  MaxChanges = 1
  Row = {1, 2, 3}
  PageSize = 1
  MaxValue = 2
  MaxMicro = 1
  MaxEdits = 1
  EventId = {e1}
  NoId = NoId
  EventWindow = 2
  MaxPerWindow = 1
  LastTime = 5
  Contest = {q1, q2}
  Pick = {g1, g2, g3}
  NoPick = NoPick
  Gate <- Gates
  Spent <- Share
SPECIFICATION Spec
CHECK_DEADLOCK FALSE
SYMMETRY Alike
INVARIANTS
  TypeOK
  
  
  KeyExchangedOnce
  InboundMailKept
  LimitsHold
  SettingsKept
  OneListener
  DueNoticeArrives
  PagesComplete
  BrowserFollows
