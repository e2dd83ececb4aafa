CONSTANTS
  Calls = {c1, c2}
  MaxLosses = 1
  PowerEnd = 2
  LowFrames = 2
  SustainedLow = 1
  TripEnd = 4
  Debounce = 2
  MaxVisits = 2
  IdleEnd = 7
  MaxIdleGap = 2
  MoveConfirm = 2
  IdleAlert = 3
  Quiet = 2
  Realert = 3
  MaxDays = 2
  MaxDeadlines = 2
  MonthCap = 2
  DayCap = 1
  LastDay = 4
  DaysAMonth = 2
  Drafts = {d1, d2}
  MailsADay = 1
  Fixes <- MCFixes
  Spacings = {1, 4, 6}
  MaxRows = 5
  TripBreak = 6
  MinStop = 4
  MinPause = 2
  MinTraffic = 4
  Slack = 2
SPECIFICATION FairSpec
INVARIANTS
  MonitorsTypeOK
  PowerAlertOnce
  LossIsTold
  OneTripAtATime
  ArrivalOnce
  SilencedIsMarked
  CrossingIsTold
  IdleAlertOnce
  IdleWasObserved
  ReportOnce
  NoticeOnce
  StampMeansTold
  BilledWithinCap
  DraftSentOnce
  TripsAsDriven
PROPERTIES
  StartsSpaced
  OutageOncePerDay
  OutageSettles
CHECK_DEADLOCK FALSE
