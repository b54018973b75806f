SPECIFICATION FairSpec
CONSTANTS
  Callers = {c1, c2}
  Foreign = {"slack"}
  Limit <- Limits
  Sections <- SectionsOf
  Paths <- Requested
  Places <- Found
  RealPath <- Real
  Protected <- Own
  Gone = Gone
  NarumiUris <- UriSet
  MeetingIds = {"m1", "m2"}
  Replies <- ReplySet
  Urls <- UrlSet
  Resolutions <- Answers
  Internal <- Blocked
  MaxRedirects = 1
  MaxBytes = 2
  MaxChars = 1
  Sizes = {0, 1, 2, 3}
  Grace = 2
  CancelWait = 1
  None = None
INVARIANTS PermitsCovered ReachesOnlyAllowed AnswersSound
PROPERTIES AnswersInTime
