SPECIFICATION IntegrationsSpec
CONSTANTS
  Parts = {"push", "status", "comments", "breaker", "priority"}
  Pushers = {w1, w2}
  Intake = api
  Nobody = Nobody
  Vendors = {v1}
  BacklogIds = {1, 2, 3}
  MaxTries = 2
  MaxMishaps = 3
  Syncers = {w1, w2}
  StaffDesk = desk
  Words = {"Open", "Received", "Closed"}
  WordOut <- MCWordOut
  StatusIn <- MCStatusIn
  NoWord = NoWord
  NoLink = NoLink
  CarriesStatus = TRUE
  SyncRows = {1}
  MaxStaff = 2
  MaxCrew = 1
  MaxSyncFaults = 1
  Posters = {w1, w2}
  Comments = {c1}
  Replies = {r1}
  MaxPostFaults = 2
  Callers = {k1, k2, k3, test}
  Testers = {test}
  FailThreshold = 3
  MaxDoublings = 2
  Raters = {e1, e2}
  Senders = {s1, s2}
  Scores = {5, 8}
  DefaultScore = 5
  NoScore = NoScore
  MaxRatings = 2
  MaxSendFaults = 1
CHECK_DEADLOCK FALSE
INVARIANTS IntegrationsTypeOK FiledOnce NothingOwedSilently QuietMeansAgreed EachCommentOnce HalfOpenHolds CrewsSeeThePriority
PROPERTIES DeliveredLeavesBacklog OwnWordNotReadBack
