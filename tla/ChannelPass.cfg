SPECIFICATION FairChannelSpec
CONSTANTS
  Users = {ann}
  NoUser = NoUser
  AdminSessions = {a1}
  UpdaterSessions = {u1}
  Sweeper = beat
  RunOutcomes = {"succeeded", "refused", "locked", "not_confirmed"}
  MaxRequests = 1
  MaxReports = 3
  Pollers = {p1}
  NoSession = NoSession
  Floor = FALSE
  Retries = 2
PROPERTIES PassEnds
