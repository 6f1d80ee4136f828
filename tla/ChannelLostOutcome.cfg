SPECIFICATION ChannelSpec
CONSTANTS
  Users = {ann}
  NoUser = NoUser
  AdminSessions = {a1}
  UpdaterSessions = {u1, u2}
  Sweeper = beat
  RunOutcomes = {"succeeded", "refused", "locked", "not_confirmed"}
  MaxRequests = 1
  MaxReports = 1
  Pollers = {p1}
  NoSession = NoSession
  Floor = FALSE
  Retries = 2
SYMMETRY ChannelSymmetry
INVARIANTS LostMeansFailed
