SPECIFICATION ChannelSpec
CONSTANTS
  Users = {ann, ben}
  NoUser = NoUser
  AdminSessions = {a1}
  UpdaterSessions = {u1, u2}
  Sweeper = beat
  RunOutcomes = {"succeeded", "locked", "not_confirmed"}
  MaxRequests = 1
  MaxReports = 1
  Pollers = {p1, p2}
  NoSession = NoSession
  Floor = TRUE
  Retries = 1
SYMMETRY ChannelSymmetry
INVARIANTS RunsOnce VerdictIsTheRuns FloorHolds NothingLostSilently
