SPECIFICATION Spec
CONSTANTS
  Users = {ann, ben}
  NoUser = NoUser
  AdminSessions = {a1, a2}
  UpdaterSessions = {u1}
  Sweeper = beat
  RunOutcomes = {"succeeded", "rolled_back", "unknown_word"}
  MaxRequests = 1
  MaxReports = 2
SYMMETRY Symmetry
PROPERTIES ExpiryNeedsSilence DemotedNeverStarts KeepsLifecycle TwoPersonHolds
