SPECIFICATION Spec
CONSTANTS
  Runners = {poll, operator}
  Operators = {operator}
  Nobody = Nobody
  Services = {backend, frontend}
  Backend = backend
  Releases = {old, new}
  Trusted = {old, new}
  NoRelease = NoRelease
  old = old
  patch = patch
  hotfix = hotfix
  new = new
  contract = contract
  unsigned = unsigned
  VersionOf <- MCVersion
  Rev <- MCRev
  Window <- MCWindow
  Destructive <- MCDestructive
  BackupIsOn = TRUE
  HandEdits = FALSE
  Unknown = Unknown
  MaxStrays = 1
INVARIANTS OldVersionStillRuns
