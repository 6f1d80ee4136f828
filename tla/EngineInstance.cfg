SPECIFICATION Spec
CONSTANTS
  Runners = {poll, operator}
  Operators = {operator}
  Nobody = Nobody
  Services = {backend, frontend}
  Backend = backend
  Releases = {old, patch, new, unsigned}
  Trusted = {old, patch, new}
  NoRelease = NoRelease
  old = old
  patch = patch
  hotfix = hotfix
  new = new
  contract = contract
  unsigned = unsigned
  VersionOf <- MCVersion
  Rev <- MCRev
  Window <- MCWindow
  Destructive <- MCDestructive
  BackupIsOn = TRUE
  HandEdits = TRUE
  Unknown = Unknown
  MaxStrays = 1
INVARIANTS SchemaBeforeCode
PROPERTIES SchemaAfterBackup KeepsPinned
