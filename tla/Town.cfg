SPECIFICATION TownSpec
CONSTANTS
  Parts = {"schema", "accounts", "tokens", "retention", "audit", "budget", "photos", "demos", "vault", "hosts", "rewrap"}
  boxA = boxA
  boxB = boxB
  boxC = boxC
  boxD = boxD
  Replicas = {boxA, boxB, boxC, boxD}
  NoReplica = NoReplica
  MaxRev = 3
  AddedBy <- MCAdded
  DroppedBy <- MCDropped
  ImageOf <- MCImage
  HumanAllows = {boxC}
  OldTables = {1}
  MaxStarts = 6
  Users = {ann, ben}
  Desks = {d1, d2}
  NoUser = NoUser
  FirstAdmins = {ann, ben}
  MaxEdits = 3
  Apis = {p1, p2}
  Redeemers = {q1, q2, q3}
  NoApi = NoApi
  MaxStoreFaults = 2
  Records = {r1, r2}
  Runs = {n1, n2}
  BatchSize = 2
  MaxRuns = 2
  MaxHolds = 3
  MaxRunFaults = 1
  Writers = {w1, w2}
  NoWriter = NoWriter
  MaxSeals = 3
  MaxRemoved = 1
  Requests = {t1, t2, t3}
  Hosts = {h1}
  Redis = redis
  NoHost = NoHost
  Sizes = {1, 2}
  Daily = 2
  Monthly = 2
  MaxTroubles = 1
  Photos = {f1, f2, f3}
  FormPhotos = {f1, f2}
  Strangers = {x1}
  Taps = {1, 2}
  Screeners = {c1, c2}
  MaxImages = 2
  MaxStored = 1
  MaxPhotoFaults = 1
  Demos = {1, 2, 3}
  Janitors = {j1}
  MaxDemos = 2
  MaxDemoFaults = 1
  p1 = p1
  p2 = p2
  clerkA = clerkA
  clerkB = clerkB
  sweep = sweep
  Secrets = {k1, k2}
  Clerks = {clerkA, clerkB}
  Sweepers = {sweep}
  Processes = {p1, p2}
  HomeOf <- MCHome
  NoHandler = NoHandler
  MaxChanges = 2
  MaxVaultFaults = 1
  Creds = {k1, k2}
  Unshared = {k3}
  Admins = {a1, a2}
  MaxPushes = 2
  MaxEntries = 2
  MaxHostFaults = 1
  Reports = {1, 2, 3}
  Unreadable = {2}
  Servers = {p1, p2}
  RewrapLimit = 2
  MaxBatches = 2
  NoKey = NoKey
  MaxServices = 2
  MaxRewrapFaults = 1
  MaxScrubs = 1
CHECK_DEADLOCK FALSE
INVARIANTS TownTypeOK StartUpIsSafe RevocationHolds TownKeepsAdmin ServedOnce HoldKeepsTheRecord  SpendIsBounded PhotosAccounted StoreStaysBounded StacksAreTracked LastChangeHolds OwnershipHolds RedactedStaysRedacted
