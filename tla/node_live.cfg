SPECIFICATION NodeFairSpec
CHECK_DEADLOCK FALSE
CONSTANTS
  Services = {"trash", "restore", "backups", "jobs", "negative", "search", "counts",
              "sessions", "imports", "offline"}
  a = a  b = b  c = c  d = d  i1 = i1  u1 = u1  g1 = g1  TrashSizes <- TinyTrash
  Shards = {shard}  Leavings = {a}  Tasks = {c}  TrashCalls = {user, gc}  TrashGC = gc
  MaxMade = 2  TrashCap = 2  TrashCrashes = 1
  Imports = {imported}  Cli = Cli  Own = Own  Nothing = Nothing  Torn = Torn  BootCrashes = 1
  ChunkCount = 1  UploadsAtOnce = 2  Puts = {a, b}  Completes = {complete}  UploadCrashes = 1
  PackageCount = 1  NoBase = NoBase  Generators = {a}  Removers = {user, ret}  Retention = ret
  Adopters = {adopter}  KeepLast = 1  StoreAtOnce = 2  StoreCrashes = 1
  Jobs = {c, d}  Triggers = {a, b}
  Proxies = {proxy}  Hosted = Hosted  Group = Group  Readers = {a}  Packagers = {fetcher}
  MaxMisreads = 1
  Pushes = {a, b}  Manifests = {c, d}  Layers = {l1, l2}  Refs <- AllLayers  PushCrashes = 1
  Publishers = {a, b}  Artifacts = {c, d}  NoVersion = NoVersion  BodySizes = {1, 2}
  RepoBytes = 2  DayBytes = 3  FileBytes = 2  Immutable = FALSE  GateRestarts = 1
  Migrations = {task}  Items = {i1, i2}  Targets = {r1, r2}  RepoOf <- HomeOf  Wanted <- WantsAll
  Policies = {"skip", "overwrite", "fail"}  Prior = {r1}  Immutables = {r1}
  Admins = {admin}  MaxResumes = 1  MigrationCrashes = 1
  MaxId = 3  Legacy = 2  BatchSize = 1  MaxTries = 2  Searches = {}
  MaxRebuilds = 1  MaxSlips = 0  MaxErrors = 0  IndexRestarts = 1
  FirstRepos = {first}  Creates = {a, b}  Renames = {rename}  Updates = {update}  Deletes = {delete}
  Names = {n1, n2}  FirstName <- NamedAt  Unused = Unused
  Repos = {r1}  Users = {u1, AnonymousUser}  Groups = {g1}  AnonymousUser = AnonymousUser
  Nobody = Nobody  GrantEntries <- SomeEntries
  NpmVersions = {v1, v2}  NpmPublishers = {a, b}  NpmTaggers = {tagger}
  NpmUnpublishers = {unpublisher}  NpmTags = {latest, next}  Latest = latest  Void = Void
  Counters = {a, b}  PendingCap = 1  MaxRecorded = 3  MaxFailed = 1  MaxEnds = 1
  Files = {f1}  Uploads = {a, b}  Fetches = {r1, r2}  Originals = {o1, o2}  NoFile = NoFile
  CrateVersions = {v1, v2}  CratePublishers = {a, b}  Yankers = {yanker}  NoCrate = NoCrate
  Sessions = {c}  Chunkers = {a}  SessionLimit = 2  SessionCrashes = 1
  Urls = {a}  Locals = {c}  ByCli = ByCli  HalfMark = HalfMark  NoMark = NoMark  RowErrors = 1  ImportRestarts = 1
  Props = {p1, p2}  AssetOf <- OneAsset  BatchEntries = 2  Listers = {}
  MaxScans = 1  FileChanges = 1  ScanErrors = 1  ScanRestarts = 1
PROPERTIES
  GarbageGoes
  ServiceComesBack
  PublishedIsSeen
