SPECIFICATION Spec

CONSTANTS
  w1 = w1
  w2 = w2
  w3 = w3
  p1 = p1
  p2 = p2
  q1 = q1
  q2 = q2
  c1 = c1
  i1 = i1
  i2 = i2
  d1 = d1
  d2 = d2
  r1 = r1
  r2 = r2
  Workers = {w1, w2, w3}
  Processes = {p1, p2}
  ProcessOf <- MCProcessOf
  Modes = {"file", "api"}
  MaxPages = 2
  MaxSyncs = 3
  MaxOutages = 1
  Nobody = Nobody
  NoRow = NoRow
  Collectors = {c1}
  Resources = {"orders", "refunds", "products", "categories", "articles"}
  Orders = {1, 2, 3}
  Windows <- MCWindows
  PagesIn <- MCPagesIn
  RecordsOn <- MCRecordsOn
  MaxRecords <- MCMaxRecords
  MaxRetries = 1
  MaxRuns = 3
  MaxFaults = 2
  MaxRunsOf <- MCMaxRunsOf
  MaxFaultsOf <- MCMaxFaultsOf
  ItemCollectors = {i1, i2}
  GoneOrders = {2}
  MaxItemRuns = 2
  NoFile = NoFile
  Downloaders = {d1, d2}
  Urls = {1, 2}
  AttachedTo <- MCAttachedTo
  MaxDownloads = 3
  NoIndex = NoIndex
  Articles = {1, 2, 3}
  CommentPages <- MCCommentPages
  SaveEvery = 2
  MaxCommentRuns = 2
  Reservations = {1, 2}
  Seeds <- MCSeeds
  UnknownShortage = {2}
  Hours = {0, 23, 24, 47}
  Window = 24
  MaxDetections = 4
  NoEntry = NoEntry
  Tasks = {1, 2, 3, 4}
  UnknownTasks = {5}
  TokenThreads = {r1, r2}
  MaxTokens = 3
  MaxLost = 1
  Forms = {f1, f2}
  MaxOpinions = 3
  MaxPosts = 3
  MaxFormFaults = 1
  Unread = Unread
  Drafters = {t1, t2}
  TypeOf <- MCTypeOf
  Waits = {1, 2}
  Boards <- MCBoards
  Changes <- MCChanges
  SentImpacts <- MCSentImpacts
  Confidences = {1}
  MaxDrafts = 3
  NoDate = NoDate
  Reviewers = {v1, v2}
  Sources = {1}
  TenantSkus = {1, 2}
  ForeignSkus = {3}
  MaxVersions = 2
  MaxReviewCalls = 2
  NoSku = NoSku
  OrderLines = {1, 2, 3}
  LineKinds <- MCLineKinds
  EligibleProducts = {1, 2}
  Deliveries = {1, 2}
  DeliveryKinds <- MCDeliveryKinds
  SecuredQtys <- MCSecuredQtys
  RequiredQtys = {1, 3}
  Unknown = Unknown
  Askers = {q1, q2}
  AskedBy <- MCAskedBy
  Deployments <- MCDeployments
  TimeToLive <- MCTimeToLive
  TopK = 2
  MaxAttempts = 2
  MaxClock = 2
  NoTime = NoTime
  Unset = Unset
  Readers = {1, 2}
  ReadCalls <- MCReadCalls
  Stamps = {1}
  Limits <- MCLimits
  PageSize = 2
  MaxReadPages = 3
  ReadTries = 3
  SourceLists <- MCLists
  NoticesOf <- MCNotices
  CommentBoards = {6}
  MaxArrivals = 1
  GrantScopes = {{"product"}, {"product", "order", "category", "community"}}
  MaxGrants = 2
  MaxReadCalls = 2
  MaxReadFaults = 1
  NotThere = NotThere
  TornFile = TornFile

SYMMETRY Symmetry

CHECK_DEADLOCK FALSE

INVARIANT TypeOK
INVARIANT CursorIsBacked
INVARIANT ProgressIsBacked
INVARIANT ItemsAreWhole
INVARIANT CleanCollectionPasses
INVARIANT CompletedCatalogIsWhole
INVARIANT CommunityIsCollected
INVARIANT TokenSurvives
INVARIANT TaskRowsAreCurrent
INVARIANT RefusesExactlyCycles
INVARIANT OpinionStoredOnce
INVARIANT AnsweredReplanIsFound
INVARIANT ReviewIsApproved
INVARIANT ShortageIsAccounted
INVARIANT AnswersAreGrounded
INVARIANT ManifestIsWhole
INVARIANT ReadsStayWithinGrant
PROPERTY CursorNeverGoesBack
