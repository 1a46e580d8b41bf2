SPECIFICATION MCSpec
CONSTANTS
  Parts = {"speech", "transcripts", "snapshot", "policies", "chat", "stream", "facts", "figures", "search", "prices", "session", "settings"}
  Texts = {hello, price}
  Players = {p1, p2}
  Audios = {a1}
  MaxBytes = 2
  MaxChunks = 2
  MaxFailures = 1
  Absent = Absent
  Stores = {shop1, shop2}
  Takes = {k1, k2}
  Window = 2
  Trigger = 2
  MaxStores = 1
  Stocks = {shop1, shop2}
  Browsers = {t1, t2}
  Browses = {b1, b2}
  Ttl = 1
  MaxHeld = 1
  MaxVersion = 1
  NoBrowse = NoBrowse
  Readers = {r1, r2, r3}
  PolicyTtl = 2
  Slow = 1
  MaxEdition = 2
  cap = cap
  boot = boot
  sock = sock
  Goods = {cap, boot, sock}
  Hues <- MCHues
  Hue <- MCHue
  Tag <- MCTag
  NoPrice = NoPrice
  Unit = 2
  MaxVisible = 2
  MaxChips = 3
  MaxMessages = 3
  Nowhere = Nowhere
  Replies <- MCReplies
  MaxDelta = 2
  MaxRecords = 2
  Shelf <- MCShelf
  Another <- MCAnother
  Pages <- MCPages
  Prose <- MCProse
  Evidence <- MCEvidence
  Budgets <- MCBudgets
  Products = {cap, boot}
  Text <- MCText
  Meaning <- MCMeaning
  Noise <- MCNoise
  Stopwords <- MCStopwords
  Filler <- MCFiller
  Asked <- MCAsked
  PageTitles <- MCPageTitles
  Queries <- MCQueries
  Subjects <- MCSubjects
  Wares <- MCWares
  Utterances <- MCUtterances
  SizeWords <- MCSizeWords
  Colours <- MCColours
  Occasions <- MCOccasions
  Grays <- MCGrays
  Requests = {q1, q2}
  MaxIdle = 1
  MaxUtterances = 3
  Tabs = {tab1, tab2}
  Wordings <- MCWordings
  Volatile = {"by 2026-12-24"}
  MaxWords = 1
  Accents = {"dark", "pale"}
  Readable = {"dark", "green"}
  MaxSaves = 2
  Signs <- MCSigns
  Hidden = Hidden
  MaxChanges = 1
  NoBuild = NoBuild
INVARIANTS
  AudioIsWhole
  BytesAreAccounted
  DriftsBack
  CachesAreCurrent
  SessionIsRemembered
  ReplyIsWhole
  CatalogIsQuoted
  TripwireIsExact
  AcceptedIsGrounded
  SearchIsHonest
CHECK_DEADLOCK FALSE
