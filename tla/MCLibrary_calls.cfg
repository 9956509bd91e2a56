CONSTANTS
  Alphabet = {"a", " ", ","}
  TextLength = 4
  Templates <- TemplateSamples
  Numerals <- NumeralSamples
  CasedTexts <- CasedSamples
  MinExp <- SmallMinExp
  MaxExp = 16
  LeastPower <- SmallLeastPower
  MostPower = 5
  CommandArgs <- ArgSamples
  MaxParsed = 3
  SqlParts <- SqlSamples
  MimeLines <- MimeSamples
  FileNameTexts <- NameSamples
  HostTexts <- HostSamples
  PortTexts <- PortSamples
  KnownHosts <- Hosts
  PathSteps = {"bin", "x"}
  UrlParts <- UrlSamples
  PathElements = {"a", "b", ".", "..", ""}
  PathLength = 3
  BasePaths <- Bases
  ByteSamples = {0, 32, 37, 43, 47, 58, 64, 91, 123, 255}
  CodecLength = 4
  UuidSamples <- Uuids
  Digests <- PublishedDigests
  UuidTimes = {1, 255, 256, 65535, 65536, 16777216, 2000000000}
  Messages <- MessageSamples
  BlockBytes = 4
  CounterMod = 64
  ReadSizes = {1, 3, 4, 7, 8}
  WebServers = {"cgi", "apache", "isapi"}
  ClientRequests <- Requests
  WebCookies <- Cookies
  WebBodies <- Bodies
  WebStatuses = {404}
  MaxWebCalls = 2
  SocketObjects = {s1, s2, s3}
  MaxDescriptors = 2
  TlsLibrary = "openssl"
  Loaders = {"posix", "win32"}
  Libraries <- PluginLibraries
  MaxLoads = 2
  ClassNames = {n1, n2}
  Classes = {k1, k2}
  ConfigWords = {"", "etc", "d", "a", "b", "c", "w", "x", "y", "z", "ON", "YES", "TRUE", "no", "0", "1", "2"}
  ConfigTrees <- Trees
  ConfigNames <- FileNames
  ConfigHosts = {"posix", "win32"}
  MaxOpen = 4
  MaxConfigLoads = 2
  Anys = {a1, a2}
  MaxImpls = 3
  Delegates = {d1, d2, d3}
  Targets = {o1, o2}
  Methods = {m}
  Functions = {f1, f2}
  Null = Null
  Absent = Absent
  Builds = {"hack", "safe"}
  Arities = {0, 1, 2, 3, 4, 5, 6, 7, 8}
  TimeThreads = {t1, t2}
  MonthDays <- Calendar
  SummerMonths = {2}
  Years = {0, 1, 2, 3, 4, 5}
  StartTimes <- LastDays
  SetValues <- FieldValues
  LocaleNames = {"de"}
  MaxTimeCalls = 2
  Systems = {"posix", "win32"}
  SendBuffer = 2
SPECIFICATION Spec
\* a call may be the last one, undefined behaviour ends a run
CHECK_DEADLOCK FALSE
INVARIANTS TextMeaning UrlMeaning CodecMeaning DigestOfMessage  DescriptorHeldOnce PluginSafe ConfigMeaning
            
