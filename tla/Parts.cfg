SPECIFICATION PartsSpec
CONSTANTS
  mine = mine
  page = page
  theirs = theirs
  serve = serve
  cli = cli
  Job = {mine, page, theirs}
  Process = {serve, cli}
  Server = serve
  Home <- MCHome
  Kinds <- MCKinds
  Budget <- MCBudget
  Nobody = Nobody
  Cleaner = Cleaner
  MaxLandings = 1
  MaxCrashes = 1
  here = here
  there = there
  reading = reading
  pauser = pauser
  shutter = shutter
  Client = {here, there}
  Reader = {reading}
  Commander = {pauser, shutter}
  Site = {serve, cli}
  SiteOf <- MCSite
  Place = {"show", "episode"}
  Covers <- MCCovers
  FileOf <- MCFile
  Free = Free
  Capacity = 1
  MaxNow = 1
  MaxSaves = 2
  Admission = {1, 2, 3}
  Page = {reading}
  Loose = 0
  MaxBlocks = 3
  Film <- MCFilms
  Codec = {"hevc", "png", "aac", "ac3", "mov_text", "srt", "ttf", "tmcd"}
  Draft <- MCDrafts
  Origin = {"jpn"}
  Untold = Untold
  Spelling <- MCSpelling
  MaxEdits = 1
  MaxAnswers = 1
  Setting = {"slots", "layouts", "exts", "TZ", "url", "key"}
  Secret = {"key"}
  SourceOf <- MCSource
  NoSource = NoSource
  Standing = {}
  Default <- MCDefault
  Unreadable <- MCUnreadable
  Unfit <- MCUnfit
  Clash <- MCClash
  Change <- MCChange
  Null = Null
  Deploy <- MCDeploy
  Unset = Unset
  HandTexts <- MCHand
  MaxChanges = 2
  MaxTampers = 1
  MaxStops = 1
  Night <- MCNight
  Minute <- MCMinute
  Slice <- MCSlice
  NoSchedule = NoSchedule
  MaxResets = 1
INVARIANTS
  SlotsAreKept
  SavesAreWhole
  PartsTypeOK
  SkipsAreHonest
  SkipsReachFfmpeg
  TitleStaysWhole
  CleanupSparesWriters
  PausedFilesRest
  FlagSurvivesRestart
  CapturesStandStill
  RewritesSettle
  SettledFilesAreServed
PROPERTIES
  NoRunPassedOver
  BatchesKeepOtherPauses
  NothingNewerLost
  ListedLanguagesStayHeard
CHECK_DEADLOCK FALSE
