SPECIFICATION FairSpec
CONSTANTS
  c1 = c1 c2 = c2 c3 = c3 c4 = c4 c5 = c5
  a = a b = b u = u v = v d1 = d1 d2 = d2 None = None
  Call <- Calls5
  Foreign <- C4
  Malformed <- C2
  Source <- Sources
  Url <- Urls
  Missing <- OnlyB
  Dir <- Dirs
  Input <- UrlThenPaths
  Output <- OwnDirs
  Frames = 1
  Chunks = 2
  Millis = 1
PROPERTIES AnsweredOnce EveryCallIsAnswered
CHECK_DEADLOCK FALSE
