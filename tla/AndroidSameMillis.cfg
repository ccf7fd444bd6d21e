SPECIFICATION Spec
CONSTANTS
  c1 = c1 c2 = c2 c3 = c3 c4 = c4 c5 = c5
  a = a b = b u = u v = v d1 = d1 d2 = d2 None = None
  Call <- Calls2
  Foreign <- NoCall
  Malformed <- NoCall
  Source <- Sources
  Url <- Urls
  Missing <- NoCall
  Dir <- Dirs
  Input <- TwoUrls
  Output <- OwnDirs
  Frames = 1
  Chunks = 2
  Millis = 1
INVARIANTS DownloadIsOwn
CHECK_DEADLOCK FALSE
