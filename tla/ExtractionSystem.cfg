SPECIFICATION FairSystem
CONSTANTS
  c1 = c1 c2 = c2 c3 = c3 c4 = c4 message = message
  Call <- Four
  Controlled <- Four
  Batch <- None
  Key <- Four
  DecodeKey <- OwnKeys
  MaxArgs <- None
  Barging = FALSE
  Others = {message}
  UrlCalls <- Urls
  BadUrlCalls <- Unparsable
  FrameCount = 2
INVARIANTS PlatformWorkBounded WorkConserving
PROPERTIES IsLimiter FirstComeFirstServed AnsweredOnce ServedUnlessSilenced
CHECK_DEADLOCK FALSE
