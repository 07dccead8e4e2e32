\* Two phones, one of which may stall; a channel that holds one message.
CONSTANTS
  clip = clip
  image = image
  file = file
  Session = {s1, s2}
  Message = {clip, image, file}
  Frames <- FramesOf
  Capacity = 1
  Window = 1
  MaxLog = 2
  MaxConnects = 2
  MaxFrames = 1
SPECIFICATION FairSpec
PROPERTIES
  ImplementsFeed
  ImplementsFeedSafely
  SessionsEnd
CHECK_DEADLOCK FALSE
