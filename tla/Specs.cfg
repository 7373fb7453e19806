SPECIFICATION MCSpec
CONSTANTS
  NameSize <- MCSize
  NotLabels = {"Bad"}
  AbsoluteURLs = {"https://x"}
  Parts <- Plain
  Nil = Nil
INVARIANTS WiringSound ServicesDistinct WindowInBounds WireRoundTrips CopiesOwnMemory Rendered
CHECK_DEADLOCK FALSE
