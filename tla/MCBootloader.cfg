SPECIFICATION Spec
CONSTANTS
  ShortImages = {short, bad}
  LongImages = {long}
  BadImages = {bad}
  Blank = Blank
  Mixed = Mixed
  MaxStale = 1
INVARIANTS
  OnlyWholeImagesRun
  ReportedUpdateIsInstalled
