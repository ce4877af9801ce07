SPECIFICATION Spec
CONSTANTS
  Sources = {HOST}
  None = None
  Settings = {a}
  DefaultSettings = a
  Trims = {"level", "tilted", "steep"}
  DefaultTrim = "level"
  WithinLimit <- MCWithinLimit
  Unreadable = Unreadable
  Capacity = 3
  MaxSequence = 2
  Duration = 1
  MinimumSamples = 2
  MaximumSamples = 2
  FreshThrough = 0
INVARIANTS
  AppliedAsAWhole
