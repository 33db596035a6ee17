\* Two cabinets and two requests at a time; everything that may go wrong.
CONSTANTS
  Cabinet = {c1, c2}
  Id = {i1, i2}
  ChannelBound = 3
  Mishap = {"lost", "late", "touch"}
  None = None
SPECIFICATION Spec
INVARIANTS ActiveIsShown PageAgrees
PROPERTY OpenSettles
