SPECIFICATION FairSpec
CONSTANTS
  NONE = NONE
  i1 = i1
  i2 = i2
  Items = {i1, i2}
  Passes = {poll}
  Kinds <- Both
  Races = {}
  MaxVersion = 2
INVARIANTS TypeOK NoChangeLost AttributionFresh
PROPERTIES RowsLeaveWithTheirItem MirrorConverges
