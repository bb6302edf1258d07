SPECIFICATION Spec
CHECK_DEADLOCK FALSE
CONSTANTS
  Tags = {1, 2, 3}
  GoValues <- MCGoValues
  Kinds = {62, 63}
INVARIANTS
  Layout
  StoreHolds
  ReadsBack
  ConvertsBack
  CutReads
  SeekFinds
