SPECIFICATION MetaSpec
CHECK_DEADLOCK FALSE
CONSTANTS
  Texts <- MCTexts
  LongTexts <- MCLongTexts
  Names <- MCNames
  Version <- MCVersion
  Literals <- MCLiterals
  Overrides <- MCOverrides
  MaxSets = 3
  MaxPackages = 2
  Changelogs <- MCChangelogs
  NewTexts = {"y"}
  ColumnOverrides <- MCColumnOverrides
  Words = 4
  MaxLogSets = 2
  MaxReads = 2
INVARIANTS
  CallerKeepsList
  PackagesKeepList
  NoDuplicates
  PackageProvidesItself
  SetUnderstands
  PrintsBack
  ReadsBack
  SeenIsRead
  NothingHides
