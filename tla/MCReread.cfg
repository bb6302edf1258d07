SPECIFICATION RTSpec
CHECK_DEADLOCK FALSE
CONSTANTS
  Names <- TwoNames
  Root = 0
  SplitDir <- TwoSplitDir
  SplitBase <- TwoSplitBase
  Files <- PayloadFiles
  AllowLists = {}
  Metas <- ReadMetas
  ScriptKinds <- MCScriptKinds
  Texts <- MCTexts
  Changelogs <- ReadChangelogs
  CustomTags <- ReadTags
  CustomSigs <- MCCustomSigs
  Signers = {}
  UnalignedSigs = {"vendor"}
  Words = 4
  MaxWrites = 1
  MaxReads = 2
  EditsAfterRead = FALSE
INVARIANTS
  CustomWins
  RewriteKeepsHeader
  RewriteKeepsPaths
  IndexCoversPackage
PROPERTIES
  ReadRestoresFiles
  ReadRestoresMeta
