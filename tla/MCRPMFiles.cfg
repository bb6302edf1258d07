SPECIFICATION Spec
CHECK_DEADLOCK FALSE
CONSTANTS
  Names <- MCNames
  Root = 0
  SplitDir <- MCSplitDir
  SplitBase <- MCSplitBase
  Files <- AllFiles
  AllowLists <- MCAllowLists
  Metas <- TagMetas
  ScriptKinds <- MCScriptKinds
  Texts <- MCTexts
  Changelogs <- MCChangelogs
  CustomTags = {}
  CustomSigs <- SizeSig
  Signers = {}
  Words = 4
  MaxWrites = 1
INVARIANTS
  DirIndexInv
  RowsName
  IndexSorted
  PayloadFollowsIndex
PROPERTIES
  ImplementsWriter
