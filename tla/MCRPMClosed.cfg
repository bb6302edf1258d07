SPECIFICATION Spec
CHECK_DEADLOCK FALSE
CONSTANTS
  Names <- OneNames
  Root = 0
  SplitDir <- OneSplitDir
  SplitBase <- OneSplitBase
  Files <- GhostFiles
  AllowLists = {}
  Metas <- MCMetas
  ScriptKinds = {}
  Texts = {}
  Changelogs = {}
  CustomTags = {}
  CustomSigs = {}
  Signers = {}
  Words = 4
  MaxWrites = 2
PROPERTIES
  ClosedAfterWrite
