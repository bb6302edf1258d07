SPECIFICATION RTSpec
CHECK_DEADLOCK FALSE
CONSTANTS
  Names <- TwoNames
  Root = 0
  SplitDir <- TwoSplitDir
  SplitBase <- TwoSplitBase
  Files <- GhostFiles
  AllowLists = {}
  Metas <- ReadMetas
  ScriptKinds = {}
  Texts = {}
  Changelogs = {}
  CustomTags = {}
  CustomSigs = {}
  Signers = {}
  UnalignedSigs = {"vendor"}
  Words = 4
  MaxWrites = 1
  MaxReads = 1
  EditsAfterRead = FALSE
PROPERTIES
  ReadRestoresFiles
