SPECIFICATION RTSpec
CHECK_DEADLOCK FALSE
CONSTANTS
  Names <- OneNames
  Root = 0
  SplitDir <- OneSplitDir
  SplitBase <- OneSplitBase
  Files <- PlainFiles
  AllowLists = {}
  Metas <- ReadMetas
  ScriptKinds <- MCScriptKinds
  Texts = {3, 4}
  Changelogs = {}
  CustomTags = {}
  CustomSigs = {}
  Signers = {}
  UnalignedSigs = {"vendor"}
  Words = 4
  MaxWrites = 2
  MaxReads = 1
  EditsAfterRead = TRUE
INVARIANTS
  ScriptsWritten
