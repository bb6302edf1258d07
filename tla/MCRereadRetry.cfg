SPECIFICATION RTSpec
CHECK_DEADLOCK FALSE
CONSTANTS
  Names <- TwoNames
  Root = 0
  SplitDir <- TwoSplitDir
  SplitBase <- TwoSplitBase
  Files <- RetryFiles
  AllowLists = {{}}
  Metas <- MCMetas
  ScriptKinds = {}
  Texts = {}
  Changelogs = {}
  CustomTags = {}
  CustomSigs = {}
  Signers = {}
  UnalignedSigs = {"vendor"}
  Words = 4
  MaxWrites = 2
  MaxReads = 1
  EditsAfterRead = TRUE
PROPERTIES
  FirstWriteReadable
  
