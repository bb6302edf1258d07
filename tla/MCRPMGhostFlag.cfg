SPECIFICATION Spec
CHECK_DEADLOCK FALSE
CONSTANTS
  Names <- TwoNames
  Root = 0
  SplitDir <- TwoSplitDir
  SplitBase <- TwoSplitBase
  Files <- FlagFiles
  AllowLists = {}
  Metas <- MCMetas
  ScriptKinds = {}
  Texts = {}
  Changelogs = {}
  CustomTags = {}
  CustomSigs = {}
  Signers = {}
  Words = 4
  MaxWrites = 1
INVARIANTS
  PayloadFollowsIndex
