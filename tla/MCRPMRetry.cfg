SPECIFICATION Spec
CHECK_DEADLOCK FALSE
CONSTANTS
  Names <- TwoNames
  Root = 0
  SplitDir <- TwoSplitDir
  SplitBase <- TwoSplitBase
  Files <- FewFiles
  AllowLists <- MCAllowLists
  Metas <- RetryMetas
  ScriptKinds = {}
  Texts = {}
  Changelogs = {}
  CustomTags <- ArchTag
  CustomSigs = {}
  Signers = {TRUE}
  Words = 4
  MaxWrites = 3
INVARIANTS
  TypeOK
  IndexCoversPackage
  PayloadFollowsIndex
  RewritesOnlyGhosts
  OkIffComplete
  SignedIsWritten
  SizeIsPayload
PROPERTIES
  WritesPackage
