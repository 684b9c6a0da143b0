CONSTANTS
  Files <- MCFiles
  PageSize = 4
  Pages = 4
  MaxLoads = 2
  Names <- MCNames
  Hash <- MCHash
  LinkHash <- MCLinkHash
  Fixups <- MCFixups
  Globals <- MCGlobals
  Images <- MCImages
  Base = 100
  ImageThreads = {t1, t2}
  Strings <- MCStrings
  Buckets = {1, 3, 16, 17, 67}
SPECIFICATION Spec
CHECK_DEADLOCK FALSE
INVARIANTS LoaderSound ImageAsDescribed BindingSound HashSound
