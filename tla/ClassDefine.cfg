SPECIFICATION LiveSpec
CONSTANTS
  Descriptors <- MCDescriptors
  Loaders <- MCLoaders
  Threads = {t1, t2}
  NoThread = nobody
  Kind <- MCKind
  Parent <- MCParent
  Libs <- MCLibs
  DexFile <- MCDexFile
  Contents <- MCContents
  Parents <- MCParents
  Component <- MCComponent
  Instantiable = {"Object", "A", "B"}
  MayFail = {"A"}
  OutOfMemory = {"appdex"}
  Roots <- MCRoots
  MaxCalls = 1
INVARIANTS  OneDexCache ParentsResolvedFirst
PROPERTIES TableStable 
