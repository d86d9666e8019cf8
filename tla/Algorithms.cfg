SPECIFICATION Spec
CONSTANTS
  Shapes <- MCShapes
  StaticStarts = {16, 20}
  Depth = 3
  Encodings <- MCEncodings
  Messages <- MCMessages
  Amf3Ints <- MCAmf3Ints
  Amf3Objects <- MCAmf3Objects
  Urls <- MCUrls
  OptionLists <- MCOptionLists
  ConnLists <- MCConnLists
  HEADERBUF = 77
  MAX_IGNORED_FRAMES = 2
  Reads <- MCReads
  Seeks <- MCSeeks
  Resumes <- MCResumes
  Writes <- MCWrites
INVARIANTS LayoutSound ReferencesFound AmfWritten   FlvReadExact PlaceFound 
