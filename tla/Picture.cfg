SPECIFICATION PictureSpec
CONSTANTS
  Ids = {i1, i2}
  Flags = {f1, f2}
  Versions = {v1, v2}
  NoVersion = NoVersion
SYMMETRY PictureSymmetry
INVARIANTS
  MirrorFollows
  OneStory
PROPERTIES
  RebaseIsQuiet
