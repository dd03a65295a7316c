SPECIFICATION FsSpec
CONSTANTS
  Inodes <- Image
  Blocks <- Dirs
  Component <- Components
  MaxPath = 2
INVARIANT FsTypeOK
PROPERTIES
  CdFollowsTheTree
  LsShowsWhatIsThere
