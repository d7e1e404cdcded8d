SPECIFICATION Spec
CONSTANTS
  MaxTokens = 5
  MaxDepth = 4
  Paths <- MCPaths
  Length <- MCLength
  VFS_NAME_MAX = 5
  VFS_PATH_MAX = 16
  FileSize <- MCFileSize
  ReadSizes = {0, 1, 2}
  Files = {f1, f2}
INVARIANTS VfsTypeOK  ReadsWhole
SYMMETRY Symmetry
