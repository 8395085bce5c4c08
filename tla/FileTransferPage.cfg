CONSTANTS
  None = None
  PageNone = None
  Num = {n1, n2}
  Tools = {}
  Path = {"a", "c"}
  Managed = {}
  Chunks <- Sizes
  Batches <- TwoFiles
SPECIFICATION Spec
PROPERTIES
  UploadEnds
  BatchEnds
