CONSTANTS
  None = None
  PageNone = None
  Num = {n1, n2}
  Tools = {n2}
  Path = {"a", "b", "c"}
  Managed = {"b", "c"}
  Chunks <- Sizes
  Batches <- OneFile
SPECIFICATION Spec
INVARIANTS
  OwnedUpload
PROPERTIES
  EndsByOwner
  StoredStays
