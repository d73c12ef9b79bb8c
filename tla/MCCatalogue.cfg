\* An item of each kind, three requests, two file names.
CONSTANTS
  Kinds = {"brand", "category", "product"}
  Files = {f1, f2}
  NoFile = NoFile
  NoRow = NoRow
  Jobs = {j1, j2, j3}
SPECIFICATION Spec
SYMMETRY Symmetry
INVARIANTS
  TypeOK
  ProductHasItsImage
  DanglingHasACause
  LeftoverHasACause
CHECK_DEADLOCK FALSE
