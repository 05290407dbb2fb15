SPECIFICATION Spec
CONSTANTS
  i1 = i1  i2 = i2  i3 = i3  i4 = i4
  a1 = a1  a2 = a2  p = p  f = f
  None = None
  Ids <- Buffers
  Arrays <- Arrays12
  Packs = {p}
  Fields = {f}
  N = 2
  WritersSync = FALSE
  MaxPending = 2
SYMMETRY Sym
INVARIANT ProgramOrder
