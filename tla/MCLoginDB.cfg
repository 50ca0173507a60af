CONSTANTS
  Addr = {a1, a2, a3}
  Null = Null
  fits = fits
  wraps = wraps
  Creds <- MCCreds
  Lines <- MCLines
  Garbage = Garbage
  W = 8
  FW = 2
  MaxSaved = 2
SPECIFICATION Spec
INVARIANTS ListIsExact FoldersKept
PROPERTIES CheckUndisturbed PointerKept SaveRestores
SYMMETRY Symmetry
