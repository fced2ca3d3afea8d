SPECIFICATION Spec
CONSTANTS
  Trees = {cov}
  CovTree = cov
  Configs = {c1, c2}
  Compilers = {k1}
  None = None
SYMMETRY Symmetry
INVARIANTS
  FastPathIsComplete
