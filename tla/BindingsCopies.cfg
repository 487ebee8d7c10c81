\* Two names, one of them bound by evals too; nested calls and captures.
SPECIFICATION MCSpec
CONSTANTS
  Names = {n1, n2}
  Values = {v1, v2}
  Evaluated = {n2}
  Runtimes = {py}
  Scoped = {}
  Loops = {py}
  None = None
  MaxScopes = 2
  MaxCode = 2
  MaxVersion = 4
SYMMETRY ValueSymmetry
PROPERTY CopiesAreCurrent
CHECK_DEADLOCK FALSE
