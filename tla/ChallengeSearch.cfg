\* Bytes of two values and solutions of two bytes: every set of solutions among
\* the numbers from 0 to 4, of which 4 is too long.
CONSTANTS
  Cores = {g1, g2, g3}
  g1 = g1
  g2 = g2
  g3 = g3
  Base = 2
  MaxSolutionSize = 2
  MaxWork = 4
  None = None
SPECIFICATION Spec
CHECK_DEADLOCK FALSE
INVARIANTS SolutionVerifies AttemptsCounted
 
