SPECIFICATION Spec
CONSTANTS
  t1 = t1  t2 = t2
  p1 = p1  p2 = p2  p3 = p3
  Blank = Blank
  Garbage = Garbage
  Tasks <- MCTasks
  Params <- MCParams
SYMMETRY Symmetry
INVARIANT LoadIsIntact
