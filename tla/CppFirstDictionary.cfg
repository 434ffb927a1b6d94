\* Two threads ask for the first dictionary at once.
CONSTANTS
  t1 = t1
  t2 = t2
  finalizer = finalizer
  NoThread = NoThread
  Threads = {t1, t2, finalizer}
  Finalizer = finalizer
  o1 = o1
  o2 = o2
  Objects = {o1, o2}
  p1 = p1
  p2 = p2
  Pointers = {p1, p2}
  Null = Null
  ThreadStatic = FALSE
  ReleaseOnFinalizer = TRUE
  Pinned = FALSE
  Handlers = {}
  Nesting = 2
SPECIFICATION Spec
INVARIANT
  ActiveAreReported
