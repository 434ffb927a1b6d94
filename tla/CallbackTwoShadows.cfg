SPECIFICATION Spec
CONSTANTS
  t1 = t1
  t2 = t2
  r1 = r1
  r2 = r2
  Threads = {t1, t2}
  NoThread = NoThread
  References = {r1, r2}
  Interfaces <- MCInterfaces
  Shapes <- TwoShadows
  Slots <- FiveSlots
  Marshallers = {t1}
  GuidReaders = {}
  OutlivesNative = TRUE
  AllowFailure = FALSE
SYMMETRY Symmetry
INVARIANTS
  NothingLeaks
