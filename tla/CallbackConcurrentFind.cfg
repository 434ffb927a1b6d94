SPECIFICATION Spec
CONSTANTS
  t1 = t1
  t2 = t2
  r1 = r1
  r2 = r2
  Threads = {t1, t2}
  NoThread = NoThread
  References = {r1, r2}
  Interfaces <- MCInterfaces
  Shapes <- Plain
  Slots <- FiveSlots
  Marshallers = {t1, t2}
  GuidReaders = {}
  OutlivesNative = TRUE
  AllowFailure = FALSE
SYMMETRY Symmetry
INVARIANTS
  FindAnswers
