SPECIFICATION Spec
CONSTANTS
  t1 = t1
  t2 = t2
  r1 = r1
  r2 = r2
  Threads = {t1, t2}
  NoThread = NoThread
  References = {r1, r2}
  Interfaces <- MCInterfaces
  Shapes <- Plain
  Slots <- FourSlots
  Marshallers = {t1}
  GuidReaders = {t2}
  OutlivesNative = TRUE
  AllowFailure = FALSE
SYMMETRY Symmetry
INVARIANTS
  TypeOK
  RefCountExact
  ReferencedMeansUsable
  FindAnswers
  OneIdentity
  FreedOnce
PROPERTIES
  ForeignHandleSurvives
