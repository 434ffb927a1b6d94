SPECIFICATION Spec
CONSTANTS
  t1 = t1
  t2 = t2
  r1 = r1
  r2 = r2
  Threads = {t1, t2}
  NoThread = NoThread
  References = {r1}
  Interfaces <- MCInterfaces
  Shapes <- OneInterface
  Slots <- FourSlots
  Marshallers = {t1, t2}
  GuidReaders = {}
  OutlivesNative = TRUE
  AllowFailure = TRUE
INVARIANTS
  ReferencedMeansUsable
