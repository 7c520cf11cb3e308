SPECIFICATION Spec
CONSTANTS
  m1 = m1  m2 = m2  m3 = m3  r1 = r1  r2 = r2  q1 = q1  s1 = s1  x1 = x1
  Mutators = {m1, m2}
  Runs = {r1}
  Queries = {}
  Readers = {s1}
  Closers = {x1}
  After <- MutateThenClose
  Cancelable = {m1, r1}
  Compound = {m2}
  Listening = FALSE
  MaxActivations = 1
INVARIANTS
  TypeOK LockedWorkExclusive TokensReturned InOrder AnsweredWhileLive
PROPERTIES
  KeepsPromise
