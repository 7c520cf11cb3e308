SPECIFICATION Spec
CONSTANTS
  m1 = m1  m2 = m2  m3 = m3  r1 = r1  r2 = r2  q1 = q1  s1 = s1  x1 = x1
  Mutators = {m1, m2}
  Runs = {r1}
  Queries = {}
  Readers = {}
  Closers = {}
  After <- Unordered
  Cancelable = {r1}
  Compound = {}
  Listening = FALSE
  MaxActivations = 1
INVARIANTS
  EveryPoppedAnswered
