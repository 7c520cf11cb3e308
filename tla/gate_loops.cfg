SPECIFICATION FairSpec
CONSTANTS
  m1 = m1  m2 = m2  m3 = m3  r1 = r1  r2 = r2  q1 = q1  s1 = s1  x1 = x1
  Mutators = {m1}
  Runs = {r1}
  Queries = {q1}
  Readers = {}
  Closers = {}
  After <- Unordered
  Cancelable = {m1, r1}
  Compound = {}
  Listening = TRUE
  MaxActivations = 1
INVARIANTS
  OneLoop TokensHeld
PROPERTIES
  CallsReturn CanceledReturns
