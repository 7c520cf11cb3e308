SPECIFICATION SpecAgenda
CONSTANTS
  t1 = t1  t2 = t2  t3 = t3  t4 = t4
  a = a  b = b  c = c
  main = main  side = side  none = none
  Branched = FALSE
  Tokens <- AllTokens
  MatchOf <- Derives
  ModuleOf <- Placed
  Salience <- Ranked
  Modules = {main, side}
  Main = main
  NoMatch = none
  Sessions <- AllKinds
  Limits = {1}
  CompactFloor = 1
  MaxDelta = 2
  MaxActs = 2
  MaxSupport = 2
  MaxFocus = 2
  Comers = 3 Resting = 6
  Activations <- AllActivations Queues = {main, side} QueueOf <- InModule SalienceOf <- Saliences
  ProofMatches = {1, 3, 5} Recencies <- Recent Arrivals <- Changes Firsts <- Beginnings
  Starts <- Crowds
INVARIANTS TypeOK AgendaExact NothingStale RefractionsExact CheckpointRestores EndsAsReported
  HeapsExact
PROPERTIES FiresOncePerMatch FirstBornFirst
