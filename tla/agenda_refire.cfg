SPECIFICATION SpecAgenda
CONSTANTS
  t1 = t1  t2 = t2  t3 = t3  t4 = t4
  a = a  b = b  c = c
  main = main  side = side  none = none
  Branched = TRUE
  Tokens <- AllTokens
  MatchOf <- Derives
  ModuleOf <- Placed
  Salience <- Ranked
  Modules = {main, side}
  Main = main
  NoMatch = none
  Sessions <- Plain
  Limits = {1}
  CompactFloor = 1
  MaxDelta = 2
  MaxActs = 2
  MaxSupport = 2
  MaxFocus = 2
  Comers = 2 Resting = 0
  Activations <- AllActivations Queues = {main, side} QueueOf <- InModule SalienceOf <- Saliences
  ProofMatches = {} Recencies <- Recent Arrivals <- Changes Firsts <- Beginnings
  Starts <- NoCrowd
PROPERTY FiresOncePerMatch
