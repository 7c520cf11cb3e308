CONSTANTS
  c1 = c1 c2 = c2 d1 = d1 d2 = d2 r1 = r1 r2 = r2 empty = empty
  base = base fit = fit spare = spare goal1 = goal1 goal2 = goal2 goal3 = goal3
  trigger = trigger
  Versions = 3
  NetworkFacts = 3
  Contents <- AllContents KeyOf <- Keys Rules <- AllRules Needs <- NeedsOf
  Blocks <- BlocksOf Names <- AllNames Nothing = empty
  ActionsFail = TRUE
  MaxActs = 2
  Ids <- FactIds Values <- FactValues Absent = absent Template <- TemplateIn
  Alphas <- AlphaList
  Accepts <- Takes Root <- Beginning Kind <- Kinds Out <- Edges Width <- Widths
  Specs <- Computed Pairs <- Joins Passes <- AtLeastTwo Amount <- AmountOf
  Branches <- Rulebook FactKey <- KeyIn
  LeftTokens <- LeftRows RightTokens <- RightRows JoinKey <- RowKey
  Identity <- OneHash Spread = {1} Holding <- RowFacts MinRows = 1 NoRow = norow
  Claims <- AllClaims Goals <- AllGoals Questions = {trigger} Supply <- Answering
  Plans <- AllPlans Context <- AskingOn Wants <- Wanted Initials <- Given
  NoQuestion = none MaxCopies = 2
  derives = derives silent = silent onward = onward guarded = guarded
  Papers = {1, 2, 3} Text <- TextOf Revisions = {derives, silent, onward, guarded}
  Requires <- RequiresOf Refuses <- RefusesOf Yields <- YieldsOf NoText = "nothing"
  Editions <- AllEditions First <- FirstEdition MaxExchanges = 2
  Subjects = {f1, f2} Authors = {a1, a2, a3} MaxEntries = 2 MaxEvents = 5
SPECIFICATION SpecEngine
INVARIANTS
  ReteTypeOK MemoryTypeOK SupportExact EdgesGrounded KeysUnique AgendaFollows
  MatchesExact RowsExact AccumulatorsExact HandsExact LinksExact RowsFound
  NeedsBacked RecordsCurrent RowsServed AgendaCarried PurgedLeavesNothing LogTells
PROPERTIES KeepsTruth TablesJoin PurgeTakesTheUnheld
