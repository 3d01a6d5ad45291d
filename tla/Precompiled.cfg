SPECIFICATION Spec
CONSTANTS
  Places <- MCPlaces
  NumTransitions = 3
  Required <- MCRequired
  TakesAll <- MCTakesAll
  Reads <- MCReads
  Inhibitors <- MCInhibitors
  Resets <- MCResets
  Terminals = {}
  Priority <- MCPriority
  Timing <- MCTiming
  WORD_SIZE = 2
  Keys <- MCKeys
  InputSpecs <- MCInputSpecs
  ResetArcs <- MCResetArcs
  Names = {1, 2}
  InitialQueues <- MCInitialQueues
  EnvPlaces <- MCEnvPlaces
  Productions <- MCProductions
  Relays <- MCRelays
  MayFail = {2}
  MayThrow = {1, 2, 3}
  Tolerance = 0
  MaxInject = 1
  MaxNow = 2
  MaxTokens = 22
INVARIANTS
  FlagsExact
  MatchersInStep
  ActionSeesItsTokens
PROPERTY
  PlaysTheNet
