SPECIFICATION ScenesSpec
CONSTANTS
 a = a
 b = b
 d = d
 c1 = c1
 c2 = c2
 Aliases = {a, b, d}
 InitialRepos <- TwoRepos
 Installs = {p, q}
 Editors = {e1}
 PrioMax = 2
 Clients = {c1, c2}
 Commands <- TwoCommands
 MaxCrashes = 1
 Runners = {c1, c2}
 Layerings = {"plain", "extended"}
 MaxChanges = 2
 MaxDeaths = 1
INVARIANTS ConfigurationsAgree AskedRepoUsed ExitTellsOutcome NoTaskForgotten NewestFound CacheWhole
PROPERTY EveryCommandEnds
CHECK_DEADLOCK FALSE
