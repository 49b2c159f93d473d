SPECIFICATION ScenesSpec
CONSTANTS
 Instances = {i1, i2}
 MaxTroubles = 1
 Projects <- ProjectsToBuild
 Options <- OptionsToUse
 Order <- Alphabet
 MaxBuilds = 2
 MaxFailing = 1
 MaxIgnored = 1
 MaxCommands = 2
 Layers <- LayersToPack
 Exports <- ExportsToMake
 MaxExports = 2
 MaxRevision = 2
 UabFiles <- FilesToUnpack
 Images = {6}
 Chunk = 4
 BaseRo = TRUE
 Runners = {p1, p2}
 Targets = {"app", "bs"}
 Removable = {"a2", "ex"}
 Refs = {"a1", "a2", "rt", "bs", "ex"}
 Info <- InfoOfAll
 Opts <- NoOpts
 MaxKills = 1
 MaxLaunches = 2
 MaxRemovals = 2
 MaxFaults = 1
 SecurityContext = TRUE
SYMMETRY Alike
CONSTRAINT FewFailures
INVARIANTS BuildsNotMixed ExportedIsOneBuild NothingLeftMounted UnpackedWhole MountsFit RecordsTrue RunningLayersKept
\* Builds, exports and runs may all be over.
CHECK_DEADLOCK FALSE
