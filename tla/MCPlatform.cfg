SPECIFICATION MCSpec
CONSTANTS
  ta = ta
  tb = tb
  pa = pa
  pb = pb
  x = x
  y = y
  web = web
  w = w
  c1 = c1
  c2 = c2
  recon = recon
  site = site
  evt = evt
  nm = nm
  all = all
  nmap = nmap
  masscan = masscan
  scanning = scanning
  api = api
  intruder = intruder
  empty = empty
  t1595 = t1595
  t1190 = t1190
  t9 = t9
  amy = amy
  dns = dns
  NONE = NONE
  Procs <- MCProcs
  Ids = {pa, pb}
  Bundled = {pb}
  Shipped <- MCShipped
  Packages <- MCPackages
  BuiltIn = {}
  Categories = {web}
  Permissions = {"network.access", "tool.execute", "filesystem.read", "network.listen"}
  Names = {w, c1, c2, recon}
  Reserved = {recon}
  BuiltinSteps <- MCBuiltin
  KnownCapabilities = {c1, c2}
  StepLists <- MCStepLists
  Targets = {site}
  EventTypes = {evt}
  Globs <- MCGlobs
  Providers <- MCProviders
  MaxTriggers = 3
  MaxRuns = 3
  Migrations <- MCMigrations
  OldVersion = 1
  Scopes = {all}
  States = {"v1", "v2"}
  MaxBackups = 2
  MaxScans = 2
  Catalogue <- MCCatalogue
  Domains <- MCDomains
  Versioned = {nmap}
  Postures <- MCPostures
  Depths <- MCDepths
  MaxTrail = 3
  Profiles <- MCProfiles
  ChainPhase <- MCChainPhase
  TacticOf <- MCTacticOf
  Atomics <- MCAtomics
  Lessons = {"l1", "l2"}
  Drills = {"d1"}
  Learners = {amy}
  Controls <- MCControls
  Estates <- MCEstates
  MaxSims = 2
  MaxLedger = 3
  MaxWork = 2
CHECK_DEADLOCK FALSE
INVARIANTS PlatformTypesOK RowsHaveFiles VersionNamesSteps  
   SimulationTellsSteps
