SPECIFICATION MCSpec
CONSTANTS
  feeder = feeder
  ta = ta
  tb = tb
  l1 = l1
  l2 = l2
  l3 = l3
  scan = scan
  flood = flood
  ip1 = ip1
  pat = pat
  g1 = g1
  v1 = v1
  v2 = v2
  apt = apt
  op1 = op1
  t1 = t1
  shop = shop
  lab = lab
  b1 = b1
  b2 = b2
  NONE = NONE
  Procs <- MCProcs
  Feeder = feeder
  Lines <- MCLines
  Content <- MCContent
  Flags <- MCFlags
  RuleNames <- MCRuleNames
  RuleDef <- MCRuleDef
  NameRank <- MCNameRank
  FoundIn <- MCFoundIn
  Asset <- MCAsset
  Ioc <- MCIoc
  Engagements <- MCEngagements
  RiskInputs <- MCRiskInputs
  Times <- MCTimes
  Blocks <- MCBlocks
  Values <- MCValues
  Canonical <- MCCanonical
  Extracts <- MCExtracts
  Actors = {apt}
  Campaigns = {op1}
  Ttps = {t1}
  Authorized <- MCAuthorized
  Server <- MCServer
  Hosts <- MCHosts
  Exploits <- MCExploits
  MaxRows = 3
  MaxCases = 3
  MaxAlerts = 3
  MaxFile = 4
  MaxWork = 2
CHECK_DEADLOCK FALSE
INVARIANTS SecurityTypesOK EventsAlertOnce BurstFiresOnce  TimelineTellsStatus
  StatusesAreBacked 
PROPERTY WorkLostOnlyByOverlap
