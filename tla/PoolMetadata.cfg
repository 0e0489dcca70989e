SPECIFICATION FairSpec
CONSTANTS
  Sites = {1, 2}
  WebSites = {1}
  MaxRows = 1
  MaxPages = 2
INVARIANTS TypeOK RowsShowTheirAnswers SurvivesServers
PROPERTY MetadataSettles
CHECK_DEADLOCK FALSE
