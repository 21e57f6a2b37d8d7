CONSTANTS
  Pools <- MCPools
  Sizes <- MCSizes
  SuiteIds <- MCSuiteIds
  DefaultSize = 16

SPECIFICATION Spec

INVARIANTS
  TypeOK
  NoSendOnClosedMetrics
  ReportFaithful
  EventsMatchAnswer
  StatisticsAgree

PROPERTIES
  Answered
