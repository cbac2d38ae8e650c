SPECIFICATION RecordsSpec
CONSTANTS
  Clients = {"gateway", "daily", "manual"}
  Mappings <- MCMappings
  a = a
  b = b
  Discoveries <- MCDiscoveries
  None = None
  Written = {"success", "failed", "nothing"}
  Configured = {"local", "feishu-sheets"}
  MaxWork = 2
  MaxMishaps = 1
INVARIANTS RowsUnderTheirColumns EventsAreLocalFirst ReportsAreHonest
SYMMETRY Symmetric
CHECK_DEADLOCK FALSE
