SPECIFICATION Spec
CONSTANTS
  None = None
  Garbage = Garbage
  ThreadNames = {"main", "work"}
  ConnectorNames = {"echo", "shell"}
  Providers = {"openai", "groq"}
  Urls = {"api.openai.com", "api.groq.com", "proxy"}
  Models = {"gpt", "llama"}
  Strings <- MCStrings
  Saves <- MCSaves
  Bundled <- MCBundled
  Catalogs <- MCCatalogs
  Words <- MCWords
  Tokens = {"key"}
  CliEdits <- MCCliEdits
  Ill = {}
  Reports <- MCReports
  MaxWrites = 3
INVARIANTS TypeOK RoutesResolve CapabilitiesFollow SelectionFits AckedHolds
CHECK_DEADLOCK FALSE
