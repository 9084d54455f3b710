SPECIFICATION Spec
CONSTANTS
  Ranks <- Ranked
  Likes <- Likeness
  SessionVars <- Variables
  Columns <- TableColumns
  Metadata <- Granted
  Inherited <- Leads
  Default <- Defaults
  MaxParams = 8
  UnnestThreshold = 3
  ChunkSize = 2
  KeyField = "id"
  GraphqlMaxLimit = 3
  DefaultLimit = 2
  MaxLimit = 3
  DefaultOrder <- ById1
  Tracked <- Functions
  Call <- Run
  Native <- NativeQueries
  Rows <- Sql
  Configured <- ActionsKnown
  Lower <- LowerCase
  MaxResponse = 1
  Handle <- HandledAs
  Jobs <- JobsKnown
  Options <- Settings
  VarSuffix <- VariableSuffixes
  Databases <- TwoTables
  Senders <- Users
  Queries <- Asked
  RestQueries <- RestAsked
  Endpoints <- EndpointsAsked
  Writes <- Mutated
  RestWrites <- RestMutated
  UpdatesMany <- ManyMutated
  Calls <- CallsMade
  MaxRequests = 2
INVARIANTS TypeOK ReadsAsDeclared SessionAsSent WritesAsDeclared NestedWhole 
CHECK_DEADLOCK FALSE
