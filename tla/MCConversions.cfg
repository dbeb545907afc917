SPECIFICATION CSpec
CONSTANTS
  ShiftWidth <- MCShiftWidth
  DurationMax <- MCDurationMax
  Identifiers <- MCIdentifiers
  ImportPaths <- MCImportPaths
  Packages <- MCPackages
  Outbounds <- MCOutbounds
  Sources <- MCSources
  Responses <- MCResponses
  Listings <- MCListings
  Streams <- MCStreams
  Controllers <- MCControllers
  Retries <- MCRetries
  Attempts <- MCAttempts
  Messages <- MCMessages
  Runs <- MCRuns
  Components <- MCComponents
INVARIANTS
  
  ProjectionsAreNoWeaker
  CascadeHolds
  AnswersAreWhole
  DelaysBackOff
  StepsTellTheRun
  InterfacesAreDefined
