SPECIFICATION Spec
CONSTANTS
  StackSpec <- MCStack
  MonoSpec <- MCMono
  StackEdits <- MCStackEdits
  MonoEdits <- MCMonoEdits
  Profiles <- MCProfiles
  Environment <- MCEnvironment
  Disturbances <- MCDisturbances
  Cookies = {1, 2}
  MaxEdits = 3
  MaxDisturbances = 1
INVARIANTS TypeOK ReferencesResolve Connected OnlyEntryPoints AcceptedDeploys OwnWritesAdmitted
PROPERTIES DeletionNotBlocked
CHECK_DEADLOCK FALSE
