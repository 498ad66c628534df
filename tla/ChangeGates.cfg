SPECIFICATION Spec
CONSTANTS
  Roles = {"a", "b", "c"}
  Plays = {"svc", "site", "old"}
  Archived = {"old"}
  Trees <- SomeTrees
  Diffs <- SomeDiffs
  ServiceRoles = {"web", "mail", "cert"}
  Playbooks = {"web.yml", "mail.yml"}
  Services <- BothServices
  Appliances = {}
  Files <- SomeFiles
  Occurrences <- SomeOccurrences
  VarsFiles <- SomeVarsFiles
  Names = {"v"}
  Changes = {c1, c2}
  FirstTree <- Tree
  RoleEdits <- SomeRoleEdits
  PlaybookEdits <- SomePlaybookEdits
  MaxEdits = 2
INVARIANTS ClosureIsExact PrintedIsReached
PROPERTIES HeldServicesPass FactsAreExact CountsOnlyFall LossIsTold InspectionEnds
CHECK_DEADLOCK FALSE
