SPECIFICATION Spec
INVARIANTS
  Inherited
  GroupsExploded
  CommandsRight
  DependenciesLinked
PROPERTIES
  ExpressionsMean
  TimesFound
  ServicesMade
  MacrosResolved
