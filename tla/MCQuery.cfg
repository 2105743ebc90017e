SPECIFICATION Spec
CONSTANTS
  Tasks = {t1, t2}
  Ids = {1, 2}
  Fields = {"a", "b"}
  Contents <- MCContents
  Names = {"i", "j"}
  Def <- MCDef
  MaxObjects = 2
  MaxCalls = 5
  None = None
  FieldOrder <- MCFieldOrder
  FieldKind <- MCFieldKind
  I32Max = 3
  MaxSkip = 2
  MaxLimit = 2
  MaxGroups = 1
  MaxSorted = 2
  MaxResults = 2
  Filters <- MCFilters
  Requests <- MCRequests
SYMMETRY Symmetry
INVARIANTS IndexExact StuckOnlyInRollback AnswersRight PipelineAgrees GroupsPartition
CHECK_DEADLOCK FALSE
