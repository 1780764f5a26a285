SPECIFICATION Spec
CONSTANTS
  plain = plain
  question = question
  union = union
  enum = enum
  Names = {"job_id", "user_id", "openeo_data", "x"}
  Types = {plain, question, union, enum}
  Question = {question}
  NullUnions = {union}
  Enum = enum
  Docs <- MCDocs
  None = None
CHECK_DEADLOCK FALSE
INVARIANTS TypeOK FormIsOfWhatRuns FormSuffices UserValuesWin OnlyWhatIsDeclared
