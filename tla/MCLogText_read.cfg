SPECIFICATION MCSpec
CONSTANTS
  Letters = {"d", "z"}
  Known <- KnownLetters
  Others = {" "}
  MaxLen = 6
  n1 = n1
  n2 = n2
  fm = fm
  Names = {n1, n2}
  Formatters = {fm}
  LevelTexts = {"info"}
  TypeTexts = {"RollingLogAppender"}
  Documents <- SmallDocuments
  Absent = Absent
INVARIANTS
  TextInv
  ErrorExact
PROPERTY
  LoggersSurvive
CHECK_DEADLOCK FALSE
