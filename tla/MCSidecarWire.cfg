CONSTANTS
  Default <- Tmp
  Directories <- MCDirectories
  Relative <- MCRelative
  Links <- MCLinks
  Environments <- MCEnvironments
  ForeignLines <- MCForeignLines
  PathSize = 3
SPECIFICATION Spec
INVARIANTS
  RequestsArrive
  PathsComeBack
  AnswersEcho
CHECK_DEADLOCK FALSE
