SPECIFICATION FairSpec
CONSTANTS
  Procs = {p, q}
  Walker = p
  Keys = {"algo"}
  Values <- Algorithms
  Unset = Unset
  Default <- Defaults
  Edits <- Files
  Envs <- Environments
  MaxStarts = 3
  MaxEdits = 1
  Trees <- Directories
  Kinds <- StreamKinds
  MaxStreams = 1
  NIL = NIL
INVARIANTS TypeOK PanicHasCause LinesAreOwn RoundTrip AnswersPrinted
PROPERTIES ReadsLastStore CommandEnds
\* with all starts and edits used up nothing happens any more
CHECK_DEADLOCK FALSE
