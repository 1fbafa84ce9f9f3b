SPECIFICATION MCSpec
CONSTANTS
  t1 = t1
  t2 = t2
  none = none
  Threads = {t1, t2}
  NoThread = none
  MaxItems = 9
  Ones = 3
  max_call_stack_depth = 3
  loop_timeout = 2
INVARIANTS ControlFlow NothingLeftBehind SerializedExclusive ProgramsSound
PROPERTY EvaluationsEnd
