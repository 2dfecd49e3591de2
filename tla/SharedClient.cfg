\* Answers shorter than, as long as and longer than resp_buf; heads that fit
\* and that do not; connections cut before, at and after the blank line.
CONSTANTS
  Tasks = {"lease", "status"}
  BUF = 4
  HEAD = 2
  AnswerLens = {2, 3, 4, 5}
  HEAD_BUF = 1
  HeadLens = {1, 2}
  MaxLate = 2
SPECIFICATION FairSpec
INVARIANTS
  TypeOK
  AnswerIsTrue
  FaultFreeSucceeds
PROPERTIES
  CallEnds
  ImplementsApiCall
