SPECIFICATION FbSpec
CONSTANTS
  r1 = r1
  r2 = r2
  worker = worker
  Readers <- TwoReaders
  Worker <- worker
INVARIANTS
  NoLostWakeup
  AnswerTrue
PROPERTIES
  StopReturns
  DrawingResumes
