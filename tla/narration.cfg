SPECIFICATION NarrationSpec
CONSTANTS
  Callers = {c1, c2}
  Lifespan = lifespan
  MaxSentences = 2
  Asker = c1
  MayAsk <- Interests
INVARIANT NobodyWaitsOnAStoppedLoop
PROPERTIES EveryQuestionIsAnswered ShutdownEnds
CHECK_DEADLOCK FALSE
