SPECIFICATION Spec
CONSTANTS
  MaxCommands = 3
  Lengths = {1, 2}
  AnswerLength = 2
  Retries = 1
  Habits = {"patient", "hasty"}
INVARIANTS TypeOK AnswerIsOwn FlagTellsMessage
PROPERTIES ChannelSpec WaitEnds
CHECK_DEADLOCK FALSE
