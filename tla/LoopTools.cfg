CONSTANTS
  Agents = {"tool_agent", "single_turn_agent"}
  PromptLength = 2
  ResponseLength = 5
  MaxModelLen = 7
  Limits <- NoneOrOne
  MaxParallelCalls = 2
  MaxCalls = 3
  MaxTold = 2
SPECIFICATION FairSpec
INVARIANTS Aligned EndsWithAnswer RoomToAnswer
PROPERTIES TakesTurns LoopEnds InstancesReleased
CHECK_DEADLOCK FALSE
