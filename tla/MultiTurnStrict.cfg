SPECIFICATION Spec
CONSTANTS
  Request = {q1, q2}
  Tool = {t1}
  TP = 2
  PromptLens = {7, 14}
  GenLen = 2
  EndLen = 1
  PromptLength = 5
  ResponseLength = 8
  MaxModelLen = 16
  MaxAssistantTurns = 2
  MaxUserTurns = 1
  AnswerLens = {1}
  ToldLens = {1, 6}
  MaxFaults = 1
INVARIANT SanityCheckOnlyWarns
