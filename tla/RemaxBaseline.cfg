SPECIFICATION Spec
CONSTANTS
  DP = 2
  Prompts = 3
  N = 2
  ValRows = 3
  Lens = {1, 2}
  MaxTokenLen = 2
  Mini = 2
  Micro = 1
  InferMicro = 2
  Epochs = 2
INVARIANTS UnionsFit
