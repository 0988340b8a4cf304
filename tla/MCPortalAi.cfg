CONSTANTS
  Amounts = {8, 24}
  GpuAmounts = {}
  Cores = {3, 4, 8}
  Rules <- DefaultPolicy
  Needs <- Qwen
  Names = {exact, other, unrelated}
  Matching = {exact, other}
  ModelId = exact
  None = None
  MaxChanges = 1
  MaxPrompts = 1
SPECIFICATION AiFairSpec
INVARIANTS
  HighFits
  RefusedForAReason
  RightPlace
PROPERTIES
  MoreIsNoWorse
  AiAnswered
CHECK_DEADLOCK FALSE
