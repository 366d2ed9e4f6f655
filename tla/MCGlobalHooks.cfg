CONSTANTS
  Hooks = {"a", "b"}
  HookUsers = {"u1", "u2"}
  MaxInstalls = 2
SPECIFICATION HooksSpec
INVARIANT AllocatorThreadSafe
CHECK_DEADLOCK FALSE
