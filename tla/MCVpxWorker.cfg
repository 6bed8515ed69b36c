SPECIFICATION Spec
CONSTANTS
  Data = {d1, d2}
  NoHook = NoHook
  MaxLaunch = 3
INVARIANTS FailureKept SafeDestroy
PROPERTIES CallsReturn TaskSpec
