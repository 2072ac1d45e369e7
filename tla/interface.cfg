CONSTANTS
 N = 3
 Trees <- FewTrees
 Inputs = {2,3}
 HiddenAtLoad = {3}
 MaxCalls = 2
 MaxSwitches = 1
SPECIFICATION Spec
INVARIANTS TreeOK Served PointerKnown OneInput
ACTION_CONSTRAINT SomeCalls
