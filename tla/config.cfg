\* INT32_MAX is kept within what TLC can count past.
CONSTANTS
  MaxTokens = 4
  Inputs <- MCInputs
  Int32Max = 1073741824
SPECIFICATION Spec
INVARIANTS Precedence ReadyIsUsable
