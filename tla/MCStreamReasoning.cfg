SPECIFICATION StreamSpec
CONSTANTS
  n1 = n1  n2 = n2  call = call
  Conversions <- MCToResponses
  ReasoningChars = {"a"}
  TextChars = {"a", " "}
  Citations = {n1, n2}
  CallIds = {call}
  MaxBlocks = 4
  MaxChunks = 3
  MaxReasoning = 2
  MaxText = 2
  MaxArguments = 1
SYMMETRY MCSymmetry
CHECK_DEADLOCK FALSE
INVARIANT ReasoningStaysInOrder
