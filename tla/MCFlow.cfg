SPECIFICATION Spec
CONSTANTS
  Statements = {"call", "ret", "set", "retval", "if", "while", "break"}
  Operators = {"and", "or", "not"}
  MaxNodes = 6
INVARIANT OneTerminator
INVARIANT AllPlaced
INVARIANT SlotsReady
PROPERTY RunsAsWritten
