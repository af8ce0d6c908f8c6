SPECIFICATION Spec
CONSTANTS
  Names = {"f", "main"}
  BuiltinTypes <- Builtins1
  Kinds = {"proto", "func", "call"}
  MaxNodes = 5
  MaxParams = 0
INVARIANT ExportIsExternal
