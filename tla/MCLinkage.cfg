SPECIFICATION FairSpec
CONSTANTS
  Names = {"f", "main"}
  BuiltinTypes <- Builtins1
  Kinds = {"var", "cast", "type", "proto", "func", "call"}
  MaxNodes = 6
  MaxParams = 1
INVARIANT CalleeDeclaredBefore
INVARIANT ExportWithoutPrototype
INVARIANT UniqueInScope
PROPERTY CompilationEnds
