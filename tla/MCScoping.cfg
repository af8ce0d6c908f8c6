SPECIFICATION Spec
CONSTANTS
  Names = {"a", "b"}
  BuiltinTypes <- Builtins2
  Kinds = {"let", "cast", "type", "opaque", "func", "open", "use"}
  MaxNodes = 7
  MaxParams = 1
INVARIANT BindingIsLexical
INVARIANT WalksAgree
INVARIANT DoneHasValues
INVARIANT CastCapturedOnlyByLaterAlias
INVARIANT InferredTypeAgrees
