SPECIFICATION Spec
CONSTANT Inputs <- MCInputs
INVARIANT TypeOK NeverRejectsASentence TreeYieldsText ChecksFollowNesting
PROPERTY ParserImplementsGrammar
