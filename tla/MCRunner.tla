-------------------------------- MODULE MCRunner -------------------------------
(* Suites of up to three tests; two workers. *)
EXTENDS TestRunner

Test(file, base, configs) == [file |-> file, base |-> base, configs |-> configs]
Program == <<"compile", "exec", "clean">>
Parses == <<"parse">>

\* Two configurations of a program beside a test of the parser; one of a program beside two of
\* the parser; two files of one base name; and tests with nothing to do.
Tried == { << Test("a", "a", << Program, << "compile", "exec" >> >>), Test("b", "b", << Parses >>) >>,
           << Test("a", "a", << Parses, Parses >>), Test("b", "b", << << "compile", "exec" >> >>) >>,
           << Test("d/a", "a", << Parses >>), Test("e/a", "a", << Parses >>),
              Test("b", "b", << Parses >>) >>,
           << Test("a", "a", << << >>, <<"parse", "parse">> >>), Test("b", "b", << >>),
              Test("c", "c", << Parses >>) >> }
=============================================================================
