# A TLA+ model of the pebl compiler

Pebl is a small language with a compiler in C (`src/src`), a driver in Python
that runs the compiler and the LLVM tools, a preprocessor written in pebl
itself, and scripts that test the compiler and release the next revision of it.
This project models the parts whose behaviour depends on order, state or
failure, checks them with TLC on small instances, and proves the most important
results with TLAPS for every instance. Paths below are relative to the
repository, so the compiler's sources are `src/parser/lexer.c` and so on.

## 1. Inventory

One compilation is a pipeline (`src/tool/peblc/main.c:71-89`): `lexer_init`,
`parser_parse`, `verify_ast`, `parse_checks`, `scope_resolve`, `codegen`,
`cg_emit`. It is sequential; every error prints a message and exits with
status 1 (`include/context/context.h:41-116`). Concurrency is in the driver and
the test runner, which use process pools, and in several drivers that run at
once; crashes matter for the release script, the only part that keeps state
from one run to the next.

| Component | State | Operations | Talks to | What is hard | What makes it correct |
|---|---|---|---|---|---|
| Lexer `src/parser/lexer.c` | file position, line, two peeked tokens | `lexer_peek(1,2)`, `lexer_gettoken` | called by the parser and the lexer tool | peeks run ahead of gets; the end of the file inside a literal | the caller gets the tokens of the file, in order, with their lines, however it peeks; tokens are the longest possible; every file comes to an end |
| Parser `src/parser/parser.c` | the calls that have not returned, the tree | recursive descent, one function per rule | lexer, AST | which peek decides; a function that stops a token early or late | accepts what the grammar says and nothing else; the tree is that of the text |
| AST, `verify_ast` `src/ast/ast.c` | nodes and lists | constructors, accessors | everything | lists that share nodes | shape of every node |
| Parse checks `src/ast/parse-checks.c` | none | three walks | AST | what is carried down nested statements | functions at file scope, `break` in loops, `return` in functions |
| Scope resolution `src/ast/scope-resolve.c` | list of scopes, each a list of symbols | one walk over the tree; lookups | called again by the generator | the table grows during the walk and is complete afterwards | a name means what lexical scoping says; a name is declared once |
| Types `src/ast/Type.c` | graph of types | allocate, base type, equality, fields | scope resolution, generator | aliases and structs that reach themselves | chains end; equal types are equal |
| Code generation, names `cg-inst.c`, `cg-function.c`, `cg-call.c`, `cg-helpers.c`, `codegen-llvm.c` | values of symbols, LLVM functions | a second walk with lookups | scope table, LLVM | same name, two walks, two states of the table | references are bound lexically; calls reach declared functions; exports are visible |
| Code generation, control flow `cg-inst.c`, `cg-operator.c`, `cg-helpers.c` | blocks, the builder's position, stack slots | one function per statement and operator | LLVM | nested code moves the builder; terminators | the blocks run as the statements say |
| Operators and casts `cg-operator.c`, `cg-helpers.c`, `definitions/*.def` | none | dispatch on operand types; casts between widths | scope resolution types the same expressions | two typings that are never compared; widths and signs | both agree; the instructions compute what the operators mean; sensible operands do not stop the compiler |
| Driver `src/tool/driver/` | temporary directory, jobs, output | compile, optimize, assemble in a pool; link | peblc, opt, llc, clang | interleaved workers, shared names, failures, two drivers | success means the right output where temporary names do not clash; failures are reported; a success leaves no directory of its own |
| Release script `scripts/make_revision.py` | `binaries/`, git | build, test, replace, package, commit, tag, push | git, CMake | dying between two steps | a revision is complete; a compiler is always kept; it can be run again |
| Preprocessor `src/tool/peblp/preprocess.pebl` | buffers | find, join, read, include | files | end of file, growing buffers | finds what is there |
| Test runner `scripts/run_tests.py` | output files | run tests in a pool, 30 s timeout | driver, tests | names of output files, timeouts, ignored return codes | a test is judged by its own output; a lost result is not a success |
| Runtime, standard library `runtime/`, `stdlib/` | input buffers | wrappers of the C library | programs | | |

## 2. Modules

| Module | Models | Kind |
|---|---|---|
| `TokenStream` | what the lexer promises: the next token, again and again | abstract |
| `Lexer` | the scanner and the lookahead buffer | detailed, implements `TokenStream` |
| `LexerProofs` | the buffer invariant and the implementation; what one scan finds, and each token from the one before | proofs |
| `ScopeResolve` | the first walk: scopes and symbols | component |
| `SymbolCodegen` | the second walk, over what the first recorded | extends `ScopeResolve` |
| `BindingProofs` | the invariant of name binding, what the steps of both walks do to it, and the theorems on names | proofs |
| `Grammar` | the productions of `doc/grammar.md` and the comments of `parser.c` | data |
| `Derivation` | what it means that a text is a program: shifts and reductions | abstract |
| `Ast` | the constructors of `ast.c` and `verify_ast` of one node | operators |
| `Parser` | the recursive descent and the tree it builds | detailed, implements `Derivation` |
| `ParseChecks` | `verify_ast` and `parse_checks` of a tree; the tree against its text | extends `Parser` |
| `ParserProofs` | what each function of the parser may do next, the invariant of the descent, the implementation of `Derivation` | proofs |
| `Types` | type declarations, equality, fields, LLVM types | component |
| `Expressions` | the two typings of an expression and the instructions generated | extends `Types` |
| `TypingProofs` | types are well founded, their equality is one, every operator keeps the two types of an expression equal, sensible operands are compiled, and what is computed is what is meant | proofs |
| `StructuredProgram` | what statements mean, from the tree alone | abstract |
| `CfgBuilder` | the blocks the generator builds, and a machine that runs them | detailed, implements `StructuredProgram` |
| `CfgProofs` | the invariants of the generator's calls; blocks are placed once and end once, slots are written before they are read | proofs |
| `FlowProofs` | the blocks do what the statements mean: the implementation of `StructuredProgram` | proofs |
| `Driver` | any number of drivers with their pools | component |
| `DriverProofs` | what the files of a driver are at and hold, at every step of all drivers | proofs |
| `MakeRevision` | the release script with crashes | component |
| `TestRunner` | the test runner on one suite | component |
| `ScriptProofs` | of the test runner, which worker holds which file, and the judgement of a test; of the release script, the revisions, tars and compilers between any two steps | proofs |
| `MCSymbols`, `MCDriver`, `MCParser`, `MCTyping`, `MCRunner` | constants for TLC | model checking |

### Lexer

`text` is the file, `pos` the position of the file pointer, `line`
`current_line`, `peeked` the two-entry buffer, `delivered` the tokens
`lexer_gettoken` returned. A character is one of a few classes: the letters of
the keyword `if` and `n`, a digit, each kind of blank, one single-character
token of each sort, the quotes, the backslash. The scan functions are functions
of the text and a position (`handle_strings`, `general_case`, ...), because
that is what a C scan function is once the file does not change; a token is
its type, its span and its line. A file can be any text up to `MaxLength`. The
callers stop at an error or the end of the file, as the lexer tool and the
parser do.

`LookaheadIsTransparent` is the refinement of `TokenStream`: the next token
returned is the one a scan from the end of the last returned token reads.
`LongestToken` compares the scanner with a description of the token language
that has no scanner in it (`IsToken`).

### Grammar, Derivation, Ast, Parser and ParseChecks

`calls` is the functions of the parser that have not returned, `vals` what they
have recognised: symbols of the grammar, each with the value its C variable
holds. A function of `parser.c` is an operator of the same name, which says,
for what the call has recognised (its place in the code) and the tokens it
peeks at, what it does next: expect a token, call a function, return, or report
an error. `Move` collects them, and an action is one such step: `Peek`,
`Consume`, `Call`, `Return`, `SyntaxError`, `Refuse`. `Built` is what a
function returns, in the constructors of `Ast`; lists of C are sequences,
children are kept by position as `ast.c` keeps them. The text is not given: the
lexer delivers whatever token comes next, and an input only bounds it.

`ParserImplementsGrammar` is the refinement of `Derivation`: a consumed token is
a shift, a function that returns reduces what it has recognised by a production
of its rule, and the parser accepts when a `statement_list` is left.
`NeverRejectsASentence` is the converse: after a syntax error no program of the
grammar begins with what was read and peeked at. `TreeYieldsText` prints the
tree and looks for the text in what is printed; only an empty `else`, `else if`,
a last comma and a type without fields can be written in two ways.
`ChecksFollowNesting` compares the three walks with the nesting of the braces.

### Types and Expressions

A type is an entry of the table and a number of stars. `program` is a list of
type declarations, resolved one at a time; then one expression grows, an
operator at a time, to any depth. It carries two types, `scope`
(`scope_get_Type_from_ast`, asked before an operator is generated) and `type`
(of the generator), its LLVM type `cg`, the bit pattern `value` that the
generated instructions compute and the number `want` that the operators mean.
`phase` says how the compiler ended: `refused` with an error, `assertion` and
`unimplemented` by its own checks, `undefined` when the instructions have no
meaning, `dangling` at a missing field, `endless` in the recursion of
`get_llvm_type`, or `stored` when the value is in a variable. A stack slot
reached through an address remembers what was put there one level deep; sizes
are without padding. Each part of an expression must be generated by itself,
which the code does as well.

### TestRunner

A suite is a sequence of tests, each with configurations, each with commands
that parse, compile, run or clean. A worker takes the next test and goes through
`_run_single_test` line by line: an old output is looked for, removed, opened to
append; the commands are run; the lines are compared and the file removed.
`names` maps an output name to a file and `text` holds what was written to each
file, so that a name that was taken over shows. Return codes are not looked at: a
command that fails (`Fail`) may have done its part or not, and have printed all it
should, nothing, something else, or bytes that do not decode; of the last
`readlines` raises in the worker. A command may also be killed for being late, and a
compiler that was killed may still build (`strays`). `faults` is history: what went
wrong in each configuration, read by no action. A command that prints prints one text,
the same for all of a test; good files are there, and decode. A configuration without commands has failed (`NothingToDo`), and a test without
configurations is done when it is taken. `RunnerAssumption` says what a suite is:
its tests, a file of one base name each, and that a program is run only after
it was compiled, as in all of the repository's configurations.

`PassedIsRight` says that a configuration that passed was in time and printed
what it should, and ran the program it built, unless one of its own compilers
failed without a word, or a compiler of it or of an earlier configuration was
killed. No claim is made for files of one base name.

### ScopeResolve and SymbolCodegen

The program is not an input: each step of the first walk meets some next
statement, chosen freely, and records it in `nodes`. The behaviours are then
all programs up to the bound. A node is its index, a scope the node that opens
it (0 is the file), a symbol the node that declared it, so that the order of a
list of symbols is the order of indices. `table` gives a symbol its type,
`bodied` is the functions whose AST has a body, `chain` the scopes around a
scope. The second walk (`pc`, `sr`) goes over the same nodes with the complete
table; `vals` is `current_values`, `funs` the LLVM functions; `refs` and
`calls` record what was emitted, for the properties.

Statements: `var` is `let n : T;`, `let` is `let n = x;`, `cast` is
`let n = 1 : T;`, `type` an alias, `opaque` an opaque type, `proto` and `func`
functions, `open` and `close` the block of an `if` or `while`, `use` an
identifier, `call` a call. Left out: variables of type `void`; all parameters
have the first builtin type; structs and pointers; arguments of calls. A phase
`undefined` stands for undefined behaviour (a definition with another number of
parameters than its prototype): nothing is claimed after it. Writing behind the
array of arguments may or may not do harm, and the model has both.

### CfgBuilder and StructuredProgram

The generator is recursive; `stack` is its calls that have not returned, with
the blocks each created, and an action is the code between two calls.
`blocks` are the basic blocks, `layout` those appended to the function,
`insert` the builder's position, `got` the slot the last expression left.
Again the tree is whatever comes next, up to `MaxNodes`; the bound is exceeded
only to complete an `else` or an expression. `nodes` keeps the parent and role
of each node, from which `StructuredProgram` says which leaf runs after which.
When the function is complete, `Execute` runs the blocks instruction by
instruction, with free values for the leaves: it is LLVM's meaning of `br`,
`condbr`, `ret`, loads and stores. `RunsAsWritten` says the leaves run in the
order, and with the values, of the structured program.

### Driver

A driver goes through `check`, `clear`, `make` (the temporary directory),
`build` (the pool), `link`, `remove`, `cleanup` and ends in `exit0` or `exit1`;
`drain` is leaving the pool after a failure. A tool takes two steps: it reads
its input and opens its output, then writes it and ends, or fails. The content
of a file is what it was made of and by which tools, so that a mixed-up file
shows. Base names are sequences of parts, because `x` with the suffix `-opt.ll`
and `x-opt` with `.ll` are one name. `Link` takes the object files of the
arguments first and those it made behind them (`driver.py:166-182`), in whatever
order they were given. A tool only needs its input to exist: an empty one it may
accept, as `opt` and `llc` do, or refuse. `mkdtemp` is a directory no one else
uses; `rmtree` is atomic; every driver has an output file of its own, and no
object file that is given lies in a temporary directory. `DriverAssumption`
gives the types of the arguments and asks for at least one worker process.

`SuccessIsRight` claims every file whose temporary names no other file of any
driver in the directory is made to (`NamesApart`). Files of one base name, `x`
beside `x-opt`, and a file given twice write each other's temporary files; a run
can succeed with the wrong object for these, and the property only says that the
others are not harmed. Drivers in one directory remove and make it under each
other, and are not excluded. `NothingLeft` claims a directory for successes
only: a driver that fails leaves it, and of one whose directory another driver
was given nothing is said.

### MakeRevision

One action per command of the script. Compilers are numbered by the build they
come from. `Crash` may happen before any step, at most `MaxCrashes` times, and
the script starts again; `died` remembers where. `git` and `CMake` are what the
script relies on: a build needs a compiler in `binaries/pebl`; `git add` stages
(`index`), the removal of a tar too, and fails for a path that is neither on
disk nor in the index; `git commit` commits what is staged; `push --all` does not
push tags.

## 3. Runs

| Run | Instance | Shows |
|---|---|---|
| `MCScoping` | 2 names, 2 builtin types and 5 more nodes, 1 parameter | shadowing in nested blocks, parameters, casts, aliases, opaque types, later declarations: `BindingIsLexical`, `WalksAgree`, `DoneHasValues`, `InferredTypeAgrees`, `CastCapturedOnlyByLaterAlias` |
| `MCLinkage` | 2 names (one is `main`), 1 builtin type and 5 more nodes | redeclaration in all orders, calls, exports, aliases of themselves and of each other; `FairSpec`: both walks end, but for a variable that has, or is cast to, an alias of itself (`CompilationEnds`) |
| `MCLexer` | texts of up to 4 of 13 characters, `FairSpec` | tokens, literals of the documentation without a backslash, blanks, lines, ends of files; all interleavings of peeks and gets; the scan ends |
| `MCParser` | ten kinds of text, each of up to 6 to 16 tokens of some sorts, 4 with a fixed start | what is read is a program of the grammar, and a syntax error is only found where no program goes on so (what stands behind the last statement is not read); trees and checks: `ParserImplementsGrammar`, `NeverRejectsASentence`, `TreeYieldsText`, `ChecksFollowNesting` |
| `MCTyping` | widths of 1, 2, 3 and 4 bits, two operands of each, two stars, thirteen typenames, eleven lists of declarations | `TypesAgree`, `Computes`, `SensibleIsGenerated`, `InferredHolds` |
| `MCRunner` | 2 workers, 4 suites of two or three tests, two of them with nothing to do | `PassedIsRight`, `ReportIsWhole`, `RunEnds` |
| `MCFlow` | 6 nodes of all statements and operators | `RunsAsWritten`, `OneTerminator`, `AllPlaced`, `SlotsReady` |
| `MCRevision` | 5 compilers, 3 crashes | every death is recovered from but those before the move, the commit and the tag |
| `MCDriverPool` | 1 driver, up to 3 files of 4 names that clash or not, an object file, 2 workers | success means that the files whose temporary names are their own are right, beside clashing ones too; failures are reported |
| `MCDriverTwo` | 2 drivers of one file, own or shared directory, `FairSpec` | success means the right output in a shared directory too, if the files are two; a success removes a directory of its own; both end if every tool does |

The exact constants are in the `.cfg` files; a builtin type is a node too. The
bounds are the smallest at which each interesting case occurs: a name declared
outside, shadowed inside and declared again afterwards needs two names and five
statements; the longest escape inside a literal needs four characters; a
conditional that returns inside a loop, and a call after the loop, needs six
nodes with the two conditions; a clash of temporary names needs `x`, `x-opt` and a
third file for the second worker to run ahead; two deaths in one revision and
one in the next need three crashes. The kinds of text in `MCParser` between them
need every production; sixteen tokens are a function in the body of a function,
which a check refuses, twelve a conditional with an `else if`. A bool is one bit, so
the smallest widths at which all integer types differ from it and each other are two,
three and four; what is lost or kept by a cast depends only on which of the two is
wider and on the sign bit, set in one operand of each width and clear in the other; an
expression takes all values as it grows. The lists of
declarations are an opaque type used as a field, a struct of itself and of a pointer
to itself, aliases of a pointer and of a struct, a struct with a `void` field, and a local
`bool`, `int`, `int64`, `string` and `char`. The other operand of an operator is
a constant or a variable of a type no constant has. Two workers are enough for any
two steps to interleave; the code has four. The suites have two configurations
of a program, which a late compiler can confuse, and two files of one base name. Every property has a mutant of the code,
marked as such beside the definition it replaces, that breaks it under the
bounds of its run.

Two runs are violations: they show where the code and what is written about it
disagree. The quotes are in `PROJECT.json`.

- `MCExport`: a function exported after a prototype without `export` is
  internal in a module with a main. `ExportWithoutPrototype` is what holds.
- `MCRevisionLost`: killed between lines 105 and 107 of the release script, and
  run again, it removes the only compiler left. `RecoversElsewhere` says that
  only this death, and those between `git add` and the tag, are not recovered
  from.

Other behaviour the models reproduce, in which the code differs from its
documents or is unfinished:

- A definition takes the number of parameters of its prototype
  (`scope-resolve.c:259`): with more, it writes behind an array; with fewer,
  uninitialised entries are inserted. This is the phase `undefined`.
- `type n = n;` is an alias of itself, which `Type_get_base_type` follows for
  ever (`Type.c:88`). This is the phase `spinning`; `CompilationEnds` says that nothing
  else keeps the compiler from its end.
- The type name of a cast is looked up again by the generator, and a local alias
  declared later captures it (`cg-operator.c:308`).
  `CastCapturedOnlyByLaterAlias` says there is no other way for the two to differ.
- A carriage return ends a comment (`lexer.c:119`; not in `doc/PeblLexer.g4:49`),
  and a quote can be escaped in a string (`lexer.c:190`; not in
  `doc/PeblLexer.g4:43`). The scanner knows five escapes, the document any character
  behind a backslash in a character literal (a lone backslash between the quotes too),
  and in a string a backslash like any other character; these are errors for the
  scanner (`lexer.c:156`, `:192`). `LongestToken` is about the literals of `lexer.c`;
  `PlainLiteralsAsDocumented` says that a literal of the document with no backslash in
  it is the token found.
- The grammar of `doc/grammar.md` has no `NULL` among the literals, the parser
  does; it allows `export` before a function without a body, the parser refuses
  it (`parser.c:126-140`). `doc/PeblParser.g4` is another grammar still.
- The parser ends at the first token no statement can start with, and does not
  ask whether the file ends there (`parser.c:577`): the rest is ignored.
- The comment of `check_allowed_at_file_scope` has types at file scope only; the
  code also lets aliases and types without fields stand in a body.
- `new(T)` is a `void*` to the scope and a `T*` to the generator
  (`definitions/builtins.def`): `let p = new(T);` makes a variable of another type than
  `let p: T* = new(T);`. `TypesAgree` names it as an exception.
- The object of a field access may be an alias of a struct for the generator
  (`cg-inst.c:42`), but not for the scope, which is asked when the type of the access
  is needed (`scope-resolve.c:787`). A field that does not exist is reported by the
  generator, but dereferenced as `NULL` by the scope.
- `pointer - number` is unimplemented, `pointer + number` with a number narrower
  than `int64` fails an assertion, and numbers of two widths are compared by an
  instruction of two types (`cg-operator.c:346`, `:18`, `:107`): the scope accepts
  all of them. `SensibleIsGenerated` says which operands are safe.
- A pointer cannot be cast to `bool`, though a comment of `build_cast_internal`
  lists it (`cg-helpers.c:209`).
- A body that declares a type `bool`, `int`, `string` or `char` changes the types of
  comparisons, of `sizeof` and of string literals in it (`cg-helpers.c:278`, `:297`).
- The test runner judges by output alone: a test without a good file and without
  output passes, one without `file` is only warned of, and without `-D` the
  options end in a `TypeError`.
- `break`, which the grammar lists (`doc/grammar.md:8`), ends the compiler with
  an error (`cg-inst.c:292`).
- Killed between `git add` and the tag (`make_revision.py:79-82`), the release script
  fails whenever it is run again, at `git add` of the old tar, which is then neither on
  disk nor in the index. This is `stuck`.
- The driver links object files before those it compiled, whatever the order of its
  arguments (`driver.py:179`), and leaves its temporary directory when it fails.
- Output of a test that does not decode ends the test runner with a traceback, and the
  results of all other tests are lost (`run_tests.py:131-137`, `:284`).

**Deadlock** is checked in every run but `MCTyping` and `MCRunner`; where a
process may stop, an `Exit` step that changes nothing says so. The models of
these two have none: an expression stops growing where the compiler stops, and the
test runner stops at the end of its run, which `RunEnds` shows to come.

**Fairness.** `SymbolCodegen!FairSpec`: the compiler is one process and takes
its next step, which may be one round of a loop without an end (`Spin`). The walk that
chooses the program may always go on only up to `MaxNodes`, so fairness of `Next` is
enough. `Lexer!FairSpec`: the lexer tool
calls `lexer_gettoken` in a loop (`src/tool/lexer/main.c:29-34`), so only that
action is fair, peeking is not. `Driver!FairSpec`: the worker processes of a
driver and its main process each go on, and tools end; nothing is assumed of
which file is taken or whether a tool succeeds. That tools end is a real
assumption: the driver gives them no time limit, and `peblc` can spin
(`MCLinkage`), so `DriversEnd` is about the programs on which it does not. `TestRunner!Spec`: each worker
process goes on, because the pool runs them and the time limit of 30 seconds
(`run_tests.py:63`) ends every command; `Finish` is the main process, which
waits for the futures. A stray compiler is not fair: it may never end.

## 4. Proofs

`LexerProofs` shows, for every set of characters without the end of the file,
files of every length and every order of calls:

- `BufferInvariant`: `Spec => []Buffered`, which no run checks apart: what it supports,
  `LookaheadIsTransparent`, is. The inductive invariant adds to
  `Buffered` only that `delivered` is a sequence. It is needed because
  `Transparency` has to know that the buffered token is the one the stream
  delivers next.
- `Transparency`: `Spec => LookaheadIsTransparent`, the refinement of
  `TokenStream`: `lexer_gettoken` is a `Deliver` step, a peek a stutter.

Nothing in these two proofs looks into `Token`: they hold for every scanner that
is a function of position and line. The next four are about the scanner:

- `LexerTyped`: `Spec => []TypeOK`;
- `NothingElseDropped`: `Spec => []OnlyBlanksDropped`;
- `TokensAreLongest`: `Spec => []LongestToken`;
- `LineIsRight`: `Spec => []LineOfToken`.

Their invariant is `Chain`: each token delivered is what one scan finds behind the
one before (`Scanned`). It is inductive together with `Buffered`, which says that the
next token is such a scan wherever the file position is. What one scan finds is shown
of any text. The scan functions are recursive functions of the position; that there is
such a function (`ScanExists`), and what it returns, is shown from the end of the text
backwards (`Downward`). The library's induction cannot be used here, so `Downward` and
`Upward` speak of a set of positions instead of a formula, and rest on a nonempty set
of numbers having a least one (`LeastElement`), which follows from the library's
theorem that the subsets of a finite set are well-founded. For strings, the scan
returns to its loop exactly at characters that no odd run of backslashes precedes
(`EscNext`, `StringRead`), which is how it agrees with `EscapedIn`, where
runs are counted. `LineIsRight` adds up the newlines of the gaps between the tokens
(`NextCounted`). The assumption is `CharsAssumption`: `WEOF` is no character, which
only `TokensAreLongest` uses.

`BindingProofs` shows, for every program of every size, every
set of names and any list of distinct built-in types:

- `LexicalBinding`: `Spec => []BindingIsLexical`;
- `InferredTypes`: `Spec => []InferredTypeAgrees`;
- `SameScopes`: `Spec => []WalksAgree`;
- `CalleesDeclared`: `Spec => []CalleeDeclaredBefore`;
- `NamesUnique`: `Spec => []UniqueInScope`;
- `CastsCaptured`: `Spec => []CastCapturedOnlyByLaterAlias`;
- `ValuesComplete`: `Spec => []DoneHasValues`;
- `ExportsExternal`: `Spec => []ExportWithoutPrototype`.

None of the first three is inductive. The inductive invariant is
`IInv == RInv /\ Walk2 /\ (phase = "resolve" => refs = {}) /\ Bound`:

- `RInv` is what the first walk keeps. `Shape`: a symbol is named by the number
  of the node that declares it, a scope by the node that opens it, and a scope's
  chain holds only scopes opened before it. `Follows`: the scope of a node
  follows from the kind of the node before it, which is why the second walk,
  which sees only the nodes, is in the scope of the first. `Declared`: the table
  holds every declaration met, except functions declared before. `Params`: the
  parameters of a function are the nodes after it, and are in the table as far
  as its prototype has room for them. `Inferred`: the declaration a type was
  inferred from was the nearest one in reach when it was inferred, and still is.
- `Walk2` is what the second walk keeps: its place and scope, that only nodes it
  has passed have values, and that a function it has passed is in the module
  with the arity of its symbol.
- `Bound` is the two properties, and that a reference is made by a node passed.

The argument: the second walk looks a name up in a table that holds later
declarations too, and a symbol without a value stops it. So what it emits has a
value, hence stands before the use (`Walk2`), is in the table and in reach of
the use; and the lookup returns the nearest such symbol. A declaration in reach
that is nearer stands in the table (`Declared`, `Params`) and would have been
found instead. That gives `FindsDenoted`, from which `LexicalBinding` and, with
`Inferred`, `InferredTypes` follow. Its first part treats a step of
the first walk as one node appended (`OneNode`) or a function with its
parameters (`OneFunction`); the second shows each action to be one of them,
and has one lemma per action of the second walk. `CalleesDeclared` adds
`CallInv`: there are no calls during the first walk;
`NamesUnique` needs only `RInv`. `CastsCaptured` is part of `Bound`: a type found
again for a cast is the one denoted, or stands behind the cast in a body
(`FindsCast`). The last two need `Bodies`, what the first walk keeps of functions (a
definition without a symbol of its own completes a prototype), and `Passed`, what the
second walk has done: it is over only behind the last node, each variable and
parameter it has passed has a value, and each exported function it has passed that no
prototype precedes is external. That the parameters of a function are told apart by
name is `UniqueInScope`.

The assumptions are `NamesAssumption` (there are built-in types),
`BuiltinsDistinct` (`install_builtins` asserts it) and `BoundsAssumption`; that
`MaxNodes` is finite is used nowhere.

`ParserProofs` shows, for every set of inputs and texts of every length:

- `Descent`: `Spec => ParserImplementsGrammar`, the refinement of `Derivation`;
- `Typing`: `Spec => []TypeOK`, in particular that two peeked tokens are enough.

Its first part lists, for each function, what it may have recognised (`Begun`:
the beginnings of its productions, which are fewer than those of the grammar
where the code decides early) and proves that from each of them, whatever the
tokens peeked at, a symbol it goes for leads to another of them and a return
comes only where a production is complete (`MoveSound`; one lemma per function).
The second part makes an invariant of that. `IInv` says that a callee began behind
its caller (`Nested`), that what the innermost call has recognised is one of its
beginnings, and that what each other call has recognised, followed by the rule of
the call it waits for, is one too (`OnTrack`), and that the outermost call is of
the whole text (`Outermost`). `OnTrack` is what makes it inductive: when a callee
returns, the caller is where it was promised to be. A return is then a reduction
(`ReturnReduces`), a token a shift (`ConsumeShifts`), and the end has exactly one
`statement_list` (`DoneAccepts`). The assumption is `InputsAssumption`, which only
`Typing` uses. That no sentence is rejected, and that the tree is that of the text,
compare with recursive definitions and are model-checked.

`CfgProofs` shows, for all statements and operators, nested to any depth, and
without an assumption on the constants:

- `BlocksPlaced`: `Spec => []AllPlaced`;
- `BlocksTerminated`: `Spec => []OneTerminator`;
- `SlotsFilled`: `Spec => []SlotsReady`.

The first two speak of the finished function, the third of its runs. The invariant of the first, `PInv`, says
at every step where each block is: it stands in the layout once and waits in no
call, or stands nowhere and waits in one call (`Placed`). `Pending` says, for each
point in the code of a call, which of the blocks in its local variables it has
still to append; and `Stacked` that each call generates a child of the node its
caller is at, so that no call of the function itself is left at the end
(`Complete`). The invariant of the second is `PInv` with `TInv`: in the blocks the
builder has left, the last instruction is a terminator, and a terminator before it
is a return with a later sibling (`Passable`, `Later`); the blocks that wait are
empty (`Settled`); and in the builder's block a terminator may also be at the end
if it is a return of the statement list the generator is in (`Open`). Only with
`Open` is it inductive: the next statement of the list is the later sibling, which
makes the return one that may stand there.

The invariant of the third adds `SInv`, about stack slots. There is a function `In`
from blocks to the slots that have a value wherever the block is entered, and
`Static` says the code agrees with it: an instruction reads only slots in `In` of its
block or stored to before it in the block, and a branch leads only to blocks whose
`In` is among those (`Sound`, `Fits`); the allocations stand in front of everything
else in the entry block, one for each slot, and no branch goes back there (`Front`).
While the function is built, the blocks a call keeps to append start with the slots
of the && and || being generated around it (`Around`, `FrameOK`), and those and the
slot just computed have a value where the builder is (`SReady`): that is why both
ways into the end of a short circuit, over its right hand side or past it, find the
slot of the result written. While it runs, the slots the code counts on have a value
(`SRunning`). `BlocksTerminated` is used too: no run leaves a block but by a branch.

`FlowProofs` shows, again for all statements and operators, nested to any depth, and
without an assumption on the constants:

- `CodeRunsAsWritten`: `Spec => RunsAsWritten`, the refinement of `StructuredProgram`.

The generator emits the code of a statement before the parts of the tree exist that
decide what runs after it. So the invariant speaks of the trees that may become of
the present one: `Completes` says which, from the calls that have not returned, and
`NInv` how the tree grows along with the calls. A meaning `M` of such a tree is any
four functions that satisfy the equations of `First`, `After` and `Yield`
(`Reads`). For each, there is a *note* at every point of the blocks (`Note`): which
leaf comes next, one or the other by the value of a slot, and which slots of && and
|| still hold their initial values. `Rule` says what an instruction does to a note:
a leaf must be the one promised, a branch must lead to a block whose note promises
the same. The last is where a short circuit is right or wrong: its end is reached
over the right hand side, with that value copied into its slot, or past it, with
the initial value; the end's note asks the slot, and `Carries` says why the answer
is the same.

`FlowInv` is that such notes exist for every completion (`Builds`): the notes of the
blocks a call has created are what it created them for (`FrameNoted`), and the
builder stands where the call goes on (`Stands`). There is one lemma per action. A
step of the builder leaves fewer completions than there were (`BeforeStep`), which is
why the notes of the state before can be used. When the function is complete the tree is its
own completion; from then on `FlowInv` says that the note where the machine stands
tells what comes after the leaf executed last (`Runs`), and `FExecute` that each
instruction keeps that. `SInv` is needed there for the values of the slots.

What is left is that `First`, `After` and `Yield` are a meaning of the complete tree
(`ReadsSource`): that recursive functions with these equations exist (`FirstIs`,
`AfterIs`, `YieldIs`), since a parent precedes its parts, by the induction in terms
of a set of numbers that `LexerProofs` uses too (`ByOne`).

`DriverProofs` shows, for any number of drivers, files and worker processes, and
for any names and directories:

- `SuccessIsRightHolds`: `Spec => []SuccessIsRight`;
- `FailureIsReportedHolds`: `Spec => []FailureIsReported`;
- `NothingLeftHolds`: `Spec => []NothingLeft`.

`IInv` is a type invariant and, for each driver (`Guarded`): what its files are at
fits where its main function is (`StagesFit`: at `link` all are built, at `exit1`
no tool runs); no file is past the tool whose output is asked for (`NotPast`); its
directory is gone at the end of a success unless it is kept or shared (`DirGone`); for
every file whose names no other file is made to (`NamesApart`), a temporary file is
empty, while a tool has it open, or holds what its name says (`FileRight`), and a tool at
work has read what the tools before it made (`InputRight`); and the output is as
`Delivered` says once it is written (`OutRight`). The invariant carries from tool to tool
what the property asks at the end: a file may vanish, because another driver removes the
directory, but what is there is right, and what is not there is missed by the next tool
and the linker. A step for one file leaves alone what is said of another (`NamesOfOthers`,
`Local`). The assumption is `DriverAssumption`.

`ScriptProofs` shows, for any number of builds, crashes and runs of the script:

- `RevisionCompleteHolds`: `Spec => []RevisionComplete`;
- `CompilerInGitHolds`: `Spec => []CompilerInGit`;
- `RecoversElsewhereHolds`: `Spec => []RecoversElsewhere`.

`RevisionInv` says where the compilers and tars are between any two steps: revisions are
tagged without a gap (`Numbered`); there is a compiler except where the script died
between removing the old one and moving the new (`HasCompiler`); the only tars are
of the last and the next revision, and the one to be committed is of the compiler
that is committed with it (`TarsRight`); what is staged is what is committed and
tagged next, and the index has the tar of the last revision unless the script died
between `git add` and the tag (`HeadRight`). There is no assumption on the constants.

It also shows, for every suite and any number of workers:

- `PassedIsRightHolds`: `Spec => []PassedIsRight`;
- `ReportIsWholeHolds`: `Spec => []ReportIsWhole`.

What a worker prints is appended to a file by number, and files are found by name,
so the invariant relates both. Two workers are never at one test (`Apart`); no file
has two names, and one that a worker has open has no name but that of its output
(`Owned`). Unless base names clash, that name is still the file (`Held`), and what went
wrong shows in it until it is judged, as a line that should not be there or as one
too few (`Tells`: the good file has one line for every command that prints, and
a command leaves at most its own unless it leaves an error); unless a compiler failed or
was killed, the program to be run is that of this configuration (`Told`).
The configurations are reported in order, those of a test not yet taken not at all
(`Placed`, `Counted`); a compiler outlives only a configuration it was too late for
(`StrayOf`); a worker raises only for a clash or for bytes that do not decode
(`Counted`); and an output that is there is one a worker has open, or was kept for a
configuration that failed or raised (`Kept`). `PassedIsRight` itself is part of it.
The assumption is `RunnerAssumption`.

`TypingProofs` shows, for all lists of type declarations, widths and typenames:

- `Typings`: `Spec => []TypesAgree`;
- `Generated`: `Spec => []SensibleIsGenerated`;
- `Computation`: `Spec => []Computes`;
- `Inference`: `Spec => []InferredHolds`.

`Type_get_base_type`, `Type_eq` and `get_llvm_type` follow references from type to
type, so that the first half is about the table: its types can be numbered such that
an alias comes after what it is an alias of, with room for the stars between, and a
struct after the types of its fields other than itself (`Ordered`, `WellFounded`).
Each declaration adds one type behind those it refers to (`OneMore`); the one of a
body, which may hide a name, is the last, because there is one such body (`ToCome`).
From the numbering follow by descent (`ByRank`, `Descends`) that the three functions
are defined for every type of the table (`BaseIs`, `EqualIs`, `LLVMIs`), and from
that, that `Type_eq` is an equivalence, that it respects base types, pointers and what
they point at, and that equal types have one LLVM type (`EqTransitive`, `EqOfPointers`,
`EqLLVM`). The second half is one lemma per operator, on the invariant `Sound`: the
types are of the table; the scope's is equal to the generator's unless there is none
or the value came from `new`; and the LLVM type of what is not void is that of the
type. The operator table is looked up by names a program can give another meaning, so
`RuleIs` and `BinopTypes` say what is left of a rule then.

`Generated` needs `Ending` too, which says of the last operation what the property
says: if it did not end well, it is excused (`Excused`). There is again one lemma per
operator, and in each the way through the generator is followed. For sensible operands
the rule chosen is the one the operator table has for them (`Fits`, `RuleChosen`),
provided that the names the compiler looks up, `bool`, `char`, `int`, `int64` and
`string`, mean what they meant when the table was made;
so the assertion behind it holds, and the temporary is of a type with a size, which is
what `alloca` and `load` ask for (`SizedIs`). That a field is found at the place it was
declared at is `FieldFound`. A type without an LLVM type has, somewhere along the
references, a field that leads back to its struct (`EndlessIs`, `Circular`); this
goes by the numbering of `WellFounded`, since every other reference goes down. The
types are those of an invariant state, so `IInv` is used throughout.

`Computation` and `Inference` need that the expression is right (`Right`, in
`Reckoned`): its value is a bit pattern of its type (`Fitting`), what is meant is the
meaning of that pattern, and an address says what is there only as a pattern of
some LLVM type (`Kept`), which is what a load gives back. That is stronger than
`Computes`, which compares patterns only: the generators divide, compare and extend
signed numbers, so that the operands must mean what they should and not only look
like it. The provers know nothing of powers, so `TwoTo` is a function of the model, and
that it exists, grows and turns sums into products is proved first (`TwoToIs`,
`TwoToAdds`, `TwoToGrows`), then that a pattern and its signed number differ by
nothing or one period (`SignedIs`), and that sums, differences and products keep that
(`ArithModulo`). `MeaningIs` says that a meaning has the pattern it is the meaning
of. Each generator then is one lemma (`sintBOpRight` to `castRight`), and
each choice of one another (`BinaryRight`, `UnaryRight`, `CastRight`, `FieldRight`).
Addresses move by `Bytes`, which is a number for every type with a size (`BytesAre`),
again by the numbering. A store has the LLVM type of its variable because of `Sound`
(`SlotIs`): also behind `new`, where both types are pointers.

The assumptions of all four are
`TypesAssumption` and `ExpressionsAssumption`: a declaration uses the names it
mentions, words are the widest numbers, numbers are of more than one bit and a bool of
one, and the values tried fit.

What stays with TLC: liveness under fairness throughout; and the properties
of `ParseChecks`, whose definitions are recursive in the tree and the text, out of the
prover's reach.

## 5. Not modelled, and the plan

Debug information, highlighting, build files, the AST dump, the shipped
binaries and the Python bindings have no behaviour worth a property. The LLVM
tools, `git`, CMake and the file system are modelled only by what the code
relies on.

Left out of the modelled parts: the dump of the tree; `assert` and `typeof`, the
number and the types of arguments of a call and of returned values, which the
code does not check (`cg-call.c:45`); the search for tools and the optimizer's options in the
driver; options and variables of test configurations.

Planned, in this order:

1. `Calls`: arguments and results of functions in `Expressions`, and inference
   from a call in `ScopeResolve`.
2. `Preprocess`: the string search and the read loop of `preprocess.pebl`, with the
   input buffer of `stdlib/io.pebl` they use.
