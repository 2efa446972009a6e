# Verification of alox-cc

alox-cc is an interpreter of the language Lox: a scanner and a parser that build an
AST, a compiler that walks it and writes bytecode, and a virtual machine that runs the
bytecode. This directory holds TLA+ modules of its core, the TLC configurations that
check them on small instances, and TLAPS proofs. The map from definitions to source
lines, the list of runs and the list of hazards are in `PROJECT.json`.

The program is sequential. What is hard about it is not concurrency but *agreement over
time*: the compiler predicts the run-time stack without ever seeing it, closures and
functions share variables that move between stack and heap, and one virtual machine
lives through many lines of input, some of which fail half-way.

## Inventory

| Component (src/src) | State | Operations | What makes it correct | Status |
|---|---|---|---|---|
| Compiler: `compiler.cc`, `context.hh`, `codegen.cc`, `error.cc` | one `Context` per function (locals, upvalues, scope depth, loop bookkeeping, chunk), the stack of class contexts, the first error | one handler per kind of AST node | locals sit where the code looks for them; names resolve as the text says; every jump is patched, and all paths to an instruction have one stack height | `Compiler`, `CompilerInvariant`, `CompilerProofs`, `CompilerScopes`, `CompilerScopesProofs`, `CompilerStack`, `CompilerStackProofs` |
| Closures and calls: `vm.cc`, `object.hh` | value stack, call frames, closures, upvalues, list of open upvalues, globals | the handlers of the instructions on variables, closures and calls; `run(function)`, `runtimeError` | frames stay nested; the list of open upvalues is sorted; no upvalue outlives its slot; a captured variable is one variable | `Closures`, `Cells`, `ClosuresCells`, `MCClosures`, `ClosuresProofs` |
| Dispatch, classes, properties: `vm.cc` | instances' fields, classes' methods, bound methods | `CALL` of classes, bound methods and natives, `INVOKE`, `SUPER_INVOKE`, `GET_PROPERTY`, `INHERIT`, `METHOD` | the fused instructions do what the instructions they replace do; a method runs with a `this` of its class; copied methods are those of the chain of superclasses | `Dispatch`, `DispatchProofs` |
| Hash table: `table.cc` | entries, count, capacity | `get`, `set`, `del`, `addAll`, growth | it is a map; every search ends | `HashTable`, `Map`, `HashTableProofs` |
| Parser: `parser.cc` | two tokens, the C++ stack, the tree, the first error | recursive descent and the table of precedences | it accepts the documented grammar, but for the differences named below; its tree is the one reading of the text; it ends on every input, errors included | `Parser`, `Grammar` |
| Scanner: `scanner.cc` | position in the text, line | `scanToken` and its loops | longest match, nothing lost between tokens, an end for every text | `Scanner`, `ScannerProofs` |
| Chunk and encoding: `chunk.cc`, `codegen.cc`, `val_array.cc` | code, constants, lines | `emitByteConst`, `emitLoop`, `patchJump`, `add_constant`, ... | what is written is what is read; indexes and distances fit their operands or are reported | `Chunk`, `ChunkProofs` (but the table of lines) |
| Printer and disassembler: `printer.cc`, `debug.cc` | none | `AST_Printer`, `disassembleInstruction` | what is printed is the program | `Printer`, `Reprint`, `Chunk` |
| Session: `alox.cc`, `options.cc` | one `VM` for all lines; options | REPL, file, result codes | a line that failed leaves the next one a clean machine | partly: the lines in `Closures`, `-p` in `Reprint` |
| Natives, printing of values, `memory.hh`, the command line, CMake, benchmarks, `tools/` | none of their own | input, output, formatting | — | not modelled |

How they interact: `Alox::runString` scans, parses, compiles and runs one source; scanner,
parser and compiler are made anew each time, the virtual machine and its globals stay.
The parser calls the scanner for tokens, the compiler walks the finished tree, the
virtual machine reads the finished chunk. Everything is a plain call. State is shared
in three places: the error manager (parser and compiler), the object heap (chunks hold
functions and strings that the virtual machine uses), and the globals (all lines).

There are no threads, no messages, no timeouts and nothing persistent, so there is no
crash recovery to model. Failures are errors reported by the compiler (which do not stop
the walk) and runtime errors (which empty the stacks and keep the globals).

## Modules

### Compiler

One action per handler of `compiler.cc`, and one per point where a handler goes on after
a sub-expression or a statement (`IfThen`, `IfElse`, `ForIteration`, ...). The C++ call
stack of the walk is the variable `todo`, one list for each function being compiled; its
tasks carry the C++ locals that the rest of a handler needs (a jump to patch, the break
context saved).

The AST is not given beforehand: wherever the code looks at a node's type, an action
exists for each type the parser may have put there. The state graph is therefore the
compilation of *every* program of the families it is given (`Families`): each is a set of
kinds of nodes, the names they use, and how many nodes and arguments there may be.

Two history variables are kept beside the code's state. `height` is the value stack's
height at the instruction about to be emitted, by the effects of the handlers of
`VM::run` (`Effect`); after a jump no path goes on (`DEAD`) until one is patched to arrive
there. `visible` holds the names that a reader sees in scope. Jumps are counted in
instructions and constants are names: bytes are the matter of `Chunk`.

A program is *orderly* (`Orderly`) if it has no `break`, no `continue`, no initial
expression in a `for` and assigns to what can be assigned to. Three of the properties hold
of orderly programs only, as the findings show, and say so in their names (`...InOrder`).

`MCCompiler` names the families, and the three programs that show the findings.

| Run | Programs | Shows |
|---|---|---|
| `compiler` | eleven families. Variables, blocks and nested functions over two names, 4 nodes; expressions, 3; classes with methods, inheritance, `this`, `super`, 4, with parameters 3, with superclasses alone 5; `if`, `while`, `for` with and without each clause, `and`, `or`, 3; returns, 3; branches and loops, 4; `break` and `continue` in `while`, 4, in `for`, 3; initial expressions and any target of an assignment, 2. `UINT8_COUNT` = 3, so that the limits of locals and upvalues are met | `TypeOK`; `SlotsMatchInOrder`: the number of locals is the height of the stack wherever a statement begins; `LexicalScopeInOrder`: a name means what the text says; `UpvaluesResolve`: a chain of upvalues ends at the innermost enclosing variable of the name, and that is marked as captured; `NoGlobalThis`: `this` and `super` are never looked up among globals without an error; `JoinsAgreeInOrder`: all paths to an instruction bring the same height; `JumpsPatched`; `LoopNesting`; `NothingOutlivesItsScope`; `ContinueStaysInLoop`: a `continue` that emits code goes to a loop open around it in its function |
| `compiler_break_height` | violation of `JoinsAgree` | finding 1 |
| `compiler_continue_scope` | violation of `LexicalScope` | finding 2 |
| `compiler_for_init` | violation of `SlotsMatch` | finding 3 |

Why the bounds are enough: four nodes hold a function in a function that captures a
variable of the script's block and is shadowed, or a class with a superclass and a method
that uses `super`; three hold a loop in a branch of a loop, with its body. Each run meets
the mutants listed in `PROJECT.json`, bugs of the kind the code could have, and finds
them. Two of the names are
interchangeable and TLC uses the symmetry; the third is used by families of their own.

### Closures

One action per handler of `VM::run` that touches variables, closures or calls, and
`StartLine` for `VM::run(function)`: the next line of the REPL. `CLOSURE` is taken apart:
`MakeClosure` pushes the closure, and each `Link` is one round of the loop over its
upvalues; while `linking` is not empty nothing else runs. All other handlers are one step.

The bytecode is any that the compiler may emit. The compiler's promises, which module
`Compiler` is about, appear as the frame's bookkeeping: `locals` (slots that are
variables), `params` (those that no block ends) and `captured` (those it ends with
`CLOSE_UPVALUE`). Operands of an instruction are among the locals and upvalues that exist;
a block ends, and a function returns, with no temporary values but the result. Blocks left
by `break` and `continue` are outside of this contract, as the findings explain.

Instructions whose only effect is to pop operands and push a value are `Pop` and
`Constant`; their failure is `Fault`. Objects are data, but for closures. Calls of classes,
bound methods and natives belong to module `Dispatch`.

`Cells` is the abstract specification: a variable is a cell that changes only by
assignment, and is never forgotten once captured. `ClosuresCells` adds to `Closures` the
identity of the variable in each slot and behind each upvalue, as history, and maps the
two onto cells. A variable is its slot and the number of closures there were when it was
declared: a slot can be used again while nothing has been captured in between, but then
nobody has the old variable any more.

| Run | Bounds | Shows |
|---|---|---|
| `closures` | `MCClosures`: 2 frames, 4 slots, and two families of behaviours. One function with up to 2 upvalues, beside the script, with a parameter or a global variable, and one runtime error; two functions with one upvalue each, no global and no error. Two lines of input in both | `TypeOK`; `FramesNested`; `OpenSorted`: the list of open upvalues is sorted by slot without duplicates; `OpenIsCaptured`: every open upvalue points to a living local that its function will close; `NoDangling`: without an error, an upvalue is closed or on the list; `SharedValue`: without an error, all closures and the variable's function see one value; `ImplementsCells`: every step before the first error is one of `Cells` or changes none |
| `closures_error` | violation of `CapturesSurvive` | finding 4 |

Two frames give a function and its caller; a third would repeat what happens between
them, and the proofs below hold for any number. Two upvalues make an order of the list,
three closures a closure that takes its upvalue from the enclosing closure
(`isLocal` = 0), and a closure shared by two lines; the families are the constraint of the
run and keep these apart, as together they are out of TLC's reach. `Room` (the code's `push` checks no
limit), `MaxClosures`, `MaxLinks`, `MaxArity` and `MaxErrors` are bounds of the model.

### Dispatch

One action per handler of `VM::run` for classes, instances and calls. The functions that
handlers share (`callValue`, `invoke`, `invokeFromClass`, `bindMethod`, `call`) are
operators of their names, `After...`, that take a machine and give the one they leave; a
runtime error is the machine that `runtimeError` leaves. As in `Closures` the bytecode is
any that the compiler may emit, with the instructions of a class declaration in their
order, nothing between them, and an error in `INHERIT` possible. `SUPER_INVOKE` and
`GET_SUPER` are one step with the instruction before them, which pushes `super`. Upvalues
are left out, as `Closures` has them: `super` is the class that the methods captured.
Instructions that move no object (constants, arithmetic, comparison, jumps, `PRINT`) are
left out too, and classes are declared at the top of a program only.

A method is known by the class that declares it, and three parts of the state are history
for the properties: the methods that a class body `declares`, the `height` of a frame by
the effects that the compiler reckons with, and the instance `made` for an initializer.

| Run | Bounds | Shows |
|---|---|---|
| `dispatch` | three classes with `Object` and two methods, two global variables, two names of which one is `init`, two instances in a statement, one field in all, 3 frames, 4 slots, 2 temporary values a frame | `TypeOK`; `MethodsAreInherited`: the copies that `INHERIT` makes say what the chain of superclasses says, whatever was redefined or failed since; `ThisBelongs`: a method runs with a `this` of its own class or one below it, and so is a bound method bound; `InvokeIsGetAndCall`: `INVOKE` and `SUPER_INVOKE` do what `GET_PROPERTY` or `GET_SUPER` and `CALL` do; `HeightsMatch`: every call leaves one value, so that locals are where the frame's code looks; `ConstructorsYieldTheirInstance` |

Three classes and two methods make a chain with a method that is declared above,
overridden below or skipped; three frames a method that calls another through `super` or a field; two
instances a bound method in a field of another instance than its own. Instances are
forgotten at the end of a statement, when nothing here can reach them. `STACK_MAX`,
`MaxTemporaries`, `MaxClasses`, `MaxMethods`, `MaxInstances`, `MaxFields` and `FunctionNames` (where
functions are declared) are bounds of the model.

### HashTable

`Map` is what a `Table` promises: each call has its effect on a function from keys to
values at once, and the result that goes with it. `HashTable` is the code: a call is made
(`Request`), works in one or more steps, and returns. `findEntry` is one operator, by the
round of its loop that stops; a step that needs it is enabled only if the loop ends, so
that an endless search is a call that never returns. The loops that change state, over
the entries in `adjustCapacity` and in `addAll`, take a step for each entry. The
assignment to a global variable, which sets, finds out that the key is new and deletes it
again, is the call `assign` of both modules.

Calls come in any order, as the class allows and more than the virtual machine makes: it
deletes only what it has just set. What holds here holds for its use.

| Run | Bounds | Shows |
|---|---|---|
| `hash_table` | two tables, three keys whose hashes are 3, 7 and 2, two values; 2 and 4 entries used; a first capacity of 2 instead of 8 | `TypeOK`; `CountIsUsed`; `SearchesEnd`: there is an empty entry wherever `findEntry` looks; `KeysAreFound`: a key is found where it is, past tombstones and around the end; `MaskIsRemainder`: every capacity is a power of two, for which alone `& (capacity - 1)` in `findEntry` is the remainder that the model takes; `ImplementsMap`; `CallsReturn`: every call returns |

The first capacity is smaller than the code's so that two growths are met with three keys,
which collide at capacities 2 and 4; the proofs below hold for any power of two from 2 on. `MaxCount`
bounds the entries in use of each table.

### Parser, Grammar, Printer, Reprint

`Parser` has an action for each function of `parser.cc` and one for each point where a
function goes on after another it has called; the C++ stack is `todo`. The scanner is the
set of tokens that may come next, so that a behaviour is the parse of one text and the state
graph that of every text of the families: free ones of up to 8 tokens over eight alphabets,
and texts with a fixed beginning to reach what takes more (a superclass, a list of
parameters or of arguments at its limit, 2 here for 255). A scanner error may precede any token.

The tree is a sequence of nodes in postfix order. What the parser throws away and the
properties need is kept as history: the tokens read (`source`), a node where brackets were,
and the mark of a property that is just read. After the first error the tree and the text
are forgotten, as the program forgets the tree; parsing goes on (`MaxAfter` tokens more).

`Grammar` has the rules of `docs/specification.md` as they stand there (`Document`), and the
derivatives of a grammar by a token: the reference. The parser differs from the document in
three ways, and the properties say of each text which of them apply:

- the target of an assignment may be any call, where the document has a name or a property
  (specification.md:75). `Lenient` is the document with that rule changed; a text that
  `Lenient` derives is accepted, and it is one of the document exactly if the targets in its
  tree are proper (`Targets`);
- a semicolon is wanted behind `break` and `continue`, where the document has none
  (specification.md:58); `Documented` leaves it out of the text before the document is asked;
- lists have limits, of arguments as the tests say, of parameters one more (`WithinLimits`).

TLC finds `AcceptsTheGrammar` or `ErrorsAreErrors` violated as soon as any of these is left
out of the statement.

`Printer` is `AST_Printer` as the sequence of tokens it writes; `Reprint` composes the two:
what was parsed is printed and parsed again, as the option `-p` invites to. A literal number
is one of three: one that an `ostream` writes as it is, one that has more digits than the
six it writes (`LONG`), and one that it writes with an exponent (`LARGE`; 1000000 becomes
`1e+06`), which the scanner finds to be a number, a name, a plus and a number.

| Run | Bounds | Shows |
|---|---|---|
| `parser` | eleven families of texts: free ones of 5 to 8 tokens, and 4 or 5 more behind a fixed beginning; `MAX_ARGS` = 2 | `AcceptsTheGrammar`: what passes without an error is a program of the document exactly if its targets are names and properties, is one of `Lenient` in any case, and has no longer lists; `ErrorsAreErrors`: the first syntax error is at the first token that no program of the document has there, but for a `break` or `continue` without its semicolon, and for texts in which an `=` behind an odd target was passed over, where the error is the first for `Lenient`; so no program of the document is refused but for that semicolon (or for a list too long); `TreeIsTheReading`: the tree has the tokens of the text in their order, with the precedences of the grammar, chains to the left, an `else` with the nearest `if`; `PrintedTextReparses`: the printed tree parses into the same tree if and only if it needs no brackets that the printer drops and all its numbers are written as they are; `EveryTextEnds` |

The trees that do not survive printing are named by `PrintedAs`: brackets around an
assignment or a unary operand, and around a property that is then called or assigned to.
Seven tokens are two operators with three operands and a bracket, an `if` in an `if` with
one `else`, or a call with two arguments; longer texts repeat these inside each other.

### Scanner

One action per turn of a loop or per branch of `scanToken`; `mode` is the place in the code. A
step looks at one character and may take it. Texts are sequences of characters that stand
for their classes; the decoder of UTF-8 and ICU's classes are external. An ill-formed byte
throws where it is looked at; `Throw` ends the scan.

| Run | Bounds | Shows |
|---|---|---|
| `scanner` | seven families of texts of up to 4 to 6 characters | `TokensAreLexemes`: each token is the longest lexeme of its type at its place, an error where none begins, and blanks and comments are all there is between two; `EveryTextIsScanned`: scanning ends, and but for ill-formed text and a number with a dot at the very end, with the last token |

`LinesLeaveOutStrings` says what the scanner does with lines. It is no correctness property and
no run checks it: it is part of the invariant proved below, and what
`xtest/string/error_after_multiline.lox` has to say of lines contradicts it (see Findings).

### Chunk

What `codegen.cc` writes and what `vm.cc` and `debug.cc` read. An opcode keeps its name,
operands are bytes of `UINT8_COUNT` values: 2 in the run, so that the third constant is beyond
the reach of a `uint8_t`, the fifth wraps, and a jump of four bytes is too long. The
instructions come in any order, as the compiler may ask for more than it does; `program`
remembers what it asked for.

| Run | Bounds | Shows |
|---|---|---|
| `chunk` | five families of opcodes, code of 2 to 15 bytes, functions with up to 2 upvalues | `ProgramIsRead`: the virtual machine reads the instructions asked for; a constant is the one meant if and only if it fits the width its index is written with; the target of a jump is the one meant, or the limit was reported; `DisassemblerAgrees`: the disassembler prints what the virtual machine would read and goes on at the same place |
| `chunk_constants` | violation of `ConstantsAreMeant`: global variables and constants, code of 9 bytes | finding 5 |

`ProgramIsRead` has no hypothesis. Of constants it says both halves: within the first 256 for
the name of a variable or a function, and the first 65536 for any other, the constant is the one
meant; beyond them it is another, and no limit is reported. Where the one read for a closure
is a function with another number of upvalues (`PairsMatch`), the instruction's length is
misread too, and only there. `ConstantsAreMeant` is what the repository says instead: the
constant meant, or an error.

### Deadlock and fairness

Deadlock is checked of `HashTable`, `Compiler` and `Reprint`, the end of whose work is a step
of its own, and not of the others: scanning and a chunk end, and the virtual machine stops
when its bounds are used up.

Liveness is stated three times. `CallsReturn` is checked under `FairSpec` of `HashTable`,
weak fairness of `Work`: the steps of the call in progress. `EveryTextEnds` is checked under
weak fairness of the parser's `Next`, `EveryTextIsScanned` under that of the scanner's. The
interpreter is one thread, and a table's methods, the parser and the scanner wait for
nothing, so what can go on does. No fairness is assumed of `Request` (the program may make
no more calls) nor of `PrintAndParse` (printing is an option). That a Lox program need not
end is no property of the interpreter.

## Proofs

`ClosuresProofs` proves, for every size of the stacks and every bound, under
`ClosuresAssumption` alone (sizes are positive, data are not numbers), that `Inv` of
`Closures` is inductive, and with it `TypeOK`, `FramesNested`, `OpenSorted`,
`OpenIsCaptured` and `NoDangling`.

None of them is inductive alone. `closeUpvalues` closes what it should only because the
list is sorted (`OpenSorted`); capturing keeps the list sorted because the walk stops at
the right place; a slot given up is free of open upvalues because every open upvalue
belongs to a frame that knows it (`OpenIsCaptured`) and the frames do not overlap
(`FramesNested`). `Inv` adds to the five that the script's frame is at the bottom of the
stack (`ScriptFrame`), by which the end of a line empties the stack, and that what a
`CLOSURE` in progress has left to link exists (`LinksExist`).

The argument, in the order of the module:

1. lemmas about sequences: a suffix, an insertion, another last element;
2. the walk along the list (`PassedStops`, `PassedSplits`): how many upvalues it passes is
   well defined, and in a sorted list it splits at the bound;
3. `CloseSplits`, `CloseKeepsOrder`, `CloseLosesNone`: after `closeUpvalues(last)` the list
   holds the open upvalues below `last`, in order, and all others are closed;
4. `CaptureInserts`: `captureUpvalue` finds the upvalue of the slot, or puts a new one where
   it keeps the order;
5. one lemma per action that it keeps `Inv`, put together in `NextKeepsInv`;
6. the theorems.

The second half of `ClosuresProofs` proves that the virtual machine implements `Cells` (`ImplementsCells`),
and `SharedValue`, from the same assumption. What is needed beyond `Inv` is `HistoryInv`, in
`ClosuresCells`: the locals of the frames are the slots that have a variable
(`NamesAreLocals`); closures captured variables older than themselves (`CapturesMatch`); an
open upvalue is at the slot of its variable, a closed one's is gone (`OpenWhileAlive`); and
two upvalues of closures are one if and only if their variables are (`OneUpvalueEach`). All
of it is said until a runtime error only: `resetStack` drops the list of open upvalues and
closes none (finding 4), and nothing like it is true from then on. So `SharedValue` speaks
of `errors = 0`, and `ImplementsCells` of the steps up to the first error: the theorem is of
`HistorySpec`, every behaviour of the machine, as is the run. TLC has checked
`HistoryInv` on the instance of that run. The argument:

1. how each kind of step changes the locals of all frames (`RunningLocals`, `AppendLocals`,
   `FrontLocals`), and with them the variables;
2. a step that leaves the upvalues keeps the history invariant, and so does one that closes
   those of the slots it gives up (`HeapStepKeeps`, `ClosingStep`); a `Link` finds the upvalue
   of its variable or makes the only one (`CaptureIsCaptured`, `LinkKeepsHistory`);
3. the value of a cell stays through all of that (`CellKept`): in its slot, or copied to the
   upvalue that is closed;
4. so a step declares, forgets, captures or assigns, and each is a step of `Cells`
   (`StepDeclares`, `StepForgets`, `LinkCaptures`, `AssignmentRefines`, `StepRefines`).

`CompilerProofs` proves of the compiler, under `CompilerAssumption` alone (at least two
locals fit a function, `this` and `super` are no names; programs of any families, size and
nesting), that `Inv` of `CompilerInvariant` is inductive, and with it `TypeOK`,
`JumpsPatched`, `LoopNesting` and the action property `ContinueStaysInLoop`.

None of these is inductive, as the compiler undoes much later what it does at a node: the
state must be known to fit the work that is left. `Inv` says of each function being compiled
that its tasks come in an order the walk can leave them in (`Before`), that what they carry
exists (`Fits`: the jump they patch, the variable they define, the block they end), that the
scopes and loops counted are those with a task to end them (`Counted`), that `last_continue`,
and each place a loop will restore it to, is the start of a loop still open behind
(`OpenLoop`), and that an instruction without its target has a task to patch it (`WaitFor`);
and of the functions together that each waits to be declared or to be a method in the one
around it (`Inside`). `break` is left out of `WaitFor`, as a second `break` in a loop forgets
the jump of the first. TLC has checked `Inv` on the instance of the run. The argument:

1. sequences: a task in front of the others or taken away, what is marked in them, and the
   jumps they patch (`PendingTail`, `PendingPushed`, `MarkedJoined`, `JumpsTail`);
2. each helper of the code generator by what it may change of the current function
   (`EmitsOneMore`, `Patches`, `Adjusts`, `ScopeEnds`, `AddsLocal`, `LooksUp`, ...): most of them
   only widen it (`GetsWider`: no task is left without what it refers to) and leave the
   others alike but for a captured local or a new upvalue (`Follows`);
3. a list computed by a recursive function, the upvalues of `Links` or the parameters, by
   going up from its first element (`StepByStep`, `Upward`, `LinksAre`, `ParametersAreDeclared`);
4. a step in parts (`Midway`): the task at the head is taken, which leaves its scope, loop
   and jumps to account for; the code changes; the tasks put in front account for them
   (`Starts`, `Moves`, `PutsInFront`, `WalkKeeps`);
5. one lemma per action, with `DescendKeeps` and `AscendKeeps` for the beginning and the end
   of a function, put together in `NextKeepsInv`, and the theorems.

`CompilerScopesProofs` proves `UpvaluesResolve`, `NoGlobalThis`, `LexicalScopeInOrder` and
`NothingOutlivesItsScope` from the same assumption, of all programs, those with `break` and
`continue` too. What is needed beyond `Inv` are `Ordered` and `Lexical`, in
`CompilerScopes`, which are inductive relative to it. `Ordered` says of the code without an
error that each upvalue an instruction uses is `Resolved` in the functions around
it, and that each global is a name of the program (`Scoped`, and `ScopedFunctions` of those
that are finished). That stays only while the functions around wait: their locals may be
captured but do not go, their upvalues may become more but do not change. The rest of
`Ordered` is what makes it so, and what makes `this` and `super` be found:

- what a task will patch is a jump (`Lands`), so that patching never changes an upvalue's
  operand; that includes `last_break`, which an outer loop restores and `break` may forget;
- the stack of class contexts is spread over the functions being compiled in the order of
  their nesting, each class in a function with a task to end it, and every open subclass
  there with a local `super` around it (`OpenClasses`; the function `at` is a witness: the
  code keeps no such link);
- the check `super` made of the class around it is still so when the arguments of its call
  have been compiled (`SuperWaits`).

`Lexical` relates the list of locals to the scopes of the text, which the code keeps apart:
the compiler drops locals by their depth when a scope ends, the model's ghost `visible`
goes back to the length it had when the scope began. In every function being compiled there
are a place among the visible names for each local and a depth for each task that waits
(`Laid`), witnesses the code does not keep, such that

- each local is the name at its place, which is no earlier than its index, the depths go up
  with the list, and only the last local may be without a value (`Shown`);
- the depths are those of the scopes the waiting tasks will end (`Levels`), and a scope
  holds only the locals behind the names it began with (`Bounds`): so that the two ways of
  ending it agree;
- a local waits for its value, at depth -1, exactly as long as its declaration is compiled
  (`Declaring`), and the local a function is bound to has its depth before the body starts
  (`Bound`): the end of a scope would leave a local of depth -1 in the list.

Programs without `break` and `continue` have in addition no visible name without a local
(the places are 1, 2, 3 ...), which is `LexicalScopeInOrder`; with them names are missing,
as the findings show, but no local is left over, which is `NothingOutlivesItsScope`.

TLC has checked `Ordered` on the instance of the run, and `Lexical`, whose witnesses it has
to search, on its smaller families. The argument:

1. what denotes a variable still does so when variables persist and upvalues are added
   (`DenotesOn`, `ScopedOn`);
2. `resolveUpvalue` gives an upvalue that is `Resolved` (`ThreadedResolves`), so a name that
   is looked up is a local, an upvalue that reaches its variable or a global
   (`LooksUpTame`), and `this` is found, as a method has it in its first slot
   (`ThisIsFound`), and `super` in the scope of its class;
3. each helper of the code generator leaves what is true of names as it was (`Tame`), and so
   does a step of the walk that lands where there is a jump (`WalkOrders`, `StepOrders`);
4. the beginning of a function adds one with nothing in it (`DescendOrders`,
   `MethodOrders`); its end puts its closure into the function around it, whose variables
   were waiting (`OuterWaits`, `AscendOrders`);
5. the same for `Lexical`: a helper that leaves the scope alone keeps its witnesses
   (`Calm`, `CalmOn`), a declaration adds a place at the end, the end of a scope cuts both
   lists at the same names, a function begins with its parameters laid (`DescendLays`,
   `ParametersAreHeld`) and leaves the ones around it as they were (`AscendLays`);
6. one lemma per action for each of the two (`...Orders`, `...Scopes`; where the step is
   `Calm` the first does both), of which those of a class keep the witness of `OpenClasses`,
   put together in `NextKeepsOrdered`, and the theorems.

`CompilerStackProofs` proves `SlotsMatchInOrder` and `JoinsAgreeInOrder`, the two properties
about the height of the value stack, for all orderly programs, from the same assumption. The
invariant is `Stacked`, in `CompilerStack`, which is inductive beside `Inv`, `Ordered` and
`Lexical`. The two properties speak of states between statements and of finished jumps; what
is true in the midst of an expression, where most steps are, is said there of the tasks that
are left. A *point* is a number of locals, a number of temporaries above them, and whether a
path leads there at all (`Points`). In every function being compiled there is a sequence of
points, one before and one behind each waiting task (`LeadsOn`; a witness, as the code keeps
no such thing), such that

- the stack is at the first of them: its locals are the visible names, and `height`, unless
  no path goes on, is locals and temporaries (`Sits`);
- each task moves its point to the next as its handler moves the stack (`Travels`, `Gain`): an
  expression adds a value, the end of a block takes the locals back to those it began with, and
  behind a statement there are no temporaries, but for the class that lies under its methods;
- a jump that waits was left with the height that there will be where its task patches it
  (`Meets`, `Reaches`), and the place where a loop starts again, or its body, has the height of
  its point (`Repeats`, `Restarts`);
- every jump that has a target leads to where the stack is as high (`JumpsMeet`; `CodeMeets` of
  functions that are finished).

A local function is a local of the one around it from before its body is compiled, but the
closure is pushed when the body ends; while it is compiled the function around it is one value
below its point (`Owed`, `Owing`). TLC has checked `Stacked` on the instance of the run, with
the points computed from the tasks, as it cannot search them. The argument:

1. a task that leads from one point to the next still does so when code is added
   (`LeadsStays`, `LeadsOnStays`), as the heights where they are known stay
   (`HeightsStay`);
2. what each helper of the code generator does to the point (`EmitStands`, `JumpStands`,
   `LoopStands`, `PatchStands`, `DeclareStands`, `EndScopeStands`, ...): a patch needs the jump to
   have been left with the height of now, which is what `Reaches` has kept for it;
3. a step that adds code without an error was in an orderly program without an error before
   (`...Heeds`), so the invariant held there;
4. the tasks put in front lead from the new point to the old one (`ExprAhead`, `StatAhead`,
   `ElseAhead`, `LoopAhead`, ...; `StackHead` and `StackStep` for the step as a whole);
5. the arguments of a call, the parameters of a function and the locals of a scope that ends
   are as many as are counted (`ArgumentsStand`, `ParametersCount`, `EndLeads`); the last needs
   `Lexical`, by which the locals dropped are the names of the scope;
6. a function begins at the point of its parameters (`NewIsBalanced`, `DescendStacks`) and at
   its end pays what is owed (`AscendStacks`); its code, without waiting jumps, meets
   (`CodeIsMet`);
7. one lemma per action (`...Stacks`), put together in `NextKeepsStacked`, and the theorems.
   `SlotsMatchInOrder` also takes from `Lexical` that the visible names are the locals.

`HashTableProofs` proves, under `HashTableAssumption` alone (finitely many keys with any
hashes, a first capacity that is a power of two from 2 on, any bounds), that `Inv` of
`HashTable` is inductive, with it `TypeOK`, `CountIsUsed`, `SearchesEnd` and `KeysAreFound`;
that `MaskIsRemainder` is inductive beside it; and that `Spec` implements `Map`
(`ImplementsMap`).

`Inv` says that every table is well formed (its count is that of the entries in use, at
most three quarters of them are, and the way of a search to a key meets no empty entry),
that a table in growth holds what adjustCapacity has passed (`GrowthOK`), and that `addAll`
has copied what it has passed (`CopyOK`). That a search ends needs the load, the load the
count, and the count of a table that grows needs to be compared with that of the old one;
so none of the four is inductive without the others. The argument, in the order of the
module:

1. the way of a search visits every entry once (`AtInjective`, `AtSurjective`), and
   `findEntry` gives the entry of the key if the way to it is free of empty entries
   (`FindEntryFinds`, `ReachableIsFound`);
2. a well-formed table has an empty entry, so searches end (`SomeEntryIsEmpty`,
   `SearchTerminates`);
3. a change of one entry that empties none leaves the others reachable
   (`OthersStayReachable`); from it `PutKeeps` and `DeleteKeeps`: the tables that `set` and
   `del` leave are well formed;
4. a new array has room for all entries of the old one (`GrownHasRoom`, `GrowthHasRoom`,
   `RehashPuts`);
5. one lemma per action that it keeps `Inv`, put together in `NextKeepsInv`, and the
   theorems;
6. an odd divisor of twice a number divides the number (`DoubledIsPower`), so growth keeps
   capacities powers of two; nothing else changes one (`NextKeepsMasked`);
7. one lemma per action that it is a step of `Map` or none (`NextMaps`), and `Refinement`.

`ChunkProofs` proves, under `ChunkAssumption` alone (a byte has two values or more; any
bounds), that `Inv` of `Chunk` is inductive, and with it `ProgramIsRead` and
`DisassemblerAgrees`: for the bytes of 256 values and the code of 65536 bytes of C++ as for
the small ones of the run. What is proved of constants is the equivalence of the run, not that
they are the ones meant, which is false (finding 5). `Inv` says that the instructions lie one behind the other and
fill the code (`Tiled`), and of each of them that its bytes are those meant (`Written`): the
index is that of the first place of the value if its width reaches that far and of another
place within its width if not, a forward jump waits or has its distance, and the limit was reported where the distance does not fit. It is
about bytes where `ProgramIsRead` is about what a reader makes of them, which no step could
keep: whether a constant is found depends on all that were added since. TLC has checked it
on the instance of the run. The argument:

1. `High` and `Low` split a number of two bytes and `ShortAt` puts it together
   (`HalvesMakeShort`);
2. constants only grow, so the first place of a value stays (`IndexStays`), and
   `makeConstant` returns it (`IndexIsFound`);
3. emitting leaves the bytes before it and writes its own (`EmittedBytes`, `WrittenStays`,
   `EmitKeepsInv`); a patch writes the operand of its own jump and, as the instructions do
   not overlap, that of no other (`PatchedBytes`);
4. one lemma per action that it keeps `Inv`, put together in `NextKeepsInv`;
5. what is written is what is executed (`ConstantIsRead`, `WrittenIsRead`), and the
   disassembler's cases are the virtual machine's (`InvAgrees`).

`ScannerProofs` proves, under `ScannerAssumption` alone (letters and emoji are no digits, and
none of them is a mark; any characters, keywords and lengths), that `Inv` of `Scanner` is
inductive, and with it `TokensAreLexemes` and `LinesLeaveOutStrings`, for texts of every
length. Neither is inductive: a token is returned many turns after it began, so `Inv` says of the
token in progress what its characters are up to now (`Begun`), that all in front of it is
returned or blank (`TokensBehind`, `NothingLost`), and that `line` counts the newlines so far
that are in no token (`LinesSoFar`). TLC has checked it on the instance of the run. The
argument:

1. pieces of the text and its end (`Sliced`, `TextEndIsFirst`, `BeforeTheEnd`);
2. each kind of lexeme by the characters at its places (`IdentifierAt`, `StringAt`,
   `NumberAt`, ...), and that its first character tells the kind (`LexemesAt`), as the
   classes of characters are disjoint: a token is the longest lexeme if it is the longest of
   its own kind;
3. what one turn may do: go on with the token (`StayKeeps`), pass blanks (`PassKeeps`, with
   the newline counted by `NewlineMore`), or return a token (`ReturnKeeps`, by `TokenMore`);
4. one lemma per action, the longest being that of `GetNumber` with its dot, put together in
   `NextInv`, and the theorems.

`DispatchProofs` proves, under `DispatchAssumption` alone (Object and the native function are
two globals, `init` is a name of a property; any names, arities and limits), that `Inv` of
`Dispatch` is inductive, and with it the type invariant, `MethodsAreInherited`,
`ThisBelongs`, `HeightsMatch`, `InvokeIsGetAndCall` and the action property
`ConstructorsYieldTheirInstance`: for programs of any number of classes, instances, frames
and temporary values. Of these only `HeightsMatch` is close to inductive. `Inv` says that every
value on the stack and in a field names what exists, and that what is bound to a method is of
its class (`Sound`); of each frame that its callee and parameters are on the stack under its
temporary values, disjoint from those of the next frame, and that an initializer's `this` is
the instance it was called to make (`FrameHolds`, `FramesHold`); that no instance outlives its
statement (`NothingRemains`), for which global variables must hold none (`GlobalsHold`); that
a superclass is older than its class (`Chain`); and how far a class declaration has come, with
what it has on the stack (`DeclarationGoes`): `INHERIT` copies the superclass's methods into a
class that has none yet, and never a class into itself. TLC has checked it on the instance of
the run. The argument:

1. the ancestors of a class, the least set closed under `super`, are the class and those of
   its superclass (`Above`), and do not change as younger classes come (`AncestorsStay`); so a
   method that is found belongs to an ancestor (`Found`);
2. what `push`, `pop` and an assignment below the top do to the stack (`Pushed`, `Popped`,
   `PutDown`);
3. every function of the virtual machine leaves a machine that has failed, has entered a
   frame, or goes on in its frame, with all values sound and the stack under the temporary
   values as it was (`CallOutcome`, `CallClassOutcome`, `CallValueOutcome`, `InvokeOutcome`,
   `GetPropertyOutcome`, `SetPropertyOutcome`, `SuperInvokeOutcome`, ...: `Outcome`);
4. from such a machine the invariant follows (`SettledHolds`, `ExecuteKeeps`), so one short
   lemma is left for each handler; `Return` has its own (`ReturnKeeps`);
5. the steps of a declaration (`DeclareSettles`, then one lemma per action), of which
   `InheritKeeps` and `MethodKeeps` show that the tables follow the chain;
6. the theorems; that `INVOKE` is `GET_PROPERTY` and `CALL` is `BindAndCall`, for which a
   receiver that is put where the bound method was gives back the same stack (`PutTwice`).

Only model-checked: everything about the parser and the printer (`AcceptsTheGrammar`,
`TreeIsTheReading` and `PrintedTextReparses` rest on recursive definitions, over which the
prover has no induction) and the liveness properties `CallsReturn`, `EveryTextEnds` and `EveryTextIsScanned`. Of the
compiler every property is proved; those named `...InOrder` are false of other programs, as
the findings show.

## Findings

1. `break` (compiler.cc:564) pops none of the body's locals, and arrives before a `POP`
   of the condition that has been popped already.
2. `continue` (compiler.cc:573) makes the compiler forget the body's locals for the rest
   of the body.
3. An initial expression of `for` (compiler.cc:488) leaves its value on the stack, where
   the next local's slot should be.
4. A runtime error (vm.cc:37) leaves the open upvalues of closures kept in globals pointing
   into the emptied stack.
5. The index of a variable's name goes through a `uint8_t` (compiler.cc:249, 349, 360): from the
   257th constant on, `var` and `fun` define a global under another constant's name, without a
   report, while README.md:22 of the repository counts "more than 255 constants in a
   function" as done. The check for 65536 constants (codegen.cc:57) can never fail, so
   that index wraps without a report too.

Further disagreements met on the way, which the models have as the code does them and no run
of their own shows:

- Any call may stand before `=` (parser.cc:377): `(a) = b;` and `this = b;` pass, where
  specification.md:75 has a name or a property and xtest/assignment/grouping.lox:2 and
  to_this.lox:3 expect "Invalid assignment target". `AcceptsTheGrammar` and
  `ErrorsAreErrors` say so as an equivalence and as an exception (`Targets`).
- `break` and `continue` want a semicolon (parser.cc:217-226) that specification.md:58 does not
  have (`Documented`).
- 256 parameters pass the check for 255 (parser.cc:80), against
  xtest/function/too_many_parameters.lox (`WithinLimits`).
- Newlines inside of a string are not counted (scanner.cc:100-110): a token behind a string of
  several lines bears a line too small, against xtest/string/error_after_multiline.lox:1
  (`LinesLeaveOutStrings`).
- Numbers are printed with six digits (printer.cc:313): of 1234567 the last are lost, and
  1000000 is written `1e+06`, which does not parse (`PrintNumber`).
- A number with a dot at the very end of the text throws (scanner.cc:128), which
  `Exceptional` in `Scanner` names; nothing in the REPL catches it.
- A 0 in the text ends it, but not where a comment is in front of it (scanner.cc:87-93).
- `break` and `continue` have no entry in the table of rules (parser.cc:276-325): in the place
  of an operand they read behind it (`NoRule`).
- The token of a `Dot` is not set for a property that is just read (parser.cc:408;
  `DotRest`).
- The printer does not give back the brackets of the text (`PrintedAs`).
- An error of the compiler does not stop the run (alox.cc:109).

## Not modelled

- Values: NaN boxing, their comparison and printing. They are conversions without state; in
  every module a value is a member of a small set.
- Natives (`vm_stdlib.cc`): input and output; a call of one is in `Dispatch`.
- The session: exit codes and the options `-d` and `-x`, which choose what is printed.
- `synchronize` of the parser, which is never called; the table of lines of a chunk, and the
  trace of a runtime error that uses it: formatting.
- Memory: `grow_array` copies an array; nothing is freed while in use.
- Instructions that move no object are left out of `Dispatch`; `Closures` has them as
  `Constant`, `Pop` and `Fault`, `Chunk` as bytes, `Compiler` as effects on the stack.
