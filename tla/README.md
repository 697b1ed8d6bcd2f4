# WCPL in TLA+

WCPL is a C compiler that compiles itself to WebAssembly: four source files of
the compiler (`l.c`, `p.c`, `c.c`, `w.c`), and the C library and runtime
(`lib/src`, `lib/include`) it links into every program.  This directory holds
TLA+ models of the compiler from its lexer to the binary it writes, and of the
parts of the library whose correctness depends on sequences of events or on
relations between pieces of state; the TLC configurations that check them; and
TLAPS proofs for six of them.

Everything in WCPL is single-threaded and runs to completion.  What makes it
hard to test is not concurrency: it is long sequences of legal calls on state
that is overloaded (the heap's in-band marks, one stdio buffer for two
directions), worklists that grow while they are walked (the linker), handlers
that call back into what runs them (exit), arithmetic at its limits, failures
half-way (no memory, a full device), and transformations of programs (parsing,
lowering, optimising, encoding) that must agree with a definition of the
language on every program, which a test suite only samples.

## 1. Inventory

| component | where | state | operations | interacts with |
|---|---|---|---|---|
| lexer, source lines | `p.c` 200-1860 | workspace: input, line number, position, look-ahead token, `bol` | `fetchline`, `lex`, `peekt`, `dropt` | parser |
| conditional compilation | `p.c` 4079-4204 | `cclevel` of the workspace; `level`, `gotactive` of a skip | `#if #ifdef #ifndef #elif #else #endif`, skipping | lexer, macros |
| parser, macros | `p.c` 2405-4075 | look-ahead token, table of symbols (`g_syminfo`, `g_nodes`) | `parse_top_form` and the rules below it, `#define #undef`, expansion | lexer, code generator |
| includes | `p.c` 3934-4075, `c.c` 4340-4540 | list of headers with their `once` mark, module names | `#include #pragma` | lexer, symbol table |
| symbol table | `p.c` 579-700 | global symbols of the module and of headers | `post_symbol`, `lookup_global`, `mark_global_referenced` | parser, code generator, linker (imports) |
| registers | `p.c` 2052-2088 | pool of names in use | `rpalloc` | code generator |
| types, constants, code generator | `c.c` | type trees, expression trees, function being compiled | conversions, folding, hoisting of locals, `wasmify`, `codegen`, switch tables, peephole, initialisers | parser, WAT writer |
| WAT reader and writer | `w.c` 793-3760 | text position, module being read | `write_wat_module`, `read_wat_object_module` | linker |
| linker: modules and globals | `w.c` 3762-3975, 4150-4304 | modules read, external module names, worklist `depglobals`, output module | `link_wat_modules`, `process_depglobal` | WAT reader, library files, layout |
| linker: layout | `w.c` 3976-4148 | data segment, segment addresses, table, memory size | `watify_wat_module`, `finalize_wat_module` | linker, WASM writer |
| WASM writer | `w.c` 42-790, 4309-4521 | section buffers | LEB128, sections, labels | layout |
| containers, interned names, archive | `l.c` | growing buffers, hash table, inflate state | `buf*`, `intern`, `mopen`/`mgetlb` | all of the compiler |
| heap | `lib/src/stdlib.c` 544-700, `unistd.c` 130-160 | `buckets[]` and the marks inside the blocks | `malloc calloc realloc free`, `sbrk` | the program, stdio |
| qsort, bsearch | `lib/src/stdlib.c` 495-541 | the array | `qsort`, `bsearch` | the program |
| streams | `lib/src/stdio.c` 1-512, `stdio.h` | `FILE`: flags, `cnt`, `ptr`, `base`, buffer; the table of streams | `getc putc fread fwrite fgets fputs ungetc fflush fseek ftell rewind setvbuf fopen freopen fclose` | heap (buffers), descriptors, exit |
| program end | `stdlib.c`, `lib/src/crt.*.c`, `stdio.c` 20-60 | `onterm_funcs`, `onterm_count`, `initialized` | `atexit exit terminate abort`, `closeall` | streams |
| printf, scanf, numbers | `stdio.c` 612-1711, `stdlib.c` 60-490 | none shared but `errno` | `vfprintf`, `vfscanf` and what they call, `strtol`, `strtod`, `atol` | streams |
| calendar | `lib/src/time.c`, `getenv` of `stdlib.c` | one `struct tm`, the time zone and its names | `gmtime localtime mktime tzset asctime strftime` | environment |
| POSIX layer | `fcntl.c dirent.c stat.c unistd.c` | preopened directories, `DIR` | `open read write lseek readdir ...` | WASI |
| string, ctype, math, errno, fenv | `lib/src` | nearly none | | |

What makes each of them correct, as properties a model can state:

- **heap**: blocks tile the memory, the program's are its own; two siblings are
  joined only if the other is really free and whole; sizes do not wrap; a failed
  call changes nothing.
- **linker**: everything `main` needs is in the output, once, and nothing else;
  every module named is loaded, whatever the order; the worklist comes to an end.
- **layout**: segments do not overlap unless shared on purpose; a patch holds the
  address or index of what it names; stack, heap and memory do not meet the data.
- **stream**: with any buffering it behaves as a file with one position.
- **program end**: every handler runs once, latest first; output accepted is
  output written.
- **qsort, bsearch**: a sorted permutation; found if and only if there.
- **conditional compilation**: the lines kept are those the C standard keeps.
- **symbol table**: a name has one meaning whatever the order of headers;
  exactly what is referenced is imported.
- **intern table**: equal names are one symbol, before and after a rehash.
- **lexers**: text is cut into the tokens the grammar of tokens says, whatever
  line breaks and comments are in it.
- **parser**: the tree is the one the text was made from; a macro's use is its
  body with the arguments in their places.
- **WAT text**: what is written is read back as it was.
- **macros, includes**: an include-once header is read once, recursion ends.
- **code generator**: a folded constant is what the code would compute; a
  conversion keeps the value; each `case` reaches its label; a rewritten pair of
  instructions does what the pair did.
- **WASM writer**: the declared lengths are those of the bytes; labels resolve to
  the enclosing block; LEB128 is decodable and minimal enough for its field.
- **calendar**: a moment is the date the calendar gives it, and back.
- **printf, scanf**: what C says of the format, into the room there is; what was
  printed is read back; input that does not match is left where it was.
- **directories, preopens**: every entry is reported once; a path resolves to the
  longest preopened prefix.

The list of places where the code is exposed to these hazards, each with its
line, is in `PROJECT.json` under `hazards`.

## 2. What is modelled

| module | models | compared with |
|---|---|---|
| `Lexer` over `Tokens` | `fetchline`, `lex`, `peekt` of `p.c` and of `w.c` | `TokenSyntax`: regular expressions, matched by derivatives |
| `Parser`, `FrontEnd` | `parse_top_form` and every rule below it, macros, the table of symbols | `CWriter`: trees written as tokens by C's grammar |
| `Conditional` | the conditional directives of a file | `Standard`, a fold over the lines |
| `Unit` | names in one compilation: `#include`, `#pragma once` and `module`, `post_symbol`, references, imports | properties |
| `CTypes`, `ConstFold`, `Lowering`, `Codegen` | `c.c`: types, constants and initial values, lowering, code, peephole | |
| `Compiler` | compiled functions, run on a WebAssembly machine | `CSource`: an evaluator of C |
| `WatText`, `Wasm` | modules in memory, written as text, read back, and written as a binary | the module itself; `WasmFormat`, a decoder |
| `Linker` | `link_wat_modules` to the point where all globals are moved | properties over graphs |
| `Watify` (EXTENDS `Linker`) | layout and patching of the linked module | properties |
| `BuddyHeap` | the allocator and `sbrk` | `HeapContract` (refinement) |
| `Stream` | one `FILE`, its descriptor and file | `StreamContract` (refinement) |
| `Exit` | atexit handlers, termination, closing of stdout | properties |
| `SortSearch` | `qsort` followed by `bsearch` | properties |
| `Calendar` | `time.c` and `getenv` | the day number, the zone's parts and C's names of fields, in the module |
| `Printf`, `Scanf` (`LibText`) | `stdio.c`'s formatting and the conversions of `stdlib.c` | what C says of each conversion, in the module |
| `BuddyHeap_proofs`, `Linker_proofs`, `Watify_proofs`, `Stream_proofs`, `Exit_proofs`, `SortSearch_proofs`, `Conditional_proofs`, `Unit_proofs` | theorems and proofs | |
| `CompilerCases` | the source file the compiler's run compiles | |
| `MC...` | instances for TLC | |

The modules form three chains, which are the three things WCPL is: source text to
instructions (`Lexer`, `Conditional`, `Unit`, `Parser`, `Lowering`, `Codegen`),
instructions to a binary (`WatText`, `Linker`, `Watify`, `Wasm`), and the
library the binary runs with.  They share their data where the code does: the
parser makes the trees of `CTypes` that the compiler lowers, `Linker` starts from
the imports that `Unit` ends with.

Operators that work through much data (a lexer's reference, the parser, the
compiler, the evaluators) are CONSTANTS of the state machine that uses them, and
the MC module gives them as `MCx(args) == LET r == x(args) IN r`.  The value is
the same; TLC's cost statistics do not unfold what is below a LET, and for
operators that call each other as a parser's rules do the unfolded statistics do
not fit in memory.

Every definition is named after what it translates and `PROJECT.json` (`map`)
gives the lines.  An operator named `Op_Something` is a *mutant* of `Op`: the
same operator with one plausible bug, kept next to it with a comment.  Each
property has one that breaks it, so that no property holds by the shape of the
model.

### BuddyHeap

Memory is an array of cells, one cell per `header_t` (16 bytes).  The code
distinguishes a free block from a used one by two bytes that overlap with list
pointers and with payload: `used.ff` of the block's first cell and the bucket
mark in its second.  The model keeps exactly these: `heap.ff`, `heap.bi`, what the
program stored (`Junk`, which may read as any value: the argument `luck` of
`Joins` chooses which), the free lists in order (`heap.buckets`) and the break
(`heap.brk`).  `Malloc`, `Calloc`, `Free` and `Realloc` are whole calls with the
recursive split (`Pulled`, from the level `PullLevel` that has a block) and the
iterated join (`Pushed`, up to `PushLevel`).  `live` is what the program holds.  A
failed assertion ends in `aborted`.  Sizes keep their width: `WordMod` is one more
bit than the last bucket's size.

`HeapContract` says what the calls promise: `Obtain` gives a run of cells apart
from all others, `Release`, `Resize` in place, `Move`.  `Implements` says that the
heap is one.  `Tiling` (free and used blocks tile the memory up to the break, no
cell twice) is the reason; `JoinsOnlyListed` (a sibling that would be joined is on
the list it is unlinked from) is why the in-band marks may be trusted.

### Linker and Watify

A module is a record of its name, the kind of its `main`, the names it imports
and its globals, each with the sequence of references in it (the instructions
`GET_GLOBAL`, `REF_FUNC`, `REF_DATA`, `CALL` of a function, patches of a data
segment).  `Collect` is the first loop over the command line, `LoadStep` the
loop over `extmodnames`, which grows while it runs, `EndLoad` seeds the worklist
with `main`, `_start` and the memory, `FollowRef` is one call of
`process_depglobal`, `MoveGlobal` ends one round of the worklist loop, `CheckStart`
is the last check.  Errors (`exprintf`) end in the phase `error`.

`Watify` runs on the result: `PlaceData` walks the exports backwards, merges equal
read-only leaf segments, aligns and patches; `PatchFunc`, `PatchData` and `PassCall` look at one
reference in code each, patch it and fill the function table, `NextExport` is the loop
around them; `Finalize` places stack, heap base and memory.  `RefInDataFails` and
`RefInCodeFails` are the two "internal error" exits.

### Stream and Exit

`Stream` has one action per function of `<stdio.h>`, each the whole call, built
from operators for the helpers (`AddBuf`, `WriteBuf`, `FlushBuf`, `FillBuf`,
`Adjusted`, ...) that map a record of all the state to the next.  The environment
gives memory for the buffer or not (`grant`), has a device of `DiskSize` bytes so
that writes come short, and lets reads fail.  `StreamContract` is a file with one
position, with errors reported in the error indicator; the refinement mapping
overlays what is pending in the buffer on the file (`Overlay(file, pos, Pending)`)
and computes the position from that of the descriptor.  `turn` restricts the
program to what C90 7.9.5.3 allows on update streams; `Habits` lists what it may do
besides that C90 allows and the code gets wrong (the known divergences below), none of
it in the passing run.

`Exit` has `AtExit`, `Puts`, `CallExit`, `Abort` for the program (in `main` and in
handlers) and `RunHandler`, `RunCloseAll`, `ProcExit` for the loop of `terminate`.

### Conditional

One action per line; `Standard` is a fold over the lines read so far that keeps
the standard's stack of blocks.  `AgreesWithStandard` says that lines and verdict
are the standard's.

### Unit

A file is a sequence of top-level forms.  `ws` is the stack of workspaces that
the recursion of `process_include` makes; a form is read from the top one:
`Include` opens a file, `PragmaOnce` marks it or ends it (`parse_top_form` returns
false), `PragmaModule` renames its module, `Declare` and `Define` post a symbol,
`EndHeader` closes a file.  A symbol has the module, type and storage class
`post_symbol` keeps of it; the class is an encoding (`none`: declared, `extern`:
declared and referred to, `register` and `auto`: defined, `static`: declared
hidden), which the model keeps, because what an operation does to it depends on
what the others left there.  A definition names what its code mentions (`uses`,
looked up by `lookup_var_type` and marked) and the symbols whose address its
initialiser takes (`inits`, looked up by `lookup_global` only).  `EndModule` is the
walk over the symbols that writes the imports, from which `Linker` starts.
`Careful` says which programs `ReferencesImported` holds of: those of the run, and
by proof every other such program.  Types are compared for equality; arrays without a size, which a definition
completes, are left out.  `defs`, `refs` and `passes` record what happened.

### Lexer

Both lexers are generated automata.  Their states are those of the code, as tables
from classes of characters to what the automaton does next: go on, end the token
with or without the character, give one character back.  A step reads one
character; `fetchline` joins lines that end in a backslash, `peekt` drops blanks and
comments.  `TokensRight` says that the tokens, and whether the text is refused, are
those of the grammar.  `TokenSyntax` knows no automaton: it takes the longest text
that a regular expression matches.

### Parser

The parser is a set of operators from a place (the position among the tokens, the
table of symbols, whether something was refused) to a tree and the next place, one
per function of `p.c`, with the one token of look-ahead the code has.  A macro is a
tree, and its expansion a substitution in a copy of the tree, as in the code.
`FrontEnd` has one step per top-level form; the table of symbols is its state.
`CWriter` goes the other way, from a tree to tokens, by C's grammar: as few
parentheses as precedence allows, or as many as possible, declarators around their
name.  `ReadRight`: the trees that are read are the trees that were written, and what
must be refused is.

### Compiler

Trees are records with an operator and children (`node_t`).  `CTypes` has the
conversions, sizes and offsets; `ConstFold` folds, and makes the bytes and addresses
of global variables; `Lowering` renames and hoists the
locals, gives those in memory a place in the frame, and makes labelled blocks of the
control; `Codegen` produces instructions with the type each leaves, then the flat
code, on which the peephole pass works until nothing changes.  Integers have the width
`ByteBits` times their size in bytes, so that overflow, sign extension and truncation
happen.  A
floating number is an integer without bounds: no fractions.

`Compiler` runs the code: frames with registers, operands and open labels, a memory
of bytes, the globals, and calls to functions of other modules, which are recorded.
`CSource` evaluates the same source with objects instead of bytes and paths instead
of addresses.  `ReturnsWhatItMeans` compares the results, the calls made outside, the
variables, and that the stack pointer is where it was.  `WellTyped` is what an engine
that validates demands of every instruction the run reaches, and that the compiler
accepts every function of the file and none of `Refused`: two parameters, cases or
defaults that are the same, a parameter of a bulk type, the address of a register
variable, a result put into a variable of another bulk type, and an `alloca` whose size
is in the frame or behind `->`.  `Returns` says that no loop is closed on the wrong label
and nothing traps.

### WatText and Wasm

`WatText` prints a module as tokens and reads it back with the reader's rules.
`Wasm` does both for an object module, one field a step, and for a linked program
`wat_to_wasm` (names to indices: imports first, then definitions; labels counted from
inside; signatures shared) and `write_wasm_module` (sections with their lengths,
LEB128), a step each.  `BinaryMeans` decodes the bytes with `WasmFormat`, which reads
the format as its specification defines it, and compares imports, functions, code,
data and exports with the program's.  `wat_to_wasm_ie` asserts that every global starts
with a number (`w.c:4467`), which `parse_import_des` gives no imported one: the
conversion then ends `"aborted"`, and `BinaryMeans` says that it does so for exactly the
programs that import a global.

### SortSearch, Calendar, Printf, Scanf

`MCLibrary` composes them: a behaviour uses one family of functions and the others
are idle, since they share no state.

`SortSearch` has one action per comparison and per pass.  Elements are identities
with a rank, so a lost or doubled element shows.  `newgap` is computed modulo the
word size.

`Calendar` sets the zone from an environment, reads a moment as a date, changes it,
puts it together again and prints it.  A moment is a pair of a day and a second,
since seconds of a century pass TLC's integers; the names of zones are cut at
`NameMax` as in the code.  `CalendarRight` compares the date with the day number the
Gregorian calendar gives it, the zone with the parts that the text of the variable TZ
was made from, the way back with the moment, and the text with the fields.  Since
`getenv` never finds TZ but takes another variable with a name of two letters
(`stdlib.c:488`), the run has environments where such a variable holds the same zone as
TZ, or where there is none and TZ names no zone; any other contradicts `time.c:238`, see
the divergences below.

`Printf` runs through a format, one step per character or conversion.  The spelling
backwards in a small buffer is kept as a text that grows at its front, up to
`BufferSize`.  A real is a count of `Grain`ths, so its decimal digits and its rounding
are exact.  `PrintedRight` compares with C's words: flags, sign, prefix, precision,
width, and the count that is returned when the room is too small.

`Scanf` runs through a format against a text, looking at a character before it takes
it.  The step-by-step recognition of numbers (`_aton`, `_atod`) is compared with the
longest item of C's grammar of numbers (`LongestItem`) and its value; `strtol`,
`strtoull`, `atol` and `strtod` are called alone too.


## 3. Runs

All bounds are CONSTANTS of the `.cfg`.

| run | checks | bounds, and why they are enough |
|---|---|---|
| HeapPage | Tiling, PayloadIntact, JoinsOnlyListed, Implements | blocks of 2, 4, 8 cells in a page of 8, one page above the program's own: splits over two levels, joins over two levels, exhaustion.  Sibling logic is the same at every level; two levels show its iteration |
| HeapSbrk | BlocksTile | three pages, requests of less and more than a page and of more than the memory: large blocks come and go between small ones |
| Link | MovedOnce, NothingDangles, NothingUnused, LinkComplete, MemoryDivided, AddressesLead, LinkEnds | three levels of modules (program, library, library of the library) and the runtime; every sequence of up to two references for two functions, references in data, cycles, a missing global, modules given twice, no `main`, an unknown module; for the layout five segments: two variables that may take addresses of each other, three string literals of which two may be shared and one has the same bytes and a larger alignment |
| Stream | LinesFlushed, BufferHonest, ImplementsFile | streams opened "r", "w" and "r+"; a buffer of two bytes, or of one without memory; files and a device of three bytes; all three modes of buffering, seeks from all origins |
| Exit | HandlersInTurn, AcceptedIsWritten, ExitEnds | four handlers, three lines, a table of five |
| Library | Permuted, InBounds, Sorted, Searched, Ends, CalendarRight, PrintedRight, ScannedRight | every array of twelve elements of two ranks (0-1 principle), from which on `newgap` goes through 11; moments at the ends of days, months, cycles of 4, 100 and 400 years, at 0 and at the limits of a 32-bit `long`, and years to 40000, in zones with each shape of offset; each conversion with every set of flags that C defines for it, with widths and precisions below and above the digits; every text of up to four or five characters over the characters that decide in a number.  An `int` has 8 bits, a `long long` 10 |
| Conditional | AgreesWithStandard, LevelsMatch | every file of up to five lines: nesting of two, and a chain of `#elif` |
| Unit | TypeOK, ReadOnce, DefinedOnce, ImportsUsed, ReferencesImported | modules of up to four forms (declare, include, define, refer: the longest chain the properties tell apart), the module's own header and two of others, with and without `#pragma once`, including each other; six open files, so that headers that are not marked run into the limit |
| Front | TokensRight, ReadRight | every short line over alphabets that lead through every state of the automata, three lines in sequence for what crosses lines; every operator under every other, every declarator of a small depth, a text for each kind of form, and each cut short in every place, which must be refused |
| Compiler | ReturnsWhatItMeans, WellTyped, Returns | a byte of two bits: `char` is -2..1, `short` -8..7, `int` -128..127, an address 0..255; a function for each thing that can go wrong (`CompilerCases`), called at the limits of its types; one for each thing that is refused; all optimisations on |
| CompilerSelect | violated: ReturnsWhatItMeans | see below |
| Wasm | TextReadsBack, BinaryMeans | words of eight bits; a name longer than 127 bytes, so that a length takes two bytes; each instruction form, nested blocks, imports before definitions; a program that imports a global |

`CHECK_DEADLOCK FALSE` is set where the modelled thing ends: a link, a sort, a
file, a call or a program is over, or (heap, stream) the bound leaves nothing to ask
for.

`TypeOK` of `Stream` is in no run: it and the stronger `IInv` of `Stream_proofs` hold in
all states of this instance, and are proved for every one; those of `BuddyHeap`,
`Linker`, `Exit` and `SortSearch` are proved too.

**Mutants.**  For each property `PROJECT.json` names a mutant that breaks it: which
bug the property is there to catch can be read off it.

**Fairness.**  `Link`, `Exit`, `Compiler` and `Library` state liveness.  The linker's
loops, the sort and the machine are the only thing that runs, so they take steps
while they can: `WF_vars(Next)`.  (In `Library` it is the sort's `Next` that is fair;
the other three families only make safety claims.)  In `Exit` the loop of `terminate`
runs while it can (`WF_vars(Terminate)`), and a handler, which is the program's code,
is assumed to return or to call `exit` (`WF_vars(phase = "handler" /\ CallExit)`);
nothing is assumed of `main`.  The other modules state safety only.

### Known divergences

One run shows the code to differ from what the repository says of it:

- **CompilerSelect**: `c.c:3085` "both branches can be computed cheaply with no
  effects; use SELECT".  The branches are then computed before the condition, which
  may change what they read: `(x = 1) ? x : y` gives the old `x`.

Others are departures from C90, which the library follows by its README ("C90,
abridged"), or from a comment or an assertion.  The models contain them, the programs
of the passing runs do not provoke them, and a property shows each when the run's
configuration is changed as follows (`<-` and `=` as in the file):

| run | change | property | what happens |
|---|---|---|---|
| HeapSbrk | MaxLive = 3, Requests <- AssertRequests | NoAbort | the last bucket asks for 2^31 bytes, a negative increment, which the assertion at `unistd.c:143` refuses |
| HeapPage | MemLimit = 32, MaxLive = 3, Requests <- SmallRequests | ReallocKeepsBlock | `realloc` releases the old block also when it returns NULL |
| HeapPage | MemLimit = 32, MaxLive = 3, Requests <- SmallRequests | FreeSiblingsJoined | the upper half of a split has no mark until it was in use once, and is not joined |
| HeapPage | MemLimit = 32, MaxLive = 3, Requests <- WrapRequests | PayloadFits | `realloc` of a block to 2^32-16 bytes or more wraps and succeeds in place |
| Stream | Writes <- MCWrites, Habits = {"turnsByFflush"}, Opened = {"r+"} | FlushEndsWriting | reading right after `fflush` on an update stream returns buffer content |
| Stream | Writes <- MCWrites, Habits = {"fputsUnbuffered"}, Opened = {"w"} | LossIsReported | `fputs` without a buffer ignores the result of `write` |
| Stream | Writes <- MCWrites, Habits = {"fwritesLines"}, Opened = {"w"} | LinesFlushed | `fwrite` looks for the newline in the wrong part of the buffer |
| Stream | Writes <- MCWrites, Habits = {"seeksPushedBack"}, Opened = {"r"} | SeekCurStays | after `ungetc` without a buffer, `fseek(fp, 0, SEEK_CUR)` moves |
| Stream | Writes <- MCWrites, Habits = {"pushesOthers"}, Opened = {"r"} | SeekUndoesUngetc | a byte pushed back stays in the buffer after a seek within it |
| Exit | OnTermMax = 4 | AcceptedIsWritten | with a full handler table `closeall` is not registered |
| Exit | | HandlersMayWrite | a handler registered before the first output cannot write |
| Link | | LeafsFirst | `w.c:3976` "reverse exports so leafs are processed before non-leafs": the worklist order does not give that.  `main` uses `b`, then `a`, and `a` has the address of `b`: `a` is placed first, and the link ends in "undefined ref in data" |
| Wasm | Programs <- MCZeroPrograms, Objects <- MCNoObjects | BinaryMeans | `v128.load32_zero` and `load64_zero` are given a lane operand they do not have (`w.c:1715`), and its byte is written after the instruction |
| Library | Environs <- MCOnlyTZ | CalendarRight | `time.c:238` "tzset() relies on TZ env variable": `getenv` returns the first *other* variable whose name has the same length (`stdlib.c:488` does not compare `strncmp` with 0), so that TZ itself is never found and every zone is UTC, or what a variable such as `HO` holds |
| Conditional | MaxLines = 3, Indents = {FALSE, TRUE} | NestsProperly | `README.md:20` "inactive parts can contain any C99 code and properly nested conditional compilation blocks": a directive with white space before its `#` is not seen while skipping |
| Unit | Texts <- CarelessTexts | ReferencesImported | `c.c:4538` "insert imports actually referenced in the code": the address in a scalar's initialiser is looked up without being marked, so `int *p = &x[0];` leaves `x` of another module without import; and a name that a header of another module declares and the module itself defines keeps the header's module, and is not imported |
| Front | Files <- MCSplicedFiles | TokensRight | `p.c:243`: a line is joined without what joins it being dropped, when no blank comes before the backslash |
| Front | Units <- MCLongUnits | ReadRight | `1l` is an `int` (`p.c:2509`) |

What follows was met while modelling.  The models have it as the code has it, or the
inputs of the runs stay clear of it.

- **Lexers**: `/*` without an end is accepted at the end of a file (`p.c:1822`), as is
  an active `#if` (`p.c:4168`, see `hazards`); in object files a nested comment whose
  mark follows another `(` or `;` is missed; `\u{...}` is a character for the lexer
  and not for `strtowatec` (`w.c:3103`); `1e400` is refused.
- **Parser**: in a macro, `generic(countof(...))` compares with the parameters and not
  the arguments (`p.c:2429`), and `countof(...)` in one without `...` is 1; `int int`
  is accepted; `int (int)` without a name and `char *restrict p` are refused; one form
  of initialiser is accepted in a struct's field (`p.c:3437`).
- **Compiler**: `x && y` yields `y` (`c.c:3805`); `(bool)` of a real emits no code
  (`c.c:2360`); a value stored into `_Bool` or returned as a narrow type is not
  converted; a `switch` with both INT_MIN and INT_MAX (`c.c:3492`) and assigning the
  number a call returns to a struct (`c.c:3297`) end in assertions; `&c` of a narrow parameter is refused;
  folded conditions look at 32 bits, or the integer part (`c.c:932`), `1 ? -1 : 0u`
  stays signed, `!` of a pointer constant is 0 (`c.c:888`); the operands of a shift
  are converted to a common type; an array does not decay in `p != a` and `a + 3`;
  `alloca` in the arguments of a variadic call is released after it.  The operand of
  `alloca` has no case in `expr_wasmify` (`c.c:1878`) and stays as it was written: a local
  in memory is then an undefined identifier (`c.c:3615`), `p->n` fails an assertion
  (`c.c:3767`), and a narrow variable in a register is read without being narrowed.
- **Binary**: converting a program that imports a global fails an assertion
  (`w.c:4467`).
- **Object files**: `select_t` is mis-encoded; results of blocks are written and not
  read.
- **Calendar**: "Sepember"; `%p` at hours 0 and 12; `%x` and `%X` swapped; `%w` has two
  digits; `strftime` never returns 0 and does not count ordinary characters; `mktime`
  does not normalise its argument; every fourth year is a leap year, right from 1901 to
  2038 (2099) only; names of zones are cut.
- **printf**: `-` with `.3d` ignores the precision; `%#x` and `%#o` that fill the width
  lose digits (`stdio.c:1139`); `%#.3o` and `%#.0o` of 0; a negative `*` precision is 0;
  widths above the buffer's 32 lose sign and prefix; flags with inf and nan; -0.0; `#`
  is ignored for reals; no `%n`, no `%F`.
- **scanf and conversions**: an old `errno` makes `%f` refuse inf and nan (`stdio.c:751`);
  widths do not hold them back; `%[` and `%c` that fail first return EOF; an exponent
  letter without digits is consumed; numbers of over 31 characters are split; `strtol`
  does not saturate; `strtol("0xg")` ends after the x; `strtod("1e")` consumes nothing;
  `wcstombs` does not count ASCII (`stdlib.c:849`).


## 4. Proofs

`tlapm` checks eight modules.  Their theorems hold for all values of the constants
that satisfy the named assumption of the module.

**BuddyHeap_proofs** (from `HeapAssumption`: block sizes are powers of two, memory is a
number of pages, requests are numbers of the word's width): for every memory, page, number of buckets
and set of requests, `[]TypeOK`, `[]Tiling`, `[]BlocksTile`, `[]PayloadIntact`,
`[]JoinsOnlyListed`, and `Spec => Implements`: the heap is a `HeapContract`, whatever
the bytes are that the program left where `free` looks for marks.  `IInv` is
`Held(heap, live)`: the free blocks and those the program holds tile the memory from
the first page to the break, each aligned to its size; free lists are without
repetition; a free block has its bucket's mark, unless it is the upper half that a
split left over, and a used block's header says that it is used (`WellFormed`); and each payload lies in its block and reads as the
program left it (`Intact`).  `Tiling` alone is not inductive: that a sibling which
reads as free is one (`JoinsListed`) depends on the marks of all blocks, and marks
survive only because blocks do not overlap.  On the way powers of two divide each
other (`SizeDivides`), blocks aligned to their size are nested or apart
(`BlockInBlock`), and sums and removals keep the lists (`ConsList`, `RemoveList`).
The hypothesis `NoWrap` leaves out the one request of 2^32-16 bytes or more that
`realloc` grants in place because its sum wraps (below 3, `PayloadFits`).

**Stream_proofs** (from `StreamAssumption`: the small buffer is smaller than `BUFSIZ`,
files fit the device, a hole's byte is neither the newline nor a text byte): for buffers,
devices, files, counts, writes and offsets of every size, all modes of buffering and all
kinds of opening, `[]TypeOK`, `[]LinesFlushed`, `[]BufferHonest` and
`Spec => ImplementsFile`: the stream is a `StreamContract`.  The hypothesis
`Habits = {}` leaves out the five things tabled in section 3 that C90 allows and the
code gets wrong; all else that C90 allows is in.  `BufferHonest` is not inductive:
it says nothing of a stream that is not being read.  `IInv` says of such a stream what
`cnt` may be (`WriterOK`: the room left in the buffer, zero, or below zero when lines or
bytes are written one by one; and `ptr` is at the base when there is no buffer or
nothing was written yet), and of one being read that the buffer has the file's bytes up
to the end of what was read, also those before `ptr`, to which a seek may return
(`ReaderOK`, `Mirrors`); that an update stream's turn agrees with its flags (`TurnOK`);
and that the byte just read can be pushed back (`CanPushBack`: it is before `ptr`, or
the buffer is empty and has room).  Every function is one lemma about the record it
maps, which says what becomes of three abstract values: the content `Out`, with what
waits in the buffer laid over the file, the position `End` or `At`, and the error
indicator.  For a write the content is that with the bytes put at the position
(`Wrote`), or bytes did not fit the device and the indicator is set (`Lost`);
`OverlayTwice` lets the flushing of a full buffer in the middle of a write be one write,
`WroteTrans` the copying loop a sequence of them.  For a read, the bytes are those of
the file from the position, and fewer than asked only at an error, at the end or after a
newline (`ReadSoFar`), which is what `Taking` chooses (`TakingIs`).  The two loops are
functions of the number of rounds, of which induction is proved with the least number
principle (`LoopExists`, `Induction`).  Then one lemma per action of `Next`: `IInv` is
kept, and the step is one of the contract's.  No step but `TypeOK`'s uses the bound on
`pos`.

**Exit_proofs** (from `ExitAssumption`): `[]TypeOK` and `[]HandlersInTurn` for every
number of handlers, also above the table's size, and `[]AcceptedIsWritten` if
`RoomForCloseAll` (fewer handlers than places: with a full table the code loses
output, see 3).  `TableInv` says that the handlers waiting are in the order of their
registration and none has run, that those that ran did so once, and that every
handler accepted is waiting, running or has run; `OutputInv` that what is accepted is
written or in the buffer and that, once there was output, `closeall` is in the table
until the stream is closed.

**Conditional_proofs** (from `ConditionalAssumption`): for files of every length and
nesting `Spec => []AgreesWithStandard` and `[]LevelsMatch`, if no directive has white
space before its `#` (`NoIndents`; one that has is not seen while skipping, see 3).
The code has three variables where the standard has a stack of blocks.  `Agrees` is
the relation between them: outside skipped text the stack is `cclevel` high and all of
it live; inside, the block being skipped is at height `cclevel` (`gotactive`) or one
above, those below it are live, `level` more are above it, all dead and with no branch
to be taken, and `gotactive` says whether the skipped block had one.  One lemma per
thing that happens to the stack (`PushActive`, `LeaveActive`, `NestInactive`,
`TurnInactive`).  `Standard` is recursive over the lines; that it obeys its definition
is proved with the least number principle (`JudgedLineByLine`).  Types are kept without
`NoIndents` (`TypeCorrect`: no level is taken below zero).

**Linker_proofs** (from `LinkerAssumption`: modules are well-formed, the three
special names differ): for every set of modules and every library,
`Spec => []TypeOK`, `[]MovedOnce`, `[]NothingDangles`, `[]NothingUnused`, and under
`LibraryNamed` `[]LinkComplete`.  None of these but the first is inductive.  `IInv` adds: the output is the prefix of the
worklist the loop has passed (`OutIsPrefix`), every reference looked at so far is
settled, that is queued or imported (`Followed`), the tracing variables are empty
before the trace (`Untouched`), and the modules read are modules
(`ModulesRead`).  The reason `MovedOnce` needs `OutIsPrefix` is the move itself,
which empties the definition: it is sound only because a key is queued once.  One
lemma per action shows that `IInv` is kept; `NothingDangles` follows from
`Followed` at the end of the worklist.
`LinkComplete` has two halves.  `LoadInv` gives the modules: each name tried was
given, is the subsystem or has been read, and no name is read twice; it needs
`LibraryNamed`, that a library file holds the module it is named after, since
`load_library_wat_module` takes a file by its name and does not look at the name
inside.  For the globals, each wanted seed is queued and each queued key is in
`ReachIn` of its place in the worklist (`DepsReached`); as no key is queued twice the
worklist is no longer than there are globals, so what is put out is in
`ReachIn[Cardinality(Globals)]`, and by `Followed` it holds all of it
(`OutputIsReached`).  That `ReachIn` obeys its recursion is proved from its CHOOSE
with the least number principle (`Induction`, `ReachInGrows`).

**Watify_proofs** (from `LinkerAssumption` and `LayoutAssumption`: each data segment has
bytes and an alignment, addresses are taken of functions only): for every output of the
linker, `WSpec => []MemoryDivided` and `[]AddressesLead`.  The invariant `LayInv` is
`Linker_proofs`' `IInv` until the trace ends, and from then on what the layout needs of
it: every global put out is defined, once (`Linked`).  `MovedOnce` is what keeps a
second entry of one segment from moving it after others were patched with its address
(`ThisIsNew`).  For the segments `LayInv` adds that what a segment refers to is placed
(`RefsPlaced`), so the words patched stay right, and that a segment others may be merged
with is a constant leaf (`SharedAreLeaves`); `OldStay` says that the next segment moves
none of the earlier ones.  For the code it adds how far the loop is (`Backwards`,
`Passed`): what was looked at is patched right, and the table holds what was looked at
(`TableOfTaken`).

**SortSearch_proofs** (from `SortAssumption`): for every length, every total
preorder and every word size, `[]TypeOK`, `[]Permuted`, `[]InBounds`, `[]Sorted`
and `[]Searched`.  `IInv` adds `ScannedInOrder` (in a pass with gap 1 that has not
swapped, the part scanned is in order), which gives `Sorted` when the pass ends,
and `WindowHoldsKey` (an equal element is never outside `bsearch`'s window).
`NewGapBound` is the arithmetic: the gap is at least 1 and in bounds whatever
wraps.

**Unit_proofs** (from `UnitAssumption`: programs are sequences of forms over the
files): for every program, `[]TypeOK` (with it: no more files are open than can
be), `[]ReadOnce`, `[]DefinedOnce`, `[]ImportsUsed`.  `IInv` adds what the storage
classes stand for: a defined name has a final class (`DefinedIsFinal`, for
`DefinedOnce`), a symbol marked `extern` was referred to (`MarkedIsUsed`, for
`ImportsUsed`), a file that is not marked was not read beyond its pragma
(`UnreadIsUnmarked`), imports are written at the end (`ImportsAtEnd`).
`PostedFacts` says what `post_symbol` keeps when it does not fail.
`ImportsAreComplete`: `[](Careful(text) => ReferencesImported)`.  A program is
`Careful` (Unit.tla) when the names it defines, hides or puts in initialisers are
its own, every declaration of them being for the main file's module, and when only
headers say `#pragma module`; without that the code leaves imports out (section 3,
known divergences), and `CarefulAssumption` has TLC see that all programs of the run
Unit are careful and that some of the careless ones are not.  `RInv` strengthens `IInv` by
`CarefulInv`: every open file knows the module of its next form (`WorkspacesKnow`,
with `InModule`: the last pragma before the line), a name of the module's own was
posted for it and any other was only declared or marked (`SymbolsKnow`), and a
reference names the module its symbol has, and has marked the symbol when the name is
not the module's own (`RefsKnow`): so the walk at the end finds it.

Only model-checked: liveness (`Ends`, `ExitEnds`, `LinkEnds`, `Returns`); everything
about the lexers, the parser, the compiler, the object files, the calendar and the
formatting routines, which are recursive over their data: RECURSIVE operators and what
folds compute are beyond the provers.

## 5. What is not modelled, and why

- **Compiler**: string literals and displays inside functions, the text of inline
  assembly, SIMD (its instructions are one table), arrays initialised by strings;
  fractions and rounding of floating numbers, which TLC has not.  The escapes inside
  literals, `__DATE__`, `__TIME__` and `HUGE_VAL` in the parser; line recall for
  messages in the lexer.
- **Object files**: the reading of executable modules and the list of exported tables;
  the escapes of data strings (`w.c:2081`, `w.c:3128`): a string is its bytes.
- **Layout**: initialisers of global variables.
- **Stream**: append mode, user-supplied buffers, the flush of other line-buffered
  streams; the table of streams.  The fetching of arguments in the runtime.
- **printf**: `%e` and `%g` (`_etoa`), wide characters, and `%f` beyond 10^9, which goes
  to `_etoa`; rounding of a decimal number to the nearest binary one in `strtod`, and
  `strtod` called by itself on inf and nan.
- **POSIX layer**: calls of WASI with their arguments arranged; its state is WASI's.
- **string, ctype, math, errno, fenv**: functions without state, or floating point.
- **l.c**: containers (growing buffers), the intern table, inflate; the data of the
  library archive embedded in it has no logic.  **examples**: programs, not WCPL.

## 6. Plan

Done, in this order: heap, linker, layout, stream, program end, sort and search,
conditional compilation, compilation units; then object files and binaries, lexers,
parser, compiler, calendar, printf and scanf; proofs for the heap, the linker,
the layout, the stream, program end, sort and search, conditional compilation and
compilation units.  Next, most important first:

1. `Streams`: the table of streams, `fopen`, `freopen`, `fclose`, `closeall`;
   composes `Exit` with several streams.
2. Displays and string literals inside functions in `Compiler`, with the data they
   make; the initial values of globals composed with `Watify`.
3. `#include` inside conditional blocks: `Unit` composed with `Conditional`.
4. `Intern` (hash table with rehash against a set of names), `Inflate` (decoding
   against a table), `_etoa`.
5. `Directory`, `Preopens`: `readdir` over WASI's cookies, the longest prefix.
