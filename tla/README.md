# A model of bou

bou is a small compiler: a program is scanned into tokens, parsed into a
syntax tree, printed, and one day turned into an ELF executable. These
modules model it in TLA+, check it on small instances with TLC, and prove
theorems about it with TLAPS. All line numbers refer to the files of the
repository's root (`src/` in PROJECT.json).

## The system

| part | files | state | operations |
|---|---|---|---|
| scanner | scanner.cc, token.h | cursor and start pointers, line, growing token array | `scan`, `scan_token`, `create_*_token`, `append_token` |
| parser | parser.cc, ast_node.h | token array and cursor `ip`, identifier table, an arena, the C++ call stack | `parse`, one function per grammar rule, `create_ast_node`, `create_assign` |
| arena, allocators | arena.cc | one block, an offset | `arena_allocate`, `arena_deallocate` (no-op), malloc variant |
| dynamic array, strings | darray.cc, util.cc | block, capacity, count | push, reserve, remove, grow, write |
| code generator | compiler.cc | register cursor, descriptors, code bytes | `compile_ast`, `next_register`, `emit_*` |
| ELF writer | elf.cc | output bytes | `write_elf` |
| driver | compiler.cc, bou.cc | none | `compile`, `repl`, `main` |
| printer | debug.cc | none | `print_ast`, `print_tokens` |

`main` reads a file, or `repl` one line, into a buffer and calls `compile`.
`compile` runs `scan` to the end, then `parse` on the array of tokens, which
prints the tree, then `exit(1)`: nothing after compiler.cc:28 is reached, so
the code generator and the ELF writer never run. The parser allocates every
node and member array, and all names but those of enums (which
`string_init` puts in malloc()'s memory), from one 4 MB arena and never frees.
There is one thread, no signal handler and nothing persistent: there are no interleavings,
lost messages or recoveries to model. What is hard in this program is
something else:

  - The parser is a web of mutually recursive functions over shared mutable
    state (cursor, table, arena), which relies on pointers returned from deep
    calls without ever testing them.
  - Errors are detected by `assert_parser`, a macro that evaluates its
    argument twice; the argument usually consumes a token.
  - Several values are used that nobody assigned: `evaluates_to` of some nodes
    (zero, from fresh arena pages) and `is_pointer` of a sum (whatever the
    stack holds).
  - Nothing knows where a buffer ends: not the scanner, which reads until a
    character stops it, nor the parser, which only the sentinel the scanner
    puts last keeps inside the token array, as long as no expectation takes it.
  - Memory beside memory: nodes, names and growing arrays share an arena, and
    an array moves whenever it is full.
  - The ELF headers speak of places computed from literals before the bytes
    are there.

For each part, what makes it correct:

  - *Parser*: every function gets a node; finished nodes have all their
    children, of the right kind and in source order, each in one place, and
    are not written again; the cursor stays in the array; every input ends in
    acceptance or an error; a name keeps one type; pointer operators are
    applied to what was declared; folded literals can be printed as what they
    are.
  - *Scanner*: the token array ends with its only sentinel, tokens cover
    the text without overlap and are as long as they can be, every token has
    room in the array, lines are counted, reads stay inside the buffer.
  - *Driver*: the parser gets what the scanner made, all of it; what memory
    held before is not scanned.
  - *Arena, dynamic array*: blocks are disjoint and inside the arena; an
    array holds the bytes pushed, in order, through every growth.
  - *ELF writer*: offsets and sizes in the headers agree with what was
    written.
  - *Printer*: follows no missing node; prints each node, and each name of
    the program, once.

## The modules

| module | models |
|---|---|
| `Tokens` | token.h: the token types, and the lists `scan` can return |
| `Ast` | ast_node.h: nodes and types; the pure functions of parser.cc on them |
| `ParserState` | the parser's variables, the call stack, reading tokens, `assert_parser` |
| `ParserStatements` | `statement`, `parse_block`, `get_ast_parameter`, `expression` |
| `ParserExpressions` | `decl`, `create_assign` and `logic` down to `literal` |
| `Parser` | `parse`: initial state, shared failures, `Next`, `Spec`, the properties |
| `Printer` | `Parser` and, after it, `print_ast` |
| `Characters` | the characters, and the spellings of the symbols of `scan_token` |
| `Scanner` | `scan`: one action per kind of token |
| `Compiler` | `main`, `repl` and `compile`: an instance of `Scanner` and one of `Parser` |
| `ByteSeq` | the abstract specification of dynamic arrays |
| `Darray` | dynamic arrays, strings and nodes in the memory of an allocator |
| `Elf` | `write_elf`: the layout of the file and what its headers say of it |
| `MCParser`, `MCExamples`, `MCPrinter`, `MCScanner`, `MCCompiler`, `MCDarray`, `MCElf` | values and inputs for TLC |
| `ParserProofs` | types, stack, cursor and table of the parser: theorems and proofs |
| `TreeProofs` | the nodes are a tree in source order |
| `NodeProofs` | what the nodes say is right, and what the printer shows of them |
| `NameProofs` | where names come from, and that the printer echoes them in order |
| `ScannerProofs`, `CompilerProofs`, `DarrayProofs`, `ElfProofs` | the theorems on the other components |

### How the parser's state corresponds to the code

`tokens`, `ip` and `idents` are the fields of `struct Parser`. `nodes` is the
sequence of nodes `create_ast_node` has made; a pointer is an index, NULL is
0. `stack` is the C++ call stack, top first. A frame's `at` names the point
its function has reached: the function's name at its start (`Statement`,
`Decl`, `Unary`, ...), another label after that (`DeclType`, `DeclEq`,
`DeclRhs` follow `Decl`). Its other fields are the locals that live across a
call: the node under construction, a finished left operand, the operator of a
chain, the name and type being declared. `ret` is the node the last return
delivered. `status` is "running", "accepted", or the way the process ended:
`exit(1)` with one of four messages, `abort()` by an assertion or by
`literal()`, or a read outside the token array ("oob" for a token the parser
looked at, "oob_trace" for one that an error message printed). After such a
read anything may happen and the model stops; `ip` is left where the code had
it by then, which is past the sentinel if a failed `expect` has taken it.

An action is the code between two such points, with every token it reads and
every node it makes or changes. Because the functions are deterministic but
for the uninitialized byte, most states have one successor. `logic`,
`comparison`, `term` and `factor` begin with the call of the next one:
`LogicCall` and its relatives push these frames at once.

What is abstracted: the spelling of identifiers (a member of `Name`); the
value of a literal, kept as `rep`, how its bits were made (integer
arithmetic, float arithmetic, or integer arithmetic on float bits); names
copied into memory; the numbering of enum members, which counts pushes. A
block's array holds shallow copies of statements, the model holds their
indices: no statement is changed after it was copied, which is not assumed but
checked and proved (`ChildrenStay`).
`binary_evaluates_to`'s IDENT case is left out because no operation makes
that type; `ast_type_from_token` is called for the four type words only.

The two evaluations of `assert_parser` are `Direct` and `Retry`: the first
consumes the token at the cursor; if that is not the one wanted, the second
consumes the next one and compares that. An `if` calls `expect` without the
macro: `IfOpen` and `IfCond` skip any token. The garbage byte is
`\E garbage \in BOOLEAN` in `TermRhs`.

### Scanner

`buf` is the memory from `src` on, as far as it exists, a sequence of
characters; a character is a string, the special ones have names (`Lf`,
`Nul`, `Eof` for the character -1). `ip` is an offset into it. `tokens` are
the tokens with the offsets of their `start` and `end`. A turn of the loop of
`scan` is one action, chosen by the first character: `ScanNumber`, `ScanWord`,
`ScanString`, `ScanSymbol`. Each computes where the token ends and how far it
looked to find out (`Scanned`), and `Emit` stores it, growing the array, or
gives `status = "oob"` when it looked past the end of the buffer, where the
model stops. Keywords are pairs of what is compared and how much is consumed,
for the code gives the two apart. Three of them do not work as spelled:
`char` consumes its first letter only, `continue` is compared by `cont` and
consumes one letter, and `for` is compared by three characters of which the
last is a zero, so it is never recognised. A word of letters is compared
before the digits behind it are looked at, so `if1` is `if` and `1`.
`Lexed` is the list of tokens the
parser sees, where an identifier carries its spelling.

### Compiler

`Compiler` has instances of the proof modules, `ScannerProofs` and
`NodeProofs`: these extend `Scanner` and `Parser`, and the proofs about the
program use what they prove. (The variables of the printer, which come with
`NodeProofs`, are given constant values.) The variables of `Scanner` and
`Parser` are variables of `Compiler`, renamed where they clash (`cursor`, `scanned`, `scanning`). `ReadFile` and `ReadLine`
say what memory the scanner finds: a file's text and one byte nobody wrote,
or a line, its end mark and, in any mixture, what the array held before
(`Stale`). `NoFile` and `NoLine`
are the results of `fopen`, `malloc` and `fgets` that are not looked at.
`Scan` and `Parse` are steps of the two instances, `StartParser` the call of
`parse` with what `scan` returned, `Ends` the `exit(1)`. `print_tokens` only
prints.

### Darray

`mem` is the memory, address 0 is NULL; `da` the structs; `offset` the
arena's. A call that adds bytes (`push_bytes`, `push_string`, `darray_push`,
`darray_reserve`, `push_darray`, `push_replicated_byte`, `string_init_from`)
is a `job` in chunks: `Grow` is a turn of the loop in the macro
`darray_grow`, `Store` the write after it, `Return` the end. `push_darray`
reads the length of its source at each turn, as the code does, so an array
added to itself goes on until memory ends. A failed `malloc` gives NULL, and
the first access through it ends the process ("segv"); an arena that is full
aborts it. `CreateNode` stands for the other users of the arena:
`create_ast_node` takes a block and writes it. `darray_remove` is one action;
its `memcpy` copies overlapping bytes, which C++ leaves undefined, and
`CopyOrders` says in which orders the library may do it.

`ByteSeq` is what the users of arrays rely on: an array is a sequence of
bytes; a call that was asked to add some, adds them at the end and changes no
other array; a removed item is cut out and what stands before it stays. What
stands behind it moves up in order if bytes are copied in order, or if there is
but one item; otherwise (`Orderly` is false) only its length is promised.
`Darray` implements it with the contents of an array read from memory, up to
`count` as it was when the call under way began: a growing array looks
unchanged to its users until the call returns. `push_replicated_byte` is no
request of `ByteSeq`, because it adds nothing; that it should is the property
`BytesArePushed`, which the code refutes.

### Elf

One action per call of `write_elf`. `count` is the length of the output, `at`
where each part came to be, `header` and `sections` what the headers say.
The sizes of the headers are the sums of the widths pushed, and the numbers
in the headers are computed as the code does, from literals and
`section_name_size`; the properties compare the two.

### Printer

`PrintSpec` is `parse` to its end: the parser's steps, then the printer's.
`todo` is what the recursion of the printer still has to print, nodes and
names; `shown` what it has printed. A printed name says which name of which
node it is: the node's own is the first, its members follow. Two histories,
which no guard reads, tell where a name comes from: `source` has, for each
name of each node, the token it was read from; `dropped` the tokens a forgiven
expectation or the header of an `if` passed over, and names that a declaration
without a type gave up. `Record` keeps both at each step of the parser. The
name of a declaration is read one step before there is a node for it, so its
entry is made for the node that will have it.

## The properties

| property | what it says | what could break it |
|---|---|---|
| `TypeOK` | every variable is well formed | a type no operation should make |
| `StackOK` | each frame has the node, operand or name it will use | a function that returns no node |
| `SentinelKept` | the cursor passes the sentinel, and a token past the end is read, only under an `if` or in the step that refuses the input | a second evaluation that forgives too much |
| `AstComplete` | a node nobody works on has all children, of their kinds | a result that is not stored |
| `OrderedTree` | the nodes are a tree, operands in source order | a swap, a node attached twice |
| `ChildrenStay` | a node that has its parent is never written again | a coercion written to an operand instead of the result |
| `IdentTypesAgree` | every node of a name has the type of its table entry | a later declaration that replaces the entry |
| `FirstDeclarationWins` | table entries are never changed or removed | the same |
| `PointerOperands` | `*e` only of a declared pointer, `&e` of no declared pointer | a missing assertion |
| `LiteralEncoding` | float bits are announced by a type, FLOAT always has float bits | the wrong arithmetic in a fold |
| `StepsAreSpent` | every step lowers a count bounded by the tokens ahead and the calls open: no loop turns and nothing recurses without a token taken | a token looked at and not taken |
| `MembersKept` | the definitions of the example programs keep their members in order | a member pushed elsewhere |
| `NodesExist` | the printer follows no missing node | a test for NULL left out |
| `ShownOnce` | no node is printed twice, and none is forgotten | a block printed for another |
| `EchoesNames` | each name printed is one that was read, they come in the order of the source but for a function's own, and at the end none is missing that was not passed over | an off-by-one in a loop of the printer or the parser |
| `Ends` | every program is refused, or printed to its end | a loop that does not advance |
| `ParserInput` | a finished scan is a list the parser is written for | a loop condition that forgets a sentinel |
| `RoomForTokens` | no token is stored past the array | a doubling one token late |
| `LinesCounted` | a token's line is the number of line feeds before it | a line feed taken elsewhere |
| `StopsInBuffer` | with an end mark ahead the scan stays in the buffer, strings apart | a character a loop does not stop at |
| `LongestMatch` | tokens are the longest lexemes, of the type of their text, and cover it, but for the words named in `Misread` | a second character not looked at |
| `Terminates` (of `Scanner`, of `Compiler`) | every scan, and the process, comes to an end | a turn that takes no character, a second turn of the repl |
| `HandedOver` | the parser works on all the scanner found | a token less |
| `LineScannedAlone` | what the repl's array held before a line is never read | the mark in the wrong place |
| `FileScanStops` | the scan of a file leaves its buffer only past an unwritten byte that is no end mark, or in an open string | a byte less allocated |
| `ExamplesCompile` | the example programs are accepted, from their characters on | any of the above |
| `BlocksApart` | no two arrays or nodes share a byte | an offset that does not advance |
| `CountsFit` | no array uses more bytes than it has | an off-by-one in the macro |
| `NodesKept` | nodes are never overwritten by arrays beside them | the same |
| `IsByteSeq` | arrays implement `ByteSeq` | a copy of too few bytes, a string without its zero |
| `RemovedAsAsked` | a removal takes out the item asked for, and leaves those before it as they were | an item too few moved up |
| `CallsEnd` | a call that adds bytes returns or ends the process | a capacity that does not grow |
| `HeadersAgree`, `SectionsAgree` | headers say where the bytes are | a literal or an order exchanged |

## The runs

| run | instance | about |
|---|---|---|
| `ParsePrint` | the eight programs of examples/; after declarations of an int and a pointer, all lists of 3 tokens of 13 and of 4 of 5, all 4-token second declarations; sums of 4 tokens of ints, floats, `+`, `-`, line feeds and of 5 of ints, floats, `+`, `*`; up to 4 braces, `if`, `else`, numbers; what follows a header or stands in a block; every pair of tokens; 4 tokens as parameters or after a parameter list, 3 and 4 as members; expressions, branches and names used before they are declared | the tree, typing, folding, the cursor, what is printed, the end of every run |
| `Scanner` | all pairs of words, numbers and symbols, together and apart; every text of four of eight characters, with and without an end mark; 7 to 17 symbols in a row | tokens, buffer, array |
| `Compiler` | the programs of examples/ as they stand in the files; every file of 3 of nine characters; every line of 3 of five; memory that held an end mark, a zero, a letter or a quote | the program as a whole |
| `DarrayArena` | two arrays and nodes in an arena of 56 bytes; pushes of 3 and 9 bytes, reservations of 18 | blocks, refinement |
| `DarrayHeap` | one array in a heap of 32 bytes, with removal (`memcpy` in either order), freeing, strings, self-append | refinement, termination |
| `Elf` | machine code of 0 to 30 bytes, the names of elf.h | layout |

Why these bounds are enough. Parser: every function of the grammar is entered
and left on both of its outcomes, every error message is reached, every pair
of adjacent tokens occurs, and each loop makes several turns. A failed
expectation involves at most three tokens (the wrong one, line feeds, the
next one), and a trace six; four free places next to a fixed frame put a
failure at each distance from either end of the list at which the traces
differ. Depth of recursion is bounded by the input. Scanner: a token depends
on its own characters and the one after it, so pairs show every joint; 17
tokens double the array twice. Compiler: the repl's array is `MCLineSize = 5`
instead of 1024, so lines that fit, just fit and are cut all occur. Darray:
56 bytes hold an array that grew from 8 to 16 and to 32, or two that grew
once, or two with nodes beside them; a push of 9 bytes fills one block
past its end, a reservation of 18 grows one twice; in 32 bytes of heap an
allocation can succeed, fail, or find a freed place. Elf: nothing depends
on the size but sums; `StartAddr` is 4096 instead of 0x80000000, because TLC's
integers have 32 bits, and the theorems have it as a parameter; `ElfAssumption` bounds the code so that the `int` that holds the offset
of the section headers (elf.cc:37, 53) does not overflow, and the theorems hold
up to that bound.

A state after the end of the program has no successor, so deadlock is not
checked in these runs; the liveness properties say that nothing stops
elsewhere.

Fairness. `WF_vars(Next)` in `Parser`, `Scanner` and `Compiler`,
`WF_printVars(PrintNext)` in `Printer`: there is one thread and no operation
blocks but `fgets`, which returns sooner or later, so the next step is always
taken. `WF_vars(Work)` in `Darray`: a call that began runs on, while no one
has to make another call. `Elf` has no loops whose end depends on data and
states no fairness.

Six runs end in a violation and record a disagreement between the code and
its own words:

  - `ParserAdjacent`: token.h:68-70 says `v: int = 312432 4234` should fail.
    The failed `expect(T_SEMICOLON)` has consumed the second number when it
    is evaluated again and finds the semicolon: accepted.
  - `ParserUndeclared`: `y; y = 1;` is accepted though `y` is not declared
    (parser.cc:481-485), because reading `y` inserted it (parser.cc:425).
  - `ParserNegative`: `-*p` stops with "cannot negative char" (parser.cc:580)
    for a pointer to int, because `deref` never assigns `evaluates_to`.
  - `ParserTwoPointers`: `1 + 1 + p` can stop with "binary ops on two
    pointers" (parser.cc:363), because `is_pointer` of `1 + 1` is
    uninitialized (parser.cc:356).
  - `ScannerWords`, two at once: "get whole word" (scanner.cc:74), but the
    token of `char` is its first letter, and an identifier `har` follows
    (scanner.cc:97-98). The examples struct.bou and union.bou go through the
    parser only because the failed expectation of `;` after the type forgives
    one token. And "identifier can include numeric infixes and suffixes"
    (scanner.cc:160), but keywords are found by the leading letters: `if1` is
    `if` and `1`.
  - `DarrayFill`: "Push same bytes a number of times" (darray.cc:45), but
    `push_replicated_byte` never advances `count`: to the users of the array
    nothing was pushed, a growth drops the bytes and the next push overwrites
    them.

One more is in the model as the code has it: `darray_remove` moves items with
`memcpy` over overlapping bytes (darray.cc:124), which C++ leaves undefined.
test_darray.cc:81-82 removes item 40 of 256 and expects item 41 in its place,
which it finds only where `memcpy` copies forward. `CopyOrders` has both orders
in the run `DarrayHeap`; `RemovedAsAsked` and `IsByteSeq` promise the order of the items behind
the removed one only for `{"forward"}`; that this promise is kept is part of the
theorems (and TLC agrees when `CopyOrders` in DarrayHeap.cfg is `{"forward"}`).

## The proofs

All theorems hold for every value of the constants that satisfies the
modules' assumptions.

**Parser.** For every set of names and every `Inputs` that is a set of lists
`scan` can return (`InputAssumption`, `NameAssumption`):

  - `TypeCorrect == Spec => []TypeOK`
  - `StackCorrect == Spec => []StackOK`
  - `FirstDeclarationStands == Spec => FirstDeclarationWins`
  - `CursorKept == Spec => []SentinelKept`
  - `StepsStaySpent == Spec => StepsAreSpent`
  - `DepthIsBounded == Spec => [](ip <= NTokens /\ StepsLeft <= 28 * NTokens + 20 /\ Len(stack) <= 14 * NTokens + 9)`
  - `TreeStaysOrdered == Spec => []OrderedTree`
  - `ChildrenAreFinal == Spec => ChildrenStay`
  - `IdentsStayTyped == Spec => []IdentTypesAgree`
  - `LiteralsStayEncoded == Spec => []LiteralEncoding`
  - `PointersStayDeclared == Spec => []PointerOperands`
  - `AstStaysComplete == Spec => []AstComplete`

The first inductive invariant is `IInv == TypeOK /\ StackOK`; neither half is
inductive alone. `TypeOK` needs `StackOK` where a function reads the type of
an operand or a result: `nodes[ret].ev` is a type only if `ret` is a node.
`StackOK` in turn needs every frame below the top to stay in order while
functions above it create and change nodes, which holds because the sequence
of nodes only grows. So the argument is about the stack: a frame in order
for n nodes is in order for more (`CallStack`, `ReturnStack`); a step that
calls pushes frames in order, the first of which does not resume after a
call, so nothing is claimed of `ret` (`CallKeeps`); a step that returns
delivers a node (`ReturnKeeps`); a step that ends the process changes only
`status` and the cursor (`StopKeeps`). Then there is one lemma per group
of actions, with a case for each action. Recursion depth and input length are unbounded in the
theorems.

`SentinelKept` is inductive with `IInv`: while the parser runs, every token
taken outside the header of an `if` was compared with a type that is no
sentinel, and only the last token is one; a step below an `if` leaves that `if`
on the stack (`InIf`). The property does not say that nothing past the end is
ever read: for `1` at the end of a file, the failed `expect` for `;` takes the
sentinel, and the trace of `assert_parser` and the second `expect` read what
lies behind it (parser.cc:122, 163-170). It says that this, and an `if`, are the
only ways, and the first of them is the end of the process.

`StepsStaySpent` is what the liveness property `Ends` rests on for the parser,
without its fairness. `StepsLeft` counts 28 for each token not yet taken, 2 for each
frame and, for the top, a weight of the program point it has reached. A step
that takes a token may then climb back to the head of the ladder of functions
and push the frames for it. A step that takes none has to fall to a lesser
point of the ladder (from `Decl` down to `Literal`), or return, and only a
function that has had a result, or waits in a loop for an operator, returns
without taking a token: it is at most 1 lighter than the caller it resumes, and
its frame counts 2. The count is linear in the tokens, and so is the depth of
the calls: `DepthIsBounded`.

`OrderedTree` needs to know what the functions on the stack hold, and that is
`TreeInv`. Its main part is `Ordered`: whatever a function reaches (its node,
its left operand, their children) was made after all that its callers reach,
and a result after all of that. Node numbers grow, so this is how "a function
works on nodes of its own" can be said without following the recursion. With
it, a node that gets a child gets one no other function reaches. `Orphans`
says that nothing a function holds has a parent yet, which makes attaching it
safe for `OneParent`; `InOrder` follows from `Ordered`; `Sized` and `Suits`
say how many places a node has and what kind of node each function builds.
All actions but a few change the nodes in one of two ways, none or some new
nodes, one of which, or an old one, gets children (`Rewired`), so the case
analysis is about that.

`ChildrenStay` follows (`ChildrenKeep`): the only old nodes a step writes to are
the one the function on top is building and, when it negates, the zero it
subtracts from (`StepWrites`), and by `Orphans` neither has a parent.

`DataInv` says what the nodes say. `Plain` holds of every node at any time:
a name agrees with the table (`Named`), a literal's bits with its types
(`Encoded`). A node nobody builds is `Whole`; a node under construction has
what the point its function has reached requires (`Begun`, `Half`). What a
function returns depends on which function it is, so the invariant has to
carry a typing of the call stack: what each frame yields fits what the frame
below expects (`Chained`, `Yields`, `Expects`), and the pending result fits
the top (`Fits`). `Foldable` is the part a fold needs of an operand, stronger
than `LiteralEncoding`, which alone is not inductive: `literal` and the fold
read `ev`, not `type`. `AstComplete`, `IdentTypesAgree`, `LiteralEncoding` and
`PointerOperands` each follow from `TreeInv` and `DataInv` in a lemma.

**Printer.** For every statement the parser accepts:

  - `PrintsWhatIsThere == PrintSpec => []NodesExist`
  - `EachIsShownOnce == PrintSpec => []ShownOnce`
  - `NamesAreEchoed == PrintSpec => []EchoesNames`

`PrintInv` splits what the printer has to do with nodes in two lists without
repetition, to do and done: each node in them is the root or the child of one
that is done, and each child of a done node is in them. That nothing is
printed twice then follows from `OneParent`, that nothing foreign is followed
from `AstComplete`. That nothing is forgotten needs a third invariant of the
parser, `KeptInv`: a node that no function holds has a parent, unless it is a
literal (`Adopted`); this is kept because a function fills only places that
are empty (`Unfilled`), so that no child is ever stored over another; and no
chain of parents goes round (`Founded`, said with sets of nodes: each that is
not empty has a member without a parent in it). If there were nodes not
printed at the end, each would have a parent not printed, against `Founded`.

`NamesAreEchoed` is about text and tree at once, and needs to know where in
the source each node stands. Its invariant `EchoInv` has four parts.
`NamesInv`: every name of a node, and the name of a declaration whose node is
still to come (`Waiting`), has a token before the cursor that is an identifier
and spells it, or nothing if the name had been used before it was declared
(`Spelled`); and every identifier before the cursor is in `source` or
`dropped` (`Accounted`). The step that keeps it is that the cursor passes no
identifier unless the function that runs takes its name or an expectation
forgives it (`Passed`). `Successive` and `IfOrdered`: the names of a node, and
the parts of an `if`, whose fields do not have the order of the source, were
read in order. `Spans(lo, hi)`: each node can be given a stretch of the source,
from `lo` to `hi`, such that children lie inside their parent, one after the
other, behind the parent's own names; what a function holds lies behind what
its callers hold, and its result behind that (`Layers`, which is `Ordered`
said of places in the source). The stretches are no variables: the invariant
says that some exist, and a step widens the one of the node under construction
to the cursor (`Widened`). The last part is about the printer: in what it has
still to print, a piece ends where the next begins, or earlier, and so with
all that it has printed (`Lined`); a node that is replaced by its parts leaves
this so because they lie inside it (`Expands`, a lemma for each kind of node).
The one exception is a function's name, which its parameters overtake
(`Overtakes`). That nothing is missing at the end follows from `Accounted`,
`NothingLost`, which is what proves `EachIsShownOnce`, and `Reported`: each
name of a node that has been printed has been printed or will be.

**Scanner.** For every buffer of characters: `TypeCorrect`, `TokensFit`
(`RoomForTokens`), `ScansForTheParser` (`ParserInput`), `StopsBeforeTheEnd`
(`StopsInBuffer`), `LinesStayCounted` (`LinesCounted`), `TokensAreLongest`
(`LongestMatch`), `TurnsAreBounded`. Each loop over characters is `End`, the
least offset whose character stops it, which exists by well-foundedness of the
naturals (`LeastElement`); a lemma per kind of token says that it takes at
least one character and none past what it looked at (`Possible`). The
invariant behind `ParserInput` is that no token before the last is a sentinel,
and that the last is one exactly when the scan is done.

`LinesCounted` needs the scanner's own count to be right as well (`Counting`),
and that no token but that of a line feed takes one (`Tame`). `LongestMatch`
compares the scanner with a definition of lexemes that mentions no offsets and
no loops, so the proof first says what it is for a part of the buffer to be
a number, a word, a string or a symbol, character by character (`IntegerText`,
`FloatingText`, `NamedText`, `QuotedText`, `SpelledText`), and that the first
character tells which of them a lexeme can be (`LexemeKinds`). Then there is a
lemma per kind: what the loops stop at cannot belong to a longer lexeme of the
same kind. The reference knows all words of token.h, `for`, `char` and
`continue` too, and words with digits in them; the ones that the scanner misreads
are excepted by name (`Misread`), so the theorem says of which words it is not
true: `for`, `continue`, `char` and `cont` with or without digits, and reserved
words with digits behind them. `WholeWords` is the property without exceptions.
A word is a special case: the scanner looks keywords up by the
leading letters, and `LettersText` shows these to be what `Letters` means.
The inductive part is that the tokens abut: the cursor is where the last one
ended. `TurnsAreBounded` is the variant of the liveness property: each turn
moves the cursor on, and not past the buffer.

**Compiler.** `TypeCorrect` (the scanner's variables well formed throughout, the
parser's from the hand-over of the tokens to the end of the process),
`ParserGetsTokens` (`HandedOver`),
`LineStaysAlone` (`LineScannedAlone`), `FileScanned` (`FileScanStops`) and
`ParserStaysSound`: in the composition, for every file and line, the parser's
nodes are a tree in source order, complete, typed and encoded as above, and
its cursor stays where it may be. The module instantiates the proof modules
of its parts, so what was proved of `Scanner` and `Parser` with assumptions on
their inputs is used here as a fact about each step; `ScansForTheParser`
discharges the parser's assumption.

`LineScannedAlone` says more than `StopsInBuffer`: the scan must stop at the
mark of the line, though the array goes on behind it. The mark stands right
after a line feed (`Wall`), and no kind of token that begins before a wall
looks past it or ends behind it (`Blocked`): a string stops at the line feed,
no symbol has a second character that is a mark. So a scan that begins before
a wall stays before it (`Contained`).

**Darray.** `TypeCorrect`, `BlocksStayApart`, `CountsStayInBlocks`,
`NodesStayWritten`, for both allocators, any size of memory and any payload.
The inductive invariant adds that every block of an arena lies below its
offset and that a job's base is within its array. The refinement is
`ArraysAreByteSequences == Spec => IsByteSeq`, for `memcpy` in either order:
initial states map to initial states, and every step to a step of `ByteSeq`
or to none. Its own invariant, `Progress`, says what a call has done so far:
the array's bytes are those it had, then the chunks already added, and the
source of a `push_darray` is still what it was when the call began, also when
source and destination are one. The proof shows for each action how the bytes
of every array read before and after: a growth copies, a store appends, and
the other arrays' bytes lie apart by `BlocksApart`.

`RemovalsAreAsAsked == Spec => RemovedAsAsked` says the same of a removal with the
number of the item, which the steps of `ByteSeq` do not show.

`TurnsAreBounded` is the variant that `CallsEnd` rests on: no call turns more
than 2 MemSize + 19 times. A turn that adds a byte uses room in the block, one
that doubles the capacity uses memory. The hard case is an array added to
itself, where the bytes still to add never grow fewer. The invariant it needs, `Unplaced`,
says that an array that malloc() gave no memory has never grown.

**Elf.** `TypeCorrect`, `HeadersTellPlaces`, `SectionsTellPlaces`,
for every size of the code and of the names that `ElfAssumption` allows: the invariant
says, for each point of `write_elf`, how many bytes there are and where the
parts written so far begin.

Operators that recurse in the code are loops over actions here, so no module
has a RECURSIVE operator.

Only model-checked: `MembersKept` and `ExamplesCompile`, which are about the
eight programs of examples/ and not about all inputs. Liveness (`Terminates`,
`Ends`, `CallsEnd`) stays with TLC for good: its proof would need ENABLED and
fairness, which the prover does not handle. The variants it rests on are
proved for the scanner, the parser and the arrays, not for the printer.

## Not modelled

  - What the program does after it has read outside a buffer or the token
    array.
  - Exhaustion of the C++ stack (its depth is bounded by `DepthIsBounded`, its
    size is not known), and of the arena during a parse: a program
    large enough crashes or aborts. (That the arena aborts when it is full is
    in `Darray`.) Wrap-around of `offset + amount` and of `count + amount`:
    both are 64 bits wide and no call comes near.
  - A read of a file that returns fewer bytes than it has, an `ftell` that fails,
    files longer than an `int` (bou.cc:24-28): `ReadFile` reads the file whole.
  - The result of `fwrite` (darray.cc:93): nothing in the program looks at it, so
    a file written in part is reported by nobody.
  - `text->count` and `text_size` of the ELF writer as two numbers: the only
    caller passes the one as the other.
  - Values of literals, the text of messages, the layout of the printed tree
    and of `print_tokens`, `dump_darray`.
  - The code generator (compiler.cc:42-139). `compile` exits before it. Even
    without that exit it would emit nothing for any tree: `compile_ast` and
    `compile_binary_expr` compare `node->type` with `BINARY` and `LITERAL`,
    and `create_ast_node` sets it to `EXPRESSION` or `STATEMENT` only
    (parser.cc:29-87). A model of it would have no state to start from.
  - `free_scanner`, `free_compiler` and `arena_free`, which no reachable code
    calls; the unused header ast.h; build files.

## The plan

Done: the parser, the printer, the scanner, the driver that composes them, the
arrays and allocators with their refinement, the ELF writer; theorems for all
safety properties of the runs but the two about the example programs, and
variants for the scanner, the parser and the arrays.

Left: a variant for `Ends`, which would follow the tree down from the node
printed; and the meaning of a chain of mixed operators, the trace of a failed
assertion, the value of a mixed sum and the byte behind a file, if the code ever
says what they should be (the hazards without a property).
