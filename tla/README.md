# la16, specified

la16 is a virtual machine with 16-bit words (`src/src/la16`), an assembler for it
(`src/src/compiler`, `src/src/coder`), a command line for both (`src/src/main.c`), and a small guest
kernel written in its assembly (`src/asm/laos`). The modules here describe the machine and the
assembler; TLC checks them on small instances, and TLAPS proves the central properties for every
value of the constants. Paths below are relative to the repository, e.g. `mpp.c` is
`src/src/la16/instruction/mpp.c`.

## 1. The system

| part | state | operations | interacts with |
|---|---|---|---|
| boot and life of the machine (`main.c`, `machine.c`, `memory.c`) | memory, what main() is doing | allocate, load image, run, stop | loads what the assembler wrote; starts core 0 |
| core (`core.c`, `instruction/core.c`) | registers, `term`, decoded `op` | fetch, decode, privilege check, dispatch, stop | calls every instruction |
| memory page protection (`mpp.c`) | `page[]`, `pageu[]` | check and resolve an access; seven page instructions | every load, store, push, pop and fetch goes through it |
| data and serial port (`data.c`) | registers, memory | ld/st, push/pop, mov, in/out | page protection |
| arithmetic (`arithmetic.c`) | registers | 16 instructions | – |
| control flow (`execution.c`) | registers, frames in memory | jumps, cmp, bl, ret | pushes and pops of `data.c` |
| interrupts (`ic.c`) | `int_handler[]`, `el`, `elb` | int, intset, intret | bl and ret of `execution.c` |
| instruction encoding (`compiler.c`, `core.c`, `bitwalker.h`) | 32 bits | pack, unpack | the only contract between assembler and core |
| expansion of `call` (`code.c` 383–592) | token array | pushes, moves, bl, pops | runs on the machine |
| assembler passes (`compile.c`, `code.c`, `label.c`, `section.c`, `constant.c`, `compiler.c`) | tokens, labels, constants, image | one pass per table, then code | share addresses and tables, in an order fixed by `compile_files` |
| lexing and parsing (`code.c`, `cmptok.c`, `parse.c`, `opcode.c`, `register.c`, readers in `section.c`, `compiler.c`, `constant.c`) | code buffer, token array | remove comments, split lines and words, read numbers, strings, operands, data | feeds the passes |
| guest kernel: pages and boot (`kernel.l16`, `kpmm.l16`) | table of used pages, page table | allocate and free a page, map kernel and stack, go to user level | page instructions of `mpp.c` |
| guest kernel: system calls (`kint.l16`) | – | write a byte, read a byte | frames of `int` and `intret`, serial port |
| guest library and program (`libuser.l16`, `log.l16`, `user.l16`) | buffers on the stack | print, read a line, compare | system calls |

There is no concurrency on the host: main() starts one thread for core 0 and joins it. What is hard
here is of another kind: sequences of legal instructions that a test would not think of (interrupts
in handlers, intret without int, ret with any fp), instructions made of 28 memory accesses that may
be refused in the middle, wrap-around at the ends of page, table and memory, and several passes or
several switches that agree by convention only. The hazards in `PROJECT.json` name them line by line.

What makes each part correct:

- page protection: a granted access is inside the memory, and user code reaches nothing the flags
  do not allow (`GrantedAccessInBounds`, `UserWritesFlagged`);
- privilege: only kernel code changes the tables, and user level is left only through a handler or
  the elevation saved for it (`UserStepsKeepTables`, `UserElevation`);
- core: no instruction leaves a field outside its type or the core wedged (`TypeOK`, `RunEnds`);
- calls and interrupts: they are a stack of suspended contexts (`ImplementsCallStack`);
- encoding: the core runs the line the assembler was given (`DecodesAsAssembled`), sees every
  privileged operand (`PrivilegeSeen`) and nothing the machine's modules do not expect
  (`OperandsInRange`);
- `call`: the caller's registers come back, the arguments arrive (`CallerRestored`,
  `ConflictFreeCallsArrive`);
- passes: parts of the image do not overlap, operands lead where their names say, and the machine
  begins at `_start` (`PartsApart`, `OperandsResolve`, `EntryIsStart`);
- text: the lines of a text are those of its parts (`LinesStandAlone`); whatever comments, tabs and
  line ends are around it, a line arrives once and with words, and is read as written
  (`LinesHaveWords`, `DataAsWritten`, `CodeAsWritten`): by itself (`TidyLinesReadAlone`) and among the
  others, where only the data that a section loses is skipped (`ReadInOrder`);
- guest kernel: no page has two owners, the user's pages are not the kernel's, the stack is mapped
  where the first push goes, the user may execute what the kernel took and one page more, and the
  boot gets there (`ImplementsAllocator`, `WritablePagesAreFresh`, `StackIsMapped`,
  `ExecutablePages`, `BootReachesUser`);
- system calls: each does its work once and gives back all but its result (`SystemCallsServed`).

## 2. The modules

    La16Machine      state, sizes, boot           machine.c memory.c main.c, core.h
    La16Mpp          page protection              mpp.c
    La16Data         data, port, arithmetic       data.c arithmetic.c
    La16Execution    jumps, bl, ret               execution.c
    La16Ic           int, intset, intret          ic.c
    La16Core         fetch, privilege, loop       core.c, instruction/core.c     Spec
    La16Safety       properties of the machine
    La16Proofs       theorems about La16Safety
    CallStack        abstract: suspended contexts
    La16Frames       disciplined programs, refinement of CallStack
    La16FramesProofs theorems about La16Frames and LaosInt
    La16Encoding     32 bits of an instruction    compiler.c core.c bitwalker.h
    La16EncodingProofs
    La16Call         expansion of call            code.c
    La16CallProofs
    La16Layout       passes and image             compile.c code.c label.c section.c constant.c compiler.c
    La16LayoutProofs
    La16Text         text to lines that are read  code.c cmptok.c parse.c and the readers
    La16TextProofs
    PageAllocator    abstract: owned pages
    LaosPmm          page allocator of the guest  kpmm.l16, refinement of PageAllocator
    LaosKernel       boot of the guest            kernel.l16, kpmm.l16
    LaosProofs       theorems about LaosPmm and LaosKernel
    LaosInt          system calls, on La16Frames  kint.l16
    Induction        lemmas about numbers and recursive functions that the proofs share
    MC*              the instances TLC runs

The machine's modules extend one another in this order, each adding the instructions of one source
file as an action per instruction. An instruction `i` is a record of an opcode and two operands; an
operand is a register or an immediate, as `op.param[]` points to a register or to `op.imm[]`.
`Retire` is the `pc += 4` that the loop performs after every instruction, also a refused one, which
is why jumps store the target less four. `term` is raised by an instruction and seen by the loop
before the next one (`StopCore`); an instruction that raises it in the middle, like a call with a
refused push, completes all its other effects in the same action, as in the C code.

Sizes. All sizes follow from `BYTE`, the number of values of a byte: `WORD = BYTE²`, a page has
`BYTE - 1` bytes, the memory `(WORD - 1) / (BYTE - 1) = BYTE + 1` pages, hence `WORD - 1` bytes.
With `BYTE = 256` these are the code's 65536, 255, 257 and 65535. TLC runs `BYTE = 16`, which keeps
every coincidence of the real machine: there is one address with no memory behind it, its page has
no table entry, and the word before it crosses into that missing entry. The proofs are for any
`BYTE` that is a power of two from 16 on and for any number of registers whose frame fits in memory.

The bytes of instructions are not part of the machine's modules. `Code` gives, for each address, the
instructions its bytes may decode to, and the proofs quantify over every `Code`: they hold for
every image and for programs that write over themselves. La16Encoding covers the step that is left
out: what bits decode to (`OperandsInRange` is the constraint `Coded` of La16Core), and that the
privilege check on `op.reg[]` is the check on operands that La16Core states (`PrivilegeSeen`).

Undefined and implementation-defined behaviour: a division by zero kills the process (x86) or gives
0 (arm64); the count of a shift is taken modulo the width of int, as both do; `int_handler` is allocated by malloc() and starts with any of `IntInit`;
`pageu[257]` and `int_handler[65535]` fall into padding of their structures, which is zeroed for the
first and kept as one more entry for the second. Reading serial input gives any byte.

La16Frames restricts the machine to programs that keep to the calling convention: every ret meets a
bl, every intret an int, fp is left to them, pops take back what the callee pushed and stores stay
out of frames. The suspended contexts of CallStack are read from the memory by following fp from
frame to frame; `calls` remembers which instruction built a frame and the elevation at that time.

La16Call runs the lines that a `call` expands to, a set of lines in an order; bl and ret are taken as
CallStack promises them.

La16Layout has an action for each step of each pass: `TypeLine` types a line, expands a call and
advances the address; `CollectLabel`, `PlaceData`, `InsertStart`, `EvaluateConstant` and `EmitLine`
are the loops of the passes after it, and the `...Over` actions the calls in `compile_files`. A line
is its kind, name, size and operand; the image is the set of extents placed in it, with the operand
each instruction got. A program's lines are those the tokenizer can deliver. A crash (a dotted
operand with no label above it dereferences NULL) is a phase of its own. `image_uaddr` and
`image_text_start` have 16 bits and wrap (`Place`, `SectionsOver`): after too much `.bss` the text
goes over the header, as in the code. A line of initialised data that crosses the end either has an
item that is written past the array, over `image_uaddr` itself, and the model stops there, or has all
its items on one side or the other, and the model goes on with what has wrapped (`MayOverrun`).

La16Text begins where La16Layout's lines come from. A source is a sequence of written parts, each
with its text, the items in it and what it means; the variables are the code buffer and the token
array, with an action per pass (`DropLineComment` and `DropBlockComment` are the two branches of the
loop that removes comments, `ReplaceTabs`, `RemoveNewlines`, `SplitLines`, `SplitWords` the passes
after it) and `ReadLine` for what the later passes make of one line: the bytes of its data, the size
it reserves, its opcode and operands, the value of its constant. `section` joins what two passes
know: the type pass, whether a section is open (`"none"` or not), which types a line as data or
code; and `code_token_section`, whether the line is in the unbroken run of data behind a `.data` or
`.bss` line, which it reads, or behind something else (`"lost"`), which it skips. A line skipped is
said as `LOST`; data is otherwise read by `ReadData` or `ReadBss`. Each pass is an operator on texts (`Dropped` removes
one comment, then `Untabbed`, `Collapsed`, `LinesIn`, `Words`) that its action applies to the buffer;
the same operators in a row make `Alone`, the lines of a part of the source by itself, and
`ReadAlone` says of one line what it is read as by itself. Characters are symbols; a name is one symbol, since
no pass looks inside it, with the exception of the rule for lines of one character, which knows that
names are longer. The two name tables are short ones with the ends of the real ones, because that is
where the searches err. A line without words is a crash or whatever the memory gives (`ReadNoWord`).

LaosPmm has the table of used pages as one bit per byte that its search can look at: the 255 of the
table, the three behind it and one before it, to stand for those that a negative number reaches.
What lies in the bytes around the table is arbitrary and changes at any time (`StoreAround`).
LaosKernel is the straight line of `_start` with its three loops, each iteration an action, or else
a kernel that calls the allocator as a library in any order.

LaosInt is the composition of the guest and the machine: the twelve instructions of `_inthandler`
are code that the machine's modules execute, reached by `int` from the programs of La16Frames and
left by `intret`. `asked` holds the two argument registers at the interrupt and `served` what has
happened on the serial port since. `EnteredByCalls` says how programs come to the handler: by calls
only, and by an interrupt at its first line; the jump table relies on the comparison before it.

## 3. The runs

| run | instance | shows |
|---|---|---|
| `user` | MCLa16User, `UserCode`: a kernel sets the flags of two pages (MAPPED, READ, WRITE present or missing), a physical page and the stack, then two arbitrary instructions of a menu of stores, loads, pushes, calls and stack pointers at page and memory edges, or three among int, intret, ret, kernel registers and kernel instructions; handlers that may raise another interrupt | `GrantedAccessInBounds`, `UserWritesFlagged`, `UserStepsKeepTables`, `UserElevation` |
| `kernel_edges` | MCLa16Kernel: every instruction on operands that wrap, divide by zero, shift too far or name ends of tables, followed by one that may meet what it left | `TypeOK`, `RunEnds` |
| `frames` | MCLa16Frames: functions nested two deep, with an interrupt possible at three points, whose handler calls a function, and system calls 0, 1 and 3 at two depths, reading any byte | `ImplementsCallStack` (refinement), `SystemCallsServed`, `EnteredByCalls` |
| `encoding` | 4 opcodes, 8 numbers, 7 registers at the edges of 5, 8 and 16 bits, in every pair of operands; 64 arbitrary words with every mode | `DecodesAsAssembled`, `PrivilegeSeen`, `OperandsInRange` |
| `calls` | every call of up to three arguments over four registers and a constant | `ConflictFreeCallsArrive`, `CallerRestored` |
| `layout` | all programs of four lines out of twelve kinds, and those with one function before and two different endings after three such lines; and two such lines after 7 sizes of `.bss` that leave 16 bytes or less below the end of the image: 25788 programs | `OperandsResolve`, `PartsApart`, `EntryIsStart` |
| `laos` | a machine of nine pages whose kernel takes three: the boot, and every sequence of allocations, frees of any of the 64 numbers, and stores around the table | `TypeOK`, `WritablePagesAreFresh`, `StackIsMapped`, `ExecutablePages`, `ImplementsAllocator` (refinement), `BootReachesUser` |
| `text` | every data line of one or two items of 16, every instruction of up to two of 14 operands, every constant; and 288 layouts of a data line and of an instruction after each of 9 kinds of filler; and `.data`, `.bss` and another section, of up to three lines, with every choice of data and constants, followed by none or by another of up to two: 7150 texts | `LinesStandAlone`, `TidyLinesReadAlone`, `LinesHaveWords`, `ReadInOrder`, `DataAsWritten`, `CodeAsWritten` |

Bounds. The program lengths are the bound of the machine's runs: two or three free instructions
after a fixed preamble are enough for the hazards, each of which needs at most one instruction to
set up sp, fp or elb and one or two to use it; the properties are also proved for every program,
except `RunEnds`. Four free lines let a label, a call, a section and a constant stand in every
order; the endings add a dotted label of a second function, a constant's use, and data of odd length
before the text. The sizes of `.bss` let what follows end right below the last multiple of 4 that 16
bits hold, reach it, wrap, or run over the end: with a bound of one byte more in `ImageFits` the run
has a counterexample of `PartsApart`. A call has at most seven arguments in the code; three
arguments and four registers already give chains, cycles and gaps among the argument registers. With
`BYTE = 8` the guest's table has 7 bytes and its search looks at 10, as 255 and 258 with `BYTE =
256`: full tables, the overrun and negative numbers are all reached; what the run shows of safety is
proved for every size. The texts vary one line at a time, since the only passes that look past the
end of a line are those of comments and newlines, and the fillers are there for these; the sections
are there for what the readers carry from line to line, which is the section they are in.

Fairness. `RunEnds` is checked under weak fairness of `Next`: the host thread runs while main()
waits for it in pthread_join and does nothing else. The programs of that run have no loops; a guest
program with one may run forever. `BootReachesUser` is checked under weak fairness of the boot's
steps, for the same reason: the guest kernel is the only program of the core and interrupts nobody.
In `encoding`, `calls`, `layout`, `text` and `laos`, and wherever main() has returned, the end of the program is an explicit stuttering action, so that deadlock is checked
everywhere.

### Disagreements between the code and what it says of itself

Each is a run with `expect: violation`, and an entry in `findings` with the quoted line.

- `second_byte_mapped` – a word written across a page boundary: `mpp.c:125` looks at the wanted flag
  of the second page, but not at MAPPED.
- `addresses_resolved` – `la16_mpp_access` resolves the address into a local variable, and its
  callers index the memory with the address they had: `page[]` never redirects an access.
- `nested_interrupt` – a second int overwrites the one saved elevation, so the outer intret stays at
  kernel level. The other half of the promise, the registers, does hold (`frames`).
- `clobbered_argument` – the fallback for a clobbered source saves all argument registers, and then
  moves from the clobbered registers all the same.

Others are described by the models without a run of their own:

- The fetch (`core.c:171`) asks the page protection for two bytes and copies four. `FetchGranted`
  asks for two, as the code does; at the last words of the memory the copy reads past its end.
- "Not found" is 0x10000, which becomes 0 in an unsigned short (`label.c:189`): the exit for a
  program without `_start` is not taken and its image is written with entry 0 (`InsertStart`,
  `EntryIsStart`).
- A constant in a data section ends the placing of the section but not the section (`PlaceData`,
  `section.c:145`), so the lines after it are typed as data and are neither placed nor defined; so is
  the data of a section that is neither `.data` nor `.bss`. Nothing is reported. `ReadInOrder` says
  that these lines are lost and no others (`Arriving`).
- The guest's search for a page (`kpmm.l16:53`) looks three places past its table. With the table
  full it answers 255, 256 or 257: the second is the error code, the third no page of the table.
  `ImplementsAllocator` says that this happens only then.
- The loop of `kernel.l16:43` repeats while less or equal, where the one of `kpmm.l16:78` repeats
  while less: the user gets one executable page more than the kernel took, and the next page the
  allocator gives away, for the stack, is that page (`ExecutablePages`). `WritablePagesAreFresh` therefore compares
  writable pages with each other and with the kernel's, not with the executable ones.
- A negative number of a system call passes the comparison of `kint.l16:39` and is added to pc.
  `SystemCallsServed` is about the others. The byte that call 1 reads replaces the low byte of rr
  only; the high byte is the caller's.
- `libuser.l16:81` jumps over the only instruction that sets the cursor of `_readline` to 0; it is 0
  because nothing in the guest sets r1 before.

What the reading of text leaves out or misreads is stated by the hypotheses of its properties: a
semicolon or a `/*` inside quotes is a comment; a quote inside the other kind of quotes, or escaped,
leaves one of the two scanners in quotes; a blank or comma as an operand of an instruction is lost,
in data and constants it is not; the last register and the last two opcodes cannot be named; a line
of blanks, a comment indented with tabs and a line of one character leave a line without words. Each
hypothesis is needed: without it the `text` run has a counterexample.

## 4. The proofs

La16Proofs, for every `BYTE`, number of registers, image and program:

- `Typed` (`TypeOK`). TypeOK is inductive. There is a lemma per helper (what the stack operations,
  the frame and the operand store return) and one per group of instructions; the interesting part is
  that every register ends in `% WORD`, that page numbers accepted by the page instructions are in
  the tables, and that granted writes are in the memory.
- `AccessesInBounds` (`GrantedAccessInBounds`). At kernel level the bound is checked; at user level
  it follows from the tables alone: the bytes outside the memory have no page entry.
- `TablesBelongToKernel` (`UserStepsKeepTables`). By instruction: those that write a table check the
  elevation first.
- `ElevationIsGuarded` (`UserElevation`). Uses TypeOK. Registers `el` and `elb` are beyond EL0_MAX,
  so a permitted instruction names neither; ret restores neither; what is left is int and intret.
- `WritesAreFlagged` (`UserWritesFlagged`). The invariant is TypeOK with `BootsAtKernel` (before the
  core runs, `el` is kernel level), which excludes the loading of the image from the steps at user
  level. The heart is `PushedBytes`: a byte that differs after any number of pushes lies in a word
  whose own access was granted, although others were refused; `UserAccessFlagged` then finds the
  flag, on the page of the first or of the second byte.

La16EncodingProofs, for every opcode, register and number: `RoundTrip` (`DecodesAsAssembled`),
`ChecksEveryRegister` (`PrivilegeSeen`) and `OperandsAreCoded` (`OperandsInRange`). The invariant
says that the word is the encoding of an accepted line and the result the decoding of the word;
`GetPut` and `GetBelow` say that bits just written are read back and that later writes leave them
alone, and `ModeBitsFacts` that the three bits of the modes differ.

La16FramesProofs, for every program that follows the convention and raises no interrupt in a handler
(`~Reentrant`, without which `nested_interrupt` is the counterexample): `FramesImplementCallStack`
(`ImplementsCallStack`) and `ElevationComesBack` (`ElevationBackToBefore`). That the contexts in the
frames are those of CallStack does not follow from one step to the next unless one knows where the
frames are. The invariant `FramesInv` adds to TypeOK: the frames lie above one another without
overlap, the nearest above the stack pointer and the last below the end of the memory
(`FramesApart`); on top of an interrupt's frame is the stack pointer that points there
(`StackPointersSaved`); the elevation noted for a frame is the one that the frame behind it leads to
(`ElevationsFollow`); and at most one frame is an interrupt's, whose elevation is in elb
(`OneInterrupt`). Each step then enters a frame, leaves one or works below all of them (`StepKinds`);
the frames are found again because fp leads from each to the next, whose definition by recursion the
module justifies (`FrameAtExists`).

La16CallProofs, for every number of argument registers and every list of arguments:
`CallerIsRestored` (`CallerRestored`) and `ArgumentsArrive` (`ConflictFreeCallsArrive`). The invariant
goes by the set of lines that have run: the stack holds the registers pushed and not yet popped, in
their order (`StackIsSaved`), and a register differs from the caller's only between its move and its
pop (`RegistersFollow`).

La16LayoutProofs, for every program whose image fits (`ImageFits`: every part ends with the last
multiple of 4 below 65536 or before it; nothing in the assembler checks it, hazard `section.c:191`,
and a larger image wraps over its header): `PartsNeverOverlap` (`PartsApart`). The invariant says that
the parts placed so far are apart and end at `image_uaddr` or before it; every pass places at
`image_uaddr`, and the one step between them that changes it rounds it up. That is inductive only
while the image fits, so the invariant is an implication, and what makes it one that lasts is that
parts are never taken back: an image that fits fitted before every step (`ImageGrows`), and then
nothing has wrapped (`PlacedBelow`). And `OperandsAreResolved` (`OperandsResolve`), for such images
and constants that fit a word (`NumbersFit`). The second invariant, `ResolveInv`, is what each
pass leaves to the next. The address of a label is four times the number of code tokens before it,
modulo 65536 (`TokenTyped`), although the first pass counts lines and a call becomes many tokens; the
last pass is at `image_text_start` and four times the number of code tokens before it (`Progress`);
both know the function they are in; and every entry of a table is the one a token defines
(`Defines`, `DefinesConstant`), every operand placed is one that a table gave (`LookedUp`).
`EntryMeant` (`EntryIsStart`), for images that fit: after the passes of labels and sections
nothing that the text defines is missing from the table, and `_start` would be found again as it was
(`EntryInv`).

La16TextProofs, for every source. What is written is any sequence of parts, and a part any sequence
of symbols.

- `PartsStandAlone` (`LinesStandAlone`): the passes distribute over the joining of texts. For tabs,
  newlines and lines it is enough that the first text ends with a newline (`UntabbedJoins`,
  `CollapsedJoins`, `LinesJoin`), each by induction over the second text. Comments are the hard pass:
  one round of the loop removes one comment anywhere and goes on where it stood, so the rounds over a
  joined text must be matched with rounds over its parts. While the first text has a comment left,
  the round is that of the first text alone (`CutBefore`), because every comment it opens it also
  closes (`Closed`); afterwards it is that of the second, shifted (`CutBehind`), because the newline
  between them stops the search for blanks in front of a comment. `UncommentedJoins` puts the two
  together, and `AloneFlattens` all passes over any number of parts. The invariant `Passed` says
  which of the operators has been applied in which phase; in the first, that the buffer and the place
  in it are those of the n-th round.
- `LinesInOrder` (`ReadInOrder`): on top of `Passed`, the invariant `ReadSoFar` says that after n
  lines what has been said is what becomes of the first n lines (`Arriving`), and that `section` is what
  the text in front of the line says (`SectionOf`): it is in one exactly behind a section line with no
  label since (`InSectionNext`), and read there exactly as long as there has been nothing but data
  since the line of a `.data` or `.bss` section (`RightBehindNext`, `SectionNext`). So the data behind
  a constant and in other sections is lost, and nothing else is. That a line of the whole text
  is the line of its part by itself is `LineIs`, from the first theorem.
- `GapsArrive` and `CodeArrives` are what follows for `LinesHaveWords` and `CodeAsWritten`: they hold of
  every program whose lines each read as written
  (`LinesReadAlone`), in the section it is in. What one line means is given with the source, so that a line by itself reads as
  written is nothing to prove for every source; that tidy lines do (`TidyLinesReadAlone`) is what
  TLC checks, on every line of the instance. The theorems carry it from lines to programs of any
  length, with any comments, blank lines and line ends around them.

La16FramesProofs again, of LaosInt: `SystemCallsAreServed` (`SystemCallsServed`), for every size,
image and code around the handler whose programs come to it as `EnteredByCalls` says, which the run
`frames` checks of its own. The invariant `ServiceInv` has, for each of the twelve lines, what holds
before it when an interrupt's frame is the nearest (`Before`): the number asked for, the byte to
write, what has been done. It is stated only while no flag is up, since a negative number may jump
in front of the handler and stop the core there. That `and r1, 0xff` leaves the low byte is
`MaskKeepsLow`, by induction over the bits, from the powers of two (`PowerAssumption`). And
`ServicesImplementCallStack`: the handler changes nothing of what `FramesImplementCallStack` says.

Induction has what the library states with an operator as a parameter, which the provers cannot
instantiate, for sets instead: a set of numbers that has 0, and n + 1 with n, has them all; a function
defined by recursion exists (`RecursionExists`) and has the type its steps have (`RecursionType`).

LaosProofs, for every machine with room for the kernel: `AllocatorImplemented`
(`ImplementsAllocator`): a step of the search, of a free with any number, or of a store around the
table is a step of PageAllocator or none. `KernelTyped`, `WritableFresh`, `StackReady` and
`ExecutablesMapped` (`TypeOK`, `WritablePagesAreFresh`, `StackIsMapped`, `ExecutablePages`) follow from
one invariant: while the kernel takes its
pages, the table is used exactly below the counter; while it maps the stack, every virtual page above
the counter has the next page of the table, in order, and no other page may be written. Without the
order, that the pages differ does not follow from a step to the next, since the search only says that
what it found was free.

Assumptions are the ASSUMEs of the modules: sizes as above; images, handler tables, opcodes,
registers and lines within their types; programs are sequences of lines whose sizes are natural
numbers and whose dotted labels have a name; the code at the address of the guest's handler is the
handler; and `2^(k+1) = 2·2^k`, since the provers know nothing of powers. TLC evaluates them in every
run that uses them.

Only model-checked: `RunEnds` and `BootReachesUser` (liveness and ENABLED are beyond the prover);
`EnteredByCalls`, which is about the program of an instance; and of the text what one line by itself
is read as (`TidyLinesReadAlone`, and `DataAsWritten` where the program has another line that does not
read as written): words, numbers and escapes are read by recursion over the symbols, against a meaning
that is given with each line of the instance.

## 5. Not modelled

- Text: opening and reading the files, labels that begin neither with `_` nor with a dot, words of
  more than 255 characters, opcodes of more than 20,
  the full tables of names, and numbers that overflow `strtoul`. The value of a string as an operand,
  which is a pointer of the host, is not given.
- A line with an empty first operand and a second one is assembled without operands; La16Encoding
  models it, and `DecodesAsAssembled` leaves it out.
- Instructions under `.bss`: the number of bytes they reserve comes from parsing a register name.
- What becomes of data that is written past the end of the image array: the model stops there. The
  properties of La16Layout are about images that fit; a larger one wraps in the model as in the code,
  and nothing is claimed of it.
- `pc` and `sp` as arguments of a `call`: the pushes and moves before the branch change them.
- Memory management of the host: freeing, and cores 1 to 3, which are never started.
- What the guest prints, and its library and program (`libuser.l16`, `log.l16`, `user.l16`): routines
  over characters with no state shared with the kernel.
- Where a system call with a negative number leads: it depends on the code around the handler.

## 6. Plan

Done, in this order: the machine (memory, core, instructions) with its safety properties and proofs;
frames and the call stack; the encoding; the expansion of `call`; the passes of the assembler; the
guest's page allocator, boot and system calls; the reading of text.

Proved since then: the refinement of CallStack, the expansion of `call`, that operands resolve, and
that system calls are served; that the lines of a text are those of its parts and are read in order;
where the machine begins, and which pages the user may execute.

Next, by importance:

1. A grammar for the sources of La16Text instead of a meaning given with each line, to prove
   `TidyLinesReadAlone` as well.
2. The guest's library: `_putbase` against the digits of a number, `_readline` against the edits of
   a line, as code on a machine with larger bytes.
3. The composition of La16Text and La16Layout: lines as read become lines as placed.
