# Verification of the HI-TECH Z80 C run-time system

The repository is the C compiler for the Z80 that HI-TECH Software published for CP/M: the driver of the
compiler, the C library in C and assembler (storage allocator, standard I/O, files over CP/M, formatted I/O,
arithmetic), the command processor that runs chains of programs, and the monitor of the remote debugger
Lucifer. The passes of the compiler themselves come only as executables. This directory holds TLA+ models of
the parts that keep state, the configurations TLC checks them with, and proofs that TLAPS checks.

## Inventory

Source paths are relative to `src/`. "Correct" names what the component has to guarantee; the properties in
`code type` exist.

| Component | State | Operations | What is hard | Correct | Modelled |
|---|---|---|---|---|---|
| **Heap**: `gen/MALLOC.C`, `SBRK.AS`, `MEMCPY.C`, `CALLOC.C` | ring of headers in memory, `allocp`, `alloct`, `allocx`, the break `memtop` | `malloc`, `calloc`, `free`, `realloc`, `sbrk` | free blocks are merged by the scan that looks for one; `realloc` copies out of memory it has freed; others move the break; the stack limits it | blocks are disjoint and keep their contents (`NoOverlap`, `ContentsKept`), NULL only without room (`NullMeansNoRoom`), calls end (`CallEnds`) | `Heap` |
| **Files over CP/M** (unixio): `cpm/OPEN.C`, `CREAT.C`, `CLOSE.C`, `READ.C`, `WRITE.C`, `SEEK.C`, `DUP.C`, `UNLINK.C`, `RENAME.C`, `GETFCB.C`, `CLEANUP.C`, `SIGNAL.C`, `GETUID.AS` | `_fcb[8]` (use, name, position), CP/M's user number, what control-C does | `open`, `creat`, `close`, `read`, `write`, `lseek`, `dup`, `unlink`, `rename`, `setuid`, `signal`, exit | the console is polled before each sector: a handler, or the end of the program, comes in the middle of a transfer; files are sought under the current user number, which is switched to and fro | a file is a string of bytes (`ImplementsByteFiles`), counts are true, the user number is the program's own whenever it runs, nothing written is lost, no slot leaks | `UnixFile` |
| **stdio streams**: `stdio/FREOPEN.C`, `FCLOSE.C`, `FPUTC.C`, `FLSBUF.C`, `FFLUSH.C`, `FGETC.C`, `FILBUF.C`, `UNGETC.C`, `FSEEK.C`, `SETBUF.C`, `STDCLEAN.C` and more | `_iob[6]`: flags, buffer, `_ptr`, `_cnt`; the list of temporary files | `fopen`, `fclose`, `fputc`, `fgetc`, `ungetc`, `fflush`, `fseek`, `ftell`, `setvbuf`, exit | one buffer and one count for both directions; text mode; finding the end of a text; control-C in a flush; append mode | a stream is a string of characters with a position (`ImplementsCharFile`), `GetReturnsNext`, `SeekEndIsEnd`, `LinesFlushed` | `Stream`, in part |
| **Lucifer monitor**: `diskB/LUCIFER/TARGET.C`, `PROTO.H` | saved registers `rptr`, interrupt masks, the serial line | HELLO, IDENT, GREGS, SNDREGS, READ, WRITE, STEP, GO, STOP; console calls of the program | debugger and program run at once after GO and share one line; interrupts; byte counts without a time limit | the two ends agree what each byte is (`Agreement`, `PromptOutstanding`), but where the code loses that; registers and memory come back as set (`ImplementsDebugger`); every command is answered (`Responds`) | `Lucifer` |
| **Command processor**: `cpm/EXEC.AS`, `EXECL.AS` | the command file, error action, error flag, user number, the warm boot vector | run a program, IF_ERR, TRAP, remove, exit; `execv` | the program in between may end in any way; errors skip to a TRAP; control-C comes back in the middle of a command | the chain does what the file says (`ImplementsScript`), vectors are put back (`VectorOK`), only the user's own files (`OwnUserOnly`), it always ends (`Ends`) | `ExecChain` |
| **Compiler driver**: `z80/ZC.C` (also `diskB/SOURCES/ZC.C`, the same file) | lists of files, flags, `nerrs`, temporary files, stdin moved aside | compile, assemble, link, convert; command lines through a file | a pass fails, is not found or cannot be run; the temporary files are used in turn; a command too long goes through descriptor 0 | link only without errors, status true (`ImplementsBuild`, `SuccessMeansDone`), no temporary file left (`TempsGone`), input where it is looked for (`RightInput`) | `Driver` |
| **Line and formatted I/O**: `stdio/GETS.C`, `DOPRNT.C`, `DOSCAN.C`, ... | none of its own | `fgets`, `printf`, `scanf`, `putw`, ... | field widths and precisions, suppressed fields, ends of input in the middle of a conversion | what is printed means what was given and reads back as it; lines lose nothing (`TextsRight`) | `Format`, in part |
| **Integer and string routines**: `gen/LDIV.AS`, `IDIV.AS`, `BITFIELD.AS`, `QSORT.C`, `ATOI.AS`, ... | seed of `rand` | arithmetic, comparison, bit fields, sort, conversions, copies | signs, the largest negative number, counts of shifts, equal keys | equals its reference definition (`RoutinesRight`) | `Arith`, `Sort`; not strings |
| **Time**: `stdio/CTIME.C`, `cpm/CONVTIME.C`, `TIME.C` | none | days to dates | leap years, years' ends | equals its reference definition (`DatesRight`) | `Calendar` |
| **Start-up and arguments**: `cpm/ZCRTCPM.AS`, `stdio/GETARGS.C` | `argv`, the redirected streams | words, quotes, continued lines, names with wild characters, redirection | one flag for two purposes; a table of 200 | the arguments are what the line says (`TextsRight`) | `Arguments`; not the start-up code |
| **Jumps, frames, interrupts**: `gen/LONGJMP.AS`, `cpm/INTRPT.C` | registers | `setjmp`, `longjmp`, `set_vector` | register conventions | needs the generated code | no |
| **Floating point**: `float/` | none | arithmetic, conversions, `floor`, `ceil`; functions, decimals | normalization, rounding, the ends of the range | within the stated part of the last place (`FloatsRight`) | `Float`; not functions and decimals |
| **ROM stdio**: `romstdio/` | none | the same formatting over `getch`, `putch` | none | as formatted I/O | no |
| **Console and small calls**: `cpm/GETCH.C`, `BDOS.AS`, ... | none | one BDOS call each | none | by reading | no |
| **Executables**: passes, assembler, linker, librarian, `LUCIFER.EXE` | - | - | no source | - | no |

How they interact: everything runs in one thread. The program calls stdio, stdio calls unixio for whole
buffers, unixio calls CP/M sector by sector. Buffers come from `sbrk` by way of `stdio/BUF.C`, so the
allocator sees the break move under it. The only asynchronous event is control-C, and it is synchronous in
the end: `_sigchk()` polls the console before every sector that `read` and `write` move, and calls the
program's handler or `exit`, which runs back through `_cleanup()` (stdio) and `_cpm_clean()` (unixio). Only
Lucifer has true interrupts. The library has its own header `diskA/HITECH/STDIO.H`; `stdio/STDIO.H` is an
older one that lacks the flags the sources use.

Around the library: the driver spawns the passes and reads its own long command lines back through descriptor
0. Under CP/M programs that run one after the other are a chain of the command processor's, to which they report
through the bytes at 80H that `exit` sets. `_getargs` stands between the command line and stdio, which it asks to open the
redirected streams. The compiler's code calls the routines of `gen/` and `float/` for every operation the Z80
does not have.

The hazards of this code, each at its line with the properties that would show it going wrong, are the list
`hazards` of `PROJECT.json`.

## Modules

| Module | Role |
|---|---|
| `Allocator` | what an allocator promises: blocks are granted apart from each other and given back |
| `Heap` | `malloc`, `free`, `realloc`, `sbrk`, one step per iteration; implements `Allocator` |
| `HeapProofs`, `UnixFileProofs`, `StreamProofs`, `LuciferProofs`, `ExecChainProofs`, `DriverProofs` | for each of these components the inductive invariant, its properties and the refinement as theorems |
| `LibraryProofs` | dates, integer routines and the sort are right for every operand |
| `FloatProofs` | floating point is as right as `FloatsRight` says, for every operand |
| `ByteFiles` | what unixio promises: files are strings of bytes, descriptors have positions |
| `UnixFile` | unixio over CP/M's sectors, with the poll of the console; implements `ByteFiles` |
| `CharFile` | what stdio promises of one stream: a text and a position |
| `Stream` | one stdio stream over a string of bytes that grows by sectors; implements `CharFile` |
| `Debugger` | what a remote debugger promises: the program stands still and is read and written, or runs |
| `Lucifer` | monitor, program, serial line and the debugger at its other end; implements `Debugger` |
| `Script` | what a command file means |
| `ExecChain` | the command processor, the programs it runs, `execv`; implements `Script` |
| `Build` | what the manual promises of the C command |
| `Driver` | `ZC.C` over passes that succeed, fail, or are not found; implements `Build` |
| `Arith`, `Sort`, `Float`, `Calendar`, `Arguments`, `Format` | routines without state, as operators, each with the reference definition it is compared to; `Loops` is a loop of n turns |
| `Library` | a program that calls those routines |
| `MCHeap`, `MCUnixFile`, `MCStream`, `MCLucifer`, `MCExecChain`, `MCDriver`, `MCLibrary` | instances for TLC |

`Stream` stands on what `UnixFile` is shown to implement: beneath it is a file of bytes, padded with ctrl-Z to
a whole sector, whose transfers poll the console before every sector. CP/M itself, the terminal, the disk, the
passes and the debugger's end of Lucifer are external: modelled by what the code under `src/` asks of them.

### Heap

Memory is counted in units of `struct store` (a pointer and a flag, three bytes), since every size is rounded
to them. `next` and `busy` are the header fields of a unit, `cell` says whether it was last written as a
header, as data (the n-th unit of its block) or not at all: so a header that lands in data, or data taken for
a header, is seen. `pc` is where `malloc` is:

- `MallocCall`, `MallocFirst`: entry, and the first call that builds `allocs[]`;
- `Coalesce`, `Found`, `Advance`: one iteration of the search, a merge with the next free block, a hit (with
  or without a split), or a step along the ring that counts the rounds;
- `Grow`, `GrowFails`: the call of `sbrk` and what follows it, among others the busy block over a gap that
  somebody else's `sbrk` left;
- `ReallocCall`, `ReallocCopy`: `realloc` frees, allocates and copies, `Patch` puts back the saved unit;
  `Memcpy` is what `gen/MEMCPY.C` does, including its word copy from odd addresses;
- `Free`, `ForeignSbrk`, `Return`: the rest.

`CautiousSpec` is a program that, after a NULL, frees something before it asks again (`realloc` frees by
itself); `Spec` is any program. With any program a failed search leaves `allocp` on a header that was merged
away, and the next call can hand out memory in use: the run `heap_any_client` shows it. `WildRead` is the
scan meeting something that is not a header; nothing is said of what comes after.

### UnixFile

`fcb[fd]` has the use, the full name and the position, `disk` the sectors of every (user number, file),
`unsaved` the descriptors whose file CP/M would forget parts of if it were not closed. `ReadCall`, `WriteCall`
and `SSizeCall` (the read of the last sector that stdio's `_ssize` makes, with the use of the descriptor
changed for its duration) begin a transfer. Its loop is `PollQuiet`, `PollHandler` with `HandlerReturns`, or
`PollExit`; then `EnterUser`, `ReadSector` or `WriteSector`, `SetUidBack`; and `Leave`, `Return`. Every
other call is one action, as it does not poll; `Rename` has two, since the delete and the rename are two
requests to CP/M. The handler may make every call that does not transfer, except that it leaves alone
the descriptor and the user number of the call it interrupted. Programs do not remove a file they have open.

### Stream

`flag` is the set of bits of `_flag`, `ptr` is `_ptr - _base`, `base` whether there is a buffer. Bytes of the
buffer that nothing will use again are 0 in the model. `op` is the call in progress: the bytes `fputc` has
still to place (`todo`, a newline of a text being two), what a write under way has left and done, and what
comes after it. Calls are `Fopen` and its two failures, `FcloseCall`, `FflushCall`, `Setvbuf`, `FputcCall`,
`FgetcCall`, `Ungetc`, `Fseek` (relative seeks are the same with `ftell` added), `FseekEnd`, `ProgramExits`.
`Step` are the stages inside them. `WriteSector` is one sector of `write`, and `Interrupt` is control-C at
the poll before it: `exit` then flushes the stream whose flush was going on, and closes it.

`Ssize` with `EndFlush` is `_ssize` on a text: flags saved (in a byte, so `_IOLBF` and `_IODIRN` are lost),
flush, read of the last sector to its first ctrl-Z, flags put back. For a binary file the size comes before
the flush (`EndBinary`, then `SeekFlush`): `stdio_seek` shows where that leads.

A program is `Careful` (`Careless = {}`) if it keeps clear of three corners, each a constant's value so that it can be let
in: it does not ask for the end of the file with bytes unwritten ("seekend"), pushes back only behind a character that was read
("pushback"), and does not flush a text it has read to a ctrl-Z ("ctrlz"), which would take it past the ctrl-Z. All else is
allowed, `fflush` of a stream that is being read among it, which drops what was read ahead and a character pushed back
with it and leaves the descriptor where it is. `GetReturnsNext` compares every answer of `fgetc`, those of a stream whose end flag
is set too, with the character that is next in the stream when the call begins, and names one exception: a character that
`ungetc` took after the end was met is kept back. `LinesFlushed` says that nothing of a line waits, and names one exception: the
newline that found the buffer full waits, alone. Both are findings. `CharFile` has no part in what a seek reaches: only `Get` and
`Put` are held to one byte at the position, in the call that asks for it; where a seek ends is `SeekEndIsEnd`'s business.
`setvbuf(_IONBF)` is only asked of a stream that has no buffer yet, because on any other one the code stores
at address 0 afterwards. In `Stream.cfg` control-C comes before the first sector of a write only: later, the
sectors that have gone are written again by `exit`, at the position after them, which is a flaw of the code
that no document contradicts (see hazards). Not in the model: the other streams of `_iob`, temporary
files, a buffer supplied by the program, streams over strings, a `setvbuf` that finds no memory.

### Lucifer

`mem` are two cells of the program, its stack and the monitor's, `cpu` the registers of whoever runs, `rptr` where
the program's are pushed while it stands still. `at` says where the monitor is: `main` waiting for a command,
`going` between enabling the interrupt in `go()` and popping the registers, `stepping`, `trap`, `saving` after
an `rst`, or `run`, when `cpu.pc` says whether it is in the program or in a console call of the monitor's.

- `Hello`, `Ident`, `GRegs`, `SndRegs`, `Read`, `Write`, `Step`, `Go`, `StopIgnored`: the commands of `main()`. Each
  waits for the bytes its count announces (`Takes`), and answers as the code does, with the sum of what memory
  holds afterwards.
- `Interrupt`, `Rst` with `ReportRst`, `Trap`: the three ways the program stops; `Frame` and `Saved` are the
  layout in which `intr()` pushes the registers and `go()` pops them. `Resume` and `OneInstruction` pop them.
- `ConIn`, `ReadBuf`, `ConStat`, `ConOut`, `OtherCall`: `bdostrap`; then `Prompt`, `StopTaken`, `CharTaken`,
  `LineTaken`, `Status`, and for the functions it does not have the old BDOS, or `ErrOutput`, `ErrChar`, `ErrStops`.
- `putch` and `getch` wait with the interrupts off (`Deaf`), and `putch` may wait as long as a character takes. A byte that comes
  meanwhile is `Held`, and interrupts at the `ei` behind the character: `Onto` goes to the next place, or stops the program there
  before it does anything. So a STOP comes between `bdoserr`'s OUTPUT and its character (`OUT2`), behind the character (`OUT3`), or
  behind the prompt of `bdosgetch` (`UNASKED`).
- `UserStops` and `LeaveDummy`: the program's own stop; before anything is loaded it is `dummy()`, which
  returns, after another GO, through a stack nobody has set up, to `LOST`.
- `Ask`, `HearAnswer`, `HearMessage`, `SayStop`, `Type`: the debugger, which sends one command at a time and STOP
  whenever the program runs.

A byte on the line is a record of its value and, as a ghost, of what its sender meant (`as`); nothing in the
code's actions reads the ghost. `Agreement` is that each end takes every byte for what it is, with an exception the code
cannot avoid: after a stop at `OUT2` the debugger takes STOPPED for the character of the output, and does not hear that the program
stopped (`Torn`; it is an exception of `Responds` too). `PromptOutstanding` is that a program that waits for a key has been heard, but
for one stopped at `UNASKED`, which waits again after GO without a new prompt. The codes of
`PROTO.H` keep their order but not their values; data and keys may be the code of a CALL instruction, or 0, which is
HELLO, or a newline, but a key is never STOP: that is how the debugger's user asks for a stop.

`Gaps` are the two places of a few instructions where a byte would interrupt the monitor itself, and the run has neither: in
`go()` behind its `ei`, before the registers are popped ("going"), which a debugger that says STOP once it has heard GACK is too late for, as
GACK and STOP both have to cross the line meanwhile; and between an `rst 0` and the `di` of `intr()` ("saving"), which a STOP
that was sent before can hit, as nothing in the code prevents it. With either of them TLC finds `ImplementsDebugger` violated: the debugger is told
that the program stopped in the monitor. A byte that comes in the few instructions between `putch`'s `ei` and the `di` of the
`putch` or `getch` that follows has the effect of one that was held. Bytes are not lost, the line makes
the output of a program wait (`LineRoom`), and single steps are taken of the program's own instructions.

### ExecChain

The command file is a sequence of commands, `next` where it is read; `mid` says that control-C left it in the
middle of a command, whose rest is read as one. `Loop` is where every warm boot comes to: it takes what
the program left at 80H (`dbuf`) for its result and goes on, ends (`Doexit`) or skips (`SkipTo`). `NoCommand`, `Exit`,
`SetAction`, `Plain`, `IfError`, `RmFile`, `Exec` are the entries of the table at `docmd`; `OpenProgram` seeks the program
under its user number and starts it under the user's own, `ChangeDisk` is the user who is asked for another disk,
`Break` control-C. `ProgramEnds` and `ProgramExecs` are the program. Of `execv` the lengths of the arguments are modelled and where
they are put; the strings are not.

The table has 12 entries and a test against 24, its length in bytes: the codes from 12 to 23 pass it and lead
anywhere (`lost`). `Codes` of the run has 24, which is refused, and none of those. `Found = {TRUE}` and
`Wanders = FALSE` leave out a command file that is missing and programs that end under another user number:
in the first case a vector that was never saved is put back, in the second files of another user are removed
(hazards).

### Driver

`on` is the set of switches, `lists` the lengths of the lists of flags, `c_as` and `objs` the files. A file on `disk` is `Gone`, `Broken`,
`Old` or what it was made from and by which passes: so a pass that reads the wrong temporary file shows. `fd` are the
descriptors, `stdin` where the driver's own input was moved. Options without a file reach the linker as well, provided one of them names
the output: otherwise the driver looks for a dot at address 0. `TakeOption`, `Refuse`, `TakeFile` are `main()`,
`Doit`, `NextSource`, `AfterSources`, `GetAddresses`, `CrossReference` are `doit()`, `NextJob` what `compile()` and
`assemble()` run next, and `Redirect`, `Direct`, `Succeed`, `Fail`, `NotFound`, `Answer`, `CannotSpawn`, `CannotRestore`, `Back`
are `doexec()`. The passes are external: one succeeds on files it can read only, and one that fails may leave
its output as it was, broken, or missing.

Lengths of command lines are counted in arguments (`MaxLine`; the code's limit is in characters), which vary for `CPP` and the linker;
`Wordy` are passes whose command is too long by the names in it, in the run `OPTIM` and `CREF`. No two sources have
the same base name. Object files of all names exist from an earlier time, as `Old`, so that a stale one that gets
linked shows. `RightInput` is about commands of which one at most is too long: the second one finds `newstd` unset
and its input anywhere.

### Library

Routines without state are operators; `call` is the call in progress, with its operands and result, so that each
invariant compares a result with its reference definition. The reference definitions are arithmetic
on unbounded integers, the rules of the Gregorian calendar, and what the items of a line say.

- `Arith` and `Float` follow the loops of the assembler, at other widths: `WORD` and `EXP` are constants, 16 and 7 in the
  code, 8 and 6 in the run, so that a long has 16 bits and a mantissa 12, and boundary values can be tried in
  all combinations.
- `Sort` is `qsort` with its stack, on every array of up to six elements of three values. Its stack grows by an
  entry only where the array doubles. Indices are numbers, where the code's are words: `i+j` overflows for more than 16384
  elements (`gen/QSORT.C:57`). The copy of the middle element is exact, where `memcpy` is not, from eight bytes on and an odd
  address to an odd one.
- `Calendar` is tried on days around every kind of year's end to 2038.
- `Arguments` takes a line apart character by character. Lines are put together from items that say what they mean, spaced
  in three ways, typed at once or continued; directories have two files and one. Lengths near 255 are left out.
- `Format` is `vfprintf` and `vfscanf` as folds over the items of a format, `fputs`, `puts` and `putw` to a stream that
  takes so many characters and no more, `fgets`, `gets` and `getw`. A digit or a letter is its value, so that cases are not
  told apart. Tried are every conversion with every flag, widths and precisions given or by `*`, strings, texts with empty lines cut into
  lines of every size. A number printed must be that number and as wide as asked (`FormatsRight`); a text cut
  in pieces must be the pieces together (`LinesRight`). Where the code departs from the manual the property says what the code does, and
  the departure is a finding: what a suppressed number stores, how many characters `fgets` takes, what `puts` reports. Left out: formats that end inside a conversion, floating conversions,
  `cgets` and `perror`.

`FloatsRight` says less than one would like: a sum may be wrong by almost two units of the last place of its
larger operand, four when it is negative. Left out by name are results past the top of the range, which run into
the sign bit; `floor` and `ceil` of numbers below a half in one direction, which answer 0; integers beyond the
mantissa, whose low byte is dropped. `RoutinesRight` says nothing of division by 0. `TextsRight` leaves out by name (`Plain`) lines the
code takes wrongly; with any of these exclusions removed TLC finds the line.

## Runs

All runs are exhaustive and take between a few seconds and three minutes.

| Run | Checks | Bounds and why they are enough |
|---|---|---|
| `heap` | `TypeOK NoOverlap ContentsKept RingOK SearchPtrOnRing NullMeansNoRoom ReallocKeepsContentsElsewhere CallEnds ImplementsAllocator` | 8 units above the start, growth by 3: two growths with a gap between them, blocks of one to three units, a split, an exact fit, a request that never fits, a stack limit that moves, a new block of `realloc` that overlaps the old one from below |
| `heap_any_client` | `NoOverlap`: violated | any program, blocks of one and two units |
| `heap_realloc_doc` | `ReallocKeepsContents`: violated | what the manual says of `realloc` |
| `unixio_users` | `UserRestored NoSlotLost SavedElsewhere` | two user numbers, two names, sectors of one byte: a transfer of two polls twice and fills the disk |
| `unixio_bytes` | `TypeOK CountIsTrue ReadsTheFile CallEnds ImplementsByteFiles` | sectors of two bytes, transfers of one and three, so that each begins and ends inside a sector in every way; two descriptors; a disk of two sectors |
| `unixio_exit` | `ExitSavesAll`: violated | one file, control-C during `_ssize` |
| `stdio` | `TypeOK GetReturnsNext SeekEndIsEnd LinesFlushed CallEnds ImplementsCharFile` | sectors of two bytes, a buffer of three (a flush takes two sectors, a refill ends inside one), a disk of two sectors that fills up; a file that is empty, padded or full; text and binary, reading, writing, appending and both. Programs put and push back a letter or a newline, which is two bytes in a text, so a lost or doubled byte shows. Of modes for both directions a text (`MostModes`; `stdio_seek` has a binary stream too); 1,858,295 states |
| `stdio_seek` | `SeekAccountsForBuffer`: violated | a program that seeks with bytes unwritten |
| `lucifer` | `Agreement PromptOutstanding Responds ImplementsDebugger` | a register and a program counter, two cells, lines of two characters; data that look like commands and like a CALL, keys that are data or a newline; STOP may come at any moment of a running program but the two of `Gaps`, `putch`'s waits included |
| `exec_chain` | `TypeOK VectorOK OwnUserOnly Ends ImplementsScript` | every file of up to four commands: an action, a program that fails, a skipped command and the TRAP; two user numbers, one with the programs |
| `driver` | `SuccessMeansDone TempsGone RightInput ImplementsBuild` | every command of up to four options and files in any order, two base names: a source that fails before one that does not, a link of several files, each switch that changes which temporary file is read, command lines that are too long, of passes early and late; 486,978 states |
| `library` | `RoutinesRight FloatsRight DatesRight TextsRight` | boundary values of every operand in all combinations, arrays of up to six, lines of up to four items (two redirections with their names) |

Deadlock is not checked: a program, a chain or a command may end, and in `Heap` the scan may go wild.

Fairness, where a run has a liveness property, is of what runs by itself:

- `Heap`, `UnixFile`, `Stream`: `WF_vars(Step)`. `Step` is the call in progress, and there is nothing else that
  could run instead of it, for a Z80 program is one thread and its calls are made one at a time. Nothing is
  assumed of the program's own calls, nor of control-C. That a handler returns is part of `Step` in
  `UnixFile`: one that does not return has ended the program as far as the call is concerned, or left it by
  `longjmp`, which is not modelled.
- `Lucifer`: `WF_vars(Target)`, as the target's processor never stops and takes its interrupt between two
  instructions, and `WF_vars(HearAnswer \/ HearMessage)`, a debugger that listens. Nothing makes the debugger
  ask, stop or type.
- `ExecChain`: `WF_vars(Step)` for the processor; `WF_vars(ProgramEnds)`, that programs end, and
  `WF_vars(ChangeDisk)`, that a user who is asked hits a key. A program that is never found is asked for forever: `Ends`
  says so.
- `Driver` and `Library` have no liveness property.

## Findings

The lines and the words of the manual are in `PROJECT.json`. The first four are runs that TLC ends with a counterexample; for the others
a property of a passing run states what the code does instead of what the manual says.

- `malloc` after a failed `malloc` may hand out memory in use (`gen/MALLOC.C:63`).
- `realloc` loses three bytes when the new block ends where the old data begin (`gen/MALLOC.C:152`).
- control-C while stdio looks for the end of a text being written loses what was written (`stdio/FSEEK.C:21`).
- `fseek` to the end of a binary file ignores what is in the buffer (`stdio/FSEEK.C:60`).
- `ungetc` accepts a character after the end was met, and `fgetc` answers EOF all the same (`stdio/FGETC.C:14`).
- `fflush` of a stream that was read, which the manual asks for before a write, skips what was read ahead (`stdio/FFLUSH.C:11`).
- A newline that finds the buffer full stays in it on a line buffered stream (`stdio/FPUTC.C:26`).
- `scanf` stores a number though `*` suppresses it, through the next argument (`stdio/DOSCAN.C:166`).
- `fgets` puts n characters and a NUL into a buffer of n (`stdio/GETS.C:16`).
- `puts` does not report that its newline failed (`stdio/PUTS.C:23`).

Others were met while modelling and are excluded by a condition the model names, or are plain from the code:

- `rename` across user numbers deletes the other user's file and reports success (`cpm/RENAME.C:9`).
- append mode does not keep writes at the end of the file (`stdio/FPUTC.C:17`; `manuals/Z80DOC.TXT:7991`).
- `setvbuf(_IONBF)` on a stream with a buffer leaves `_size`, and the next character goes to address 0
  (`stdio/SETBUF.C:25`); a failed open for `+` leaves the stream's slot taken (`stdio/FREOPEN.C:35`).
- `qsort` of no elements compares before the array (`gen/QSORT.C:57`).
- An argument after a name with a user number and wild characters runs to the end of the line, a quoted `<`
  or `>` redirects, and names with wild characters overrun the table of arguments (`stdio/GETARGS.C:117`, `161`, `142`).
- `gets` drops the last character of a last line without a newline (`stdio/GETS.C:30`); `%07d` of a negative number is one
  character too wide (`stdio/DOPRNT.C:75`).
- A STOP that comes while `bdoserr` waits to send its character tears its output (`TARGET.C:246`), and one that comes while the prompt is sent
  loses the prompt (`TARGET.C:266`).
- A second GO after `dummy()` runs away (`TARGET.C:483`).
- EXEC tests commands against the length of its table in bytes (`cpm/EXEC.AS:202`), restores a vector it never saved when
  there is no command file (`:84`), takes a program that ends by a bare warm boot for one that failed (`:152`), and does not put
  the user number back when a program has ended (`:150`). `execv` counts the arguments without the name it also
  copies (`cpm/EXECL.AS:244`).
- The driver chooses the type of the program's name by the switches before it (`z80/ZC.C:481`), and takes an unset
  descriptor for the second long command (`z80/ZC.C:665`).
- Floating point: overflow of an exponent runs into the sign (`float/FLOAT.AS:172`, `451`); a sum is rounded whether it needs
  it or not and a positive product never (`180`, `316`); `floor(-0.25)` and `ceil(0.25)` are 0 (`float/FLOOR.C:14`);
  `floor(8388607.5)` is 8388608; 0.0 - 0.0 is a -0.0 that is not equal to 0.

## Proofs

`HeapProofs` proves, for every memory size, growth quantum, set of request sizes and stack limits that
`HeapAssumption` allows, of `CautiousSpec`:

- `Invariance`: the inductive invariant `IInv`;
- `TypeCorrect`, `RingCorrect`, `NoOverlapCorrect`, `ContentsCorrect`, `SearchPtrCorrect`: the safety properties
  of the run `heap`;
- `RefusalCorrect`: `NullMeansNoRoom`, from `SearchInv`; `ReallocCorrect`: `ReallocKeepsContentsElsewhere`, from `MoveInv`;
- `Refinement`: `CautiousSpec => ImplementsAllocator`.

`NoOverlap` is not inductive: that a new block is nobody's follows from where its header stands. So `IInv`
adds to the type invariant and the ring (`RingOK`, `TopOK`, `Fresh`) that every block in use lies between its
own busy header and the next one (`Owned`), that a free block, or one in use, consists of memory `malloc`'s own
calls of `sbrk` returned (`Untaken`), that the block on its way to the caller is like one in use but
belongs to nobody yet (`Pending`), that the search is on the ring and the search pointer too unless a call has
just failed (`Scanning`), and that the data `realloc` copies from lie in memory (`OldBlock`). `NoOverlap` follows:
two blocks with different headers on an ascending ring cannot share a unit. There is one lemma per
action; `GiveBack` is shared by `free` and the first half of `realloc`. The cautious program is needed in one place: the
scan starts at `allocp`, and only `~stale` says that it is still on the ring.
`SearchInv` says what a scan leaves behind it: in the round that began at `allocs[0]` no header before `p` has room. `MoveInv`
follows the data of `realloc`: while it searches they are inside one free block, whatever is merged with it (`OldThere`); when it
has found room, only the unit behind the new block may have been overwritten, and then `allocx` has it (`OldSplit`).

`UnixFileProofs`, for any number of descriptors, files, user numbers and sectors, any sizes and any disk:

- `Invariance`, and from it `TypeCorrect`, `UserCorrect`, `SlotsCorrect`, `SavedCorrect`, `CountCorrect`;
- `ReadCorrect`: `ReadsTheFile`, from an invariant of its own (`ReadInv`) that relates the bytes got so far to the sectors
  of the file (`Passed`);
- `Implementation`: `Spec => ImplementsByteFiles`.

None of these is inductive. `IInv` says of what shape the variables are (`Shapes`, `Kinds`), which slots have a name and which
the call under way holds (`Opened`, `Held`, `NoSlotLost`), that the use `_ssize` has borrowed is given back
(`Borrowed`), which user number is set at each stage of a transfer (`Luid`), that a position is where the
transfer began plus what it has moved (`Progress`), that only a descriptor for writing has something unsaved (`Unsaved`), and that
a rename has two names of closed files before it (`Renaming`). The refinement is step by step: `ReadSector` is the abstract
read of a stretch that lies in one sector, `WriteSector` the abstract write of one (`SameSector` is the arithmetic), and
everything else is one abstract operation or none.

`StreamProofs`, for any sizes of sector, buffer and disk, any files, modes, ways of buffering and first
states of the stream:

- `TypeCorrect`, `LinesCorrect` from `Invariance`, for every program and with control-C at any poll;
- `GetCorrect`, `SeekEndCorrect` from `ReadInvariance`, for a careful program;
- `Implementation`: `Spec => ImplementsCharFile`, for a careful program and `Interrupts \subseteq {0}`.

That a byte finds room, `TypeOK`, is not inductive: `IInv` adds which way the buffer is used (`Buffered`: while it is written `_ptr`
is `_cnt`, while it is read what is left of it lies before the descriptor's position), what each stage of a call may count on
(`Stage`), and that the bytes a write has done with are in the file already (`Outgoing`, `Gone`: `op.done` bytes behind the
position equal the first `op.done` of the buffer). No position is behind the end of the file, so that `Overlay` never leaves a
hole; that the disk fills only at its last sector is arithmetic on multiples of `SECSIZE` (`SectorEnd`).
`ReadInv` adds that what was read ahead is an image of the file but for the character pushed back (`Image`), and that what
`fgetc` is to return is at every refill what it would be if the call began there (`Awaited`): skipping a return and fetching
the next buffer do not change `NextOf` of what remains. For the refinement each action is shown to leave the text alone (`Stays`), to move
the position (`Seeks`), to put one byte (`Adds`), or to open, shut or lose it; the bytes that wait lie over the file, one more
byte puts one (`OneMore`), and a sector that is written from the buffer is one that was seen there before (`OverlayTwice`).

Both hypotheses are needed, and `Careful` says nothing a program does not control: without it a character pushed back at the beginning of
the buffer overwrites the next one, a flush goes past the ctrl-Z that ended a text, and `_ssize` drops `_IODIRN` with the error flag it saved before its flush. Control-C
in the middle of a flush has `exit` write the buffer again.

`LuciferProofs`, for any data, keys, stack pointers, sizes of lines and first contents of location 5:

- `AgreementCorrect`, `PromptCorrect` from `Invariance`;
- `Implementation`: `Spec => ImplementsDebugger`.

What a byte means depends on what both ends are doing, so `IInv` is a disjunction of phases: nothing is asked (`Waiting`), something is
and not answered (`Asking`), it is answered (`Answered`), or the program was let go and not heard to have stopped (`Loose`). In the
first three the line holds one whole command or one whole answer (`Carried` is what a command's handler may rely on), and at most
a STOP that crossed the program's own stop. In `Loose` both ends send as they please: `Messages` says that what has been
told and not heard is a sequence of whole messages, the last perhaps half told while `bdoserr` is between its two bytes, that
only the last may report a stop, and that a prompt, a key and a STOP under way go with what the program is doing. One lemma per way the text
grows or shrinks (`MessageAdded`, `HalfAdded`, `HalfCompleted`, `MessageDropped`) and one per handler make the step.

For the refinement `Truly` is added: the program's cells hold data, its registers are registers whether the processor has them or the
frame at `rptr`, and a key the program is about to take is one that can be typed. Each command has a lemma that takes the bytes on
the line apart as its handler does and shows that the memory changes as the request says and that the answer, when it is
whole, says what `Debugger` answers (`GRegsTrue`, `SndRegsTrue`, `ReadTrue`, `WriteTrue`, `SimplyServed`); the steps
of a program let go are runs of `Debugger`, what stops it leaves registers and memory as they were (`TargetTrue`), and the
steps of the host ask or hear (`HostTrue`).

A stop at `OUT2` ends the phase `Loose` in one of its own: in `Cut` the debugger has said STOP and still believes that the program runs, so
it sends nothing any more, the monitor waits for a command that does not come, and `Torn` is for ever.

The hypothesis of all of these is `Gaps = {}`: no byte reaches the monitor within the few instructions of `go()` and `intr()` described
above, where `ImplementsDebugger` is false.

`ExecChainProofs`, for any users, programs and lengths of command files and of arguments:

- `TypeCorrect`, `VectorCorrect` from `Invariance`. `TypeOK` includes that EXEC never gets `lost`, for which the vector must be
  right; `Entering`, `Loading` and `Judged` say where a program under way came from and that a failure is judged once;
- `OwnUserCorrect`: `Spec => OwnUserOnly`, an action property;
- `Implementation`: `Spec => ImplementsScript`.

Two hypotheses limit these theorems, and both are violated by behaviours the findings below the runs name: `KnownCommands` says that the
command file is there and has none of the codes 12 to 23, which pass EXEC's test and lead outside its
table; `Wanders = FALSE`, for `OwnUserCorrect` alone, that no program ends under another user number. Without them the properties are false.

`DriverProofs`, for any options, bases, kinds of files and limits:

- `TempsCorrect`, `SuccessCorrect`, `InputCorrect` from `Invariance`;
- `Implementation`: `Spec => ImplementsBuild`.

`SuccessMeansDone` speaks of the end of a command only. `IInv` carries it there: `Stage` says which lists are
fixed and how many files are done at each stage, `Chain` which pass is next and that the temporary file it reads
was made from the source it works on, `Made`, `Kept` and `Unmade` what is on the disk for the files that are done, to be done, and
those without a source, `Program` what becomes of the linked program, `Tidy` which temporary files may exist when, `Wired` where descriptors 0
and 4 lead. `Distinct` is that different roles have different names. Nothing is claimed once `error()` has ended
the command (`status = 2`), for it leaves the files where they are. The proofs use that no two sources share a base name.

`LibraryProofs`, for every operand, not only the samples of the run:

- `DatesAreRight`: `DatesRight`, for every moment up to the end of 2099 (`LastYear` is at most 200 years after 1900; 2100 is the
  first year of four that is no leap year) and zones of up to a day;
- `RoutinesAreRight`: `RoutinesRight`, for words of any even width up to 512 bits, arrays of any size and any elements;
- `NumeralsAreRight`: the numbers of `TextsRight`: any long, signed or not, is what `atoi`, `atol` and `xtoi` read from what `_pnum` wrote of it;
- `LinesAreRight`: the lines of `TextsRight`: two lines of any length, empty ones too, without a newline in them.

The last two are about the fields, sizes and room the actions name; the lemmas behind them, `NumeralsOf`, `HexIs` and `LinesOf`, about any.

These routines keep no state, so there is no invariant of the program to find; each call answers at once and the work is in what its loop
computes. A loop of n turns is a function on the naturals (`TurnsExist`), and what holds after every turn is shown by the set of
the turns for which it does: it has turn 0, and with each turn the next one (`Induction`, which rests on the least element of a set; no
induction schema is used). So every loop has an invariant of its own:

- dates: the years counted off (`CumYear`) are the days the calendar has before a year (`CumYearIsDays`), and likewise the months; every
  day lies in one year and one month of it, which are those the code's loop stops at;
- division: the dividend is quotient times divisor plus what is left, which is less than the divisor shifted up (`AlignedIs`,
  `SubtractedIs`); multiplication: what is added so far and what the rest of the multiplier still brings make the product modulo the
  word; in `imul` the count left over when the loop stops early brings the multiplicand up for the next byte (`Mult8bIs`), for which a
  byte must be able to count its own bits: hence words of at most 512 bits;
- bit fields: a word is the set of its bits (`HavingBits` shows that every set of bits is one word's), a shift moves them, a mask keeps
  the low ones, so that a field put in changes no other bit;
- the sort (`Sorting`): the parts that wait on the stack and the one in hand lie apart from each other, each is at most half as long as the one below it,
  and any two elements that are not in a common part are in order already. `PartitionIs` shows the division of a part: two parts,
  neither of them all of it, with nothing on the left greater than what is on the right, and neither inner loop leaves the part. The turns end
  because each has fewer neighbours in a common part (`FewerJoined`), and halves leave room for no deeper stack than the number of times the
  array doubles (`DeepFits`): the code's 16 entries are enough for every array its 16 bit indices are right for.

- numbers in digits: what is left after k divisions is the number divided by the k-th power of the base (`QuotientsAre`), and the number read so far
  is, after as many digits as the number left has, what is left there, modulo the word (`DigitsRead`); the blanks, the sign
  and the end of the text are found where `_pnum` put them (`BlanksMake`, `SignedFieldRead`);
- lines: what `fputs` has put after k characters is the beginning of all there is to put, k characters longer or as long as there is
  room for (`PutAfter`), so that two calls of `puts` compose (`TwoPut`); a piece that `fgets` takes ends at its size, behind
  the first newline or at the end of the text (`FgetsGot`), and the pieces up to the k-th, joined, are the text up to where the k-th ends
  (`Flattened`); each but those at the end takes a character at least, so that there are enough of them (`PlacesAre`).

That a power of two has its usual laws is itself proved, from the number of subsets of a finite set, for the provers know nothing of `^`.

`FloatProofs`, on the lemmas of `LibraryProofs` about powers, shifts and long numbers:

- `FloatsAreRight`: `FloatsRight`, for every operand. `WORD` and `EXP` are any that satisfy `WordAssumption` and `ExpAssumption`, among them
  the code's 16 and 7, which the run is too small for. Of `EXP` it is assumed that the bias is more than the bits of a long, as in the code (64
  and 32): a number converted from a long must not be out of range.

Most steps of the code bring a mantissa to its place, and `Tri` says what that leaves: the mantissa, the number of places it came down, the bit
that fell off last. From there:

- products (`ProductsRight`): the multiplier's bits are taken a byte at a time and the low end of the sum is dropped, so what is left is the
  product of the mantissas divided by the power of two that makes it a mantissa (`ProductReduced`), with the bit below it; a
  product is rounded when it is negative, which is the one unit. The exponent has a bit more in the register than in a number, which
  separates what is out of range on either side (`ExponentInRegister`);
- quotients (`QuotientsRight`): the dividend shifted up by the turns done is the quotient times twice the divisor plus what is left, which is less
  than that (`QuotientTurns`); the quotient has bits to spare, which come down as those of a product do, and rounding by the
  last of them makes half a unit (`QuotientReduced`);
- sums (`SumsRight`): the smaller operand is shifted down, which loses less than a unit; the sum is always
  halved, and the half is rounded away from 0, so that twice the half is the sum, one more, or three less when it is negative; then it comes up to its
  place again, and all errors are below 2 units, or 4. An operand too far below is ignored, and stays below a unit;
- conversions: `FloatOf(v)` is the number `LIToF` makes of the integer v, toggled when v is negative, and `FToL` of any number in units of one or more is `Nearest`
  (`FToLRight`); between them a long of more bits than a mantissa loses its low byte (`LongFloat`);
- numbers that are integers (`FormIsFloatOf`): every number with the value of an integer is that integer's own number; so a sum in
  units that leave a bit to spare, and a product with nothing below the point, are exact (`ExactSum`, `ExactProduct`);
- `floor()` and `ceil()` (`FloorRight`, `CeilRight`): the nearest integer is the one below or the one above, and comparison, which is that of the values
  (`GreaterIs`, `Compared`), tells which; adding or taking 1 is exact unless the nearest integer fills the mantissa, the case
  `FloatsRight` excludes for `floor()`.

Only model-checked:

- liveness: `CallEnds`, `Responds`, `Ends` (the prover does not do fairness or `ENABLED`);
- `TextsRight` as a whole: its numbers and lines are theorems, its formats and command lines are not. Both are loops over a text with a
  state of many fields (`_doprnt` and `_doscan` with flags, `_getargs` with quotes and redirections), whose meaning is told of the items the text was
  made of, several steps of the loop to an item: a sequence of items has to be related to the sequence of their characters, which needs induction over both.

## Not modelled

- In modelled components: the five other streams of `_iob`, with the flush of line buffered ones before a read, temporary
  files, `fread` and `fwrite` in one piece, `fseek` to the end without a buffer, a buffer of the program's own and streams over strings; in `UnixFile` reading from the console and the reader
  device, and a handler that transfers or changes the user number; the 16 bit wrap in `malloc`'s arithmetic; the relocation of EXEC, address by address; the
  driver's search for its passes, its messages and its branches for Unix.
- Of formatted I/O the floating conversions, formats that end inside a conversion, and the console's `cgets` and `cputs`. The
  string functions, and the assigning forms of the arithmetic: a load and a store around what is modelled.
- The polynomials and decimal conversions of `float/`: their accuracy is a matter of real numbers.
- `setjmp`, `longjmp`, frames and interrupts: register conventions, with nothing to compose them with without the
  code the compiler generates. The start-up code, which runs once and in one order.
- ROM stdio and the small calls: one call of the system each, or the same formatting without buffers.
- The passes, the assembler, the linker, the librarian and `LUCIFER.EXE`: there is no source.

## Plan

Every safety property and every refinement that the passing runs of the six state machines check is a theorem, and so are three of the
four properties of the library and two of the four parts of the last. What could be added:

1. The formats of `TextsRight`, on the lemmas about numbers (`NumeralsOf`, `HexIs`): a conversion is a field of blanks around one, read back behind its blanks.
2. The 16 bit arithmetic of sizes in `malloc` and `calloc`.
