# A verification project for the JOS kernel of MIT 6.828 lab 1

This directory holds TLA+ specifications of the kernel in `src/lab_code`, the TLC
configurations that check them on small instances, and proofs checked by TLAPS for every
instance. Paths below are relative to `src/lab_code/`.

## The system

The kernel boots, prints, and then runs a command monitor on one processor with interrupts
disabled (`boot/boot.S` executes `cli`, and no interrupt table is ever set up). What runs
concurrently with it are devices: the serial port, the keyboard with its 8042 controller, the
parallel port, the IDE disk during boot.

| component | state | operations | interacts with |
|---|---|---|---|
| console input (`kern/console.c`) | ring `cons` (`buf`, `rpos`, `wpos`), `serial_exists` | `cons_intr`, `cons_getc`, `getchar` | polls serial port and keyboard; feeds `readline` |
| keyboard (`kern/console.c`) | `shift` flags, character maps | `kbd_proc_data` | called back by `cons_intr`; prints and resets on Ctrl-Alt-Del |
| serial and parallel output (`kern/console.c`) | none (poll counters) | `serial_putc`, `lpt_putc` | called by `cons_putc` |
| display (`kern/console.c`) | `crt_buf`, `crt_pos` | `cga_init`, `cga_putc` | calls back into `cons_putc` for a tab |
| `readline` (`lib/readline.c`) | static `buf`, `i` | `readline` | `getchar`, `cputchar`; called by the monitor |
| monitor (`kern/monitor.c`) | command table | `monitor`, `runcmd`, commands | `readline`, `cprintf` |
| debug information (`kern/kdebug.c`) | stabs table (read-only) | `stab_binsearch`, `debuginfo_eip` | meant for `mon_backtrace`, which does not call it yet |
| formatted output (`lib/printfmt.c`, `kern/printf.c`) | none | `vprintfmt`, `printnum`, `vsnprintf`, `cprintf` | `cputchar` |
| strings (`lib/string.c`) | none | `memmove`, `memset`, `strtol`, ... | everything |
| start-up (`kern/init.c`) | `panicstr` | `i386_init`, `_panic`, `_warn` | console, monitor |
| boot loader (`boot/boot.S`, `boot/main.c`) | machine mode, disk registers, memory | `bootmain`, `readseg`, `readsect`, `waitdisk` | IDE disk, ELF image of the kernel |
| entry code (`kern/entry.S`, `kern/entrypgdir.c`) | CR0, CR3, EIP, page tables | `entry` | boot loader, `i386_init` |

The behaviours that are hard to test are listed, at the line where each bites, under "hazards"
in `PROJECT.json`. In short: devices that act between any two steps of the kernel (bytes that
arrive during a drain loop, a mouse, a printer that is switched off, an 8042 and a disk that take
their time), state kept from one call to the next (`shift` with its E0 escape, the cursor,
`readline`'s buffer, a ring whose two positions are never compared on insertion, `panicstr`),
re-entry (`cga_putc` prints a tab through `cons_putc`, a panic during a panic), searches and
scanners whose result is put together from variables set in different turns, overlapping copies,
and code that switches paging on under itself.

What makes each component correct:

| component | correct if |
|---|---|
| console input | characters come out once and in order; only an overrun loses any, and then a whole lap; every key reaches its reader |
| keyboard | the bytes decode to what the keys mean, whatever is held, repeated or escaped; no modifier sticks; only Ctrl-Alt-Del restarts |
| serial and parallel output | every device that answers in time gets the whole text; a dead one only costs time |
| display | the screen is the last 25 rows of what was printed; the cursor stays on it |
| `readline` | the screen shows what the buffer holds; what is returned is the edited line |
| `stab_binsearch` | it reads inside its region, ends, and returns the entry containing the address |
| `debuginfo_eip` | it reads inside what it found, fails only without a file, and reports the function and its arguments |
| monitor | every line is answered by what it asks for; its arguments stay within `argv` and the line |
| formatted output | each directive takes its arguments and prints its value in its field, next to any other; a bounded buffer always ends in 0 |
| strings | each function does what a definition by its result says, `memmove` for every overlap |
| start-up and panic | the first panic's message is printed once, and a prompt comes back |
| boot loader | every byte of every segment is in place before the kernel is entered, the loader intact till then |
| entry code | every fetch and store from the kernel's first instruction to `i386_init` is mapped and reaches the kernel; bss is zero before it is used |

## The modules

| module | models | extends / instantiates |
|---|---|---|
| `ConsQueue` | abstract: a FIFO queue of bounded capacity that an overrun empties | |
| `ConsoleInput` | `cons_intr`, `cons_getc`, `getchar`, both `*_proc_data` as far as they deliver, the devices | `ConsQueue` by refinement |
| `ConsoleLedger` | the same with counters for what was stored, taken and overrun | `ConsoleInput` |
| `KeyEvents` | abstract: a keyboard as its user sees it | |
| `Keyboard` | `kbd_proc_data`'s decoding, byte by byte, and the keyboard sending them | `KeyEvents` by refinement |
| `ConsoleOutput` | `cons_putc`, `serial_putc`, `lpt_putc` and the devices behind the ports | |
| `Screen` | `cga_putc` as pure functions of cells and cursor | |
| `Paper` | abstract: a printer with endless paper | |
| `Cga` | `cga_putc` with the tab's re-entrant calls | `Screen` |
| `CgaHistory` | the same with the rows that have scrolled away | `Cga`, `Paper` by refinement |
| `LineEditor` | abstract: a line that grows, shrinks and is returned | |
| `Readline` | `readline` echoing on the display | `Cga`, `LineEditor` by refinement |
| `StabSearch` | `stab_binsearch`, one step per turn of a loop | |
| `DebugInfo` | `debuginfo_eip`: two searches and the loops behind them | `StabSearch` |
| `Directives` | abstract: what a format means, directive by directive | |
| `Printfmt` | `vprintfmt`'s scanner, `printnum`, the sinks of `vsnprintf` and `vcprintf` | `Directives` |
| `MCDocumentedFormats` | what the repository's comments and its grading script say that a format prints, where `Directives` says what the code makes of it | `Printfmt` |
| `Memory` | `memset`, `memmove`, `memcpy`, one step per turn of a loop or per unit of a string instruction | |
| `Strings` | the other functions of `lib/string.c`, one step per turn of a loop | `Memory` |
| `BootLoader` | `boot.S` and `main.c` with the 8042 and the drive | |
| `Paging` | `entry_pgdir`, `entry_pgtable` and the processor's walk through them | |
| `KernelEntry` | `entry.S`, one step per instruction, and the start of `i386_init` | `BootLoader`, `Paging` |
| `Monitor` | the rest of `i386_init`, `monitor`, `runcmd`, the commands, `_panic`, `_warn` | |
| `*Proofs` | theorems and their proofs; `ConsoleProofs` those about `Keyboard` and `ConsoleOutput` | the modules they are about |

Each `MC*` module gives the constants of one of them values for TLC. `PROJECT.json` maps every
definition to the lines it stands for. Operators marked "faulty variant" are not part of any
specification: each is a plausible bug in the definition that follows it, and putting it in that
definition's place makes a property fail, which is how each property is shown to be able to.

**State and atomicity.** One processor with interrupts off runs one thread, so a step of the
kernel is as large as it can be without hiding what a device may do in between. In `ConsoleInput`
a step is one turn of a drain loop (one status read, one data read, one store in the ring), and
the devices step between them. In `ConsoleOutput` a status read and the write it permits are
different steps. In `BootLoader` the controller and the drive step between any two polls; a poll
that finds a device busy changes nothing and is a stutter. `KernelEntry` has one step per
instruction, as each is fetched through the mapping the one before it left. In `Readline` and
`Cga`, which touch only memory, a step handles one character; only a tab is split into its calls.
In `StabSearch`, `DebugInfo`, `Memory` and `Strings` a step is one turn of a loop, in `Printfmt` one character of
the format (a number's digits together), in `Monitor` one character of the line or one message.

**Data.** Characters are small sets of codes: letters, and those the code compares with. The
attribute byte of a screen cell is left out; `Screen` keeps the character. In `StabSearch` a
table is the set of indices of the wanted type and their addresses, as nothing else of it is
read; `DebugInfo` adds each entry's type, and an entry stands for the string it names. `Keyboard`
has the source's tables whole; its run has 13 keys, one of every kind a PC keyboard has: letter,
other character, keypad, escaped, both Shifts, an escaped modifier, Caps Lock, Delete, and the two
keys with sequences of their own (PrtSc with its fake Shift, and Pause, whose bytes 0x1D and 0x45
pass for Ctrl and Num Lock). In `Memory` the word that `memset` stores is its four bytes, each made of the
shifted copies of the `int` that come together in it. In `Printfmt` a character is a string of its own and an unsigned int has
`Word` values, which are at least 16 for a word to hold a digit. In `BootLoader` memory is counted in units of which a sector has `SECTSIZE`, and a
unit holds the offset in the image it came from. `entry_pgtable`'s 1024 written-out entries are the
function they list. In `Monitor` a message is a tuple of what was printed and about what.

**What the environment is assumed to do.** These assumptions are where the models could be more
generous than the machine:

* The drive raises BSY with the command it is given. `readsect` waits for BSY to fall and for
  nothing else (`boot/main.c:117`); ATA allows the drive 400 ns. It reads without errors.
* The 8042 takes `0xdf` before the drive has its first sector: `boot.S` does not wait after its
  last byte, and the sectors that need address line 20 come later (`BootLoader!DiskReady`).
* Images are what a linker makes (`Linked`): segments in the order of their addresses, with file
  offsets that agree with them modulo a sector, and two that share a sector in memory next to each
  other on the disk. `main.c:85` relies on all of it, and says so of the order only.
* Keys send the codes of scan code set 1 (`KeyboardAssumption`): one byte, E0 and one byte, or the
  sequences of PrtSc and Pause. An escaped key sends no fake Shift of its own, and Pause is pressed
  with no other key down.
* Tables of stabs are what a compiler and the linker make (`WellTyped`, `WellAddressed`).
* Callers of the string functions see to what C asks of them (`Callable`): a string ends in memory, or
  a size keeps the function from looking further; what is copied fits, and not on top of what would
  still be read; the base of a numeral is 0 or 2 to 36. `memmove` and `memcpy` get any two regions.
* Callers of `printf` write directives (`WellFormed`) in the order flags, width, precision,
  length, conversion, and pass each argument with the type its conversion takes. The width and the
  precision are numerals or `*`, with any int; a letter that is no conversion, or the end of the format,
  may stand in a conversion's place. A numeral is small enough for the `int` it is collected in.
* No code that runs in this tree calls `panic` or `warn` (`kern/kdebug.c:127` calls `panic`, in
  `debuginfo_eip`, which nothing calls yet). In `Monitor` a command may call either, and so may
  what `_panic` calls to print, as the later labs' code does; that part of the model is external.

## The runs

| run | asks | bounds |
|---|---|---|
| `console_books` | Is the ring a FIFO queue losing only whole laps, with a user who overruns it and a mouse that blocks it, and does every key arrive unless one of them interferes? | ring of 3, up to 4 undelivered and 7 stored: two laps, every wrap |
| `console_mouse` | Does every key arrive with a mouse? No: finding | ring of 3, 2 undelivered |
| `cga_paper` | Is the screen the end of the paper? | 2 rows of 3 columns, 4 rows scrolled away; every initial content and cursor, every kind of character |
| `readline_echo` | Does the screen show the buffer, and is the result the line edited? | `BUFLEN` 4 (1024 in the code), 3 rows of 2 columns: every line wraps, and scrolls from most starting points |
| `keyboard_events` | Do the bytes decode to what the keys mean? | 13 keys, 3 held at once, 2 events on their way |
| `output` | Does every device get the text, and does `cputchar` return? | 2 polls, 2 characters, each possibly a tab |
| `debuginfo` | Does each search stay inside and find the entry? Is the answer the file, function and arguments of the address? Does it come? | `debuginfo_eip` on all well-formed tables of 6 entries over 4 addresses, strings named or not; and `stab_binsearch` by itself on all tables of 5 entries over 4 addresses and all regions |
| `boot` | From `boot.S` to C code with a zero bss: is the kernel loaded and entered without harm? | sectors of 2 units, 16 units above line 20; all linked pairs of segments in it, a single one with bss, and a bad magic; line 20 on or off; both devices idle or busy; pages of 4 units |
| `printfmt` | Does every call print what its directives mean? | 4-bit ints; every conversion with every combination of flags, 5 widths, 5 precisions; alone, before and behind three others; console, buffers of 4 sizes and `NULL` |
| `printf_documented` | Do `%4s`, `%-4d` and `%o` print what the repository says? No: three findings | one call, 13-bit ints so that 6828 is one |
| `strings` | Does each function do what its result is defined to be? | memory of 16 bytes: every pair of regions, with and without the string instructions; all pairs of strings of 3 characters out of 3, sizes 0 to 4, strings without an end cut by a size, copies from one byte behind the destination; all numerals of 4 characters out of 9 in 4 bases, with a `long` of 11 bits, which some of them overflow |
| `monitor` | Is every line answered, whatever panics? | all lines of up to 5 characters out of 3, `MAXARGS` 3, one name a prefix of the other, 3 panics |

Why the bounds are enough. The ring's code only compares positions with its size, and a ring of
three has every relation of the two positions. Three held keys are what Ctrl-Alt-Del takes; with
two events on their way every pair of keys meets inside a sequence of bytes. Two polls distinguish
ready at once, ready later, given up, and ready after having been given up. Five entries give a
left, a middle and a right part with entries of other types in each, equal addresses included (the run `debuginfo` searches all of them from outside
`debuginfo_eip`, with `MCDebugInfo!SearchAlone`); a sixth gives `DebugInfo` a header, two files and a function with a parameter. Four-bit ints have a smallest
one, as the 32-bit ones have, and sizes of 0 and 1 are the ends of `vsnprintf`'s and `strlcpy`'s
ranges. Twelve bytes move three words in either direction and any overlap; 9 bytes are filled by
words and by bytes. A sector of two units has a first and a last, so that a segment can begin or end
in the middle of one and share it with the next. Five characters hold one argument more than `argv`
does. The theorems below lift the bounds where there is one.

A search, a call, the boot and the printing of a bounded text end, so those runs do not check for
deadlock; `console_books`, `cga_paper`, `readline_echo`, `keyboard_events` and `monitor` do.

### What the runs found

* Finding (`console_mouse`): a mouse byte is ignored but not read (`kern/console.c:326`), although
  the comment says "Ignore data from mouse.": it stays in the 8042's output buffer, and no key is
  ever delivered again. `DeliveredUnlessLost` says what does hold: without a mouse byte and without
  an overrun every key arrives.
* Findings (`printf_documented`): for three directives the code does not do what the repository says.
  `%4s` pads a string (`lib/printfmt.c:179-187`), although padding and widths are "supported for the numeric
  formats only" (`lib/printfmt.c:12-13`). `%-4d` prints 5 as `---5`: `printnum` pads in front whatever
  the flag is (`lib/printfmt.c:44-45`), which by `lib/printfmt.c:107` is there "to pad on the right". And
  `%o` prints `XXX` and takes no argument (`lib/printfmt.c:206-212`), where `grade-lab1:15` expects
  "6828 decimal is 15254 octal!" from `kern/init.c:36`; filling it in is the lab's exercise. The trace's last `out`
  shows all three. `Directives`, and so `PrintsMeaning`, says of these directives what the code does.

The properties say where the code has limits, by excluding the case:

* `CONSBUFSIZE` unread characters make the ring look empty (`kern/console.c:403`): `cons_getc`
  returns 0 with all of them waiting. `ConsQueue` has the loss as a step of its own.
* `stab_binsearch` passes over an entry that is one byte long and starts at the address
  (`kern/kdebug.c:80`), for functions an empty one with a one-byte `ret`; and `addr++` wraps for
  the last address. `FindsContainer` says of the first how far the search may then have gone: over entries
  of one byte at the address, to one that starts where `addr++` has come to, and no further. It
  excludes the second.
* For an address before the first entry of the type `stab_binsearch` returns a region that is not
  empty and begins with an entry of another type (`kern/kdebug.c:84`). `debuginfo_eip` takes that
  entry for a function if the address lies in a file before its first function, so
  `FunctionFound` speaks of addresses that have one.
* `%e` with the smallest int reads outside `error_string` if the compiler negates as the processor
  does (`lib/printfmt.c:166`). `IndexesInside` excludes exactly this argument.

Oddities that are kept in the models: Delete at an empty line is stored and
echoed as a character (`lib/readline.c:22`); two keys of the same modifier count as one, so
releasing either ends it (`kern/console.c:338`); Ctrl with the Home key finds nothing because
its entry is at 0x97, and Ctrl with the keypad's Enter nothing, which has none; Ctrl with the keypad's slash returns 0xEF, a wrapped `C('/')`. A `0` right
behind the point of a precision is taken for the flag, and a minus sign stands outside its field's width
(`lib/printfmt.c:113, 193`). `cprintf` returns 0 whatever it printed, because `*cnt++`
increments the pointer (`kern/printf.c:13`). "Too many arguments (max 16)" comes with the 16th
argument (`kern/monitor.c:89`). `panicstr` is never reset, so a panic after the monitor has come back from
one is silent (`kern/init.c:62`).

## Fairness

* `ConsoleLedger` and `ConsoleInput`: weak fairness of the kernel's steps, as `readline` polls in an
  endless loop. Strong fairness of leaving a drain loop: on a serial line of 9600 baud a byte takes
  about 1 ms, and a turn of the loop a few port reads, so the loop finds the line empty again and
  again. Strong fairness of the keyboard's access to the controller's output buffer, which the
  hardware arbitrates. The devices are not obliged to send anything.
* `ConsoleOutput`: weak fairness of the kernel's steps only. A device may never take a character.
* `KernelEntry`: weak fairness of the processor, of the 8042 taking its byte and of the drive
  getting its sector. `waitdisk` has no limit, so a drive that never answers stops the boot.
* `DebugInfo`, `Printfmt`, `Monitor`: weak fairness of the next step. Sequential code runs until it
  returns; in `Monitor` the user enters a line whenever asked.

## The theorems

All are checked by TLAPS, for every value of the constants under the assumptions named in the
modules.

* `Invariance`, `Refinement` (`ConsoleInputProofs`). The inductive invariant says that the slots
  between the two positions hold characters. It has to be said for the slots, wrapped around the
  ring, and not for the sequence they form: storing shifts none of them, taking drops the first.
  `ImplementsConsQueue` follows step by step: storing appends or, if it makes the positions meet,
  empties; taking removes the head; everything else stutters.
* `NeverOverrun`. If the environment keeps fewer than `CONSBUFSIZE` characters undelivered
  (`TypeAhead < CONSBUFSIZE`), no store makes the positions meet. The invariant bounds what waits
  in the ring together with what is still in the devices.
* `BooksBalance`: `stored = taken + Pending + CONSBUFSIZE * laps`, by cases on where the wrap is.
* `EscapesConsumed`, `ModifiersReleased`, `ChordResets`, `DecodesKeyEvents` (`ConsoleProofs`), for the
  whole tables and every keyboard that sends set 1. `EscapesConsumed` says that `E0ESC` is set exactly behind an
  E0 of the same key event. The line carries whole events, and `shift`
  differs from the modifiers in force only by the escape being handled, or for three bytes by the
  Ctrl that Pause's bytes pass for. That alone is not inductive: a modifier could stick if a
  release were never seen, and Pause's `0x9D` could take away a Ctrl that is held. So the invariant
  adds that for every key that is up the bytes on the line will show it (`UpArrives`), that Pause
  meets every key up (`PauseAlone`), and that every modifier in force has a key last seen down. The
  lemmas about the tables (`Letters`, `ControlCharacters`) say that the code's case swap and its
  control map give what the key means.
* `CursorStays` (`ReadlineProofs`). `cga_putc` leaves the cursor on a screen of any size. Between
  its switch and its scroll the cursor may be up to one row beyond; one row of scrolling is enough.
* `EchoIsFaithful`. For every screen and every `BUFLEN` leaving a row of it free, the cells before
  the cursor are `readline`'s buffer. The invariant adds that the line's start is on
  the screen, so that a backspace undoes exactly what an echo did, also across rows and scrolls.
* `EditsOneLine`: under the mapping to `LineEditor` each step of `readline` is a character typed, one
  rubbed out, a line returned, or a stutter.
* `ScreenIsPaper`. What has gone off the screen is a whole number of rows, so a cell's place on the
  paper has its column on the screen. A result of the switch and the scroll behind it are one
  move of the printer's head, however much has gone before (`MaxGone`).
* `PrintsEverything` (`ConsoleProofs`). For every device not given up, what it has received,
  what stands in its register and what is still to come of this call are together what all calls were
  to print. While the serial line has its turn the whole output is still to come for the printer,
  which for a tab differs from what is to come for a device that has had the tab itself.
* `StaysInside`, `SearchFinds`, `SearchEmpty` (`DebugInfoProofs`). `FindsContainer` speaks of the
  end of the search only. The invariant (`SearchInv`) says what the turns so far have settled: all
  entries of the region left of `l` are at or before the target and all right of `r` after it,
  `region_right` is always `r`, the scan has passed over no entry, and `region_left` is an entry at
  or before the target or untouched. After an exact match `addr` is one more than the target, and may
  go on: it is never further than the entries have gone with it, one at every address it has left
  (`Passed`), so that all between the target and `addr` are one byte long. Without such an entry at the
  target `addr` has done no harm; with one, the region left is of one that starts where `addr` has come to
  (`BehindOneByte`). All of it needs that `addr` does not wrap (`Unwrapped`).
* `LookupStaysInside`, `FailsRightly`, `LookupRight`. Both searches of `debuginfo_eip` are this
  search, for other types and regions, so `SearchInv` is part of the invariant (`DInv`) while
  either runs. `DInv` carries from one stage to the next what the search before it found: the part of
  the table that is the file's (`FileRegion`), in it the part that is the function's (`FunRegion`); and of
  the loops for the file's name and the parameters how far they are. The tables are those with a
  header that a compiler and the linker make (`HeaderAssumption`, `WellTyped`, `WellAddressed`).
* `MovesAnyOverlap`, `FillsAnyRegion`, `FlagRestored` (`StringsProofs`), of `Memory` by itself and of
  the whole library. `MoveCopies` speaks of the
  return only. The invariant says which bytes have been moved after each turn, upwards those below
  `di`, downwards those above it, and that everything else is as it was before. That a byte read
  next is still what it was is then the choice of direction: upwards its address would have to lie
  between the destination's start and `di`, where the source never is again. `memset` by words stores four bytes
  that shifts and ors have made of an `int`: `WordOfBytes` says that they are the one byte asked for, whatever the
  rest of the `int`, as it is cut first.
* `ReadersReturnRight`, `CopiesLeaveTheText`, `StrtolReadsNumerals`. The inductive invariant (`SInv`)
  says of each loop what it has settled: no byte passed over was the one looked for, all pairs passed
  over were alike, the bytes before the pointer are copied and every other one is as it was, the digits
  passed over are worth what has been counted. That a copy reads what was there at the call needs that
  the pointer into the source stays out of what has been written, also for overlapping regions
  (`Callable`). The value of a numeral is a sum over its digits from the last to the first, and the loop
  goes from the first to the last: `OneMoreDigit` relates the two. `ret` wraps
  with every digit and the result once (`WrapsOnce`). The sums are recursive functions, and the library's
  theorems on induction take operators; here induction is over sets (`LeastElement`, `Inductive`),
  derived from `<` being well-founded on the naturals, and a first-order theorem (`Recursion`) says
  that a function defined by recursion is the one meant.
* `PrintsWhatIsMeant`, `ScanStaysInside`, `BufferIsPrefix` (`PrintfmtProofs`), for formats and strings of
  any length, every number, word size and buffer size. `PrintsMeaning` speaks of the return only, and
  of the caller's directives, which the scanner never sees: it sees characters. So the inductive
  invariant (`Inv`) says where in the directives the scan stands: between two of them or inside plain
  text (`InText`), or behind a flag, the width, the point, the precision or an `l` of one
  (`InEscape`). At each place it says which words are still in the list, what the five variables of the
  escape hold, and that the output is what the directives so far mean. That a place has only one
  continuation is the grammar's doing (`Followers`): a digit after the width would still belong to it. For an
  unrecognized directive the scan goes back to its `%`, which has to be the last one before
  (`LastPercentIs`). `printnum` recurses from the last digit to the first, and a numeral is defined
  from the first: `NumeralLong` relates them, and `PrintnumPads` says that the padding is printed once, at
  the bottom of the recursion. Induction and recursion are as in `StringsProofs`. With the least int
  under `%e` the scan may end outside `error_string`, and nothing is said of what is printed then
  (`Sound`). `Buffered` adds that the buffer is a prefix of the output, cut one short of its size.
* `ArgvHasRoom`, `FirstPanicSpeaks` (`MonitorProofs`). The pointer's bound is not
  inductive alone: the invariant adds that the 0 behind the line is still there, whatever blanks in
  front of it have become, and that nothing before it belongs to an earlier line. A panic is in its
  message only while nothing but that message's beginning has been said.
* `ArgumentsFound`, `LinesAnswered`. What of the line lies before the pointer has its words in
  `argv`, each ended by a 0; of the word being scanned only its start is there. The count of the
  words decides "Too many arguments", so the invariant relates `argc` to the set of starts seen so far.
* `ImageLoaded`, `LoaderSurvives` (`KernelEntryProofs`). `readseg` reads whole sectors, and so more than
  the segment it is asked for. The invariant says that memory and disk go in step (`Progress`), that
  every unit behind the pointer holds its offset (`ReadSoFar`), and that the segments read before
  are still in place (`Earlier`): where two share a sector in memory, they share it on the
  disk (`Before`), which is what a linker guarantees (`Linked`) and `main.c` relies on. Nothing is read over the
  loader or over the headers in use, for every layout of `LayoutAssumption` and images of
  `ImagesAssumption`.
* `MappedTwice`, `LowIsReadOnly`. With pages, tables and directory of any size, an
  address in the range of one table has its own quotient and remainder in both mappings; the
  lemmas show that division by a number that is not a constant is unique.
* `NeverFaults`. For every kernel that lies in that range (`KernelAssumption`)
  no fetch and no store of the entry code faults. The invariant places `eip` at each
  instruction, low up to the jump and `KERNBASE` higher behind it, and `esp` and the bss pointer high.
* `ExecutesKernel`, `VariablesCleared`. Until `i386_init` runs nothing writes to the image but the
  calls, to the stack, and `memset`, to the bss behind its pointer (`Holds`, `Zeroed`), so each fetch
  finds the instruction the loader put there. At the end the whole image before the bss, initialized variables
  behind the boot stack included, is as it was loaded, but for the one word the call has pushed (`StackWord`).

Only model-checked:

* The liveness properties (`DeliveredUnlessLost`, `PutcReturns`, `Answers`, `Boots`, `Returns`,
  `BackToPrompt`): out of the prover's reach, as they rest on fairness and `ENABLED`.
* Every safety invariant and every action property of the passing runs is proved. What the runs with the
  findings, `console_mouse` and `printf_documented`, show is a counterexample, which TLC gives.

## Not modelled

* `cga_init`'s probe for a monochrome card and the cursor registers: effects on hardware that nothing
  reads back. A cell's attribute is left out for the same reason.
* `inc/x86.h`: one instruction each. Those in use are modelled by what each use does.
* The constants of `inc/mmu.h` and `inc/memlayout.h` for segments, traps and user space: no code in
  this tree uses them. `boot.S`'s descriptor table is the identity it sets up.
* The search for a line number in `debuginfo_eip` and `mon_backtrace` are the lab's exercises: the
  code has neither, so `DebugInfo` and `Monitor` have neither.
* How deep the stack gets: every panic leaves one more `monitor` on it. `MaxPanics` bounds the model.
* The lab's build and grading tools, and `fs/` and `user/`, whose programs call functions that this
  tree does not contain.
