# Lazux: TLA+ models and proofs

A verification project for the Lazux kernel (`src/kernel`), a RISC-V operating
system for one hart: processes, a round-robin scheduler, Sv39 address spaces, a
line-oriented console.  Modules model the code, TLC checks them on small
instances, and TLAPS proves the main invariants for every value of the constants.
`PROJECT.json` maps each definition to the lines it models and lists runs,
mutants, hazards, findings and theorems.

## The system

| Part | State | Operations | Modelled in |
|---|---|---|---|
| process table, scheduler (`proc/process.c`) | PCBs (`state`, `pid`, `parent_pid`, `chan`, trap frame), `current_proc`, `next_pid` | `alloc_proc`, `sleep_on`, `wakeup`, `exit_current`, `schedule`, `idle_service`, `free_proc` | `Process` |
| system calls and interrupts (`arch/riscv/trap_handler.c`) | the trap frame | timer, external interrupt, `fork`, `exec`, `wait`, `exit`, `sbrk`, `read` of the console, faults | `Process`, `Memory` |
| UART receive driver (`arch/riscv/uart.c`) | ring, three counters, escape state | `uart_intr`, `uart_getc` | `Uart` |
| physical memory (`mm/pmm.c`) | the bitmap | `init_pmm`, `pmm_alloc_page`, `pmm_free_page` | `Pmm`; as a set of frames in `Memory` |
| virtual memory (`mm/vmm.c`) | page tables, `heap_break`, `satp` | `map_page`, `vmm_unmap_range`, `vmm_map_kernel`, `vmm_copy_uvm`, `vmm_free_pt`, `vmm_lookup` | `Memory`, `UserMemory` |
| ELF loader (`load_elf`) | the image in the page table | | `Elf`; its frames in `Memory` |
| files: `open`, `read`, `write`, `close` | `open_files` | | `Files` |
| RAMDISK (`tools/mkramdisk.c`, lookup) | the image | `mkramdisk`, `ramdisk_get_entry` | `Ramdisk` |
| user pointers | the page table | `user_range_ok`, `user_str_ok` | `UserMemory` |
| PLIC driver (`arch/riscv/plic.c`) | pending, in service, enable, threshold | `plic_init`, claim, route, complete | `Console` |
| trap entry and exit (`trap.S`, `switch.S`) | `sscratch`, `sp`, `satp`, registers, trap frames | | `TrapPath` |
| user library (`user/syscalls.c`, `mystring.c`) | free list of `malloc` | `malloc`, `free`, `printf`, strings | `Heap`, `Printf`, `Strings` |
| init, shell, test programs (`user/`) | where each process is | | `Shell` |
| SBI calls, `lib/string.c`, build | none | | no |

How the parts meet.  A trap from user mode enters `trap_handler`, which calls the
process, memory and console code directly and returns a trap frame, perhaps
another process's.  The console wakes readers through the wait channel `&rx_buf`;
a child's exit wakes its parent through the parent's PCB address.  A system call
that blocks rewinds `sepc` by 4, so it is run again from the start after a wakeup.
When nobody is runnable `schedule` loops around `wfi` and services the timer and
the PLIC by hand.  The kernel never sets `sstatus.SIE`: a handler is never
interrupted, so **one trap, or one turn of the idle loop, is one atomic step**.
What can interleave is traps of different processes, the timer, input and the
idle loop.

What is hard here: sleeping and waking without losing a wakeup; a table whose
slots are recycled while relatives are found by pid; the idle loop; counters
that wrap; memory running out at any allocation inside a handler; and freeing
what the hart itself is using.  `PROJECT.json` lists the hazards at their lines.

## Modules

**`Process`** — the process table.  The variables are the fields of the PCBs and
the scheduler's globals.  `ecall[i]` stands for the rewound `sepc`: a process with
`ecall[i] = "wait"` executes that system call before any other of its own.
`mode` is where the hart is: in user mode, in the idle loop, halted, or in one of
the `for(;;)` that follow a panic.  `stip` is the pending timer interrupt and
`readable` the number of committed bytes in the ring.  There is one action per
outcome of each handler (`Fork`, `ForkAgain`, `ForkPanic`, `WaitReap`,
`WaitNoChild`, `WaitBlock`, ...), each with everything the handler changes,
including the reschedule at its end.  What a process computes between two traps
is arbitrary, so every user program is a behaviour of the model.  `Failures`
says which of the failing paths a run allows.

**`ProcTree`** — what `fork`, `exit` and `wait` promise: a pid is unborn, alive,
exited, gone, in this order and once; only the parent reaps.  `Process` is checked
to implement it under a refinement mapping from slots to pids.

**`Uart`** — the ring with `rx_head`, `rx_tail`, `rx_commit`, the escape filter and
the echo (`screen` is what the echoed bytes leave on the terminal's current line).
Bytes are one representative of each class the driver distinguishes.  `Read` is
the loop of `SYS_READ`.

**`LineDiscipline`** — the console without a ring: finished lines and one line in
the editor.  `Uart` is checked to implement it.

**`Memory`** — frames and page tables.  A page table is the tree of its valid
entries, from paths to frames; a kernel mapping is the leaf `KERNEL`.  `map_page`
builds missing tables and can fail at each of them; the handlers are functions on
a record that carries the free frames, so the model fails exactly where the code
runs out and keeps exactly what the code leaves behind.  The record `lost`
collects the frames that no pointer leads to any more on the two paths where the
code loses some.

**`Console`** — the way of a byte: the UART's FIFO and its level-triggered line,
the PLIC with pending, claim, enable, priority and threshold, the two ways into
`plic_dispatch` (the trap from user mode and `idle_service`), the drain into the
ring of `Uart`, which it extends, the completion, and a reader that sleeps and is
woken.  Boot is part of it, so the properties depend on the registers `plic_init`
and `uart_init` write.  The devices are external and modelled by what the driver
relies on; whether the gateway latches a request while one is in service is left
open, since both kinds exist.

**`TrapPath`** — `trap_entry` and `switch_to_user` as instruction sequences on a
register file, one instruction a step, with the trap frames and what the handlers
do to them.  `want` records what each process must find when it runs again.  `satp` is
written where the code writes it, in a switch and in `exec`; every other path leaves it.

**`Ramdisk`** — `mkramdisk` as a function from its arguments to the image, and the
kernel's lookup.  **`Files`** extends it with the descriptor tables; **`FileTable`**
is what they promise: a descriptor is closed, the console, or a file's contents
with a position, and a child starts with a copy.  A `fork` that finds no memory hands its
slot back with the console already in descriptors 0 to 2; no program sees that row, and
the next `fork` writes all of it.

**`UserMemory`** — the pointer checks with addresses modulo a word, against the
accesses the MMU lets through.  `vmm_lookup` sees only the lower 39 bits of an address,
so the model has all addresses of the word: `RangeCheckByteWise` says exactly which ranges
are accepted, `RangeCheckExact` that inside the address space they are the usable ones,
and `user_str_ok`, which reads what it checks, may return or fault.

**`Heap`** — `malloc`, `free` and `sbrk` over `SYS_SBRK`.  The list is what the
program's headers say, so a wrong link or an overlap would show in it.

**`Shell`** — init, the shell, `readtest` and `test2` as programs on the kernel of
`Process`: every system call of theirs is the kernel's action, `pc` says before which
call a process is, and `image` whose `exec` loaded the memory it runs.

**`Strings`**, **`Printf`** — the string functions, the shell's `parseline` and name
buffer, and `printf` with its helpers, on a memory of two buffers or a list of tokens,
compared with definitions on sequences and numerals.  A loop that only reads ends at the
first place where its condition fails (`Min`); of a loop that writes or prints there is
the state after each turn (`CopyTurns`, `WordTurn`, `Divided`, `PrintTurn`).

**`Elf`** — `load_elf` page by page: which byte of the file is in which byte of which
page, with which permissions, and where the heap starts.

**`Pmm`** — the bitmap bit by bit; it implements **`FrameSet`**, the set of free frames
that hands out the lowest, which is how `Memory` sees the allocator.

**`MC*`** instantiate these for TLC.  `MCLibrary` and `MCPages` hold several modules that
do not interact; a variable `part`, chosen at the start, says which one moves, so
their states add up and do not multiply.  `MCConsole` does the same with the driver
alone, under every byte, and the whole way of a byte.  **`PageSize`** is the constant
they share.

**`Process_proofs`** (with `Shell`), **`Uart_proofs`** (with `Console`), **`TrapPath_proofs`**, **`Files_proofs`** (with
`Ramdisk`), **`Library_proofs`** (`Strings`, `Printf`, `Heap`), **`Pages_proofs`** (`Pmm`, `Elf`, `UserMemory`) and
**`Memory_proofs`** hold the theorems, **`SetInduction`** the induction they share.
Definitions named `Bug_...`
are plausible mistakes in the code, one per checked property: put in the place of
the definition they follow, they make TLC find that property violated.

### What is abstracted

* The console in `Process` is its number of readable bytes; `Uart` has the bytes.
  A reader there takes any number of them, as `Uart`'s `Read` may.
* Memory in `Process` is whether an allocation fails; `Memory` says when.  There,
  READY, RUNNING and BLOCKED are all `LIVE`, and any live process may run next.
* The handler of the UART interrupt drains several bytes at once.  `Uart` takes
  one per step: the states between are the ones reached when bytes come one per
  interrupt.
* In the runs of `Memory` the three levels of tables have 3, 12 and 4 entries instead of
  512 and a page 2 bytes; both are constants, and the theorems are about every size.  The
  device windows are one page.  One page of the identity map stands
  for all of RAM.  Permissions and page contents are left out there; `Elf` has those of
  programs.  The two panics of `vmm_copy_uvm` for malformed tables (a table entry at
  level 0, a leaf where the parent has a table) have no counterpart, since in a tree of
  paths only the last level has leaves.
* `TrapPath` has one register for all that the assembly treats alike, and lets any
  live process run next.  `scause` and `stval`, which only travel to the handler, and
  the TLB flushes are left out.
* `Console` has one reader and one source; `Process` has many readers and no device.
* `Files` has no blocking: the console's bytes are `Uart`'s.  Which pointers are bad
  is `UserMemory`'s, so `BadPointer` may happen on any call.
* In `Heap` the frames are other processes' to take, so a call that needs a page may
  fail at any time.  A pointer the program did not get from `malloc`, or frees twice,
  is outside the model.  `malloc` does not align its blocks; the code relies on the
  machine for unaligned headers, and so does the model.
* In `Shell` what is typed is any line, `exec` fails or not as it likes, and the
  programs print nothing.
* An `exec` that succeeds changes nothing in `Process`; one of a file that does not
  exist, and the other system calls that do not touch the modelled state, are
  stuttering steps.

## Runs

| Run | What it checks | Bounds |
|---|---|---|
| `process` | `TypeOK`, `RunningIsCurrent`, `TableConsistent` (`PidsUnique`, `BlockedOnOwnChannel`), `NoLostWakeups` (`NoReaderSleepsOnInput`, `NoWaiterSleepsOnZombie`), `IdleWaitsForConsole`, `ZombieStaysForParent`, `ImplementsProcTree`; under `FairSpec` `ReadyRuns`, `BlockedCallsReturn` (`WaitReturns`, `ReadReturns`) | 3 slots, 5 pids, ring of 2, all failures |
| `console` | of the driver alone and on the whole way `RingSound` (`RingOrder`, `RoomForEnter`), `LinesIntact` (`TypeOK`, `WholeLines`, `EchoIsTheLine`), `ImplementsLineDiscipline`; under `Fairness` `InputServiced`, `EnterWakesReader`; `PendingIsTaken` | ring of 4, counters modulo 8; the driver under all byte classes; FIFO of 2 and four keys on the whole way, with escape sequences |
| `memory` | `FramesExclusive`, `FramesAccounted`, `TablesWellFormed` (`TypeOK`, `KernelMapped`), `HeapMatchesBreak`, `SatpValid` | 3 slots, memories of 22 to 36 frames, programs of 1 and 2 pages |
| `trap_path` | `ResumesWithOwnRegisters`, `UserModeConfined`, `KernelWellFormed` (`TypeOK`, `HandlerOnOwnStack`) | 2 slots, every kind of trap |
| `files` | `LookupFindsTheFile` of every image; `DescriptorsSound` (`TypeOK`, `OffsetWithinFile`, `NothingLeftBehind`), `ImplementsFileTable` of programs on one image | images of up to 3 files of 0 to 2 bytes, names of up to 3 characters cut to 2; 2 slots, 5 descriptors, reads of 0 to 2 bytes |
| `shell` | `OneReader`, `OnlyShellsPrompt`, `NobodyLeftBehind` (`PromptHasNoChildren`, `NobodyOrphaned`); under `ShellFairSpec` `CommandReturns`, `ExitHalts` | 4 slots, 9 pids, nested shells and inits |
| `library` | `StringsExact` (`CopyExact`, `ConcatExact`, `CompareIsOrder`, `SearchFindsFirst`, `ParseIsSplit`, `NameNeverOverflows`); `OutputExact` (`PrintfIsTokenwise`, `PutintIsDecimal`); heap: `AllocationsDisjoint`, `GrowsOnlyWhenNeeded` | buffers of 6 and 5 bytes, every content over 3 bytes; 3 tokens, 8-bit integers at their edges; heap of 15 bytes over 3 pages, headers of 2, a request that is negative as an `int` |
| `pages` | frames: `BitmapSound` (`BitmapExact`, `KernelNeverHandedOut`), `ImplementsFrameSet`; user pointers: `PointerChecksExact` (`RangeCheckByteWise`, `RangeCheckExact`, `StringCheckExact`); images: `AlignedImageInPlace`, `HeapAboveImage` | 16 frames, 5 of them protected; 3 pages of 2 bytes, every set of flags and NULs, ranges of up to 5 bytes; images of up to 2 headers over 5 pages of 2 bytes |
| `fork_leak`, `exec_stack`, `exec_oom`, `heap_full` | violated: see Findings | small |

Why the bounds are enough.  Three slots hold a parent and two children, or three
generations, with pids left to reuse two slots; a ring of two lets one reader leave
bytes for another, and all three may compete for it.  More slots are the theorems'
part: the invariants are proved for every number of them.
The counters modulo 8 over a ring of 4 wrap after two rounds, so every
combination of wrapped and unwrapped counters with an empty, partial and full
ring occurs.  The memory sizes are chosen around the points where the first
`fork`, the second `fork`, an `exec` beside its old image and a heap of five pages
just fit, so that each allocation of each handler is the first to fail in some
behaviour: every number of free frames from 0 to 13 occurs in user mode with one
process and with two, and the largest memory holds three processes.  `MCMemory` compares states up to a
renaming of frames, which its comment justifies.

A FIFO of two lets a byte arrive while another is drained, and one more between
the drain and the completion.  The keys on the whole way are ESC, `[`, Enter and Backspace
(`[` is also an ordinary letter), so that an Enter may end a line, stand behind an ESC or
inside a sequence; `EnterWakesReader` is about the first kind.  Two processes are enough in `trap_path` for one to be
in the kernel while another's frame is saved; a third would only repeat it.  In
`files` both free descriptors can be taken, so the table fills up, and both slots are
recycled, also after a `fork` that failed half way.  The bounds of the user pointers hold a range that starts and ends inside a page
with a whole page between, addresses beyond the address space and ranges that wrap.  In the heap the list has up to four blocks, the heap fills up, and a block is
reused for a smaller request.  With four slots init, the shell, a shell started from
it and a command of that one fill the table; the dialogue of shell and command then
repeats.  Buffers of six bytes hold
two words with blanks before, between and behind them.  Pages of two bytes have
file data that ends at a page, inside one and before the last one.

Deadlock is checked wherever the modelled system goes on for ever: the halted machine
and the panics spin.  It is off where the system stops: a program killed in
`malloc`, a `load_elf` that has returned, a format string that is complete.

**Fairness** (`FairSpec`).  An armed timer fires, a pending timer interrupt is taken
(interrupts are on in user mode, and the idle loop leaves `wfi` for it), and a
process at a rewound `ecall` that is given the hart again and again executes it
(strong fairness: a tick arms the next one 10 ms ahead, so instructions run in
between).  Nobody is obliged to type, to exit or to make any other system call.
A panic stops the machine, so the liveness properties allow for one.

In `Console` the kernel's code goes on, a pending interrupt is taken in user mode (`SIE`
is set there) or ends the `wfi`, and the gateway forwards a line that stays high once
its request is completed.  Nobody has to type or read.  `PendingIsTaken` is the safety
part: what is latched can be taken.  `ShellFairSpec` has the
timer's fairness of `Process`, and strong fairness of the step of each process that has
the hart: between two system calls these programs only run loops over short strings.
Nobody has to type; `CommandReturns` allows for a program that waits for a line.

## Findings

* `fork_leak`: without a page for the kernel stack `alloc_proc` gives up the slot but
  not the page table it has built (`process.c:137`).
* `exec_stack`: `load_elf` does not look at the result of mapping the user stack
  (`process.c:312`), contrary to the devlog.
* `exec_oom`: `exec` without memory stops the kernel, where its comment promises an
  error and an unchanged process (`trap_handler.c:476`).
* `heap_full`: `malloc` knows only -1 as a failure of `sbrk` (`syscalls.c:339`), but the
  kernel answers -4 or -5; the program is killed instead of getting 0.  The run's requests
  are small, and the kernel runs out of pages (-4).

Smaller disagreements the models contain and no run is spent on:

* An unknown system call number does not "kill the user" (`trap_handler.c:806`); the
  kernel spins with interrupts off (`UnknownSyscall` in `Process`).
* "a bad/unmapped user pointer now fails the syscall with `E_FAULT` instead of causing an
  S-mode page fault" (`DEVLOGS.md:562`) is not true of two kinds of pointer.  A range whose
  rounded end wraps around the word is accepted without a look at any page
  (`trap_handler.c:126`); and `vmm_lookup` masks all but 39 bits, so 2^39 plus a mapped
  address is accepted for its alias (`vmm.c:53`), and the access faults in the kernel, which
  halts.  `user_str_ok` reads such an alias itself.  `RangeCheckByteWise` and
  `StringCheckExact` say so.
* A process that exits, or is killed by a fault, becomes a zombie until its parent reaps it
  (`process.c:366`), as `ImplementsProcTree` has it.  `proc.h:15` ("RUNNING -> (exception) ->
  UNUSED"), `lazux.h:59`, `syscalls.c:16` and `:35`, `start.S:46` and the older parts of the
  devlog (`DEVLOGS.md:201`) say it is marked `PROC_UNUSED`; `proc.h:14` has it right for exit.
* In the bitmap 1 is a page in use (`pmm.c:46`, `BitmapExact` in `Pmm`); `pmm.h:5` says
  "1=free, 0=allocated".
* An Enter right after an ESC or inside an escape sequence is swallowed with the sequence
  (`uart.c:132`): it is not echoed, ends no line and wakes nobody, so the next Enter does.
* A `fork` that runs out of memory leaves the console in the descriptors of a slot it marks
  unused (`process.c:110` before `:119` and `:138`).  Nobody reads them there.
* A segment whose address is not a multiple of the page size is loaded too low
  (`process.c:257`; `LoadPage` in `Elf`).  `AlignedImageInPlace` is about images with aligned
  segments.  The Makefile puts `.text` of every program at 0x400000; where its other
  segments start is the linker's choice, and not shown here.
* `lz_search` does not find the empty string in the empty string (`mystring.c:124`);
  `SearchFindsFirst` says so.
* `putint` prints the smallest `int` as a lone `-` (`syscalls.c:141`); `PutintIsDecimal` says
  so.  The negation overflows; the model takes the wrapped value the `-O0` build of the
  Makefile computes.

## Proofs

A theorem holds for every value of the constants its module's `ASSUME`s allow; TLC
checks those assumptions on every run.  All inductive invariants were first checked by
TLC.  Thirty-eight results are listed in `PROJECT.json`; these are the arguments.

### Processes (`Process_proofs`)

For every number of slots, pid bound, ring size and set of failures, from
`SizesAssumption` and `ChannelsAssumption` only:

* `ProcessInvariant`: `Spec => []IInv`;
* from it `ProcessTypeOK`, `NoLostWakeup`, `SchedulerInvariant`, `TableIsConsistent`,
  `NoIdleDeadlock`, and the action property `ZombiesAreKept`;
* `TableImplementsTree`: the table implements `ProcTree`.

The parts of `IInv` need each other.  That `exit_current` wakes the right parent
needs `PidsUnique`, since it stops at the first slot with the parent's pid; that it
leaves no waiter beside a zombie needs `BlockedOnOwnChannel`, since it wakes the
channel "my own PCB"; that a new child is nobody's zombie needs pids in use to be
below `next_pid`; and all of them need `RunningIsCurrent`, so that the process that
traps is not asleep.  The rescheduling part of every action is proved once:
`DispatchSwitches` and `ScheduleSwitches` say what `schedule` guarantees of the table
it is given, `SwitchPreservesIInv` that this is enough, and each action only shows
that the table it hands over is a good one.

`NoIdleDeadlock` is not inductive by itself.  In the idle loop nobody is runnable
and someone is blocked; take the blocked process with the largest pid.  If it were
in `wait` it would have a child that is neither a zombie nor runnable, hence
blocked, and younger than its parent: a contradiction.  So it waits for the console.

The refinement to `ProcTree` maps slots to pids.  Unique pids make the mapping a
function (`Mapped` gives it without a `CHOOSE`), and each action changes it at one pid
or at none.

The programs of `Shell` (`ShellInvariant`) add that the processes form a chain: in the
order of pids the parent of each is the one just before it, and everyone but the last
is in `wait`.  It is what makes `OneReaderAtATime`, `PromptIsAShells` and
`NoProcessIsLeftBehind` true, and needs `IInv` to say who `wait` finds.

### Console (`Uart_proofs`)

For every ring size and counter modulus with `SIZE < WRAP` and `WRAP % SIZE = 0`:
`RingIsSound`, whose two parts are inductive together with the range of the counters
(the order after a Backspace or an Enter at the wrap is a fact of modular arithmetic
about all three differences at once); `LinesAreIntact`, by following the bytes between
two counters: counters less than `SIZE` apart have slots of their own, so writing at
`rx_head` disturbs no byte between `rx_tail` and `rx_head`; and `RingImplementsLines`,
the refinement to `LineDiscipline`, with the same spans as the two queues.

The driver in its machine (`Console`), for every FIFO and every set of keys typed:
`ConsoleImplementsDriver` and with it `ConsoleImplementsLines`, whenever bytes arrive and
whoever is interrupted; and the safety that the two liveness properties of the run rest on.
`InterruptsGetThrough`: where the hart can take an interrupt, in user mode and in the idle
loop, a request the PLIC has latched is enabled, above the threshold and not still claimed,
so it is taken (`PendingIsTaken`).  `SleepersHaveNothingToRead`: no process sleeps in `read` while a finished
line waits.  The inductive invariant `WayInv` says which registers are set at which point
of the boot, and that a request is in service just while `plic_dispatch` serves it.

### Trap path (`TrapPath_proofs`)

`PathInv` says for each of the three instruction sequences and each instruction of it
which registers are already saved in, or restored from, the trap frame, and where the
scratch values are; and of every process the hart is not in, that its frame is
complete (`Parked`).  That `satp` is right on the paths that do not write it needs it to be
right from the trap on, so it is part of every stage.  `RegistersSurvive`, `UserModeIsConfined` and `KernelIsWellFormed`
follow for every number of processes.

### Files (`Files_proofs`)

`LookupIsExact` holds of every image `mkramdisk` can build from `Inputs`, any set of
lists of files: the offsets are the running sums of the sizes, so the files are packed
without overlap and the slice the entry names is the file.  The image is a
concatenation; that a slice of it is what was put there is proved from the halves
(`ConcatHalves`) by the induction of `SetInduction`.  `FilesInvariant` adds the
descriptor tables: an open descriptor has offset and size of an entry and a position
inside it, the console sits on 0 to 2 only, and no file is left in the table of a free
slot.  `DescriptorsAreSound` and the refinement `DescriptorsImplementFileTable` follow; the
refinement is about the tables of the slots in use, the ones programs see.

### Library (`Library_proofs`)

`StringsAreExact` holds for buffers of every size, every set of bytes, every number of words
and every suffix, and for every content of the buffers a program can store; what a step
must keep is only that `src` ends with a NUL and `".elf"` is there (`BuffersInv`), the rest
is about what the functions compute.  Each loop is taken turn by turn: that the function of
its turns exists, and what it is after `k` of them, is an induction on `k`, written as
the statement that the set of failing turns has no least element (`NoLeast`).

* After `k` turns a copy has moved `k` bytes, as long as it does not reach its source
  (`CopyTurnsCopy`); what lies at `dst` is then the old string with the new one behind it
  (`JoinedString`), and `CopyExact`, `ConcatExact` and `NameNeverOverflows` follow.
* The comparison ends where the two strings first differ (`DifferIs`), and that place decides
  the order of the strings (`OrderAtDiff`) and of their prefixes (`OrderOfPrefixes`).
* `lz_search` stops at the first place where the inner loop gets to the needle's NUL, and
  these places are the occurrences (`MatchesIs`, `OccurrencesAre`).
* `parseline` between two turns (`Parsed`): all words before `i` are in `args`, in order, each
  ended by a NUL; what lies from `i` on is untouched, and `i` is at the start of the line, at
  its end or behind a blank.  A turn takes the next word or finds there is none
  (`TurnTakes`).

`OutputIsExact` holds for formats of any number of tokens and for every set of `int`s, unsigned
numbers and pointers of the machine's width.  `k` turns of the conversion loop divide by
the `k`-th power of the base (`DividedIs`, for the bases 10 and 16 the code uses), so the
digits are those of the numeral, as many as it has (`LowDigitsAre`).  The assumption is that
`INT` is at most 10 to the power of the size of `buffer[]`, and the pointers fit
`PTR_DIGITS` digits; 2^32 has ten digits and the buffer 16.  That each turn of `printf` takes
exactly one token and its argument is `TokenTurn`; the format and the arguments are the
tokens' parts one behind the other (`FlatLies`).

`HeapInvariant`: the blocks lie one behind the other, the list visits them in the order
of their addresses and ends at the last, and every pointer the program holds is that
of a block in use that is large enough.  From it `AllocationsAreDisjoint` and the action
property `HeapGrowsOnlyWhenNeeded`, which needs that the walk along the list reaches
every block.  Both theorems assume `RequestsFit`: a request with its header is below
`2^32`.  Without it the sum wraps around in the argument of `sbrk`, and the theorem is
false; the run's sizes satisfy it, and include one that is negative as an `int`.

### Pages (`Pages_proofs`)

`BitmapIsSound` and the refinement `BitmapImplementsFrameSet` for every page, memory and
kernel size, from `PmmAssumption` (the kernel and the bitmap end at page boundaries, as
`linker.ld` and 128 MB make them).  The invariant adds the shape of the bitmap and that
every held address is that of a page above the protected ones; the work is in the
arithmetic: page number and address determine each other (`MultipleDiv`), two pages
never share a bit (`BitPosition`), and the rounded-down number of protected pages covers
the bitmap exactly (`ProtectedPages`).

`ElfHeapAboveImage` and `ImageIsInPlace` for every page size, every
number of headers and every image within the address space.  The start of the heap is
not inductive by itself: while a segment is being loaded its pages are
above `max_end`, which counts it only at its end, so the invariant says of each loaded
page that it starts below `max_end` or below the end of the segment being loaded.  That
the image is in place needs how far the loader has got: the bytes of the headers before
the current one, and of the current one up to the current page (`LoadInv`).

`PointerChecksAreExact`: for every page size, address space and word with `VSPACE < WORD`
and `MAX_LEN + PAGE_SIZE <= WORD` (lengths are 32 bits wide, addresses 64), at every address.
`user_range_ok` looks at one address per page; the proof is that the pages from the
first to the last are those of all the bytes, unless the rounded end wraps, when there are
none.  A range inside the address space does not wrap, and there `vmm_lookup`'s mask is
the identity.  For `user_str_ok` the turns before the first NUL are followed one by one.

### Memory (`Memory_proofs`)

For every number of processes, every memory size up to the address of the first device
window (128 MB of RAM below 192 MB in Lazux; `MemoryAssumption`), every set of program
sizes and of arguments of `sbrk`, every size of a page and of the tables of each level,
and every place of the windows below the stack (`SizesAssumption`; in Lazux pages of 4096
bytes, tables of 512 entries, two of them below 2 GB):
`Isolation` (`FramesExclusive`), `NothingElseLeaks` (`FramesAccounted`), `WellFormedTables`,
`PagesMatchBreak` and `SatpStaysValid`, all from `MemoryInvariant`.

`MInv` says that the frames of the machine are partitioned into the free ones, the boot
table's and each process's, with the lost ones beside them; that every process has a
page table that is a tree without sharing, with exactly the pages its break calls for
(`Space`); and that `satp` is the root of a process that is there.  It is stronger than
what the run checks: the boot table's frames are not free either.

The handlers are functions that call functions, each of which can fail half way, so the
proof follows the calls.  `Good(m, U, H)` is what all of them keep: the frames `U` the
handler began with are each free, in the table, or in hand (`H`).  A lemma per function
(`MapFrameEffect`, `MapNewPageEffect`, `UnmapEffect`, `AllocProcEffect`, `LoadElfEffect`,
`CopyUvmEffect`) says what each of its outcomes leaves.  The loop of `sbrk` and `load_elf`
cannot run into the device windows: each turn takes a frame, and there are fewer frames
than pages below the windows (`RoomBelowMmio`, a counting argument).  `vmm_copy_uvm` is
followed level by level with the set `D` of entries it has looked at (`Copied`): tables
and user pages among them are in the child, and the child has no other user pages.  At
the end `D` is everything below 2 GB.  A step of the system changes one slot;
`SlotUpdate` says when that keeps the partition, and each handler shows that it does.

The two places where the sizes are calculated with have lemmas of their own.  `LeafFacts`:
different pages below the stack have different leaves, in tables that are large enough for
them, and none is the kernel's.  `PageEndFacts`: the rounding of `sbrk` gives the pages
that begin below the break, and is monotone.

### Only model-checked

* Liveness: `ReadyRuns`, `BlockedCallsReturn`, `InputServiced`, `EnterWakesReader`,
  `CommandReturns`, `ExitHalts`.  The prover has no fairness reasoning.
  What they need of the states (the interrupt path stays open, nobody sleeps on input
  that is there) is proved; that the steps are then taken is fairness.

## Not modelled

* SBI calls and console output: firmware calls without a state of the kernel's own.
* `entry.S` (stack, clearing `.bss`), `stvec` and the first mapping: they run once, before
  anything else can.
* `lib/string.c`: `memset` and `memcpy` are what the other modules mean by copying.
* The permissions of the kernel's own mappings, and the contents `vmm_copy_uvm` copies.
* `lz_strerror` and `lz_error`: texts.
* Overflow of `next_pid` after 2^31 - 1 forks, and `malloc` of 2^32 - 24 bytes or more.
* A fault inside the kernel, which the code treats as fatal.
* In `Memory`, what `fork` and `exec` have changed when they panic: the machine spins with
  interrupts off and the tables stay as before the call (`Process` has the half-made child).

## Plan

`vmm_copy_uvm` with page contents and permissions, and the reader of `Console` as a process
of `Process`.
