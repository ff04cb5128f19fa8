# Specifications of the NPC core, NEMU, the abstract machine and their tools

This directory holds TLA+ specifications of the programs in this repository,
the TLC configurations that check them on small instances, and theorems about
them whose proofs TLAPS checks for every instance.

## The system

The repository is a processor laboratory: a small RISC-V processor (`npc`), an
emulator that is its reference model (`nemu`), the bare-metal run time that
programs for both are linked with (`abstract-machine`), and the configuration
tools everything is built with (`nemu/tools/kconfig`, `fixdep`).

| Component | State | Operations | Talks to |
|---|---|---|---|
| NPC core, `npc/ysyx_25080202.v` | registers of IFU, LSU, WBU, PC; register file; `mcycle` | one clock edge, reset | instruction and data memory over two request/response ports |
| ISA of NEMU, `isa/riscv32/inst.c` | `cpu.pc`, `cpu.gpr`, CSRs | `isa_exec_once` | memory through `vaddr_*` |
| Memory and I/O maps, `memory/*.c`, `device/io/*.c` | `flash`, `sram`, `io_space`, the maps | `paddr_read/write`, `pio_read/write`, `add_*_map` | devices |
| Execution loop, `cpu/cpu-exec.c`, `hostcall.c`, `utils/state.c` | `nemu_state`, `n` of `execute` | `cpu_exec`, `exec_once`, traps, exit status | ISA, differential test, watchpoints, `device_update` |
| Debugger, `monitor/sdb/sdb.c` | `is_batch_mode` | `c si q w d`; `x p`, which ask for a skip when they read a device; the read-only `info help` | execution loop, watchpoints, expressions |
| Watchpoints, `monitor/sdb/watchpoint.c` | pool, `head`, `free_` | `new_wp`, `free_wp`, `wp_set`, `wp_delete`, `wp_difftest` | expressions; sets `nemu_state` |
| Expressions, `monitor/sdb/expr.c` | `tokens`, `nr_token` | `make_token`, `find_op`, `eval` | registers, memory |
| Differential test, `cpu/difftest/dut.c` | `is_skip_ref`, `skip_dut_nr_inst` | `difftest_step`, `difftest_skip_ref` | a reference loaded as a library; sets `nemu_state` |
| `qemu-diff` and `protocol.c` | one connection | packets with acknowledgements | QEMU's GDB stub |
| Devices, `device/*.c` | key ring, RTC latch, VGA sync, SD card registers | callbacks, event loop, 60 Hz update | guest, host (SDL, signals) |
| AM riscv | contexts on stacks | traps, `yield`, `kcontext` | hardware |
| AM native, `am/src/native` | key queue, audio pipe and `count`, signal masks, mappings | threads, signals, `fork`, pipes | host |
| klib, `int64.c`, libgcc | | strings, `printf`, 64-bit arithmetic | |
| kconfig, `fixdep` | symbols, menus, `.config`, header, objects' dependencies | evaluation, sessions of `conf` and `mconf`, saves, the build | user, make |

### What is hard in it

* **NPC**: four state machines exchange valid/ready bits that are all registers,
  so each block acts on what the others did a cycle ago; the memories answer
  after any number of cycles, and a reset may come at any time.
* **NEMU** is sequential, but four functions called after one another for every
  instruction (the trap, the differential test, the watchpoints, the devices) write
  the one variable `nemu_state.state`, each without looking at what the one before
  wrote.
* **Watchpoints**: linked lists under any order of commands, with special cases for
  the number of the last structure.
* **Devices, AM native, the GDB link**: threads, signals, short reads and writes,
  damaged packets, bounded rings, a 64-bit time in two loads.
* **kconfig**: values that are computed on demand and cached, in any order of
  asking; trees that are moved while they are walked; text escaped and read back;
  screens that redraw only what is thought to have changed; files that are replaced
  one by one while make looks at their times.

What makes each component correct: the core executes the ISA of its reference model
whatever the memories do, and never stops; the emulator never runs on after a
difference or misses a watched change, comes back from bounded steps, and reports
how the guest ended; the pool loses no structure; a ring loses nothing it accepted;
a store is found at its address only; a packet is executed once; threads do not
notice traps; a configuration is its own fixed point, survives a save and a crash,
and no object is older than the options it uses.

`PROJECT.json` lists every component, and the hazards with their lines.

## The modules

| Module | Models | Correspondence |
|---|---|---|
| `Words` | the arithmetic of words, bytes and lanes | `WordSize` is `ByteSize^4`: a word is four bytes, whatever a byte is |
| `NpcCore` | `npc/ysyx_25080202.v` | One record per block (`ifu`, `lsu`, `wbu`, `pcu`), the register file, the counter, and the memory behind each port. `Tick` is one clock edge: every block computes its next registers from the present ones, as the non-blocking assignments do. `FetchAnswered`, `AccessAnswered` are the edges at which a memory answers; `Reset` an edge with `reset` high |
| `NpcProperties` | what must hold of it | `PhaseInv` lists the phases of the multi-cycle protocol; `Minirv` is the instance of the ISA, whose `pc`, registers and memory are read off the core |
| `MinirvIsa` | `isa/riscv32/inst.c`, the minirv subset | One action per `INSTPAT` line; `isa_exec_once` is `Next` |
| `WatchpointPool` | `sdb/watchpoint.c` | `head`, `free_`, `next` are the C pointers; `fate` records an assertion or a NULL dereference |
| `NemuMonitor` | `cpu-exec.c`, `hostcall.c`, `dut.c`, `state.c`, `sdb.c` | `at` is the place in `execute`: the instruction, the differential test, the watchpoints, the devices, one action each; a device access, the guest's or the debugger's (`Look`), sets `is_skip_ref`. `masked` is history. It extends `WatchpointPool` |
| `Expr` | `sdb/expr.c` and the grammar of C | `make_token`, `check_parentheses`, `find_op`, `eval` are the C functions; the reference builds the sentences bottom-up, with no parser, and its values are those of `int` under the operators of the standard (`C_unary`, `C_binary`), not the code's |
| `NemuMemory` | `paddr.c`, `map.c`, `mmio.c`, `port-io.c` | `init_device` is `init_*` of a device: `new_space` and `add_mmio_map` or `add_pio_map`. `Load` and `Store` choose sram, flash, a map or an assertion as `paddr_*` and `pio_*` do |
| `NemuDevices` | `keyboard.c`, `timer.c`, `alarm.c`, `vga.c`, `device.c`, and the drivers of `am/src/platform/nemu/ioe` | `at` is the place in `device_update` and its event loop; three guests: one polls keys, one reads the time with two loads, one draws |
| `BoundedFifo` | the promise of the key ring | `Put`, `Take`, `Overflow` |
| `GdbLink` | `protocol.c`, `gdb-host.c`, `diff-test.c` | the calls of `difftest.h` as lists of commands; `client.at` is the place in `gdb_send`, `gdb_recv` |
| `SdHost` | `device/sdcard.c` and `resource/sdcard/nemu.c` | requests of the MMC core as the driver turns them into commands and words |
| `Threads` | the promise of the context extension | private registers, stack and place in the code per thread; `Yield` is the only switch |
| `AmContext` | `riscv/nemu/cte.c`, `trap.S`, `struct Context`, the trap CSRs of NEMU | word-addressed memory in which the frames of traps, the contexts of `kcontext` and pushed words share the stacks. `ContextOf(t)` finds a thread on the processor, in the new frame, or where the scheduler keeps it |
| `NativeContexts` | `native/cte.c`, `vme.c`, masks and mappings of `platform.c` | frames on kernel stacks, signals that are held back or delivered, `map`, `protect`, `__am_switch` |
| `NativeIo` | `native/ioe/input.c`, `ioe/audio.c`, `mpe.c` | threads and processes step by step, with the reads and writes of shared counters apart |
| `Arithmetic`, `Klib` | `int64.c`, `div.S`, `muldi3.S`; `string.c`, `stdio.c`, `atoi` | functions over words, memories and formats against their definitions; a loop is a step, a function of the state of the loop, applied by `Loop` of module `Loops` until it changes nothing. The characters of a text are `Characters`; a byte of memory is a number |
| `KconfigExpr`, `KconfigDeps`, `Preprocess`, `KconfigText` | `expr.c`; `sym_check_deps`; `preprocess.c`; the text of `.config` in `confdata.c` | functions over bounded arguments against their definitions |
| `KconfigMenu`, `KconfigSearch` | `menu.c`, the search of `mconf.c` | a file is read statement by statement; the tree is a function of records that the code's pointer surgery changes in its order |
| `KconfigSymbols`, `KconfigConf`, `Mconf`, `ConfTool` | `symbol.c`, `confdata.c`, `mconf.c`, `conf.c` | a record `st` of cached values passed through every call; sessions of the two front ends |
| `Lxdialog` | `lxdialog/*.c` | the dialogs key by key; the screen is part of the state |
| `KconfigBuild` | `conf_write`, `conf_touch_deps`, `conf_write_autoconf`, `fixdep.c` and make | every call that changes a file is a step; `Crash` after any of them |
| `NpcProofs`, `NemuProofs`, `DeviceProofs`, `LinkProofs`, `NativeProofs`, `AmProofs`, `LibraryProofs`, `KconfigProofs` | proofs | |
| `MC*` | instances for TLC | |

`..._Xyz` next to a definition, introduced as a mutant, is the definition with a
mistake in it. `PROJECT.json` says which property each mistake violates; nothing
else uses them.

External parts are modelled from how the code uses them: the memories of the core
answer a request after any number of cycles; `ref_difftest_exec` executes the same
instruction correctly, while an instruction of the kind `buggy` is executed wrongly
by the emulator; the event handler given to `cte_init` is a scheduler that keeps the
context it gets and returns any other; QEMU's stub executes an intact packet once and
refuses a damaged one; make compares times; the MMC core sends the requests its
interface allows.

## The runs

| Run | Question | Instance |
|---|---|---|
| `npc_core` | Do the two ports exclude each other, does each request and each write-back belong to the instruction of the pc, whatever the memories do and whenever a reset comes? | every program of 2 CSR instructions, or of 2 accesses, jumps and unknown encodings; reset in any cycle |
| `npc_refines` | Is the core the ISA of NEMU, and does it never stall? | every program of 3 minirv instructions, aligned accesses and jumps to odd targets |
| `mon_batch` | NEMU as committed (`is_batch_mode` is true, `sdb.c:24`): does it exit, whatever the guest, the devices and the window do? | every guest of up to 3 instructions that can end |
| `mon_debug` | The debugger (`is_batch_mode` false), whose `c` is also the batch mode: does the guest run only in agreement with the reference, is a comparison skipped only for the instruction that asked, is a watched change ever missed, does `si` come back? | every guest of 2 out of 5 instructions, device accesses among them; 2 watchpoints, on registers or a device; `si` with -1, 0, 1, 2 |
| `am_threads` | Are traps and switches invisible to threads? | 3 threads, 2 saved registers, stacks with room for a trap and at most one word |
| `functions` | Do nine groups of functions compute what they stand for? | see below |
| `parts` | The devices with a guest, the GDB link, the pool, the memory and its maps, one of them in each behaviour | ring of 3 slots, 4 events; 3 calls with up to 3 damaged packets; 4 structures; every placement of 2 devices |
| `native` | The native platform and the SD card with its driver, one part in each behaviour | a kernel and 2 processes, 2 pages; queue of 3, pipe of 4 bytes, 3 processors; 3 sectors of 2 words |
| `kconfig` | The configuration tools: values, saves, sessions, dialogs, and the build with a crash at any step | three parts of `nemu/Kconfig`, up to 2 keys, a crash, lists of up to 5 items |
| `pool_named`, `mon_goodtrap`, `config_lost` | Three statements of the code that its behaviour contradicts | as above |

Parts that share no state are joined into one run by choosing one of them in the
initial state; the others rest with nothing enabled. Deadlock is checked except where
a part ends: a function is called once, NEMU has aborted, a program of the host or a
session is over.

### The bounds, and why they are enough

* **Core.** Bytes are one bit wide, so words have 4 bits and there are 16 addresses.
  A word still has four bytes, and the wrap-around of the pc, lanes, shifts and
  masks are all there. Three registers are enough for two sources and a
  destination, one of them `x0`. What survives an instruction is the architectural
  state and the leftover handshake registers, so a program of two instructions shows
  every effect of one on the next; three show one that skips an instruction.
* **Pool.** The special structures are the first, the last and one in the middle of
  a list; there is one more than these.
* **Monitor.** Words have two values: a register has an old and a new, or a wrong
  one. Guests loop, so that a skip is followed by further instructions, and by itself. The
  longest chain of events is a look at a device, or a skip, an instruction with a difference,
  and one that ends the guest.
* **Devices.** The ring of 3 slots holds two keys, so it wraps and overflows within 4
  events; words of 3 values make the time carry into its high half twice within
  `MaxTime`; a frame has two pixels, so that it can be torn.
* **Memory.** 32 addresses; the flash window is larger than the flash, and devices may
  start in the flash, at its end, behind it or outside. With two of them each may lie
  before, around, inside of, or behind the other. Two accesses are a store
  and what it must not have changed.
* **GDB link.** A packet is a start, one byte for the payload and an end with the
  checksum. Three damaged packets are one for the command, one for its repetition, and
  one for the reply. The number is finite because a link that damages every packet
  never gets one across. The link is TCP, so that bytes are neither lost nor reordered,
  and acknowledgements, single bytes without a checksum, arrive as they were sent.
* **Contexts.** A frame has slots for `x0`, `sp`, an argument register and a
  temporary. Memory is exactly the stacks, one after another, so that a frame one
  word too low is in another stack.
* **Native.** One frame for two pages lets a page be mapped in one process, both, or
  twice; the pipe of 4 bytes with `PIPE_BUF` 2 gives short reads and writes; 5 keys
  wrap a queue of 3.
* **Functions.** Expressions: every text of up to 4 characters out of 13, every
  sentence of up to 7 (of up to 4 where the evaluator may differ from C), operators of each level
  of the grammar, signed and not, on words of 3 bits. Conditions: two
  operators over a tristate and a bool, and nested ones. Arithmetic: words of 4 bits,
  every double word with those near 0, the sign and the end. klib: memories of 4
  bytes, formats of three items, an `int` of 7 bits and a `long long` of 8, both printed
  at the ends of their ranges, the least `long long` as what 8 bits that wrap make of it; `strncmp` with strings that end
  early, with blocks without an end, and behind the end of equal strings. Macros: two assignments and a reference;
  `MaxDepth` stands for the 1000 of `preprocess.c`. Dependencies: two
  symbols and a choice with two values, in two orders of the table. Text: strings of
  up to 4 of the characters that mean something. Menus: files of four entries.
* **kconfig.** The three instances hold a choice that depends on another, defaults
  under conditions, a range, `select`, `imply`, tristates with modules, and a tristate
  choice; their menus are flat. Symbols are asked for in an order and its reverse. A session that
  loads and saves has at most two keys before its end; one that only sets values has
  no bound.

### Fairness

* **Core**: the clock runs and memories answer: weak fairness of `Tick`,
  `FetchAnswered` and `AccessAnswered` (`RetiresForever`). Nothing is assumed of the core.
* **Monitor**: the main thread runs: weak fairness of `Advance`; in batch mode
  `sdb_mainloop` issues its one `c` by itself. A user never has to type anything.
* **Devices**: the loop of `execute` runs on (weak fairness of its parts), host time
  passes and the guest makes its accesses between two updates. The last two are strong, as
  the window in which they are enabled closes and opens again with every update; a
  guest in an endless loop of polls, as the drivers are, meets both.
* **GDB link**: both ends read what has arrived.

The other runs assume none. What they check are invariants, action properties and
refinements.

## What the runs found

* **A good trap exits with a bad status** (`mon_goodtrap`). `exec_once` sets
  `NEMU_STOP` after the `ebreak` has set `NEMU_END` (`cpu-exec.c:75`). `HIT GOOD
  TRAP` is never printed.
* **`d N` may delete another watchpoint** (`pool_named`): the walk also stops at the
  last structure of the pool (`watchpoint.c:117`). Of other unknown numbers it walks off
  the list, before it comes to the message for that case.
* **Changes may be lost without a question** (`config_lost`): a load of a file that is
  not there clears the count of changes first (`confdata.c:519`), and menuconfig then
  leaves without asking.

Other behaviours that came up, stated here because nothing in the repository contradicts
them or because a model keeps away from them:

* A difference that coincides with a changed watchpoint is overwritten by
  `NEMU_STOP` (`watchpoint.c:143`), and a later `c` runs on (`cpu-exec.c:64`). And
  `find_mapid_by_addr` (`map.h:41`) asks for a skip whoever accesses the device: after `x`,
  `p` or `w` of a device address the next instruction is not compared, and with a watchpoint
  on one no instruction is, as `wp_difftest` runs after `difftest_step`
  (`cpu-exec.c:64-65`). `RunsInAgreement` names both exceptions by the history variable
  `masked`, which no action reads.
* A `csrrw` of `mcycle` returns the value it has just written. `iringbuf[cur_inst + 1]` is outside of the array when `cur_inst` is 15
  (not modelled).
* `in_pmem` (`paddr.h:38`) asserts that an address is in the flash or the sram window, so
  with the committed windows a device at its default address ends NEMU in `add_mmio_map`,
  and the default `MBASE` does not work: `guest_to_host` ignores it. `NemuMemory` assumes
  `MBASE = FLASH_BASE`; devices can be had behind `MSIZE` in the window, or on ports.
  `add_pio_map` does not compare ports with other devices (distinct by assumption), and
  `check_bound` looks at the first byte only (accesses across an end are excluded).
* The evaluator is not C in four ways, each named in `Expr` and excepted by
  `ExpressionsAreC`: `<=` and `>=` are refused, as their rules stand behind those for `<` and
  `>` (`ReadsNoOrder`); `<` and `>` compare words, while `/` divides signed numbers, so two
  numbers of different sign are ordered the other way (`expr.c:257,263`, `OtherOrder`); a number
  is read to base 16 behind `0x` only, though the rule takes `0X` too, and one that begins
  with 0 to base 10 (`expr.c:47,226`, `OtherBase`); and both sides of `&&` and `||` are
  evaluated, so a side that C leaves alone ends NEMU or has no value (`Decided`).
* The audio callback loads `count` to test it and again to use it (`audio.c:20`): when the
  writer has added to it in between, it reads more than SDL asked for, and writes behind the
  end of SDL's stream (`play_ask`, `over`). And an update of `count` by one side may undo
  one of the other (`raced`). `AudioExact` says what still holds after either.
* A page that is mapped twice in one process closes the list of mappings into a ring
  (`vme.c:85`), and the next switch hangs; `SeesOwnPages` excepts it.
* klib: `strncmp` goes on behind the end of equal strings (`string.c:208-219`): `KlibIsC` names
  these calls `RunsOn` and says of them that `strncmp` then returns what `memcmp` returns of the
  same bytes, when memory has them; when it has not, the call may leave memory (`died`). `-d`
  overflows for the least `long long` (`stdio.c:200`): `KlibIsC` names it `IsLeast` and says that behind the sign stands
  what the build makes of it, the constant `Overflowed`, and that all before, all after and the
  count are what they should be. The result of `printf` does not count `%%`. `atoi` reads no sign and
  no white space but blanks: `Number` is the number behind blanks, 0 for `-5`. Its sum `x * 10 + c - '0'`
  may pass the greatest `int` before `'0'` is taken away; it is taken to wrap back. An unknown
  conversion leaves the formatter inside of it, and `malloc` does not look at the end of the heap: neither is
  among the arguments of `Klib`, which are otherwise all those C defines the functions for (`Valid`), and formats of
  text, `%%` and the conversions `c`, `s`, `d`, `u`, the last two with `l` or `ll` (`IsItem`). `memset` is called
  with one byte. A byte is unsigned, as `char` is on RISC-V; on a host with a signed `char` the comparisons order bytes from 128 on the other way.
* kconfig: a lone trailing backslash in `.config` is read past its end; a menu whose
  title reads like an option that is not set is read as that option; `X := $(X)` reads freed
  memory, or, where `X` is new, a value that is not initialised (`preprocess.c:289-309`); both are
  `Undefined` in `Preprocess`, and `MacrosAreExpanded` says nothing of them; `FUNCTION_MAX_ARGS` commas write behind `new_argv`; a submenu
  of a menu whose `visible if` fails can be jumped to and is empty; `conf` at the end of
  its input asks for an integer without default for ever; a menu that was scrolled and then
  gets more lines is printed from its old first item; a menu, a radio list, an input line or a
  question that is resized shows its first button as selected, while Enter acts on the one that
  was chosen before (`menubox.c:265`, `checklist.c:189`, `inputbox.c:82`, `yesno.c:63`;
  `ButtonIsLit` excepts it until a button is chosen again). Without modules a
  comparison with `m` reads as one with `n`, and one rule of `expr.c` then changes a value.
  The models are of inputs without these, or except them by name.

## What is proved

All theorems are for every value of the constants that meets the named assumptions,
and for behaviours of any length.

| Module | Theorem | States |
|---|---|---|
| `NpcProofs` | `TypeCorrect`, `PhasesKept` | registers keep their widths; the core is always in a phase of the protocol, with a reset in any cycle |
| | `BusIsExclusive`, `RequestsOfPc`, `WritebackIsCurrent` | the three invariants of `npc_core` |
| | `CoreImplementsIsa` | out of reset, the core implements the ISA of NEMU, for programs of minirv instructions |
| `NemuProofs` | `PoolIsPartitioned` | the two lists partition the pool, for a pool of any size |
| | `MonitorTyped`, `WatchpointsAreCurrent`, `RunsAgree` | types; no watched change of registers is missed; no step after a difference, no comparison skipped but for the instruction that asked for it, with the debugger's two exceptions |
| `DeviceProofs` | `DevicesTyped`, `RingIsAFifo` | types; the key ring implements `BoundedFifo` |
| | `MemoryIsApart` | what is stored is found at its address and in its device only |
| `LinkProofs` | `CallsTakeEffect` | each command of a call of `difftest.h` is executed by QEMU once, whatever is damaged and sent again |
| `NativeProofs` | `KeysInOrder` | keys arrive in the order typed until the ring is lapped |
| | `SoundIsExact` | until two updates of `count` overlap it is what the pipe holds and nothing is cut short; whatever overlaps, sound is played as written until something is cut short or the callback asks for more than SDL |
| | `FramesAreKept` | a signal or trap gives back what it interrupted, on the stack and in the address space it had |
| | `SpacesAreOwn` | user code runs on the mappings of its own space, until a page is mapped twice |
| | `CardIsADisk` | what the driver reads from the card is what was written last, until a read of the extended CSD fails |
| | `ProcessorsStartOnce` | no processor enters before the devices are set up, once, and each gets its byte |
| `AmProofs` | `ContextsAreApart` | every context lies in its thread's own stack |
| | `ThreadsAreKept` | the context extension implements `Threads` |
| `LibraryProofs` | `RoutinesAreExact` | the 64-bit arithmetic returns what C says, for words of any size that is a power of two and all operands |
| | `CallsAreC` | the string functions, `atoi` and `printf` with `%c`, `%s`, `%d`, `%u`, `l`, `ll` and `%%` do what C says, for every memory, string, block and format of items, with the exceptions `KlibIsC` names and what it says of each |
| `KconfigProofs` | `ConfigIsKept` | the last saved configuration is complete on disk at every moment of the next save, whatever crashes |
| | `NoObjectIsStale` | an object make takes for up to date was compiled with the values of the header, unless it was compiled between the renames of `autoconf.h` and of `auto.conf` |
| | `ScreenIsTrue` | rows, highlight, input field, cursor and lit button on the screen are those the next key acts on, whatever was pressed; excepted are the rows and the button of a dialog that was resized, as the property names them |
| | `PlaceIsKept` | a key moves the text viewer as far as it says, whatever the pointer, the flags and the page lengths went through |

*The core.* That the data port is idle while an instruction is fetched depends on what
the LSU, the WBU and the PC unit did up to four cycles ago, and each of them only knows
its own registers. The inductive invariant is `TypeOK /\ PhaseInv`: a
disjunction of phases (start, fetch, decode, access, answered, retire), each of which fixes all
handshake registers and, from the fetch on, ties the instruction register to `imem[pc]`.
One lemma per phase says which phases an edge leads to; `Reset` leads to the first
from anywhere. The refinement goes by the same phases: the edge that retires executes a
register instruction or the end of a load, the edge that answers a store executes it, and every
other edge is a stutter. The lemmas on words in `NpcProofs` show that the
lanes the LSU selects and merges are the word that `vaddr_read` and `vaddr_write` see. The assumption
`MinirvOnly` says that programs consist of the eight instructions both machines implement.

*The pool.* The lists are pointers. The invariant `PoolInv` names the two sequences they
spell: there are `k`, `s`, `j`, `t` such that `next` from `head` spells `s`, from `free_` spells
`t`, and the two are apart and together the whole pool. Setting and deleting moves one
structure from one sequence to the front of the other. That the walk from a head
reaches exactly the structures of its sequence is shown by a least index that it does not
reach.

*The monitor.* `WatchpointsCurrent` follows from being current at the places where no
instruction is under way, `RunsInAgreement` from what the place in the loop says of the
state: which machine is ahead, whether the run is aborted, and where a skip comes from. The
latter assumes a differential test. `masked` records what the code does not remember: that a
device was looked at since the last comparison, or that a stop replaced an abort.

*The devices.* An index of the ring wraps at most once per step, so that `%` is a case
distinction; with it the contents of the ring as a sequence lose their head or gain an
end. *The memory*: the invariant `MemInv` has the maps and their pieces of the I/O space
apart, and all three objects of the host agreeing with what the guest stored last; an access goes
to consecutive bytes of one of them (`Targets`), and a store into one changes no other.

*The GDB link.* `LinkInv` says whose turn it is, in six phases (`Resting`, `Sending`,
`Refused`, `Resending`, `Replying`, `Asking`), each of which fixes the bytes under way in both
directions; `TodoInv` says which commands of the call are left, and `Behind` how far QEMU is
behind the calls with that many commands to go: instructions to step, pieces of memory
to write. Damage leaves the phase alone, since it changes a checksum only.

*The native platform.* `KeyInv` has the keys typed so far as those the program got and those the ring
holds between its two indices; an index wraps at most once per step. `AudioInv` has two
parts. `BytesOK` follows the bytes, whatever `count` says: those played, those in the stream of
SDL, those in the pipe and the rest of the buffer being written are, in this order, those the
program wrote. `CountOK` holds until two updates overlap: `count` differs from the length of the
pipe by what the two sides have moved and not yet counted. `CpuInv` says who has been forked, who
has read its byte of the pipe, and what has become of the devices.
`CtxInv` says that every task has a kernel stack of its own for its frames and that the
processor's struct has the stack and the address space of the task that runs: `setup_stack` finds
its way by these alone. `VmInv` says that the mappings of a space form a list that ends, that the
walk along it meets every mapping the space knows of (by a least distance from the end, so the set
of pages is assumed finite), and that the mappings of the host are those of the current list.

*The SD card.* `SdInv` says in which of six phases a request is (`Resting`, `Counted`, `Sent`,
`Moving`, `Moved`, `Stopped`), that the words moved, the words left of the block and the blocks
to come add up to the request (`Progress`), and that the buffer, or the image, holds so far the words
moved (`ReadSoFar`, `WrittenSoFar`, `CsdSoFar`). Of the MMC core it assumes that requests lie
within the card, that the data of a write fills its scatter list, and that the extended CSD is asked for
as one block.

*Contexts.* `AmInv` says in which of four phases the processor is (in the program, at the trap, at
the handler, at the return), that frames and kept contexts lie in their own stacks with
enough room, and what each holds. The refinement maps each
thread through the place its context has at the moment.

*The arithmetic.* Here the claim is about what a loop computes, so an induction is needed. The
theorem modules only have it for an operator, which the provers cannot instantiate; but that every
set of natural numbers has a least member is a theorem about sets (`NatLessThanWellFounded` with `WFMin`), and
with it a set that has 0 and every successor of its members has them all (`Induction`). From this follow
the laws of `Pow2` and two rules for `Loop`: what an iteration keeps holds at the end, and the loop has ended there
if something got less with every iteration (`LoopRule`), or if it was counted (`LoopCount`).
Each loop then has its invariant. `__udivmoddi4` after moving out `2^k` values: the dividend is
`((2y + carry) d + r) 2^k + x`, where `y` are the bits of the quotient so far and `x` those still in `q`
(`UdivInv`); the sign of `d - r - 1` says which of the two is larger although `2r` has lost a bit
(`BorrowIs`), which is true because the loop starts only where the divisor is less than half of all
double words or only one bit is left (`Divisible`). That the start is right follows from the zeros counted: `clz` and `ctz`
halve the part with the bit (`ClzKept`, `CtzKept`). In `div.S` the divisor is moved left until it is not less than
the dividend or negative, and dividend, remainder and the bit that is next add up on the way back
(`AlignInv`, `SubInv`). The products keep accumulator plus product to come, up to a multiple of the
modulus (`MulInv`, `LowInv`; the bits leaving the low word are what `multi3.c` counts in `high`). That `Bits` is a power of two is
what the search of `clz` needs; 32 is one.

*klib.* The same two rules for loops, on memory. A copy upwards has so far moved the first bytes and left
the others (`Copied`), one downwards the last bytes (`CopiedLast`): the byte that is read next is
still the old one because `dst` is the lower one, or the higher, or the blocks are apart. The
end of a string is the least zero from its start, and a comparison stops at the first byte that
differs or is the end of one (`Agree`, `Shows`): that is the order of the two strings as sequences.
`strncmp` compares what is before the end of a string, or `n` bytes (`StartsAt`): going beyond that means that
it has met equal strings (`AgreeBeyond`), so that but for `RunsOn` it stays in memory. What `atoi` has after
`k` digits is the value of the first `k` (`IsValue`), and the run of digits it stops at is the one `Number` chooses. The digits of a number that `vprintf` takes off at the
end, reversed, are those by position, as many as the least power of ten above the number asks for
(`IsLength`). A format is laid out item after item (`Layout`): for each item,
the character it starts at, the arguments taken, the text and the count so far; the loop of `vprintf` is
between two items or inside of one, with what it has seen of it (`OnItem`), and an iteration moves it on
(`Moves`). What `FlattenSeq` makes of the parts is the last of their prefixes (`ArePrefixes`). The assumption
`KlibAssumption` says that calls are such as C allows, those of the exceptions among them, and that an `int` is narrower than a `long long`; of
`Overflowed` it says only that it is a text.

*Build.* The saved configuration is always under one of two names (`SavedOnDisk`); an object's
dependencies were touched (`Announced`) or its values are those of the header (`Compiled`).

*Dialogs.* `DialogInv` has one part for each dialog. A list (`Placed`) is never scrolled past its
end and its highlight is on a row: then `wscrl` and the one line printed after it keep all
rows, and a page is a run of such steps (`Pages`, by a least step that fails). A resized menu may be
printed from an item other than the one it is scrolled to, so its rows are right while the two
agree (`MenuInv`). An input line's field is the string from `show_x` on, padded (`InputInv`).
Every key keeps the button and the one shown as selected, sets both, or is a resize (`ButtonStep`).
A text that ends in a newline and starts on the screen at line `p` has its pointer at
`p + boxh` or the end, `end_reached` when it ran into it, and a page length that says after how many
lines (`Paged`); back from there every key is arithmetic. That the results of a search end in a
newline (`get_relations_str`) is assumed. The proof also says what `DialogInv` needs of its
constants: lists of natural numbers, and at least one row, column and line.

*Only model-checked:* the liveness properties (`RetiresForever`, `BatchExits`, `StepReturns`,
`GuestIsServed`, `CallsReturn`), which need fairness and `ENABLED` and are out of the
prover's reach; the functions of `Expr` and of `kconfig` (conditions,
macros, dependencies, text, menus, search), and the invariants of the sessions of `kconfig`
(`ValuesAreDefined`, `SavedReadsBack`, `FileIsCurrent`, `AsksOnce`), whose every call evaluates symbols: they
rest on recursive operators over trees and texts.

## What is not modelled

`PROJECT.json` gives the reason for each component. The reference side of the
differential test drives an external emulator, and `ref.c` is empty. Serial is pure
output; audio and disk of NEMU have no behaviour in this commit; `trace.c` is
commented out. Parsing of arguments, ELF files and images, printing and statistics, the skeletons
for other ISAs and platforms, the random test generator, linker scripts, and vendored headers
are left aside. `difftest_skip_dut` has no caller. Of kconfig, the characters and tokens of the lexer, the
graphical front ends, colours and layout are left out, and a symbol is defined at one place.
`menu_is_visible` gives a symbol that is on but not visible the mark of the user's
(`menu.c:667`), a side effect `KconfigSearch` leaves out. A save that opens `.config` in place,
without a temporary file, is left out too: it wants `KCONFIG_OVERWRITECONFIG` in the environment
(`confdata.c:851-854`), which nothing in the repository sets.

## Plan

Done, most important first: the core and the ISA it refines; the pool and the monitor;
contexts; the devices, the memory, the GDB link and the SD card; the native platform; the
functions; the configuration tools, from symbols and files to menus, dialogs and the build;
the proofs above.

What would come next:

1. The rest of RV32IM in `MinirvIsa`, with `ecall`, `mret` and the trap CSRs shared
   with `AmContext`.
2. Nested menus in `KconfigSymbols`, with the visibility through children that
   `menu.c:667` depends on.
3. The start of processors and page tables on x86.
