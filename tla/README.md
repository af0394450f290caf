# Specification of VegaOS

TLA+ models of the VegaOS kernel (`src/sys/kernel`), the TLC configurations that
check them, and theorems about all six of them that TLAPS proves. Every definition is
taken from the C and assembly sources; `PROJECT.json` gives for each the lines it
stands for.

VegaOS is a small kernel for amd64 and aarch64, started by the Limine bootloader.
It sets up physical memory, exception tables and page tables, prints what it does
on a framebuffer, and waits. One processor runs it; interrupts are never enabled by
the code there is. What makes it hard is therefore not threads. It is loops that
have to keep two indices or two structures in step, a hardware that looks at the
same tables at any moment, exceptions that interrupt every step including the
handling of exceptions, and resources whose end is not tested.

## 1. Inventory

Paths are relative to `src/sys/kernel`.

| Component | State | Operations | Correct when |
|---|---|---|---|
| Physical memory manager: `mm/pmm.c`, `utils/bitmap.c` | bitmap, its place, `bitmap_start_bit`, the bootloader's memory map, which it edits | `pmm_init`, `pmm_alloc`, `pmm_free` | only usable RAM is handed out, none twice; requests are met when they can be; calls end |
| Page tables: `aarch64/mm/mmu.c` | tables in physical memory, root registers, TLB | `aarch64_map_page`, `aarch64_unmap_page`, `aarch64_translate_vaddr` | a call changes the page asked for and no other; the tables stay a tree; the TLB never holds what nobody asked for; all of this until `pmm_alloc` grants a frame twice |
| MMU registers: `aarch64_mmu_init` in the same file | `mair_el1`, `tcr_el1` | one pass at boot | the fields agree with what the walks assume |
| Direct map: `mm/vmm_hddm.c` | the offset Limine gives | address arithmetic | - |
| Kernel log: `core/printk.c`, `include/sys/printk.h` | local colour, argument list | `printk`, `vprintk`, `handle_format`, `kinfo` | the text asked for, in the colours asked for |
| Number conversion: `hex2str`, `dec2str` in the same file | two static buffers | - | the text reads back as the number; calls end |
| Text terminal: `pty/core.c`, `pty/font.c` | cursor | `pty_putstr`, `pty_putch`, `newline` | the screen shows the text, at any moment and whatever is interrupted |
| Framebuffer: `dev/video/fb.c` | words of memory | `fb_putpix`, `fb_clear`, `fb_assert` | nothing outside the screen is written |
| Start: `core/init.c` | - | `_start`, `arch_init`, `get_board_info` | each step finds what it needs |
| Exceptions: `amd64/idt.c`, `amd64/exceptions.c`, `aarch64/exceptions.s`, `core/panic.c`, `aarch64/pal.s`, `include/sys/pal.h` | table registers, IDT, interrupt mask, stack | registration, delivery, `panic`, `halt` | every exception is reported, none resets the machine, a panic is final |
| Segments: `amd64/gdt.c` | constant table, `gdtr` | `gdt_load` | the segment the gates name can run a handler |
| Memory functions: `posix/` | - | `memset`, `memcpy` | - |

How they interact. `_start` prints, calls `pmm_init`, then `arch_init`, then waits in
`halt`. `printk` calls `pty_putstr` for each piece of text, and that calls `fb_putpix`
for each pixel. `mmu.c` takes tables from `pmm_alloc`. `pmm.c` and every exception
handler end in `panic`, which prints through `vprintk`, masks interrupts and halts.
Everything is a direct call; the only other actors are the processor, which walks the
page tables whenever it likes and raises exceptions at any step, and the devices that
raise interrupts.

`PROJECT.json` lists the hazards, each at its line.

## 2. Modules

| Module | Models | Checked by | Proofs |
|---|---|---|---|
| `FirstFit` | what callers of `pmm.c` may count on: the lowest free run, or a refusal only when there is none | refinement target | |
| `Pmm` | `pmm.c` | `MCPmm`: pmm, pmm_size, pmm_double_grant | `PmmProofs`, `FirstFitProofs` |
| `AddressSpace` | what callers of `mmu.c` may count on, until the promise becomes void: a function from pages to what they are mapped to | refinement target | |
| `Mmu` | `mmu.c` with the processor's walk and TLB; takes frames from `FirstFit` (by INSTANCE) | `MCMmuSpace`: mmu_space; `MCMmu`: mmu_twice, mmu_half, mmu_tlb, mmu_oom | `MmuProofs` |
| `MmuInit` | `aarch64_mmu_init` | no run | `MmuInitProofs` |
| `Messages` | what the kernel prints: the calls of `printk` that its messages come to | read by `Console` | |
| `Console` | `printk.c`, `pty/core.c`, `pty/font.c` and `fb.c` together, with the panics that interrupt them | `MCConsole`: console | `ConsoleProofs` |
| `NumFmt` | `hex2str` and `dec2str` | `MCNumFmt`: numfmt | `NumFmtProofs` |
| `Traps` | start, segments, exception tables, `panic` and `halt` of both ports | `MCTraps`: traps, traps_halt | `TrapsProofs` |
| `Arithmetic` | lemmas the proofs share: least elements, division, functions defined by recursion | | itself |

Operators named `Bug_...` are not part of a model: each is a plausible mistake in the
definition that follows it, used to see that a property notices.

### Pmm

Addresses and lengths are counted in page frames, which is exact because Limine
aligns usable entries. A bit has the number of the frame it stands for; `zeros` is the
set of bits that are 0, including those that happen to be 0 outside the bitmap
(`Garbage` is what RAM held at boot). `mmap` is the bootloader's memory map, which
`init_bitmap` shortens in place; `bootmap` remembers it as it was.

`init_bitmap` is split at its loops: `SizeBitmap` or `NoUsableMemory`;
`CarveNext`/`CarveTake`/`CarveNone` for the first loop, one entry a step;
`ReleaseEntry`/`ReleaseNext`/`InitDone` for the second. `pmm_alloc` is one iteration a
step: `ScanGrow`, `ScanFound`, `ScanReset`, `ScanFail`, with `InRange` computed from
the memory map each time, as the loop condition does, although the map has changed
since the bitmap was sized. `ScanNull` is the read through a bitmap that was never
placed. `pmm_free` is `Free`, called by those who hold a run.

### Mmu

The memory holds tables of descriptors; a descriptor is absent, a table or page, or a
block. `Map` and `Unmap` enter the two functions, `Descend`, `Missing`, `AllocTable`,
`ClearTable` (or `ClearFaults`), `LinkTable`, `WriteEntry` and `Invalidate` are the
writes they do, in order. Between any two the processor may look a page up and keep
what it found (`TlbFill`) or drop it (`TlbEvict`). `HwWalk` is the lookup of the
architecture, `translate_vaddr` the one in the source. The `memset` of a new table goes
through `Identity`, the page whose virtual address equals the frame's physical one,
because the source passes it the physical address; that access is translated like any
other, through tables the calls themselves change. `Map` does not look at the page size it is given, and neither does
`aarch64_map_page`.

`pmm_alloc` in this module is that of the program: it grants the lowest free frame and leaves it free, because
`pmm.c` sets no bit. The second table that is allocated since boot is therefore the frame of the first. `granted`
counts the grants, up to two; it is a history variable that no step reads. `Once` says that there has been at most one, and
the properties that frames granted twice destroy are promised under this condition: `TablesApart`, `TranslateAgrees` and `TlbKnown` name it,
and `AddressSpace` has a variable `void` for it, with a step (`Void`) after which it promises nothing.

### MmuInit

A register is the set of the positions of its 1 bits. `Shifted` is C's shift in a type of 32 or 64
bits, `Widened` what becomes of an `int` that is or-ed with a `long`. `WriteMair` and `WriteTcr`
are the two writes. What the bootloader left in attribute 1 of `mair_el1` and the address size the
processor reports are open.

### Messages and Console

A call of `printk` is a sequence of parts and a list of arguments. `Console` lays the parts out as
characters (`Encode`) and then reads them as `vprintk` does; `expected` is what the calls ask for,
computed from the parts, `out` what was put out. On amd64 a `va_list` is an array and advances in
its caller when it is passed on; on aarch64 it is a structure passed by value and does not.

`pty_putch` is one column a step (`PaintColumn`), `newline` one store a step, in either order,
because a compiler may exchange them. `DEFAULT_FONT_DATA` gives the glyph and the column an index
of the font stands for; which bits are 1 is left open, so that `Dot` names a pixel by glyph,
column, row and colour. `mem` is the framebuffer's memory by words, at the index of `get_index`,
whose lines are `pitch` bytes long; `Shown` is how a display reads it. On either port the
bootloader may give no framebuffer.

`Exception` may come between any two steps of a call once the exception table is loaded (the last
`late` calls; before that, `Traps` says where an exception leads). It abandons the call and all
that was still to be printed and has the calls of `panic` made instead, with the cursor and the
memory as they are. `origin` and `base` remember where the message starts and what was on
the screen.

### NumFmt

The two buffers as arrays that keep their old contents between calls, the digits written
last first, the prefix and the terminator behind them, and the reversal one swap a step.
`i` is a `uint8_t` and wraps at 256. `Exception` leaves a conversion half done, with the buffer as
it is, and the panic converts its own numbers in the same buffer.

### Traps

`pc` goes through the steps of `_start` and `arch_init`, one registration of a gate a
step. At any step an exception may be raised (`Fault`), a non-maskable interrupt arrive
(`Nmi`), or, once something has called `global_irq_enable`, an external interrupt
(`Irq`). `Gate` is the delivery of amd64: a gate is `Enterable` when its entry, as `set_desc` wrote
it (`GateFor`), is present and of the right type, and when the descriptor its selector names
is a 64-bit code segment (`LongCode`), read from the bootloader's table or, after `LoadGdt`, from
`gdt.c`'s. A gate that is not is itself an exception, 13, and if that is raised while a severe one
is delivered, a double fault; with no gate for that the machine resets. `Enter` puts a frame on the
only stack. No handler returns.

## 3. What the runs show

Distinct states in parentheses. TLC finishes `pmm` and `mmu_space` in a minute or two and each of the others within
half a minute.

**pmm** (436696). Every memory map of up to three entries in 8 frames, usable or
reserved, touching or not (but see "An entry used up" in section 6); bytes of 2 bits and pages of 2 bytes, so that one frame of
bitmap describes 4 frames and sizes of one and two frames occur, and memory ends on and
off the boundary of a byte; two callers, requests for 0 to 3 frames; RAM that held only
ones or only zeros. `FreeIsUsable` and `HeldIsUsable`: what is free, and what is handed out,
is usable RAM outside the bitmap. `StartsAtFirstFree`: the start of the search lies
neither above nor below the first free frame. `LargeSegmentsKept`: no segment twice as
long as the bitmap is lost. `ClearsInWholeBytes`: where memory ends on a whole byte of
the bitmap, no bit outside the storage is cleared. `FirstFitPromise`: the scan implements
`FirstFit`; a bitmap that found no place counts as no free frames, and the fault of its first use as a refusal.
`FirstFit` says which answers are right and not that there is one: that is `AllocReturns`, every scan ends. Three
entries are enough for the bitmap to be cut from the first, the middle or the last, with a longer or shorter one on
either side; the proofs of section 5 remove the bound for the invariants they name.

**pmm_double_grant, pmm_size** (violations). `pmm_alloc` does not set the bits of what it
returns, so that two callers hold the same frames (`HeldApart`); the size of the bitmap
is divided by 8 rounding down, so that up to 7 frames at the top of memory have no byte
(`ClearsInStorage`).

**mmu_space** (429570). `MCMmuSpace` adds to `MCMmu` that TLC evaluates `BootSound` and `BootBlocks`, what the theorems
of section 5 assume of the bootloader's tables. Tables of two entries on four levels, four target pages of the
higher half: one whose tables are all there, two of one last table that is missing, and one that misses two tables. The
lowest free frame is mapped by a page, by a block, or there is none; the free frames hold what looks like tables; callers
map a page whose contents look like one; and the TLB is modelled for two pages, one behind either table that may be made first. `TablesApart`: the tables on the way to the
targets form a tree that no other address reaches into. `TranslateAgrees`: software and hardware read them alike.
`TlbKnown`: no half-built table is ever visible. `AddressSpacePromise`: the processor's view
of all 32 pages implements `AddressSpace`. All four hold until a frame is granted for the second time, that is, for
mapping and unmapping in any order in tables that are there, and while the first missing table is made and used. The
7974 states up to that moment are what they say; beyond it, where all four would be false without their condition,
there is only `TypeOK`. Levels differ only in their number, and two
entries distinguish the index used from another, so more would add nothing but room.

**mmu_twice** (violation). A page on whose way two tables are missing is mapped: the second is the frame of the first, which
becomes its own next level, and the entry written last replaces the link (`MapTakesEffect`). It takes one call from
boot.

**mmu_half, mmu_tlb, mmu_oom** (violations). A lower-half page with bit 37 or above goes
into the tables of the higher half (`MapTakesEffect`); `invalidate_page` leaves the TLB
alone (`NoStaleTlb`); the panic for lack of memory is never reached
(`AllocFailurePanics`). None of the three needs a frame that is granted twice.

**console** (91113). All formats of up to four parts out of six (a colour, an invalid one, a character, a line end, a
conversion with an argument, an unknown conversion), and all pairs of formats of up to two parts, so that what one
call leaves behind reaches the next. At most two conversions a format on amd64 and one on aarch64. The screen is two
and a half characters by two and a half lines, so that glyphs are cut at both edges and text leaves the screen; lines
are as long in memory as on the screen, or longer by a word. Two exceptions at any step of some of these calls, so
that the message of a panic is itself interrupted. The messages of the boot of either port, for a board that is known
and one that is not, on a screen they do not fit on, with one exception at any step after the exception table is
loaded. A machine without a framebuffer. `ScenarioAssumption` is what all of these have in
common, and what the theorems assume of a caller: characters the font has, an argument for each conversion, at most
one conversion a format on aarch64. `TypeOK`: no other character is put out. `PrintedAsAsked`: each call puts out what it asks for. `ScreenShowsText`:
at every step the screen shows the text put out so far and beside it what was there before, also for the message of a
panic. `StaysInside`: no word outside the visible part of a line is written. `CallsReturn`: printing ends.

**numfmt** (440761). Any sequence of calls of both functions, so that a buffer holds the text of
any earlier call, with 11 arguments of 12 bits: 0, the ends of the range and the numbers around
which a digit is added; one exception at any step. `ReadsBack`: what is returned spells the argument. `CallEnds`.
Texts of even and odd length and of one digit all occur; further digits repeat the loop. `RoomAssumption` says that a
buffer has room for the arguments: 64 bits are 16 or 20 digits, and a buffer has 80 characters.

**traps** (1819). Both ports, eight exceptions of amd64 (with and without a gate, benign, severe,
double fault) and four classes of aarch64, up to four at any step, a stack that holds three
frames. `NamesTheException`: a panic reports the last exception raised. `NoReset`: once the
double fault has its gate, nothing but a full stack resets the machine. `StaysHalted`: on amd64
only a non-maskable interrupt ends the wait of a panic. `ComesToRest`: in the end the processor waits, or is
where nothing leads back from. Three frames let a panic about a panic
be interrupted again, and the fourth exception meets the full stack.

**traps_halt** (violation). On aarch64 the wait ends at the next pending interrupt, masked or
not, and the branch behind it goes to address 0 (`FullyHalted`). The comment it is measured by
stands above the definition for amd64; it is the only one that says what `halt` promises.

Deadlock is not checked except in numfmt: a kernel that has panicked, faulted, been reset or run
out of the calls the model gives it really stops.

## 4. Fairness

Safety needs none. Liveness rests on weak fairness of the kernel's own steps: `init_bitmap` and `Scan` in `Pmm`, the
steps of a call that has begun in `NumFmt`, `Kernel` in `Console` and in `Traps`. The code justifies it in the same
way everywhere: there is one processor, each of these is one sequential piece of code, nothing schedules anything else
in its place, and an exception that interrupts it is a step of its own of which a run has boundedly many. That bound is
what `CallsReturn`, `CallEnds` and `ComesToRest` assume of the environment: exceptions cease. No fairness
is put on callers or on the hardware: nobody has to allocate, free, print, enable interrupts or raise anything. `Mmu`
and `MmuInit` state no liveness: their only loops go over a fixed number of levels.

## 5. What is proved

`tlapm` checks eight modules to the last leaf. The results hold for every value of the constants that
satisfies the named assumptions, not only the small ones of the runs. Every invariant the passing runs check is among
them, and so are both refinements.

The inductive invariants stand in the module they are about (`IInv`), so that TLC can evaluate them too; that of
`Console`, which speaks of what is left of a format and of the cursor, is in `ConsoleProofs`.

Several proofs have to say what a function defined by recursion computes (`Left`, `Value`, `FlattenSeq`, `PlacesOf`). They do it
without an induction rule: `Recursion` (in `Arithmetic`) builds the function from its steps, and a property of all its
values is shown at the least index at which it could fail (`LeastNatural`).

### PmmProofs

Assumptions: `WidthAssumption` (bytes and pages are not empty), `MapAssumption` (the memory maps are
those the boot protocol allows: usable entries are not empty, do not overlap, are sorted and leave out frame 0),
`BitsAssumption`, `CallAssumption`, `NullAssumption` (types).

`TypeCorrect`, `FreeFramesAreUsable` and `HeldFramesAreUsable` follow from `Inductive`: `IInv` always
holds. None of the three is inductive by itself:

- `FreeIsUsable` has to survive the second loop, so it must be known that each entry still lies inside the
  bootloader's and that the bitmap was cut out of one of them: `PlacedInv`. The frames of
  another entry are then disjoint from the storage because the entries were (`CutFramesAllocatable`).
- `HeldIsUsable` has to survive `ScanFound`, so the run that is growing must consist of free frames
  inside the storage: `ScanInv`, the loop invariant of `pmm_alloc`.
- `ScanInv` has to survive `ScanGrow`, so a bit that passes the loop's test must lie in the storage.
  But that test computes the size of the bitmap again, from the memory map that `init_bitmap` has
  edited. `SizeInv` says the size in use is that of the original map; `CutKeepsEnds` that the cut changes no
  entry's end, `HighestEnds` that the entry with the greatest base is also the one that ends
  last, and `SizeOfCutMap` combines them: computed again, the size is at most the real one, even if the cut
  makes another entry the highest. `ScanStaysInside` is the consequence.

That some entry has the greatest base at all needs the well-foundedness of the naturals
(`LeastNatural`, `HighestExists`).

Three more theorems rest on `IInv`:

- `SearchStartsAtFirstFree`. `StartInv` says that the start is the base of an entry already released. The entries are
  still sorted after the cut (`StillSorted`), so that whatever is released later lies above. A run that is given
  back must not lie below it either; it does not, because it was free when it was found and pmm_alloc leaves it so
  (`FoundRun`).
- `LargeSegmentsAreKept`. `Released` is the invariant of the second loop: each entry passed that is as long as the
  bitmap is free. A segment twice as long still is when the bitmap has been cut from it (`LargeSurvivesCut`).
- `ClearsOnlyStorage`. Where memory ends on a whole byte, the size rounded up has a bit for every usable frame
  (`BitsEnough`, `MemoryInStorage`), and only usable frames are cleared.

### FirstFitProofs

`ScanIsFirstFit`: `Spec => FirstFitPromise`. Assumed in addition: `NoneUsedUp` of every memory map, that is, the bitmap
does not fill an entry to whose end another usable one is joined (section 6 says what happens then; bootloaders merge such
neighbours). `init_bitmap` publishes the free frames with its last step, `ScanFound` is `Grant`, `ScanFail` and
`ScanNull` are `Refuse`, `Free` is `GiveBack`, all other steps are stutters (`StepRefines`). It rests on `IInv` and:

- `LowInv`: no run that is long enough starts below the one the scan is following. At a hole it survives because
  any run that starts below the hole and is long enough would reach across it (`RunCoversBit`); at the beginning because
  nothing is free below the start of the search (`StartInv`).
- `Passed`: what `pmm_alloc` computes from the edited map is exactly the size of the bitmap. `PmmProofs` needs only that
  it is not more; a refusal is right only if the scan has looked at all of it (`CutKeepsSize`, `FailIsRefusal`).

### MmuProofs

Assumptions: `ShapeAssumption`, `TableAssumption`, `CallerAssumption`, `NullAssumption` (types); and, as hypotheses of
the theorems, `BootBlocks`: the bootloader's blocks lie in memory; `BootSound`: its tables are not free memory, the ways to the
target pages form a tree and map none of them yet, each target is looked up in the half it lies in, and free memory is
mapped at its own address by pages or blocks that callers do not map anew. `mmu_space` evaluates both, so that they can be
met together. Nothing is assumed of the allocator but what `pmm_alloc` does.

The invariant `IInv` has two parts. `TypedInv` holds however often frames have been granted and whatever has become of the
tables: the types, `PhaseInv` (a call that is under way has arguments and a level) and `BlocksInv` (what is read as a block lies
in memory, since no call writes one: without it a lookup could leave memory). From it `TypeCorrect`, for which only
`BootBlocks` is assumed. `TreeInv` holds while `Once` does (`Inductive`): `TablesApart` and, each because the others need it,

- `CallInv`: the call in progress stands at the table its address leads to, so that a write changes the entry meant;
- `NextInv`: the frame it has been given is the first that was granted, is on no way yet, and is empty before it is linked;
- `PlacedInv`: before the first grant no frame of the pool is on any way, so that the first grant is not a table in use;
- `TargetInv`: every entry on the way to a target leads on or is absent, and the last holds what somebody asked for;
- `OtherInv`: all other pages are mapped as at boot, the ones through which tables are cleared among them
  (`ClearReaches`: the `memset` through the physical address does clear the frame it is meant for);
- `TlbInv`: the TLB holds nothing but that.

What bounds `Once` is one grant and not one call: any number of calls come before and after it. The proofs use the grant in one place (`AllocTableStep`);
for an allocator that marks what it grants only `NextInv` and `PlacedInv` would have to be said with "free" instead of "granted".

`TableOf` is the way to a page, level by level, and the lemmas say who sees a write: a way that does not pass the entry is
the same (`SameWay`), the tree says who does (`WhoPasses`), and what is behind the entry is what was linked
(`LinkedWay`, `LastEntry`). `TablesStayApart` and `TlbHoldsKnown` are conjuncts of it or follow at once;
`SoftwareAgrees` compares the two walks on the ways that `TargetInv` leaves possible. `ImplementsAddressSpace`:
`Spec => AddressSpacePromise`. `LinkEffect` and `ClearEffect` show that the writes before the last change what the
processor finds for no address, `WriteEffect` that the last changes it for one; `MissingFinds` that unmapping a page
without a table has nothing to do. The step that grants a frame again is `Void`.

### NumFmtProofs

Assumptions: `BufferAssumption` (5 to 255 characters, since `i` is a `uint8_t`) and `RoomAssumption`. `TypeCorrect`: the indices stay
in the buffer, and the arithmetic on `i` never wraps. `Readable`: `Spec => []ReadsBack`. `DigitsInv` says that digit k
is the remainder of what was left of the number after k divisions and that what is left is not 0 before the last;
`ReverseInv` that the characters outside `j .. i` have changed places and those inside have not, which both an even and
an odd length bring to the end. The text is then the digits read from the front (`TextIs`, `DigitsAre`), and reading them
goes back through the numbers that were left, up to the argument (`SpellsArg`). `buffer` is arbitrary
at every call: what an earlier, longer or interrupted call has left does not matter.

### ConsoleProofs

Assumptions: `FontAssumption` (a glyph is not empty) and `ScenarioAssumption` (above). There is no bound on the length of
formats, texts and lists of arguments, the number of calls and exceptions, or the size of the screen. `IInv` is:

- `DataInv`, the types;
- `TextInv`: while a call is under way, some part of its format has been reached, what is left of the format is the code
  of the parts behind it, the arguments left are those of these parts (on aarch64: all of them), and what has been put
  out, what is on its way to the terminal and what the parts behind ask for are together what was asked for;
- `StaysInside`.

A step of `vprintk` moves the first part behind to what is on its way (`Advanced`; `FirstCharacters` says that the code of
a part tells which kind it is), a step of `pty_putstr` its first character to what has been put out (`BeginStep`). An
exception starts the messages of a panic, which are calls like others (`PanicCalls`). From it `TypeCorrect`, of which the
point is that every character that reaches `pty_putch` has a glyph, `AsAsked` and `Inside`. For the last, a pixel that
passes the test of `fb_putpix` gives a word whose line and column are the pixel's (`WordInside`), because a line is at
least as long as the screen is wide.

`ShowsText` says that `ScreenShowsText` holds for any font, framebuffer and text, and whenever exceptions come. It is not
inductive: a column is painted at the cursor, and nothing in it says where the cursor is. `SInv` adds `CursorInv`, which
says that the cursor stands where the next character belongs, or where the one being painted belongs, or half way to
the next line when one of the two stores of `newline` is made and the other is not. Then

- a character more leaves the places before it as they are, and its glyph has no column yet (`PlacesKept`,
  `ScreenGrows`);
- a column painted changes its pixels and no other (`PaintedPixels`), because two pixels never share a word
  (`OneWord`), and what it writes is the entry of the font for that character and column (`EntryOf`);
- those pixels belong to no earlier glyph of the text (`PlacesApart`: what follows a glyph is right of it on its line, or
  a line below), whether the text has left the screen or not (`ScreenPainted`);
- after an exception the text starts at the cursor, with whatever is on the screen as what was there before
  (`ScreenStartsAnew`).

### TrapsProofs

Assumptions: `PortAssumption`, `FaultAssumption` (exceptions are numbered 0 to 255),
`RoomAssumption`. `TablesInductive`: types (`TypeCorrect`), `IdtInv` (the gates present are those registered so
far, each leading to the handler of its own vector), `PhaseInv` (a start has seen no exception;
a panic waits masked) and `NamesTheException`. From it:

- `PanicNamesTheException`, because all vectors that have a message are registered once the last one is,
  and a vector with a gate is delivered through it;
- `ResetsNeverAfterDoubleFault`, because with a gate for the double fault every one of the 256 vectors
  finds some gate (`GateFound`); the segment that gate names can run its handler, in the bootloader's
  table as in the kernel's (`SegmentFits`);
- `PanicStaysHalted`, from the mask in `PhaseInv`.

### MmuInitProofs

No assumptions. `RegistersFitTheWalk`: `FourLevels` (4 KiB pages and 48 bits of address in either half, which is what
the walks of `mmu.c` take for granted) and `MairSeparates` (the framebuffer's attribute is never that of ordinary memory,
and otherwise what the bootloader had set). The int terms are nine bits (`IntTermBits`); widening with the
sign changes none of the lower 32 (`LowHalf`).

`SignHidesSize` is about what does not come out as the source says. `0x02 << 30` is an `int` whose bit 31 is set; or-ed with
the two terms of 64 bits it is widened with its sign, so that bits 32 to 63 are all 1 and the address size is 7, which is reserved,
whatever the processor has reported (`mmu.c:263` puts the reported size there). And the shareability of both halves is 2, which is
outer shareable; the comments at `mmu.c:258` and `261` say "Inner shareable", which is 3.

This module has no run: both theorems hold for every value of its two inputs, and a run could only repeat some of them.

### Only model-checked

Liveness (`AllocReturns`, `CallEnds`, `CallsReturn`, `ComesToRest`) and fairness are out of the prover's reach.

## 6. Limits

What the passing runs leave out on purpose, because the code does not behave well there:

- **Frames granted twice.** `pmm_alloc` does not mark what it returns (pmm_double_grant). What `mmu.c` promises is promised
  until this bites, at the second table (`Once`); what happens then is mmu_twice. After that `TablesApart`, `TranslateAgrees` and
  `TlbKnown` are false of the program: without their condition mmu_space finds each violated. The processor can, for one, take
  a table's link for a page.
- **Bitmap not placed.** If no usable segment is as long as the bitmap, initialisation goes on, and the first
  `pmm_alloc` reads through a null pointer (`ScanNull`, which ends in "fault"). `AllocReturns` and `FirstFitPromise`
  count that as an answer, so that no property notices it.
- **Memory map not given.** `pmm_init` uses the response to its memory map request without asking whether there is one
  (`pmm.c:189`). `Pmm` begins with a map that was given.
- **An entry used up.** If the bitmap fills its entry exactly and the highest entry starts where it ends, both then have
  the same base, `find_highest_mmap_entry` returns the empty one, and `pmm_alloc` computes a smaller bitmap than there is
  and may refuse what is free. `MCPmm` leaves these maps out (`FillsUp`), because a bootloader merges neighbours of one
  type, and `FirstFitProofs` assumes that there are none (`NoneUsedUp`). `PmmProofs` does not: what is handed out is usable there too.
- **Blocks.** The bootloader may map by blocks. `next_level` and `aarch64_translate_vaddr` take a block for a
  missing table. The targets of the runs and theorems are pages that no block maps. For a page that one maps, `TranslateAgrees` is false
  at boot (software finds no translation), and so is `AddressSpacePromise` once it is mapped: the table that replaces the
  block is empty, and all other pages of the block are gone. The blocks of the lower half are
  there and are what the `memset` of new tables goes through.
- **Page size.** `include/aarch64/mm/mmu.h:80` says of the page size that `aarch64_map_page` "supports huge pages"; the function ignores it and
  maps one page of 4 KiB. So does `Map`.
- **Identity-mapped pages.** The targets do not include the pages through which tables are cleared.
- **Missing framebuffer.** `fb_putpix` reads through the null response before it asserts that there is one:
  `NoFramebuffer` faults, before any exception table is loaded.
- **Two conversions in one format on aarch64** both print the first argument, because
  `handle_format` receives the list by value. The scripts of that port have one; the kernel's own formats there
  do too.
- **Formats and texts** are complete and printable: none ends in `%` or in the escape, and no character is outside the font.
- **Numbers.** `dec2str` has an unsigned parameter, so that its test for a sign never succeeds; `NumFmt` has no
  sign. That `%x` reads an `int` argument as 64 bits is left out: the values passed are not negative.
- **Exceptions without a gate** on amd64 are delivered as another: a non-maskable interrupt is reported as
  "General protection fault". `NamesTheException` is about those that have a message.
- **Early exceptions.** Between `idt_load` and the gate of the double fault an exception resets the machine; before
  it, it goes wherever the bootloader's table says ("lost"). `Console` has exceptions only after the table is loaded.
- **Exhausted stack.** `ist` is 0, so that nothing can be delivered on a full stack; `NoReset` excepts it.
- **Half of an address.** `ttbr_index` tests bit 37 as well. Pages of the lower half above 128 GiB are mmu_half; the targets of mmu_space
  are pages that are taken for the half they lie in (`BootTargets`).
- **Interrupts on aarch64** have no entry in the table (`NoEntry`).

Not modelled at all: the byte loops of `memset` and `memcpy` (what they do to the bitmap, to a table and to a buffer is
part of the actions that call them), which bits of a glyph are 1, `fb_clear` (nothing calls it), the type
names and attributes of the basic headers, the requests of `limine.h` that the kernel does not make, the build. The direct map
is taken to stay mapped. More than one processor is not modelled because the kernel starts one.

## 7. Plan

The order was: physical memory first, because everything is built on it; then the page tables that use it; the
console, through which everything is seen; then start and exceptions; then the registers of the page tables, the
segments, the messages, and panics in the middle of printing; then the proofs, in the same order. What is left:

1. A composition of `Mmu` with the bitmap of `Pmm` instead of the free frames of `FirstFit`, and the properties of `Mmu` without
   `Once`, when `pmm_alloc` marks what it grants: until then there is nothing beyond the first table to check.

## 8. Running

    tlc -workers 2 -config pmm.cfg MCPmm
    tlapm PmmProofs.tla

and the same for `Arithmetic`, `FirstFitProofs`, `MmuProofs`, `MmuInitProofs`, `ConsoleProofs`, `NumFmtProofs` and
`TrapsProofs`. `PROJECT.json` names the module and the configuration of every run.
