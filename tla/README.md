# A TLA+ model of modOS

modOS is a small x86-64 kernel. It boots through multiboot, builds its page
tables, finds its interrupt controllers, mounts a tar archive as its first file
system, loads one user program, and serves that program's system calls, one of
which loads kernel modules. This directory holds TLA+ modules that model parts
of it, the TLC runs that check them, and proofs that TLAPS checks.

    tlc -config MCVm.cfg MCVm          check a run
    tlapm VmProofs.tla                 check the proofs about Vm; the other modules
                                       with theorems are listed under Proofs

## The system

| Component | State | Operations | Interacts with |
|---|---|---|---|
| Memory map (`mm/pm/parse_memory_map.c`, `setup_pm.c`) | the list of regions, the arena | parse, choose the largest region | gives the arena to the allocator |
| Physical allocator (`mm/pm/alloc_pages.c`) | `arena_head`, `arena_end` | `alloc_pages`; nothing is ever freed | called by everything below |
| Page tables (`mm/vm/map_pages.c`, `setup_vm.c`) | the tables in RAM, `toplevel`, CR3, three path caches | `map_pages`, `mapalloc_pages`, `setup_vm`, `set_toplevel`, `activate_toplevel` | allocates tables; called by `request_pages`, `init_madt`, `exec_process` |
| Virtual arena (`mm/vm/request_pages.c`) | `vm_arena_head` | `request_pages` | maps its pages; called by `kmalloc` and the loaders |
| `kmalloc` (`mm/vm/kmalloc.c`) | one block: base, offset, size | `kmalloc`; nothing is ever freed | called by the file layer and the loaders |
| ACPI (`acpi/`) | `state.madt`, lists of controllers, processors and legacy interrupts | search the RSDP, find the MADT, walk it | maps device registers; feeds the interrupt controllers |
| Interrupts (`apic/`, `idt/`, `irq/`, `traps/`) | redirection entries, IDT, tables of handlers | enable, register, dispatch, end of interrupt | hardware; a trap panics |
| File layer (`fs/`) | the tree of nodes, `gfids`, a process's `fdtable` | `walk_path`, `openat`, `do_openat`, `do_mkdirat`, `mkcdev`, `register_chrdev` | the tar files, drivers, system calls |
| Ram disk and tar (`ramdisk/`, `tar/`) | the archive's bytes | build the tree, read, write | the file layer |
| Programs (`proc/`) | `struct process`: mappings, stack, tables | `do_exec`, `exec_file`, `exec_elf`, `exec_process` | the file layer, memory, the page tables |
| System calls (`syscalls/`) | the table of calls | open, read, write, mkdir, mknod, lmod | the file layer, modules |
| Modules (`module/`, `modules/drivers/serial_com`) | the exported symbols, the driver's operations | `load_module`, `init_module`, open, read, write | the file layer, the serial port |

Little runs concurrently: the kernel has one processor, one process, and no
scheduler. Interrupts come between any two instructions of the boot once it has
enabled them (`Interrupts`), and a serial chip sends and receives while the
kernel goes on (`Serial`). Elsewhere what makes the code hard is not interleaving
but the length of the sequences: allocators that are never reset after a failure, caches that outlive
the tables they describe, results that no caller looks at, and limits that are
reached in the middle of a longer operation. Those are the hazards listed in
`PROJECT.json`.

What makes each component correct:

* allocator: it stays in its arena and gives no frame twice;
* page tables: they stay a tree of levels whose leaves are data, a call maps the
  pages it is asked for and no others, the kernel's half is out of the user's
  reach;
* virtual arena: what was granted is mapped, stays mapped, and is granted once;
* `kmalloc`: its allocations are disjoint and lie in granted pages;
* programs: when user code starts, its image and its stack are there;
* file layer: a path names the node it spells; a descriptor denotes the file it
  was opened on;
* interrupts: each pin reaches its vector, and each frame is popped as pushed;
* memory map: the arena spares the kernel, and is available memory but for a
  known excess at its end;
* boot: each step uses only what is mapped and set up at that moment;
* tar: every entry of the archive becomes a node, and a file's bytes are its own;
* modules: segments are placed apart, and relocations reach the exported symbol;
* serial: what a program writes leaves its port, in order and uninterrupted;
* `printf`: what is written reads back as the number, and arrays are not overrun.

## Modules

| Module | Models |
|---|---|
| `Vm` | the memory core from `setup_vm` to the first user instruction |
| `AddressSpace` | what callers expect of `map_pages`, without tables, caches or frames |
| `Kmalloc` | `kmalloc` in pages of `request_pages`, beside other callers of it |
| `Heap` | what callers expect of both: nothing is given out twice |
| `WalkPath` | `walk_path` with its calls of itself, one action per turn of the loop |
| `Files` | the file layer under the system calls; a call's walk is that of `WalkPath` |
| `Descriptors` | what a program expects of its file descriptors |
| `TarFs` | `create_initrd`, the tree made of a tar archive, reads and writes of its files |
| `Boot` | the tables, modes and descriptors of the boot code, `setup_hhdm`, `init_tss` |
| `MemMap` | both passes of `parse_memmap`, and `setup_pm` |
| `Acpi` | `init_biosdata`'s pointer, `init_acpi`, and `init_madt` |
| `Interrupts` | redirections, gates, stubs, the shim's frame, handlers, the way back; system calls |
| `Startup` | the composition of the four above, in the order of `entry` |
| `Loader` | `exec_elf`, `load_module`, `resolve_syms`, `lookup_sym` |
| `UserStack` | the strings and pointers that `do_exec` and `exec_process` put on the stack |
| `Program` | the composition of the two above |
| `Serial` | `init_serial`, the log, the port from the BIOS data, the driver, and the chips |
| `Printf` | `_vsnprintf` with its integer, character and string conversions |
| `Inductions` | induction over numbers, chains, folds and sequences, for the proofs below |
| `VmProofs` | theorems about `Vm`: frames, paths and caches, grants, the user's image, the refinement |
| `ProgramProofs` | theorems about `Program` and `Kmalloc` |
| `FilesProofs` | theorems about `WalkPath` and `Files` |
| `TarFsProofs`, `SerialProofs` | theorems about `TarFs` and `Serial` |
| `StartupProofs` | theorems about `Startup`: interrupts, exceptions, system calls |
| `FirmwareProofs` | theorems about `Startup`: tables of the firmware, addresses, the memory map |
| `MCVm`, `MCKmalloc`, `MCWalkPath`, `MCFiles`, `MCTarFs`, `MCStartup`, `MCProgram`, `MCSerial`, `MCPrintf` | the instances that TLC checks |

A module that `Startup` or `Program` composes names what it needs of its constants
`Constants`; the composition assumes all of them in one `ASSUME`.

### Vm

Addresses are page numbers. `mem` holds the entries of every frame of the arena,
so a page table is just a frame that the walk reads as one; `role` is a history
variable with what each frame was handed out for. `map_pages` is a *job* that
its caller starts as part of its own step (`NewMap`) and whose progress is one
action per level of the walk:

| Action | Code |
|---|---|
| `WalkCached` | the cache of the level matches (`map_page`, the condition of each `if`) |
| `WalkExisting`, `WalkNew`, `WalkFails` | `walk_table` finds a table, adds one, has no frame |
| `SetPage`, `PageInUse` | the label `alloc`, and the loop of `map_pages` |
| `SetupVm`, `MapHhdm`, `ActivateToplevel`, `SetupVmPanics` | `setup_vm` |
| `MapMmio`, `MmioMapped`, `MadtDone` | `init_madt` |
| `RequestPages`, `RequestReturns` | `request_pages` for `kmalloc` and the loaders |
| `ExecProcess`, `LoadMapping`, `CopySegment`, `MapUserStack`, `WriteStack`, `RequestKernelStack` | `load_mapping`, `exec_process` |

The stages `panic` (a call of `panic`, or a page fault, whose handler panics) and
`wild` (the code goes on with an address it was not given, as the result of an
allocation is not tested) end a behaviour.

Abstracted: the flags but present, write, user and page size; the contents of data
frames; the content of the program, but for its segments.

Assumed: RAM starts blank, which the code needs and never establishes; device
registers and the kernel image are outside the arena; segments lie in the user
half (`exec_elf` does not check it); request sizes do not wrap `request_pages`'
sum; no other page of the kernel shares an entry of the PML4 with the direct map,
and the device registers share one page table with each other and with nothing of
the kernel image (`SlotAssumption`, the layout of `vm.h`); a segment that is not
writable shares no entry of the PML4 with the user's stack (`StackAssumption`, as
the run `writable` shows what becomes of the stack otherwise). Each but the first
is a named `ASSUME`; the first is in `Init`.

### AddressSpace

The space is a set of pairs of a page and a frame. A call asks, maps the next
page to the next frame without replacing anything, gives up, or returns. A new
process keeps the upper half. `Vm` implements it: `Space` reads the mapping off
the tables of `toplevel` as the processor would, so that an entry written through
a stale cache, into a table that is not on the page's path, is a step that the
abstract specification does not allow.

### Kmalloc and Heap

`Kmalloc` keeps the block of `kmalloc` (base, offset, size) and the head of
`request_pages`. `KmallocFits`, `KmallocNewBlock` and `KmallocFails` are the three
ways through `kmalloc`, `RequestPages` is a call by anyone else. How the mapping
behind `request_pages` goes is a choice, as the head moves whether it succeeds or
not. `allocs` and `pages` are histories of what was returned; `Heap` says of
their union that each call adds addresses that nobody has, or nothing.

### WalkPath

The code compares characters, over a length that belongs to another element than
the one it compares, so names and paths are sequences of characters here.
`walks` is the stack of calls of `walk_path`; `Descend`, `NotThere`, `FollowLink`
are the cases of its `switch`, `WalkRest` and `RestFound` the return of the two
calls it makes for a link, `ReturnFound` the label `found`. What follows the
unterminated copy of a path after a nested walk is a choice (`Junk`). The kernel
stack has room for `MaxDepth` walks; a link that leads to itself leaves it, and
the result is then `Wild`.

The reference `Resolve` cuts the path at its slashes and looks each element up by
its whole name. Trees are as the kernel makes them: a node's parent has it among
its children, and only directories have any (`IsTree`).

### Files

`tree` grows by `MkdirAdds` and `MknodAdds`. A system call starts with a walk
(`SysOpen`, `SysMkdir`, `SysMknod`, `SysLmod`), goes on with `WalkOn`, and ends by
one of the actions of `Completion`; `read` and `write` are one step, but a read of a
device may first wait for input (`ReadWaits`, `ReadReturns`), and so may `lmod` of one
before it completes. `OpenAdds` is `do_openat` with `add_file`. A pointer at `USER_END`
or above is refused (`Refuse`); one below it, of which nothing else is asked, may
not be mapped, and the kernel then faults (`Unmapped`). Limits that the code does
not test (`OpenOverruns`, `MkdirOverruns`, `MknodOverruns`) and a descriptor that is no
index lead to the mode `wild`; a page fault of the kernel leads to `panic`. The data of
files, offsets and lengths are left out; that a driver's operation or the loading
of a module fails is a choice. A program may overwrite the name of a device,
which the kernel left in its memory (`UserOverwrites`). Assumed: memory of
`kmalloc` is blank and does not run out; `mknod` is not called with an empty path,
whose basename is looked for before its first byte; a major is below
`CHRDEV_MAJOR_MAX`; the nodes of the tree at the beginning are numbered in the order
in which they were made and fit their parents' arrays (`FilesAssumption`).
`do_mkdirat`'s search for the last slash (`memrchr`) is part of it.

### TarFs

A module of the boot loader is its command line, the headers of an archive, and
the number of zero blocks at its end; a name is the sequence of its elements.
`CreateInitrd` and `NoInitrd` are `create_initrd`. A turn of `create_vfs_tar`'s loop
is `Climb` (the name is not below `samedir_identifier`), `ClimbPastRoot`, `Add`,
`Overrun` (the array of children has no place left), `NoName`, or `ArchiveEnds`.
`TarRead` and `TarWrite` are `tar_read` and `tar_write` with `rdisk_read` and
`rdisk_write`, whose comparison (`OnDisk`) refuses a range that ends where the disk
does. Bytes are their own numbers, so a property sees whose byte was accessed.
Assumed: `kmalloc` succeeds. The prefix field of a header is not read by the code.

### Boot, MemMap, Acpi, Interrupts, Startup

`Boot` executes one step per piece of `pmodeEntry.S` and per call of `entry`. A step
names the addresses of the code and data it uses (`Uses`); if the tables of that
moment do not map one of them, or a segment's descriptor is not where the
processor looks, the machine is reset (`Reset`). A virtual address is the triple
of its indices, memory is counted in huge pages.

`MemMap` has one action per entry that `parse_memmap` reads (`Region`, `KernelRegion`,
`RegionInKernel`, `Terminated`, `EndOfMap`), for each of the two passes; the second
writes to the stack of `setup_pm`, where a place that was not written holds any of
`Garbage`. `Pick` is a turn of the loop that chooses the arena.

`Acpi` searches paragraph by paragraph (`SearchOn`), changes from the EBDA to the
BIOS area with the pointer that the code has then, and walks the MADT with one
action per structure. `Overrun` writes behind an array of 0xFF places, `RunsOn` is
the walk behind the table, `NoMadt` the use of a table that is not there.

`Interrupts` keeps the stack as words that know whose value they are. An interrupt
is `Raise` (a pin), `Interrupt` (what the processor pushes), `Stub`, `Shim`,
`IrqHandler` or `Panic`, and `Return`; `Syscall`, `CallNowhere` and `Sysret` are the same
for `sysentry`. A second interrupt may come between any two of them if the flags
allow it. Every gate is registered with `GATE_USER`, so a program may enter it by an
`int` of its own (`SoftInterrupt`), with no error code and nothing in service at the
local controller. A module that a call loads may register a handler
(`RegisterIrqHandler`), which `irq_handler` calls (`CallModule`, `ModuleReturns`). `Return`
takes back the selector of the code that it returns to; after a system call that is
the one of `sysretq`, which `iretq` refuses (`IretFaults`). The registers of a controller
are reached by its id (`Reached`): two with one id share those of the first. A
program's stack has no words here, so that it does not matter which stack its
interrupts begin on.

`Startup` runs them in the order of `entry`: each part has its own variables, but
the lists of controllers, processors and overrides, which `Acpi` fills and
`Interrupts` reads; that the TSS is found and the IDT enabled are steps of two parts
at once. A computer is a kernel as linked, a memory map, a firmware and a set of
pins.

Abstracted: the contents of the direct map's pages, the registers of the legacy
controllers, the delivery modes. Assumed: a machine has the controllers that its
firmware tells of; the firmware's checksums are right, as the code does not look
at them. `Vm` has what fails in `setup_vm`; here it succeeds.

### Loader, UserStack, Program

`Loader` counts memory in words, of which a relocation changes one. A file is
whatever its headers say, apart from what its bytes are: `LoadPhdr` is a segment of
`exec_elf` or a program header of `load_module`, `PlaceImage` the request for the
image, `CopyMapping` a turn of the loop that copies segments (it moves and copies
the first one each time), `Relocate` a relocation, `Lookup` one comparison with the
exported symbols. A read that fails, and memory that runs out, are part of them.

`UserStack` has the bytes of the stack: `MapStack` counts the pages, `PutArgc`,
`PutArg`, `EndArgs`, `PutEnv`, `EndEnvs` and `PutAux` are the writes of `exec_process`.
`Program` composes the two: a program's strings are written after its segments
were read, a module ends with its init function. Assumed: `kmalloc` succeeds;
files have their segments' bytes in memory order (`filesz <= memsz`).

### Serial

A chip has a loopback mode, queues of bytes to send and received, and the bytes
that left it; it works on its own (`Send`, `Receive`) between any two accesses of the
kernel. `InitPort`, `Loopback`, `SendTest`, `ReadTest`, `NormalMode` are `init_serial` and
`init_serial_port`, `Putchar` one byte of the log, `OpenSerial`, `WriteSerial` and
`ReadSerial` the driver's operations with `WriteByte` and `ReadByte`. The BIOS data is
kept in bytes, as the code reads its words at byte offsets. A port without a chip
answers with ones.

### Printf

One action per part of a directive: `Flag`, `Width`, `Precision`, `Length`, then
`Integer` (digits), `Zeros`, `Hash`, `Sign`, `OutRev` for numbers, or `Character`, `String`
and `Other`. The buffer of `PRINTF_NTOA_BUFFER_SIZE` places is `buf`, with the bound of
each of the loops that fill it. Characters are strings of length one. Floating
point is not built (`kernel/Makefile`), and not modelled.

## Runs

**`mcvm`** (passes). Tables of four entries (256 pages), the HHDM of four huge
pages, a request window that crosses into a second directory, two device
registers behind it, three programs (unaligned ends, a segment that begins inside
a page and runs over its end, two segments in one page). Each of ten values of
`arena_end` is a machine that runs out of frames somewhere else, from the first
table to none at all, so that each failure path is taken. It checks:

* `TypeOK`: the allocator stays in the arena, the request head in its window;
* `TablesWellFormed`: levels, and no frame that is both table and data;
* `NoSharing`: no frame mapped twice, no table with two parents but by the copy
  of the upper half;
* `KernelPrivate`: no page of the upper half is accessible to user code;
* `GrantedStayMapped`: what `request_pages` returned is mapped in the space in
  use, also after `exec_process`, and granted once;
* `UserImageAccessible`: user code starts only with its image readable and its
  stack writable, although `load_mapping`'s result is ignored (the kernel's own
  `memcpy` faults first);
* `BootEnds`: the boot reaches user code, a panic, or an untested allocation;
* `ImplementsAddressSpace`: the refinement above.

Deadlock is not checked there: a panic stops the machine, and user code that has
been refused its last request has nothing more to ask.

**`writable`** (violated). `WritableSegments` says that user code can write the
segments marked `PF_W`, as `elf.h:743` has it. It cannot when a read-only segment
came first: `walk_table` gives the directories on the path that segment's flags,
and nothing adds `PG_WRITE` later.

**`mckmalloc`** (passes). `TypeOK`: the block lies below the head and is never used
to its last byte, on which the unterminated copies of paths rely. `Disjoint`:
what was given out does not overlap. `ImplementsHeap`: the refinement.

**`mcwalkpath`** (passes). `WalkTypeOK`: a walk stays in the tree and waits only on
links. `NamedIsFound`: a path that names a node leads to it, if no element but the
last is shorter than the one before and names on the way do not begin alike.
`OnlyNamedIsFound`: with names of one length and no links nothing else is found (a
link with elements behind it is followed). `WalkEnds`:
every call returns. The run has trees where these conditions hold and trees where
they do not, and one with a link to itself.

**`walkslash`** (violated). `SlashMayEnd` takes the comment `(.*/)+/?`
(`walk_path.c:48-49`) at its word, for paths of directories. After the last slash the
loop goes on with an element of no characters; the directory's children's names are
compared with that over the length of the element before (`walk_path.c:64`), none
matches, and the result is `NULL`. If something lies behind the unterminated copy
that a name agrees with, that child is found, and again not the directory.

**`mcfiles`** (passes). `FilesTypeOK`: the tables of descriptors and files are filled
in step, whatever fails between the choice of a descriptor and its use.
`OnlyMkdirUnmounted`: only directories that `mkdir` made have no mount, nothing is
ever made in one, and no descriptor denotes one. `PanicsExplained`: a call panics
only on such a directory, for a pointer to memory that is not mapped, for `mknod` in
a directory that is not there, on a device without a driver, or in a module that
faults as it is loaded. `ImplementsDescriptors`: a descriptor keeps its file.
`CallsReturn`: each call returns or stops the kernel, but for a read, or `lmod`, of a
device, which may wait for input for ever.

**`mctarfs`** (passes). `NodesAreEntries`: the names from the root to a node spell the
name in the header that the node points to, and only directories have children.
`WholeTreeMounted`: an archive in the order in which `tar` writes a tree, with a
zero block at its end, comes to be mounted with all its entries.
`AccessesStayInFile`: an access within a file's size reads or writes bytes of that
file, all that were asked for, although the code never looks at the size. The
archives are the build's, sizes around a block, orders that `tar` does not make,
an archive without its end, too many entries, and none.

**`mcstartup`** (passes). `Boots`: on a PC the boot comes to run with interrupts on,
so no step needs what is not mapped or set up yet and no search is endless (a
table of the firmware with a structure of length 0 is outside its premise).
`AddressesRight`: the direct map is one up to 512 GiB, and the TSS is where its
descriptor says. `ArenaSound`: the list of the memory map fits, and on a PC's map the
arena spares the kernel and is the part with most memory available, but too long by
`KERNEL_TEXT_PHYSICAL - KERNEL_START_LOW` if it is what the kernel leaves of its region.
`FirmwareRead`: the first root pointer, and each structure of the MADT once, of an
override's global interrupt its lower byte. `PinsArrive`: where no two controllers
have one id and overrides name global interrupts below 256, each legacy interrupt
arrives at the vector of its number from the pin that the firmware names; and no
pin raises an exception. `InterruptedResumes`, `SyscallResumes`: every word is
popped as what it was pushed. `PanicTellsTruth`: a trap's panic names its vector, and
where and with which error code it was raised, but for the two frames under Known
deviations. `RunsUninterrupted`: interrupts do not nest, and no device interrupts a
program; so a module's handler runs, and `iretq` meets the selector it refuses, only
for an `int` of the program.
`InterruptsEnd`: each interrupt is acknowledged, or the machine stops.

**`mcprogram`** (passes). `ProgramPrepared`: what `exec_process` is given is the file's
segments with their bytes. `StackAsGiven`: a program finds its strings, which run
on into each other, up to the last byte of the lower half; the kernel panics
only if memory ran out or the stack is a multiple of a page. `ModuleReady`: a
module's image is its file's with each exported symbol's address in its
relocations, and is entered at `init_module`.

**`pagecount`** (violated). `TakesItsPages` takes `vm.h`'s parameter `n_pages` at its
word. `exec_elf` and `load_module` pass it bytes.

**`mcserial`** (passes). `WrittenIsSent`: what a program wrote leaves the port it was
written to, in order, without a byte of the log in between. `CallsEnd`: the kernel
comes back from all its waits but that for input.

**`mcprintf`** (passes). `FieldRight`: a number is read back from the text with its
sign, and fields are as wide as asked, but for the cases that the property names.
`ArrayEnds`: an array holds as much of the output as fits, and ends with a null.

Deadlock is not checked in the runs of `WalkPath`, `Program` and `Printf`, where a
behaviour is one call, and of `Files`, `TarFs`, `Startup` and `Serial`, where a panic,
an address that was not given, or a program that asks for nothing more ends it.

### Known deviations

While modelling these came up, which no run refutes a property for; the
models do what the code does, and the properties of the runs name the exception.

* `idt/entry_shim.S:47`: vector 8 enters as if without an error code, so that the
  frame of a double fault is off by one word (`Misentered`).
* `idt/register_handler.c:71`: every gate is open to programs. An `int` of a vector with
  an error code, such as 14, pushes none, and the panic prints other words than the
  place and the code (`Misentered`). One of a device's vector runs `irq_handler` with a
  module's handler, and ends an interrupt that did not come (`SoftInterrupt`,
  `CallModule`); if the program made a call before, `iretq` then refuses its selector,
  and the kernel panics (`IretFaults`).
* `syscalls/sysentry.S:8`: a call pushes its registers on the program's own stack,
  over what a program keeps below its stack pointer. The model has no words of the
  program's there.
* `syscalls/register_syscalls.c:16`: a pointer below `USER_END` where nothing is mapped
  panics the kernel (`Unmapped`).
* `acpi/search_madt.c:53`: the global interrupt of an override is kept in a byte
  (`MadtIso`, `TableRecorded`).
* `apic/ioapic.c:10`: controllers are addressed by their id, and the registers of a
  second one with the same id are never written (`Reached`; `Addressable` leaves it
  out).
* `acpi/init_acpi.c:63`: without a MADT a member of it is read before the test
  (`NoMadt`).
* `include/acpi.h:75`: `__packed` before `struct` does nothing, and the address of an
  override of the local controller is read from the wrong bytes (`OverrideAddr`).
* `mm/pm/parse_memory_map.c:51`: the rest of the kernel's region begins at the kernel's
  end, but its length is shortened only by the kernel from its text on. It reaches
  past the region, and so may the arena, by what lies before the text (`Excess` in
  `ArenaIsLargest`), and it is preferred to a part that has up to that much more.
* `mm/hhdm.c:25`: from 512 GiB on the boot direct map repeats (`DirectMap`).
* `module/load_module.c:119`: a second segment of a module is not placed
  (`ModuleReady` is about the first one).
* `modules/drivers/serial_com/init.c:21`: the driver logs while the chip is in
  loopback mode; the line comes back as input.
* `modules/drivers/serial_com/init.c:45`: reads and writes of minor 1 go to a
  mixture of two ports' bytes; `open_serial` uses the right one.
* `printf.c:324`: `%lb` of a number of 33 bits and more loses its highest digits.
* `printf.c:154`: a null that `%c` gives to `_putchar` is counted and not written.

### Bounds

In `mckmalloc` a page has three bytes, so that sizes are below, at and above its
end, and the window five pages. In `mcwalkpath` paths have up to five characters
over two letters and the slash: three elements, or two with slashes at any place.
In `mcfiles` there are two descriptors, room for one new node in a directory, and
five paths, of which one leads through a link to itself; the limits are small
so that they are reached.

In `mctarfs` a block has four bytes, the root five places and a directory three, so
that both are exceeded; two accesses are a write and a read of what it wrote.
In `mcstartup` the computers differ from an ordinary one in one part at a time,
as the parts meet only in the lists: with all combinations nothing new would
happen between them. Tables have eight entries and the direct map three tables;
the EBDA has three paragraphs and the BIOS area four, so that pointers lie at,
before and behind each end; arrays have `SLOTS` = 3 places. The pins raised are the
ones next to overrides and to the last vectors. The program's `int`s are of
a vector whose stub expects an error code (14), one whose stub does not (8), a
device's with a module's handler (33), and one without a gate (255). In `mcprogram` a page has four
words and the window forty pages, of which one segment takes four for each of
its own, so that it can run out. In `mcserial` a chip keeps two bytes, writes
have up to three and lines of the log two, so that queues fill; four calls
are an open, a write, a line of the log and another call. In `mcprintf` a long
has 16 bits and the buffer half as many places, as in the code; widths are below
and above the buffer.

In `mcvm` four entries per table are the fewest with which user pages use two PML4 slots
beside the kernel's two, and the window, the registers and the image share
directories as they do in the real layout. A frame is used once, so a run is as
long as the arena: 42 frames are more than the boot needs with every request
granted. Nothing else is bounded.

### Fairness

`FairSpec` adds `WF_vars(Next)`: one processor runs this code, which waits for
nothing. No step is favoured over another. `FairWalkSpec` and `FairFilesSpec` ask
the same of a call in progress, but not of the program, which need not call, nor of
a call that waits for the input of a device (`Waiting`), as nobody has to type.
`TarFs` asks that the parse goes on. `Startup` asks it of the kernel's own steps
(`KernelStep`), not that devices raise pins, and not that the program is started:
interrupts without end may keep the kernel from it. `Serial` asks it of the kernel
once a call has begun, and of each chip that it sends what it has; input need not
come. `Program` and `Printf` have safety properties only.

## Proofs

A theorem holds for every value of the constants that the named assumptions of its
module admit, where a run has one small instance. Each invariant that a run
checks has a theorem, with the exceptions at the end of this section. None of
them is inductive as it stands; what had to be added says most about why the code
works, and is what follows. A proof has a lemma for each part of its invariant,
which says what other parts keep it, and in it a step for each action.

### Frames (`VmProofs`, part one)

`TypeCorrect`, `TablesStayWellFormed`, `NothingShared`, `KernelStaysPrivate` are the
four invariants of `Vm` about frames and tables. `IInv` adds: the frames past the
allocator's head are blank and without a role (`FreshFrames`), which is why a new
table brings no entries; the stage tells whether there is a table and whether a
call is in progress (`StageSound`); the walk, CR3 and the caches stand on tables of
their level (`WalkSound`), which is what makes a hit of a stale cache harmless for
the structure of the tables; the frames that a call has yet to map are data that
no entry maps (`JobSound`), which excludes a second use; a request in progress fits
its window (`RequestSound`); a call with `PG_USER` is below the middle, and no PML4
entry above it has the bit (`UserSound`).

### The address space (`VmProofs`, part two)

`IInv` lets the walk stand on the wrong table of the right level. That it does
not is the matter of the caches in `map_pages.c`, which nothing invalidates: after a
walk that failed, or one that ended at a huge page, a cache holds an address
without the table that belongs to it. `SpaceInductive` shows that this is
harmless, but by the layout alone: the stale entry is of the direct map, and no
page mapped later has its PML4 entry. Its invariant has `CacheTop`, `CacheLinks` and
`CachesOfRegisters` (which caches can be trusted, and for which pages) and `OnPath`
(the walk stands on the path of its page). From it follow

* `WhatIsGrantedStays` (`GrantedStayMapped`), with bounds on what was granted;
* `ImageIsAccessible` (`UserImageAccessible`), from `ImageInductive`: the entries on
  the paths of the user half were made for user code, those of the stack's part
  for writing, and what `exec_process` has copied so far is mapped;
* `TablesAreASpace` (`ImplementsAddressSpace`): the initial states map to initial
  ones, and each action is a step of the abstract specification or none, by
  cases. It needs that huge pages are only in the direct map (`HugeInHhdm`), as
  `walk_table` would take one for a table (`map_pages.c:22`), and that nothing is
  mapped before `setup_vm` (`NoneBefore`).

### `kmalloc` (`ProgramProofs`, last part)

`KmallocTypes` (`TypeOK`), `NothingTwice` (`Disjoint`) and `KmallocImplementsHeap` (the
refinement). `KmallocInv` adds that everything given out lies below the head
(`BelowHead`) and that the free rest of the block was given to nobody (`RestFree`):
disjointness is kept because a new allocation comes from one of the two.

### Programs and modules (`ProgramProofs`)

`StackIsAsGiven` (`StackAsGiven`). `StackInv` gives, for each stage of `exec_process`,
which bytes of the stack are written so far (`Covered`) and with what: the words
from `user_stack` on, the bytes of the environment, and those of the arguments.
The three areas meet without a gap and without an overlap, as `sizeof_auxv` and the
sums of the lengths count what is written; that is why reading a string from its
pointer gives it and everything behind it (`ReadArgument`, `ReadVariable`). Pages
are contiguous, so a write can fault only below the pages that were mapped or
behind `USER_STACK_TOP`.

`SegmentsArePrepared` (`ProgramPrepared`) and `ModulesAreReady` (`ModuleReady`), both
from `LoadInv`:

* while headers are read, the mappings are those of the segments passed, each with
  a block of its own that lies below `vm_arena_head` and holds the segment's words
  and nothing behind them (`Placed`, `Block`). New blocks begin at the head, and
  the number of bytes that is passed as a number of pages is always enough
  (`PagesEnough`);
* while a module is placed, its first segment is in its block or where it will run
  (`Placing`, `Installed`). The loop that moves the first segment again and again
  (`load_module.c:118`) does no harm to it: the second turn has an address beyond
  the window, and panics. This is where `WINDOW_END < 2 * WINDOW` is needed;
* while relocations are applied, each word of that segment is the file's or has
  the address of a symbol that one of the relocations passed so far asks for
  (`Right`). That the loop passes those of both tables is a fact about the sum of
  the sizes (`RelaLen`) and about where the tables lie (`TablesCover`).

### Walks and files (`FilesProofs`)

`WalkTypeCorrect` (`WalkTypeOK`): the stack of walks is typed, and all but the last
wait on a link.

`NamedPathsAreFound` and `OnlyNamedAreFound` are about paths of any length. A path's
elements are described by their positions (`ElementsAt`), so that what is left of
the path after `k` elements is a suffix of it (`Rest`). On the paths in question
`WayInv` says that the walk stands on the node that the elements before `k` name,
that its string is `Rest(k)`, and that its comparison has the length of the element
before; the conditions of the two properties are what makes that comparison
come out right.

`FilesInv` has the four invariants' reasons: nodes are made after their parents and
those without a mount are `mkdir`'s (`NodesSound`); the walk of a call is sound
(`StackSound`) and a call completes on what its walk found (`CallSound`); the files behind descriptors are there
(`TablesSound`). It gives `FilesTypeCorrect`, `OnlyMkdirCutsOff`, `PanicsAreExplained`
and `FilesImplementDescriptors`, the refinement: the file that a descriptor denotes
is the abstract one, and a call that fails after it has chosen a descriptor is a
stutter.

### The ram disk (`TarFsProofs`)

`TarInv`: while the parse goes on, `hdr` is the header at `offset` and `ident` is the
name of the node `cur`; each node was made after its parent, of a header whose name
is the parent's with one element more. `TreeIsArchive` (`NodesAreEntries`) follows by
induction along the parents. `AccessesStay` (`AccessesStayInFile`) needs that a
header's span is its block and at least its size (rounding up), that the spans
before and behind it do not overlap, and that the zero blocks at the end leave
room for the comparison of `OnDisk`, which refuses a range that ends with the disk.

### The serial line (`SerialProofs`)

`SerialInv`: the bytes that left a chip and those in its queue are one line; the
bytes of a write that goes on stand at its end, and later somewhere in it in one
piece; no chip changes its mode between a write and the next open. A write
waits until the queue is empty, so the byte it adds is not lost.
`WritesAreSent` (`WrittenIsSent`) is the case of an empty queue.

### The boot (`StartupProofs`, `FirmwareProofs`)

A step of `Startup` is, for each of its parts, one of its own or none, which the
first lemmas say; then each part has its own invariant.

* `InterruptsInductive`: the stack is a list of levels, each with the words that the
  processor, the stub and the shim have pushed so far, in their order; the flags
  tell which levels there may be, and a level of a program's `int` is the lowest, as
  only a program asks for one. From it `ResumesAlways`, `PanicsTell`,
  `NoInterruptNests`, `CallsResume`.
* `FirmwareInductive`: the search has looked at everything before its pointer, and
  the walk of the MADT stands at the sum of the sizes of the structures that are
  in the lists (`Walked`); from it `FirmwareIsRead` and, with what the redirection
  entries hold at each stage, `PinsArriveAlways`, under the premises of the property:
  distinct ids and overrides that a byte can hold.
* `AddressesAreRight`: which tables and bytes of the descriptor are filled by which
  step (`BootInv`); a page of the direct map is then what its indices make it.
* `ArenaIsSound`: both passes make the same entries of the same map, so that the
  list has as many as were counted, and its terminator; on a PC's map (`PcMap`: no
  entry of type 0, available ones neither empty nor overlapping, the kernel at the
  beginning of one) the arena is the entry that the code's lengths make the largest:
  an available part, or the kernel's rest with its excess.

### Induction over data

The provers cannot instantiate an operator that a theorem takes as a parameter, so
the library's induction theorems are of no use. `Inductions` states induction for
sets of numbers instead, and for functions that are given: a fold is the last
element of the sequence of its intermediate results (`FoldTrace`), whose steps are
then ordinary facts. Everything about folds, sums, positions and chains of
parents rests on it.

### Only model-checked

* Liveness: `BootEnds`, `WalkEnds`, `CallsReturn`, `WholeTreeMounted`, `Boots`,
  `InterruptsEnd`, `CallsEnd`.
* `FieldRight` and `ArrayEnds` of `Printf`: powers of the base, and the selection of
  characters from a sequence.

## Plan

1. `Vm`, `AddressSpace`, `VmProofs`: done.
2. `Kmalloc`, `Heap`: done.
3. `WalkPath`, `Files`, `Descriptors`: done.
4. `TarFs`: done.
5. `Boot`, `MemMap`, `Acpi`, `Interrupts`, composed in `Startup`: done.
6. `Loader`, `UserStack`, composed in `Program`: done.
7. `Serial`, `Printf`: done.
8. Proofs: `VmProofs`, `FilesProofs`, `StartupProofs`, `FirmwareProofs`,
   `TarFsProofs`, `SerialProofs`, `ProgramProofs`: done. Next would be `ArrayEnds` of
   `Printf`.

## Not modelled

* The string and memory functions of `_stdfuncs.c`: the modules use what they
  return. The floating-point half of `printf.c`, which is not built.
* Most of `elf.h` and `multiboot.h`: the public headers, for other machines and
  other sections than the kernel uses. The multiboot header itself.
* `switch_tss_stack`, as a program's stack has no words in `Interrupts`; `remove_file`,
  `read_gsid_redir`, `read_lapic_reg`, which nothing calls; that a module takes its
  handler away again, with `NULL` for `register_irq_handler`.
* Reads and writes of an archive's node that is not a file (`MayCall`).
* A relocation whose place lies outside the image that was placed: `Relocate` then
  changes nothing of it, where the code writes to whatever lies there.
* Calls that no caller makes: `request_pages` at an address, `exec_process` with an
  auxiliary vector or with descriptors already open.
* A dynamic section that cannot be read (`load_module.c:69`): the heap's old bytes
  are then used as one. RAM that does not start blank, for the same reason.
* Where the boot loader puts its modules: the arena may contain them, and nothing
  in the code keeps them apart (`setup_pm.c:33`).
* The masks of the legacy interrupt controllers, and the contents of files.
