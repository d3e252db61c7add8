# TLA+ verification of the novos kernel

novos is a small RISC-V kernel in Rust (`src/crates/kernel`, with the support
crates `riscv`, `sbi`, `devicetree` and `log`). This directory models its core
data structures and protocols in TLA+, checks them with TLC on small instances
and proves the most important safety results with TLAPS.

`PROJECT.json` is the index: components, runs, the source lines behind every
definition, hazards with the properties that watch them, mutants, findings and
theorems.

## 1. Inventory

| Component | State | Operations | Used by |
|---|---|---|---|
| `riscv::sync::Mutex` (`crates/riscv/src/sync.rs`) | `next_ticket`, `now_serving` | `lock`, guard drop | `PHYS_MEM`, `PAGE_TABLE`, `LOG` |
| `riscv::sync::RwLock` | one atomic word | `read`, `write`, both guard drops | nobody yet |
| Buddy allocator (`allocator/buddy.rs`) | free list per order, `AllocStats` | `add_region`, `allocate`, `deallocate`, `stats` | `pmem` |
| `RangeSet` (`allocator/rangeset.rs`) | array of ranges, `idx` | `insert`, `remove_range`, `remove`, `clear` | `pmem::init` |
| Physical memory (`pmem.rs`) | the global buddy allocator | `init`, `alloc*`, `zalloc*`, `free*`, `PhysicalAllocator` | page tables, stacks, collections |
| Page tables (`page.rs`, `page/*.rs`) | tables in memory, `subtables` | `map`, `map_alloc`, `free`, `unmap`, `translate`, `traverse` | boot, drivers, `pmem` |
| Boot (`boot.rs`, `boot/*`, `memmap.rs`, `main.rs`) | the address space each pointer belongs to, the mapped memory | `_boot`, `_before_main`, `relocate`, `rust_trampoline`, `main` | - |
| Hart-local storage (`hart.rs`) | `sscratch`, `HartContext` | `init_hart_context`, `init_hart_local_storage`, `current` | trap, boot, panic |
| Traps (`trap.rs`) | trap frame, `temp_sp`, `stvec`, `sepc` | `install_handler`, entry, `trap_handler`, exit | interrupts, faults |
| Logging, panics (`crates/log`, `panic.rs`) | `LOG` mutex, logger | `init_log`, `log`, `override_log`, panic handler | everything |
| Drivers (`drivers/plic.rs`, `drivers/ns16550a.rs`) | device registers | `init`, `enable`, `disable`, `claim`, `finish`, thresholds, priorities, `read`, `write` | nobody yet |
| Device tree (`crates/devicetree`) | the blob, iterators over it | `from_ptr`, `copy_to_slice`, iterators over nodes, children, properties, regions, reservations, `find_node`, `find_nodes`, `compatible_with` | boot, `pmem`, drivers |
| SBI, RISC-V (`crates/sbi`, `crates/riscv`) | none | ecalls, CSR access | everything |

How they interact. `pmem::init` reads memory regions from the device tree,
collects them in a `RangeSet`, cuts out the firmware and the kernel and gives
the rest to the buddy allocator. Page tables take their pages, and the pages
they map, from that allocator; each global is behind a ticket lock. Traps,
panics and logging cut across: they may run while any lock is held. `boot.rs`
builds the page table on physical addresses, converts every pointer that will
still be needed, turns paging on by a jump through a trap, and goes on with
virtual addresses. The drivers are complete but not connected: the code that
would create them and pass interrupts on is commented out (`trap.rs:40-55`).

What is hard here:

- the locks: interleavings of atomic operations, the wrap of the ticket
  counter, increments that readers take back;
- the allocator: long sequences of splits and merges, the largest order,
  bookkeeping in unsigned numbers, alignment of added regions;
- the range set: loops and recursions that change the array they walk, slots
  behind `idx` that keep old contents;
- page tables: failures half way, large pages over small ones, and a TLB that
  fills between any two steps;
- the device tree: iterators that start in the middle of a byte stream and know
  only a nesting level, paddings, data that looks like tokens;
- the switch to paging: pointers are converted one by one, and a log message,
  an interrupt or a failed allocation in between follows what is there;
- locks against interrupts and panics, and their nesting;
- trap entry: registers that pass through `sscratch` and `temp_sp`, one frame;
- the drivers: read-modify-write of shared registers, a claim race, checks and
  accesses that are two steps while the device moves on.

What makes each component correct is the list of properties in section 3.

## 2. Modules

| Module | Models | Kind |
|---|---|---|
| `FairLock` | a lock that grants in the order of arrival | abstract |
| `TicketLock` | `Mutex::lock` and `MutexGuard::drop` | component, implements `FairLock` |
| `RwLock` | `read`, `write`, both drops | component |
| `PageAllocator` | pages are free or in exactly one aligned block | abstract |
| `Buddy` | `add_region`, `allocate`, `deallocate` | component, implements `PageAllocator` |
| `RangeSet` | the methods, a step per turn and return of their recursions | component |
| `RangeSetUse` | any sequence of calls, against a set of addresses | component |
| `PhysMem` | `pmem::init` and the allocation calls, which run the steps of `Buddy` and `RangeSet` | composition |
| `PageTable` | `map`, `map_alloc`, `free`, `unmap`, `translate`, one TLB entry | component |
| `DeviceTree` | the reader of the flattened device tree, with the tree itself as reference | component, pure algorithms |
| `Kernel` | the boot hart from `_boot` to the shutdown: boot, hart context, traps, log, panics, the locks | composition, one hart |
| `Drivers` | the PLIC and NS16550A drivers, the devices, the documented client on several harts | component and environment |
| `MC*` | instances for TLC (`MCLocks`: `TicketLock` and `RwLock`; `MCMemory`: `RangeSetUse` and `PhysMem`; `MCMachine`: `Kernel` and `Drivers`) | model checking |
| `TicketLockProofs`, `RwLockProofs` | the locks | proofs |
| `BuddyProofs`, `BuddyBooks` | the buddy allocator: lists, blocks and the inductive invariant; what callers rely on | proofs |
| `RangeSetProofs` | the range set | proofs |
| `PhysMemProofs` | `init` and the allocator it fills, from the two above | proofs |
| `PageTableProofs` | the page tables | proofs |
| `MachineProofs` | traps and address spaces of `Kernel`; enable block and serial line of `Drivers` | proofs |

### How state and actions correspond to the code

**TicketLock.** One action per atomic operation: `TakeTicket` is the
`fetch_add`, `Enter` the load that ends the spin loop, `Unlock` the store in the
drop. A load that does not end the loop is stuttering. `UsizeMax` stands for
`usize::MAX`. The `fetch_add` wraps, `self.ticket + 1` in the drop does not: the
kernel's profiles keep overflow checks on, so that drop panics
(`UnlockOverflow`) and the mutex stays locked.

**RwLock.** `FetchAdd`, `Undo`, `CompareExchange`, `DropRead`, `DropWrite`, one
per atomic operation on the word. Its definitions have the prefix `Rw` where
`TicketLock` has the same name, since `MCLocks` uses both.

**Buddy.** A call has `&mut self`, so calls do not interleave, but each level of
the recursion and each turn of the loop is a step, with the locals of the
current frame in `call`: `block`, `cur` (the frame's order) and `arg` (the
requested order, or the end of the region). `SearchUp` is the descent into
`allocate(order + 1)`, `Pop` its fast path, `Split` the return into the frame
one order below, `HandOut` the return to the caller. `deallocate` is
`Deallocate`, then `Merge` per level, then `PutBack` or `PutBackBoth`.
`add_region` is `AddRegion`, then one `AddSingleRegion` per block. Lists are
sequences with the head first. Addresses are page numbers. The xor in `buddy_of`
is "flip one bit", by the parity of the block number. `live` (what callers hold)
and `seeds` (what was added) are history.

**RangeSet.** `rs` is the array and `idx`. Slots behind `idx` keep their
contents, since `remove` only shifts and decrements. `work` is the running call:
the range, the loop's `idx` and the bound that the loop read at its start, and a
stack of the frames that wait for a recursive call. A turn of the loop is a step
(`MergeSkip`, `MergeBlock`; `CutSkip`, `CutRemove`, `CutStart`, `CutEnd`,
`CutMiddle`), and so is a return. `remove_inner` calls itself and returns at once
after it removed an entry, so there the new loop replaces the old one. A failed
unwrap or an index out of the array ends in `panicked`. `RangeSetUse` calls the
methods in any order; `cover` is the set of addresses they should leave.

**PhysMem.** `phase` and `i` are the position in `init`; the memory map is
chosen from `Layouts`. `InsertMemory` and `RemoveBlocked` start a call of the
range set, `RunRangeSet` runs it; `AddToAllocator` starts an `add_region`,
`RunAllocator` runs it, and later the calls of the kernel. Errors of `init` are
unwrapped by the boot code, hence `panicked`. Afterwards requests in bytes go
through `order_for_size`.

**PageTable.** `LEVELS` and `FANOUT` scale the tree (three levels of 512 in
Sv39, four in Sv48, which the kernel uses). `traverse` walks the tables
(`TableAt`, `LeafFound`) and then names the size of the leaf, for which its match
ends at level 2: on a leaf of level 3, a Terapage, `translate`, `unmap` and `free`
panic (`TraversePanics`, `TerapagePanics`); the page walker of the hart does not. Each level that `map` descends and each page of `map_alloc` and `free` is
a step, because the page walker (`TlbFill`) may cache a translation in between.
The physical allocator is its abstract specification: any aligned free block.
`mapped` and `allocs` are history: what completed calls should have left.
`RequestsSeparate` and `SinglePages` describe uses of the tables; the theorems
name them as hypotheses.

**DeviceTree.** `buf` is the bytes of the tree, and the parser is modelled on
bytes, because that is where its mistakes would be. A call of an iterator's
`next()` is one step (`CallNext`), its loop or recursion a recursive operator
(`nodes_next`, `children_next`, `props_next`, `find_nodes_next`,
`regions_next`, `reservations_next`); `find_node` and `compatible_with` answer
at once. The fields of all iterators are in one record `it`. `tree` is what the
firmware flattened; `want` is the answer of the reference, computed from `tree`
without tokens. A node that a query yields can be asked for its children,
properties, regions and compatible strings, so a wrong position in the bytes
shows in the next answer. `CopyToSlice` and `Reopen` are the copy that boot makes
and its second `from_ptr`. Panics of overflow checks and of slices are a status.

**Kernel.** `pc` is the place the hart is at, `stack` the places its calls return
to; an action is a piece of straight-line code between two places where
something else can matter: a call into the allocator or the logger, a lock, a
change of a control register. `space` says for each kind of pointer (the tree,
code pointers in vtables, the logger, the page table, the allocator's lists, the
stack) in which address space it is valid; `Uses` which of them the code at a
place follows. A pointer that is not valid (`Misused`), or a region that is not
mapped (`Unmapped`), makes the hart `Fault` instead of going on; before
`install_handler` that is the end (`lost`). `Interrupt` comes between any two
steps once interrupts are on. A trap is `SwitchStack`, `SaveRegisters`,
`CallHandler`, `trap_handler`, `RestoreRegisters`, `Sret` over five classes of
registers; `trapped` is history. The allocator is a number of blocks and the
page table a number of subtables, since `Buddy` and `PageTable` model what is
inside; `MapNewTable` may happen any number of times, because how many tables
are needed depends on addresses. `LOG` is the two counters of its `Mutex`,
because `override_log` writes a new `Mutex` over the old one with interrupts on:
`OverrideLog` stores one word (a counter, the tag of the `Option`, the vtable
pointer) per step, in any order, and `torn` remembers that a handler logged in
between. `machine` is what the kernel finds: firmware
with or without the calls it probes, one memory region or two, a usable image
and tree or not, and whether the page below the trap stack is in use.

**Drivers.** Each access to a register is a step of a hart's own code (`task`) or
of its interrupt handler (`irq`), which suspends the code; the devices
(`Transmit`, `Receive`, `UartSignals`, `OtherSignals`, the claim register) are
modelled from how the drivers use them. The enable block is kept as bits at
`<<byte, bit>>`, so that the word index of `enable_idx_bit` and the controller's
own layout are independent of each other. The client follows the documentation
of `drivers.rs`: `init` once, calls from any hart, loggers under the `LOG` mutex,
and on an external interrupt claim, `handle_interrupt`, `finish`. `write`
and `try_write` take no lock, so two harts may both find the transmitter empty
before either stores; the second byte is then lost, and `races` counts how often
that could happen. `requested`, `muted`, `written` and `races` are history.

## 3. Runs

| Run | Question | Bounds |
|---|---|---|
| `locks` | Mutex: mutual exclusion, consistent tickets, arrival order, no starvation; RwLock: exclusion, exact count, no deadlock, readers wait for writers only | 3 harts and tickets 0-5; 4 harts |
| `buddy` | no page in two places, none lost, exact books, coalescing, errors only when exhausted, calls end, `PageAllocator` implemented | orders 0-2, 8 pages in two touching regions |
| `memory` | RangeSet: exactly the right addresses in separated ranges, no panic while roomy; `pmem`: firmware and kernel never in the allocator, only memory of the tree, no page lost but the last of a stretch, orders fit sizes | 4 slots, 6 addresses, calls until 4 ranges were written; 7 memory layouts, 7 sizes |
| `pagetable` | tables form a tree, `translate` exact up to the panic on Terapages, grants stay mapped, no access to freed pages | 4 levels of 2 entries, 4 physical pages |
| `devicetree` | every iterator and decoder answers as the tree does, lookups as documented unless the path is ambiguous, panics only beyond a `u8` | 451 trees: all shapes of 3 levels with up to 2 children, all cells 0-3 with 7 lengths of `reg`; levels up to 3 |
| `machine` | registers survive traps, no access in the wrong address space, the machine is turned off whatever locks are held; enable bits exact, bytes sent as written, interrupts served | 64 machines, 0-8 blocks, 2 interrupts, a first block of 2 subtables; 2 harts, interrupts 1 and 64 of 64, 3 calls, 2 events, messages of 2 bytes |
| `rangeset_overlap` | *violated*: overlapping insert collapses | as `memory` |
| `physmem_odd_kernel` | *violated*: blocked memory stays blocked | one layout with an odd kernel size |
| `pagetable_free` | *violated*: no access to freed pages, two-page allocations | as `pagetable`, 5 pages |
| `pagetable_replace` | *violated*: `map` never replaces a mapping | as `pagetable`, 5 pages |
| `pagetable_terapage` | *violated*: `translate` answers for every page that `map` mapped | as `pagetable`, 5 pages |
| `physmem_last_page` | *violated*: `init` adds every usable page | as `memory`, `pmem` alone |

Why the bounds are enough. With 3 harts a waiter can be overtaken and a third
one arrive, and 6 tickets wrap before and after the panic in the drop can
happen. Four harts are two readers, a writer and one that undoes. Three orders
give a split and a merge that continue for one level, and the two blocks of the
largest order can be each other's buddies, which is the special case of
`deallocate`; the border between the regions lies inside a block of the largest
order, so that merging across it happens. Four slots of the range set are filled
by two ranges and two splits, and recursions nest while outer loops still have
turns left in stale slots. Four physical pages are too few for the tables and
pages that the requests need together, so every failure path of `map` and
`map_alloc` is taken; the requests contain every page size of Sv48, an
unaligned address and an address out of range. `map` and
`map_alloc` work on separate areas, as in the kernel's memory map, and one of
`map`'s requests is for memory of the allocator, as the mapping of all memory at
`KERNEL_PHYS_MEM_BASE` is. The TLB keeps
one entry: entries do not interact, so any entry's life is a behaviour of the
model. Three levels of nodes are enough for an iterator over children to pass
over grandchildren and to leave its parent, and two children for a search to
stray into the next subtree; one tree has a level too many and one path a part
too many. Names are prefixes of each other and fill a word exactly, data
contains tokens, and the bytes behind the tree look like a token and a string.
Eight blocks are enough for a boot that needs a subtable and reaches `main`, and
with fewer it fails at each of its allocations; two entries of the first block
of `subtables` (512 in the code) make it grow. With two interrupts the second
comes in or after the handler of the first. `KernelNext` and `DriversNext` do not
meet in the code, so a behaviour of `MCMachine` is one of either, with the other
part switched off. Interrupt 64 is both the largest id and in another word and
byte than interrupt 1; three calls let one hart enable, another disable or race
for a claim, and a message start while both happen.

Deadlock checking is off for `locks` (everybody waits after the panic in the
drop of a `MutexGuard`), for `memory` (calls of the range set stop at the bound
on writes or at a panic, and a panicked boot stops), for `devicetree` (the client has asked
all it wants, or a query panicked) and for `machine` (the machine is off, a hart
waits for itself, or the client is done).

The locks and the buddy allocator have a type invariant in their runs; the other
modules state none, and where they are proved about it is part of the inductive
invariant. What a wrong type would mean there (a
level that leaves the tree, a slot behind the array, a page outside the
memory) is part of their properties.

Every property has a mutant of a mapped definition, a plausible slip such as a
forgotten unlink or a lost undo, under which TLC finds it violated.

### Fairness

- `TicketLock`: weak fairness of `Enter` (a spinning hart keeps loading) and of
  the drop (critical sections end). No fairness of `TakeTicket`: nobody has to
  call `lock`.
- `RwLock`: weak fairness of a hart inside `read` or `write`, and of drops. It
  does not give a writer its turn: the exact `0` that `write` waits for can be
  missed for ever, and only `NoDeadlock` is claimed.
- `Buddy`: a call that was made runs to its end (`WF_vars(Run)`).
- `Kernel`: weak fairness of the hart's own steps (it executes instructions while
  it can). None of interrupts, and none of the corruption of memory.
- `Drivers`: weak fairness of the code and of the handler of each hart, of
  transmission and of the UART's interrupt line. None of calls by the client, of
  received bytes, of other devices.
- `PhysMem`, `PageTable`, `RangeSetUse`, `DeviceTree`: safety only, no fairness.

## 4. What is proved

All theorems hold for every value of the constants that satisfies the named
assumptions. Where a theorem needs more than the code ensures, the need is a
hypothesis that the theorem names and that TLC evaluates on the checked instance.
For two kinds of them a run shows what happens without: `RegionsAligned` and
`LayoutsAligned` (`physmem_odd_kernel`), and `SinglePages` (`pagetable_free`).
`RequestsSeparate` is how `memmap.rs` divides the address space; a `map` over
`map_alloc`'s pages would replace them silently, as `pagetable_replace` shows of
`map`'s own.

**`TicketLockProofs`** (from `UsizeMaxAssumption`, `HartsAssumption`: finitely
many harts, fewer than tickets). `MutualExclusion` is not inductive: that two
harts are not served at once follows from their tickets being different, and
that a newly drawn ticket is different from all others from their number. The
inductive invariant is `TypeOK /\ TicketInv`: outstanding tickets are distinct,
as many as lie between `now_serving` and `next_ticket`, all of them in that
window modulo the wrap, and an owner's ticket is the one being served.
`TypeCorrect`, `TicketsConsistent`, `MutexSafety` and `Refinement` (every step is a step of
`FairLock` or leaves its state alone) follow.

**`RwLockProofs`** (from `HartsFinite`). `WordExact`: the word is twice the
number of increments that were not taken back plus the writer bit. `RwLockSafety`
(a write guard excludes all others) needs it: `compare_exchange(0, WRITER)`
succeeds only when nobody is counted. `TypeCorrect` (`RwTypeOK`) comes with it: that the
word stays a natural number is a fact about the count.

**`BuddyProofs`** starts with facts about numbers and lists: an aligned block is two
aligned halves, an aligned block and its buddy are an aligned block of twice the
size, pushing, popping and removing change the set of free blocks by exactly the
block meant, and `region_order` (the loop of `add_single_region`) always has a
value. The lemmas are about steps with any regions (`BuddyStep`) of which
those that are added are `Admissible` (aligned, and apart from the ones before), so
that they serve `PhysMem` too, whose regions come from a range set. It proves:

- `TypeCorrect`: for any orders and regions the recursion stays within the array
  of lists.
- `InductiveInvariant`: `IInv == TypeOK /\ NoOverlap /\ BlocksValid /\ CallInv`
  is an invariant if `RegionsAligned` holds. `NoOverlap` alone is not inductive:
  `Split` needs the block to be aligned, or its buddy lies outside it; `Merge`
  needs that too, to know where the doubled block starts; `AddSingleRegion` needs
  that the rest of the region is in no block yet and does not start one page
  behind a multiple of four pages, which is what `CallInv` says of the locals.
- `NoPageTwice` and `BlocksStayValid` are its consequences.

`RegionsAligned` is a hypothesis of these theorems and not an assumption of the
module, because the code does not ensure it: `physmem_odd_kernel` shows what
happens without it. `MCBuddy` asserts that it holds of the checked instance.
`PowersOfTwo` states the arithmetic of `2^o` that the provers do not know;
`RegionsAssumption` is the contract of `add_region` (regions do not overlap)
together with memory that starts above the size of the largest block, as on all
machines whose RAM is at `0x8000_0000`.

**`BuddyBooks`** builds on `IInv` (and so on `RegionsAligned`). A lemma per
action reduces the step to what it does to three sets of pages, the free, the
taken (`live` and in hand) and the added ones: it keeps them, or takes, gives or
adds a set `P`. From that

- `NothingLost` (`Conservation`) and `BooksExact` (`StatsExact`): the counters
  move by the size of `P`, so the inductive part is that they are the
  cardinalities of the sets.
- `FailsWhenExhausted` needs `Searched`: while `allocate` goes up, the lists from
  the requested order to the one before the current are empty.
- `Refinement` (`ImplementsPageAllocator`): the mapping counts a block in hand as
  free, so splits and merges are stutters, and `HandOut`, `Deallocate` and
  `AddSingleRegion` are the abstract steps.
- `FreedIsMerged` (`Coalesced`): the invariant `Merged` says it also in the middle
  of a call. `PutBack` keeps it because it runs only when the buddy is not in the
  list, `Split` because the other half is in hand, `PutBackBoth` because no block
  that was added is larger, and `AddSingleRegion` because neither a new block nor
  its buddy is inside an older one.

- `RegionsComplete`: between calls the known pages are exactly the whole pages of
  the regions that were added. `Seeded` says that in the middle of `add_region`
  what is missing is what it has still before it.

**`RangeSetProofs`** (from `RangeSetAssumption`, `UseAssumption`: any number of
slots, any addresses up to `usize::MAX`, any number of calls). `SetInv(C)` says,
for the content `C` that the running call has to leave:

- `Content`: while `insert` runs, the entries and the range it collected cover
  `C`; while `remove_range` runs, `C` is what the entries cover outside the range;
- `MergeProgress`, `CutProgress`: either no entry touches (overlaps) the range any
  more, or the innermost loop has the right bound and all slots it has passed do
  not. This is why stale bounds do no harm to the content: the innermost loop,
  started last, does all the work, and outer loops find nothing left to do among
  the entries;
- `CutNesting`: a split stores its upper part too large, starting inside the range;
  only the recursive call meets it, and trims it.

`SetStaysSeparated` and `SetIsExact` follow. Outer loops may still find a stale
slot behind `idx` that touches the range, and panic. `RoomySetNeverPanics` bounds
this: `Roomy` says that removed ranges are pushed to the end of the array, so that
after `w` writes the slots in between hold the zeros of the fresh array, and that
no loop reaches further than `w`. It supposes that no address is below 2 (zeros
would touch a range at 0 or 1), which holds for RAM.

**`PhysMemProofs`** composes them, for any memory regions and blocked ranges
(`LayoutsAssumption`: memory above the size of the largest block). The hypothesis
`LayoutsAligned` says that no stretch of usable memory starts one page behind a
multiple of four pages; the code does not ensure it, and `physmem_odd_kernel` is
the counterexample. `PhysInv` is `SetInv` of what the loops of `init` have
inserted and cut out so far, the allocator's invariants, and that the added
regions are the entries that the last loop has passed, all within usable memory.
Its core is `EntryAdmissible`: separated entries become regions whose pages are
apart, aligned because the gaps between entries are where usable memory stops.

- `BlockedNeverAllocated`, `OnlyTreeMemory`: blocks lie in pages of added regions,
  and those in usable memory.
- `NoPageTwiceAfterInit`: `NoOverlap` for the allocator as `init` fills it.
- `InitLosesLastPagesOnly` (`OnlyLastPagesMissing`): a usable page whose next byte
  is usable lies within one entry, since there are gaps between entries, and
  `Seeded` says all its pages were added. That the last page of a stretch is lost
  is `physmem_last_page`.
- `OrderForSizeFits` (`OrderFits`): needs no alignment. The inductive part is that
  the order in the locals of a running call, or the one that was refused, is
  `order_for_size` of the request; `OrderIsLeast` is about the arithmetic.
  `PowersDouble` (`2^0 = 1` and `2^(k+1)` is twice `2^k`) is a hypothesis, because
  the provers do not know what `^` is; `SizesAssumption` says that a page is a
  power of two.

The module reaches `RangeSetUse` through `RangeSetProofs`; its own specification
does not mention that module's variables.

**`PageTableProofs`** (from `PageTableAssumption`: any number of levels and
entries, any finite set of pages, any requests; `PowersOfFanout`: the arithmetic
of `FANOUT^l`). The hypothesis `RequestsSeparate` says that `map` and `map_alloc`
are used on separate areas, as `memmap.rs` lays them out, and that `map_alloc`
does not use two page sizes at one place. The module has a theory of walks. A
virtual page number is a sequence of digits; the pages of one mapping are those
with the same digits from its level on. In a forest (every branch leads to a
table that is not the root, and no table has two parents) two walks meet at one
table and level only if the digits above agree, so writing an entry on the walk
to `v` changes translations only of the pages that share the digits of `v` from
that level on (`OthersAsBefore`). That is the
heart of all the rest. The invariant `TableInv` adds

- `Pages`: the tables are the root and the recorded subtables, none of them free;
- `Exact`: what the walk finds is what `mapped` says;
- `Owned`: pages in `map_alloc`'s areas have distinct physical pages which are
  neither free nor tables. `TablesFormTree` needs this: the page that `free`
  gives back and `map` makes a table of may not be one in use;
- `SizesFit`, `Claims`: leaves in those areas have the requested size, and
  allocations are apart and mapped. Without the sizes `free` would give back
  more or fewer pages than the leaf it clears maps;
- `Mapping`, `Allocating`, `Freeing`: where the running call stands. `map` is at
  the table that the walk reaches, the page it has in hand belongs to nobody,
  and `free` still has mapped pages of no allocation before it.

`TreeInvariant` is `[]TableInv`; `TablesAreTree`, `TranslationsExact` and
`GrantsKept` follow. `Exact` is about the walk, as the hart does it; what
`translate` returns differs from it on Terapages, where it panics, so
`TranslationsExact` says "exact, or the panic on a mapped page of a Terapage that
`map` was asked for", and `TotalInSv39` that with at most three levels there is no
panic. `pagetable_terapage` is the counterexample for four. `NoStaleTranslation` also supposes `SinglePages` (each
allocation is one page, small or large) and needs `CacheInv`: a cached
translation is one of `map`'s or still current, and `free` is at the address it
was called with. `pagetable_free` is the counterexample for two pages.

**`MachineProofs`**, about `Kernel` (from `KernelAssumption`; the specification is `KernelSpec`,
the part of `MCMachine`'s that starts the kernel) holds for any number of blocks
and interrupts and any capacity of `subtables`. `HartInv` says that the hart runs boot
code, handles an interrupt, is on its way from a fault to the shutdown, or is
lost. For boot code, `Shape` gives the calls it can be in at each place and
`Facts` which pointers were converted there; for a handler, where the values of
the interrupted code are on their way through `sscratch`, `temp_sp` and the
frame. `RegistersRestored` is about the moment of `sret` only, so it needs all of
these; `NoStrayAccess` needs the order of the conversions, and that a handler
runs on top of boot code that has them behind it. In the middle of
`override_log`, `LogWords` says which logger the words stored so far give.

**`MachineProofs`**, about `Drivers` (from `DriversAssumption`; `DriversSpec`), holds
for any number of harts, interrupts and calls and any message. `EnableBlockExact`: the
word index of `enable_idx_bit` and the byte index of the controller name the
same bit, different harts have different words, and a word that a hart has read
is still what the block holds, because only its owner writes it. The last needs
`NDEV <= 1023`, the number of bits that the code reserves per context.
`LineFaithful`: without a race the bytes that left, followed by the one in the
transmitter, are the bytes written, and at most one hart is about to store
(`Exact`). With races, those that have not cost a byte yet (`Slack`) pay for every
hart that is about to store and will find the transmitter full (`Counted`). The port is programmed as far as `init` got, so that no store of `init` is
taken for data.

Induction over numbers (levels, digits, orders) is done by taking the least
counterexample, a set, since the provers cannot instantiate the library's
induction rules, which take a predicate.

Only model-checked: liveness (`StarvationFree`, `NoDeadlock`,
`ReaderWaitsForWriterOnly`, `CallsReturn`, `Finishes`, `Served`), which is outside
the prover's reach; and `DeviceTree` (`IteratorsExact`, `FindExact`,
`RegionsExact`, `PanicsOnlyBeyondLimits`): what its parser computes is defined by
recursion over the bytes of a tree, and the reference by recursion over the tree,
so those four are statements by induction over data.

## 5. Findings

1. `rangeset.rs:191`: `merge_blocks` runs to the `idx` it read at its start. When
   merging removes entries, stale slots behind `idx` are compared, and
   `remove(idx).unwrap()` panics. (`rangeset_overlap`)
2. `buddy.rs:104`: `add_single_region` never looks at bit 0 of the page number. A
   region that starts at a page congruent to 1 modulo 4 becomes a misaligned
   block; splitting it yields a buddy outside the region, for example in the
   kernel image. (`physmem_odd_kernel`)
3. `page.rs:268`: `free` flushes the first address of the allocation in each turn
   of its loop instead of the page it just unmapped. (`pagetable_free`)
4. `page.rs:191`: `map` refuses an existing leaf but overwrites a branch, so a
   large page silently replaces the small pages below it. (`pagetable_replace`)
5. `pmem.rs:61`: the ends in a range set are inclusive, the end of `add_region` is
   exclusive, and `init` passes one for the other: the last page of every stretch of
   usable memory is not added, and a stretch of one page fails the boot with
   `RegionTooSmall`. (`physmem_last_page`)
6. `page.rs:367`: in Sv48 `map` takes a Terapage, and `traverse` is `unreachable!()`
   for its level: the next `translate` or `unmap` of it panics.
   (`pagetable_terapage`)

`NoPanicWhileRoomy` excludes sets on which `clear` was called. The proof attempt
showed why: `clear` leaves the old entries at the front of the array, where a loop
with a stale bound meets them, and with twelve slots or more a set that wrote
fewer than half of them can panic. The kernel never calls `clear`.

Deviations of `DeviceTree` from its documentation without a run of their own.
`find_nodes` ("Find all nodes that match the given path", `lib.rs:141`) follows
only the first node that fits each part above the last, so matches below a later
one are not found. `Matches` is the documented answer and the reference of
`FindExact`; for a path with such a part (`Ambiguous`) the property asks only that
what is found is a beginning of that answer, and without this exception TLC finds
it violated. `regions` takes the cells of the root for every node, and so does its
reference; its panic message asks for cells of `2` or `4` (`node.rs:254`) where
the code takes 1 or 2.

Deviations that the properties of `Kernel` and `Drivers` name as exceptions; TLC
finds each of them when the exception is taken out:

- a timer interrupt that hits a hart inside `log` waits for `LOG` for ever
  (`trap.rs:58`), one that logs between the stores of `override_log` finds the
  counters of the new mutex unequal, or leaves them so (`log/src/lib.rs:172`), and
  a page table with more than 512 subtables waits for `PAGE_TABLE`
  (`pmem.rs:131`): `KnownSelfWait` of `Finishes`;
- a hart that is lost counts as finished in `Finishes`: it followed a wrong pointer
  before traps were handled, which `NoStrayAccess` is about, or the trap frame
  overwrote memory in use;
- without the system reset call `fail_shutdown` and the panic handler call each
  other (`system.rs:67`): `machine.srst` in `Finishes`;
- between `install_handler` and the end of `override_log` a timer interrupt, and in
  `init_hart_context` a failed allocation, logs through a physical vtable
  (`boot.rs:222-225`): `EarlyLog` of `NoStrayAccess`;
- only the first memory region is mapped (`boot.rs:92`), while the allocator has
  all of them: `machine.regions = {1}` in `NoStrayAccess`;
- `HartContext.trap_stack` is documented as the end of the trap stack and is its
  start (`hart.rs:98`), so the trap frame lies in the page below: `below` and
  `Corrupted`;
- `Controller::init` leaves the largest interrupt id without a priority
  (`plic.rs:119`): `muted` in `Served`;
- two harts in `write` or `try_write` can both find the transmitter empty and lose
  a byte (`ns16550a.rs:69-91`): `races` in `SentAsWritten`.

In the model and without a property: `read` returns an old byte when a handler
drains the buffer between its check and its access (`ns16550a.rs:59-63`); `unmap`
leaves the cached translation to its callers (`page.rs:314`).

The assertion behind the allocation of the tree's copy (`boot.rs:82`) compares the
new block with the address of a local variable instead of the tree's.

## 6. What is not modelled

- `PhysMem`: the refusal of alignments above a page (no state changes), the
  zeroing of `zalloc` (`PageTable` models its result, an empty table) and the
  value that `PhysicalAllocator::deallocate` translates to; the lock it takes is
  in `Kernel`.
- `PageTable`: dropping a table (none is dropped while the kernel runs),
  the debug printer, permission bits beyond "has some", and
  mapping with empty flags, which no caller does.
- `Buddy`: memory at address 0 (the `NullPointer` paths are in the model and
  unreachable by `RegionsAssumption`), and memory reads and writes through the
  list nodes.
- Weak memory: the atomics are modelled as sequentially consistent. The orderings
  that the code uses (acquire loads, release stores) give mutual exclusion its
  happens-before edge; the model does not check that.
- `DeviceTree`: malformed blobs (`from_ptr` requires a valid one), the unit
  address in a name, the splitting of a path string, the lookups with fixed
  paths, which are `find_node`, and calls of `next()` after `None` (no caller
  makes one; `children` and `props` are fused).
- `Kernel`: the other harts. `boot/harts.rs` is there, but its only call is
  commented out with "Currently broken", and with it the branch of the panic
  handler for other harts. The device tree in memory the allocator may use
  (`boot.rs:81`): where it is depends on the firmware. Formatting, the table of
  architecture names, and the contents of mappings beyond "which regions".
- `Drivers`: `from_node` and `compatible_with`, which read the device tree, the
  panics for interrupt 0, and FIFOs deeper than the driver's use of them shows: the
  transmitter holds one byte, which is what `transmitter_empty` (not "has room")
  waits for.
- SBI calls and register access: wrappers without state. `xtask` builds and
  starts the kernel and is not part of it.

## 7. Plan

All components that run are modelled, and every safety property that a passing run
checks is proved for all values of the constants, except the four of `DeviceTree`.
What is left:

1. `DeviceTree`: a version with the token parser as a state machine, as `RangeSet`
   has it, would make `PanicsOnlyBeyondLimits` an invariant that can be proved
   step by step; exactness needs induction over the tree.
2. The other harts, when `boot/harts.rs` is called again: `Kernel` with a set of
   harts and the locks of `TicketLock` in place of its lock states.
