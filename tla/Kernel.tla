------------------------------- MODULE Kernel -------------------------------
(***************************************************************************)
(* The life of the boot hart, from _boot to the call that turns the        *)
(* machine off: boot.rs, hart.rs, trap.rs, panic.rs and main.rs of         *)
(* crates/kernel and the logger of crates/log.  `pc` is the place the hart *)
(* is at and `stack` the places its calls return to.  Three things meet:   *)
(*  - the switch from physical to virtual addresses, which happens between *)
(*    two instructions while the pointers that were made before are        *)
(*    converted one by one (`space`);                                      *)
(*  - the locks PAGE_TABLE, PHYS_MEM and LOG, taken by the boot code, by   *)
(*    the allocator it calls, and by handlers that interrupt either;       *)
(*  - traps: the interrupts the environment raises and the faults of       *)
(*    accesses through a pointer that is not valid in the current space.   *)
(* Only the boot hart runs (the start of the others is commented out).     *)
(* The allocator is the number of blocks it still has, a page table the    *)
(* number of its subtables; their own modules model what is inside.        *)
(***************************************************************************)
EXTENDS Naturals, Sequences

CONSTANTS BLOCKS,        \* bound: blocks the allocator may have at the start
          SUBTABLE_CAP,  \* entries the first block of `subtables` holds (512)
          IRQS           \* bound: interrupts the environment raises

ASSUME KernelAssumption == BLOCKS \in Nat /\ IRQS \in Nat /\ SUBTABLE_CAP \in Nat \ {0}

VARIABLES machine,  \* what the kernel finds: see Machines
          pc, stack,
          csr,      \* control registers: paging, stvec, sie, sscratch, sepc
          regs,     \* the general registers, by class
          context,  \* HartContext.temp_sp, the trap frame, and what it overwrote
          trapped,  \* what each running trap interrupted, the newest first
          space,    \* the address space in which a pointer is valid
          mapped,   \* the memory regions mapped at KERNEL_PHYS_MEM_BASE
          home,     \* the region that holds the copy of the device tree
          locks,    \* "free" or "held"; of LOG the two counters of the Mutex
          unwritten,\* the words of LOG that override_log still has to store
          torn,     \* history: a handler logged while some of them were stored
          blocks, tables, irqs

kernelVars == <<machine, pc, stack, csr, regs, context, trapped, space, mapped, home,
                locks, unwritten, torn, blocks, tables, irqs>>

\* What a step of straight-line code leaves alone, apart from locks, space,
\* csr and the allocator.
trapVars == <<regs, context, trapped, irqs>>
memVars  == <<mapped, home, blocks, tables, unwritten>>

Regs == {"x1", "sp", "s0", "x", "f"}  \* "x": the other integer registers

\* The values of the registers while code of the given kind runs.
ValuesOf(who) == [r \in Regs |-> <<r, who>>]

NULL    == <<"address", "null">>
CONTEXT == <<"address", "HartContext">>
FRAME   == <<"address", "trap frame">>

\* reloc: the image has only entries relocate supports; fdt: a valid tree;
\* putchar, srst: calls the firmware offers; regions: memory in the tree;
\* below: the page below the trap stack is in use.
Machines == [reloc : BOOLEAN, fdt : BOOLEAN, putchar : BOOLEAN, srst : BOOLEAN,
             regions : {{1}, {1, 2}}, below : BOOLEAN]

\* LOG: the counters of the Mutex, the tag of the Option and the vtable pointer.
Counters == {"now_serving", "next_ticket"}
Words == Counters \cup {"tag", "vtable"}

\* The state in which the hart is at `label` and nothing has happened yet.
KernelAt(label) ==
    /\ pc = label /\ stack = <<>>
    /\ csr = [paging |-> FALSE, stvec |-> "firmware", sie |-> FALSE,
              sscratch |-> NULL, sepc |-> "none"]
    /\ regs = ValuesOf("kernel")
    /\ context = [temp_sp |-> NULL, frame |-> ValuesOf("none"), damaged |-> FALSE]
    /\ trapped = <<>>
    /\ space = [fdt |-> "phys", code |-> "none", log |-> "none",
                table |-> "none", heap |-> "phys", sp |-> "phys"]
    /\ mapped = {} /\ home = 1
    /\ locks = [PAGE_TABLE |-> "free", PHYS_MEM |-> "free",
                LOG |-> [now_serving |-> 0, next_ticket |-> 0]]
    /\ unwritten = Words /\ torn = FALSE
    /\ tables = 0

KernelInit ==
    /\ KernelAt("_boot")
    /\ machine \in Machines
    /\ blocks \in 0 .. BLOCKS
    /\ irqs = IRQS

-----------------------------------------------------------------------------
(* Control flow and memory accesses *)

Goto(label) == pc' = label /\ stack' = stack
Call(label, ret) == pc' = label /\ stack' = <<ret>> \o stack
Return == pc' = Head(stack) /\ stack' = Tail(stack)
Panic == pc' = "panic" /\ stack' = <<>>

Lock(l) == locks[l] = "free" /\ locks' = [locks EXCEPT ![l] = "held"]
Unlock(l) == locks' = [locks EXCEPT ![l] = "free"]

\* lock() on LOG returns; as long as it does not, its hart does nothing else.
LogFree == locks.LOG.now_serving = locks.LOG.next_ticket

Mapping == {"map_memory", "map_sections", "map_stack"}
Allocating == {"alloc_order", "allocate"}

\* The pointers that the code at a place follows.
Uses(p) ==
    CASE p \in Allocating                            -> {"sp", "heap"}
      [] p \in Mapping \cup {"push"}                 -> {"sp", "table", "heap"}
      [] p \in {"_before_main", "map_first", "rust_trampoline", "main", "log_core_online"}
                                                     -> {"sp", "fdt"}
      [] p = "log_write"  -> {"sp", "code"} \cup IF space.log = "none" THEN {} ELSE {"log"}
      [] p = "panic"                                 -> {"sp", "code"}
      [] p \in {"_boot", "entry_trampoline", "trap", "trap_save", "lost"} -> {}
      [] OTHER                                       -> {"sp"}

Here == IF csr.paging THEN "virt" ELSE "phys"

\* Pointers the code at hand follows that are not valid in the current space.
Misused == {x \in Uses(pc) : space[x] # Here}

\* Regions the code at hand may read or write and that are not mapped: the
\* allocator follows its lists into any of them.
Unmapped == IF ~ csr.paging THEN {}
            ELSE CASE pc \in Allocating       -> machine.regions \ mapped
                   [] pc = "rust_trampoline"  -> {home} \ mapped
                   [] OTHER                   -> {}

\* The hart runs the code at `label`, which has what it needs.
At(label) == pc = label /\ Misused = {}

-----------------------------------------------------------------------------
(* boot.rs, with paging off *)

\* _boot: interrupts off, relocate the image to where it is, clear bss.
Boot ==
    /\ At("_boot")
    /\ csr' = [csr EXCEPT !.sie = FALSE]
    /\ IF machine.reloc THEN Goto("_before_main") /\ space' = [space EXCEPT !.code = "phys"]
                        ELSE Goto("error_loop") /\ UNCHANGED space
    /\ UNCHANGED <<machine, torn, locks, trapVars, memVars>>

\* DeviceTree::from_ptr(fdt).unwrap(), then the probe for put_char.
ReadTree ==
    /\ At("_before_main")
    /\ IF ~ machine.fdt THEN Panic
       ELSE IF machine.putchar THEN Goto("init_log") ELSE Goto("pmem_init")
    /\ UNCHANGED <<machine, torn, csr, space, locks, trapVars, memVars>>

\* log::init_log(SbiLogger), under the lock: the trait object points into the
\* physical image.
init_log ==
    /\ At("init_log")
    /\ LogFree
    /\ locks' = [locks EXCEPT !.LOG = [c \in Counters |-> @[c] + 1]]
    /\ space' = [space EXCEPT !.log = "phys"]
    /\ Goto("pmem_init")
    /\ UNCHANGED <<machine, torn, csr, trapVars, memVars>>

\* pmem::init(&fdt).unwrap(), with every error of PhysMem a panic.
PmemInit ==
    /\ At("pmem_init")
    /\ locks["PHYS_MEM"] = "free"
    /\ Goto("lock_table") \/ Panic
    /\ UNCHANGED <<machine, torn, csr, space, locks, trapVars, memVars>>

\* PAGE_TABLE.lock(), and KernelPageTable::new() with its boxed root.
NewTable ==
    /\ At("lock_table")
    /\ Lock("PAGE_TABLE")
    /\ space' = [space EXCEPT !.table = "phys"]
    /\ Call("allocate", "copy_fdt")
    /\ UNCHANGED <<machine, torn, csr, trapVars, memVars>>

\* The block for the copy.  (The assertion behind it compares the block with
\* a local variable on the boot stack, never with the tree, and cannot fail.)
CopyTree ==
    /\ At("copy_fdt")
    /\ Call("alloc_order", "map_first")
    /\ UNCHANGED <<machine, torn, csr, space, locks, trapVars, memVars>>

\* copy_to_slice into the new block, wherever it is; then the loop over the
\* first memory region of the tree.  A region that is not aligned to
\* megapages makes map fail and the boot panic.
MapMemory ==
    /\ At("map_first")
    /\ home' \in machine.regions
    /\ mapped' = {1}
    /\ Goto("map_memory") \/ Panic
    /\ UNCHANGED <<machine, torn, csr, space, locks, trapVars, blocks, tables, unwritten>>

\* PageTable::map takes a new table from the allocator (zalloc_order) and
\* records it; how many are needed depends on the addresses.
MapNewTable ==
    /\ pc \in Mapping /\ Misused = {}
    /\ pc' = "alloc_order" /\ stack' = <<"push", pc>> \o stack
    /\ UNCHANGED <<machine, torn, csr, space, locks, trapVars, memVars>>

\* subtables.push: the first one allocates, and one beyond the capacity moves
\* the vector to a new block and gives the old one back.
PushSubtable ==
    /\ At("push")
    /\ tables < SUBTABLE_CAP
    /\ tables' = tables + 1
    /\ IF tables = 0 THEN pc' = "allocate" /\ stack' = stack ELSE Return
    /\ UNCHANGED <<machine, torn, csr, space, locks, trapVars, mapped, home, blocks, unwritten>>

\* PhysicalAllocator::deallocate translates the pointer with page::root(),
\* which locks PAGE_TABLE.  Its only caller here holds that lock: the hart
\* stays at "deallocate".
GrowSubtables ==
    /\ At("push")
    /\ tables = SUBTABLE_CAP
    /\ Call("allocate", "deallocate")
    /\ UNCHANGED <<machine, torn, csr, space, locks, trapVars, memVars>>

\* The loop is done: memory, then the sections of the kernel, then the
\* stack of the hart, whose memory alloc_kernel_stack takes first.
MapDone ==
    /\ \/ At("map_memory") /\ Goto("map_sections")
       \/ At("map_sections") /\ Call("alloc_order", "map_stack")
       \/ At("map_stack") /\ Goto("replace_with")
    /\ UNCHANGED <<machine, torn, csr, space, locks, trapVars, memVars>>

\* replace_with: the table's own pointers become virtual, and the lock is
\* dropped, while the hart still runs on physical addresses.
ConvertTable ==
    /\ At("replace_with")
    /\ space' = [space EXCEPT !.table = "virt"]
    /\ Unlock("PAGE_TABLE")
    /\ Goto("set_phymem_offset")
    /\ UNCHANGED <<machine, torn, csr, trapVars, memVars>>

\* From here on phys2virt, and with it every list of the allocator, works on
\* virtual addresses.
set_phymem_offset ==
    /\ At("set_phymem_offset")
    /\ space' = [space EXCEPT !.heap = "virt"]
    /\ Goto("relocate")
    /\ UNCHANGED <<machine, torn, csr, locks, trapVars, memVars>>

\* relocate(HIGHER_HALF_START), over the entries of the first call: what
\* made that one succeed makes this one succeed.
Relocate ==
    /\ At("relocate")
    /\ IF machine.reloc THEN Goto("entry_trampoline") ELSE Panic
    /\ space' = [space EXCEPT !.code = "virt"]
    /\ UNCHANGED <<machine, torn, csr, locks, trapVars, memVars>>

\* Mutant of EnablePaging: the tree is handed over by its physical address.
EnablePagingOldTree ==
    /\ At("entry_trampoline")
    /\ csr' = [csr EXCEPT !.paging = TRUE, !.stvec = "rust_trampoline", !.sie = FALSE,
                          !.sepc = "entry_trampoline"]
    /\ space' = [space EXCEPT !.sp = "virt"]
    /\ Goto("rust_trampoline")
    /\ UNCHANGED <<machine, torn, locks, trapVars, memVars>>

\* entry_trampoline: stack and stvec, then satp; the next fetch traps into
\* rust_trampoline with interrupts off.
EnablePaging ==
    /\ At("entry_trampoline")
    /\ csr' = [csr EXCEPT !.paging = TRUE, !.stvec = "rust_trampoline", !.sie = FALSE,
                          !.sepc = "entry_trampoline"]
    /\ space' = [space EXCEPT !.sp = "virt", !.fdt = "virt"]
    /\ Goto("rust_trampoline")
    /\ UNCHANGED <<machine, torn, locks, trapVars, memVars>>

-----------------------------------------------------------------------------
(* rust_trampoline, hart.rs, main.rs, with paging on *)

\* from_ptr on the copied tree, then init_hart_context: the trap stack ...
InitHartContext ==
    /\ At("rust_trampoline")
    /\ home \in mapped
    /\ Call("allocate", "box_context")
    /\ UNCHANGED <<machine, torn, csr, space, locks, trapVars, memVars>>

\* ... and the context, whose address goes to sscratch.
BoxContext ==
    /\ \/ At("box_context") /\ Call("allocate", "csrw_sscratch") /\ UNCHANGED csr
       \/ At("csrw_sscratch") /\ Goto("install_handler")
          /\ csr' = [csr EXCEPT !.sscratch = CONTEXT]
    /\ UNCHANGED <<machine, torn, space, locks, trapVars, memVars>>

install_handler ==
    /\ At("install_handler")
    /\ csr' = [csr EXCEPT !.stvec = "_trap_handler", !.sie = TRUE]
    /\ Goto("override_log")
    /\ UNCHANGED <<machine, torn, space, locks, trapVars, memVars>>

\* The logger in LOG with one more word stored: the Option is Some, with an
\* unset vtable pointer at first, and the pointer is the new one.
LoggerWith(word) ==
    CASE word = "tag" /\ space.log = "none" -> IF "vtable" \in unwritten THEN "unset" ELSE "virt"
      [] word = "vtable" /\ space.log # "none" -> "virt"
      [] OTHER                               -> space.log

\* override_log writes a new Mutex over LOG without its lock, and interrupts are
\* on: a word at a time, in the order the compiler chose.
OverrideLog ==
    /\ At("override_log")
    /\ \E word \in unwritten :
          /\ locks' = IF word \in Counters THEN [locks EXCEPT !.LOG[word] = 0] ELSE locks
          /\ space' = [space EXCEPT !.log = LoggerWith(word)]
          /\ unwritten' = unwritten \ {word}
          /\ Goto(IF unwritten = {word} THEN "local_storage" ELSE "override_log")
    /\ UNCHANGED <<machine, torn, csr, trapVars, mapped, home, blocks, tables>>

\* A block for a copy of tdata; its error is unwrapped like the others.
init_hart_local_storage ==
    /\ At("local_storage")
    /\ Call("alloc_order", "main")
    /\ UNCHANGED <<machine, torn, csr, space, locks, trapVars, memVars>>

\* main logs three times (alloc_stats is evaluated before the lock of LOG is
\* taken) and shuts down.  log_core_online needs the hart context, and panics
\* when the tree has no node /cpus.
Main ==
    /\ \/ At("main") /\ Call("log", "log_core_online")
       \/ At("log_core_online") /\ Panic
       \/ At("log_core_online") /\ csr.sscratch # NULL /\ Call("log", "alloc_stats")
       \/ At("alloc_stats") /\ Call("log", "shutdown")
    /\ UNCHANGED <<machine, torn, csr, space, locks, trapVars, memVars>>

\* system::shutdown and fail_shutdown: reset(..).unwrap(), so that a firmware
\* without the call sends the hart to the panic handler, and that one here.
Shutdown ==
    /\ At("shutdown")
    /\ IF machine.srst THEN Goto("off") ELSE Panic
    /\ UNCHANGED <<machine, torn, csr, space, locks, trapVars, memVars>>

-----------------------------------------------------------------------------
(* pmem.rs: the allocator under PHYS_MEM.  Nothing that interrupts it takes  *)
(* this lock, so that lock, call and unlock are one step when it succeeds.   *)

AllocateOk ==
    /\ pc \in Allocating /\ Misused = {}
    /\ locks["PHYS_MEM"] = "free"
    /\ blocks > 0
    /\ blocks' = blocks - 1
    /\ Return
    /\ UNCHANGED <<machine, torn, csr, space, locks, trapVars, mapped, home, tables, unwritten>>

\* alloc_order and zalloc_order return the error, and every caller unwraps it.
AllocOrderFails ==
    /\ At("alloc_order")
    /\ locks["PHYS_MEM"] = "free"
    /\ blocks = 0
    /\ Panic
    /\ UNCHANGED <<machine, torn, csr, space, locks, trapVars, memVars>>

\* PhysicalAllocator::allocate warns while the guard of its match is alive ...
AllocateFails ==
    /\ At("allocate")
    /\ blocks = 0
    /\ Lock("PHYS_MEM")
    /\ pc' = "log" /\ stack' = <<"alloc_error">> \o Tail(stack)
    /\ UNCHANGED <<machine, torn, csr, space, trapVars, memVars>>

\* ... and Box and Vec call alloc_handler, which panics.
AllocError ==
    /\ At("alloc_error")
    /\ Unlock("PHYS_MEM")
    /\ Panic
    /\ UNCHANGED <<machine, torn, csr, space, trapVars, memVars>>

-----------------------------------------------------------------------------
(* crates/log, panic.rs *)

LogLock ==
    /\ At("log")
    /\ LogFree
    /\ locks' = [locks EXCEPT !.LOG.next_ticket = @ + 1]
    /\ Goto("log_write")
    /\ UNCHANGED <<machine, torn, csr, space, trapVars, memVars>>

\* Through the trait object, if there is one; SbiLogger reports no error.
LogWrite ==
    /\ At("log_write")
    /\ Goto("log_unlock")
    /\ UNCHANGED <<machine, torn, csr, space, locks, trapVars, memVars>>

LogUnlock ==
    /\ At("log_unlock")
    /\ locks' = [locks EXCEPT !.LOG.now_serving = locks.LOG.next_ticket]
    /\ Return
    /\ UNCHANGED <<machine, torn, csr, space, trapVars, memVars>>

\* Mutant of panic_handler: the message goes through the logger.
panic_handler_logs ==
    /\ At("panic")
    /\ Call("log", "shutdown")
    /\ UNCHANGED <<machine, torn, csr, space, locks, trapVars, memVars>>

\* On the boot hart, or without a context, it prints through SBI and turns
\* the machine off.
panic_handler ==
    /\ At("panic")
    /\ Goto("shutdown")
    /\ UNCHANGED <<machine, torn, csr, space, locks, trapVars, memVars>>

-----------------------------------------------------------------------------
(* trap.rs *)

\* The hart leaves what it does for stvec; `cause` waits on the stack.
Trap(cause) ==
    /\ csr' = [csr EXCEPT !.sepc = pc, !.sie = FALSE]
    /\ trapped' = <<[pc |-> pc, regs |-> regs]>> \o trapped
    /\ Call("trap", cause)

\* Interrupts come at any time once install_handler ran; nothing in the
\* kernel asks for one.
Interrupt ==
    /\ csr.sie /\ irqs > 0 /\ pc \notin {"off", "lost"}
    /\ irqs' = irqs - 1
    /\ \E cause \in {"timer", "external", "software"} : Trap(cause)
    /\ UNCHANGED <<machine, torn, regs, context, space, locks, memVars>>

\* A page fault or an access through a wrong address.  Before install_handler
\* it would enter the firmware or rust_trampoline with arbitrary registers.
Fault ==
    /\ Misused \cup Unmapped # {} /\ pc # "lost"
    /\ IF csr.stvec = "_trap_handler" THEN Trap("fault")
       ELSE pc' = "lost" /\ stack' = <<>> /\ UNCHANGED <<csr, trapped>>
    /\ UNCHANGED <<machine, torn, regs, context, irqs, space, locks, memVars>>

\* The context in s0 and s0 in sscratch; sp goes to temp_sp, and the trap
\* stack, less the frame, to sp.  HartContext.trap_stack is the START of the
\* buffer, so that the frame is in the page below.
SwitchStack ==
    /\ pc = "trap"
    /\ csr.sscratch = CONTEXT
    /\ csr' = [csr EXCEPT !.sie = FALSE, !.sscratch = regs["s0"]]
    /\ context' = [context EXCEPT !.temp_sp = regs["sp"],
                                  !.damaged = @ \/ machine.below]
    /\ regs' = [regs EXCEPT !["s0"] = CONTEXT, !["sp"] = FRAME]
    /\ Goto("trap_save")
    /\ UNCHANGED <<machine, torn, trapped, irqs, space, locks, memVars>>

\* Mutant of SaveRegisters: s0 is saved before it is swapped back.
SaveContextPointer ==
    /\ pc = "trap_save"
    /\ context' = [context EXCEPT !.frame = [regs EXCEPT !["sp"] = context.temp_sp]]
    /\ csr' = [csr EXCEPT !.sscratch = regs["s0"]]
    /\ regs' = [regs EXCEPT !["s0"] = csr.sscratch]
    /\ Goto("trap_call")
    /\ UNCHANGED <<machine, torn, trapped, irqs, space, locks, memVars>>

\* x1 first, because it carries temp_sp to the frame, then s0 and sscratch
\* change back and the other registers follow.
SaveRegisters ==
    /\ pc = "trap_save"
    /\ context' = [context EXCEPT !.frame = [regs EXCEPT !["sp"] = context.temp_sp,
                                                         !["s0"] = csr.sscratch]]
    /\ csr' = [csr EXCEPT !.sscratch = regs["s0"]]
    /\ regs' = [regs EXCEPT !["s0"] = csr.sscratch, !["x1"] = context.temp_sp]
    /\ Goto("trap_call")
    /\ UNCHANGED <<machine, torn, trapped, irqs, space, locks, memVars>>

\* trap_handler(frame, scause, stval, sepc) keeps sepc while it runs: the
\* register itself is lost when the handler faults.
CallHandler ==
    /\ At("trap_call")
    /\ regs' = [ValuesOf("handler") EXCEPT !["sp"] = FRAME]
    /\ stack' = <<csr.sepc>> \o Tail(stack)
    /\ pc' = Head(stack)
    /\ UNCHANGED <<machine, torn, csr, context, trapped, irqs, space, locks, memVars>>

\* An external interrupt is ignored, a timer interrupt logged, a software
\* interrupt ends in an empty loop and everything else in a panic.
trap_handler ==
    /\ \/ At("external") /\ Goto("trap_return")
       \/ At("timer") /\ Call("log", "trap_return")
       \/ At("software") /\ Goto("ipi_loop")
       \/ At("fault") /\ Panic
    /\ torn' = (torn \/ (pc = "timer" /\ unwritten \notin {{}, Words}))
    /\ UNCHANGED <<machine, csr, space, locks, trapVars, memVars>>

\* csrw sepc, a0 and all registers from the frame, sp last.
RestoreRegisters ==
    /\ At("trap_return")
    /\ csr' = [csr EXCEPT !.sepc = Head(stack)]
    /\ regs' = context.frame
    /\ pc' = "sret" /\ stack' = Tail(stack)
    /\ UNCHANGED <<machine, torn, context, trapped, irqs, space, locks, memVars>>

\* SPIE was set before the handler ran: interrupts are on again.
Sret ==
    /\ pc = "sret"
    /\ pc' = csr.sepc /\ stack' = stack
    /\ csr' = [csr EXCEPT !.sie = TRUE]
    /\ trapped' = Tail(trapped)
    /\ UNCHANGED <<machine, torn, regs, context, irqs, space, locks, memVars>>

\* The frame may have overwritten anything: a block in use, a table, a list.
Corrupted ==
    /\ context.damaged /\ pc \notin {"off", "lost"}
    /\ pc' = "lost" /\ stack' = <<>>
    /\ UNCHANGED <<machine, torn, csr, space, locks, trapVars, memVars>>

Step == \/ Boot \/ ReadTree \/ init_log \/ PmemInit \/ NewTable \/ CopyTree
        \/ MapMemory \/ MapNewTable \/ PushSubtable \/ GrowSubtables \/ MapDone
        \/ ConvertTable \/ set_phymem_offset \/ Relocate \/ EnablePaging
        \/ InitHartContext \/ BoxContext \/ install_handler \/ OverrideLog
        \/ init_hart_local_storage \/ Main \/ Shutdown
        \/ AllocateOk \/ AllocOrderFails \/ AllocateFails \/ AllocError
        \/ LogLock \/ LogWrite \/ LogUnlock \/ panic_handler
        \/ Fault \/ SwitchStack \/ SaveRegisters \/ CallHandler \/ trap_handler
        \/ RestoreRegisters \/ Sret

KernelNext == Step \/ Interrupt \/ Corrupted

\* The hart executes instructions as long as it can; neither interrupts nor
\* corruption are promised.
KernelFairness == WF_kernelVars(Step)

KernelSpec == KernelInit /\ [][KernelNext]_kernelVars /\ KernelFairness

-----------------------------------------------------------------------------
(* Properties *)

\* A handler returns to the instruction that was interrupted with the registers
\* it had, although they passed through sscratch, temp_sp and a frame that a
\* fault inside the handler writes again ("all registers that were stored
\* prior to executing the interrupt handler, and will be loaded again").
RegistersRestored ==
    pc = "sret" => /\ regs = trapped[1].regs
                   /\ csr.sepc = trapped[1].pc

\* A message that is logged with paging on before override_log is through: by
\* an allocation that fails in init_hart_context, or by a timer interrupt
\* between install_handler and the end of override_log.
EarlyLog ==
    /\ csr.paging /\ pc = "log_write"
    /\ \/ Head(stack) = "alloc_error" /\ csr.stvec = "rust_trampoline"
       \/ trapped # <<>> /\ trapped[Len(trapped)].pc = "override_log"

\* While pointers are converted one by one around the switch to paging, no
\* code follows one that is not valid in the space the hart is in: the only
\* exception is the logger's trait object in an early message.  With a single
\* memory region every block the allocator and the tree use is mapped.
NoStrayAccess ==
    /\ Misused \subseteq (IF EarlyLog THEN {"log"} ELSE {})
    /\ machine.regions = {1} => Unmapped = {}

\* The waits that never end: a timer interrupt logs while the code below it
\* holds LOG; it logs while override_log stores the counters one by one, and
\* finds them unequal, or leaves them so for whoever logs next; subtables
\* outgrows its block under PAGE_TABLE.
KnownSelfWait ==
    \/ /\ pc = "log" /\ Head(stack) = "trap_return"
       /\ trapped[Len(trapped)].pc \in {"log_write", "log_unlock"}
    \/ pc = "log" /\ torn /\ ~ LogFree
    \/ pc = "deallocate"

\* The machine is turned off at the end of main or after a panic, whatever
\* locks the panicking code held, or the hart is in one of the loops and waits
\* above, or lost: it followed a pointer of the wrong address space before
\* traps were handled, or a trap frame overwrote memory in use.  (Without the
\* firmware's reset call shutdown and panic_handler call each other for ever.)
Finishes ==
    machine.srst => <>(pc \in {"off", "error_loop", "ipi_loop", "lost"} \/ KnownSelfWait)
=============================================================================
