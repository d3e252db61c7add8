--------------------------- MODULE MachineProofs ---------------------------
(***************************************************************************)
(* Proofs about the two parts of MCMachine.  Kernel, for every number of   *)
(* blocks, of interrupts and every capacity of `subtables`: a handler      *)
(* gives back what it interrupted, and no code follows a pointer of the    *)
(* wrong address space.  Drivers, for every number of harts and every set  *)
(* of interrupt ids: the enable block of the interrupt controller is       *)
(* exact, and the serial port sends what was written, but for a byte each  *)
(* time two harts race for it.                                             *)
(***************************************************************************)
EXTENDS Kernel, Drivers, FiniteSetTheorems, SequenceTheorems, TLAPS

-----------------------------------------------------------------------------
(* Where the boot code is *)

Logging == {"log", "log_write", "log_unlock"}
Causes  == {"timer", "external", "software"}

\* Places that are reached with paging off, those that are reached with paging
\* on, and the others at which nothing is to return to.
Early == {"_boot", "_before_main", "error_loop", "init_log", "pmem_init", "lock_table",
          "copy_fdt", "map_first", "replace_with", "set_phymem_offset", "relocate",
          "entry_trampoline"} \cup Mapping
Late  == {"rust_trampoline", "box_context", "csrw_sscratch", "install_handler",
          "override_log", "local_storage", "main", "log_core_online", "alloc_stats"}
Top   == Early \cup Late \cup {"alloc_error", "panic", "shutdown", "off"}

\* Places that neither a handler nor a panic in one reaches, and all places.
BootOnly == Early \cup Late \cup {"alloc_order", "push", "deallocate", "allocate", "alloc_error"}
Labels   == BootOnly \cup {"panic", "shutdown", "off", "fault", "trap_return"}
            \cup Logging \cup Causes

\* The calls the code at p is in, as the stack s shows them; w is the place of
\* the boot code that is running or waiting below them.
Shape(p, s, w) ==
    \/ p \in Top /\ s = <<>> /\ w = p
    \/ p = "alloc_order" /\ s = <<w>> /\ w \in {"map_first", "map_stack", "main"}
    \/ p = "alloc_order" /\ s = <<"push", w>> /\ w \in Mapping
    \/ p \in {"push", "deallocate", "alloc_error"} /\ s = <<w>> /\ w \in Mapping
    \/ p = "allocate" /\ s = <<w>> /\ w \in {"copy_fdt", "box_context", "csrw_sscratch"}
    \/ p = "allocate" /\ s \in {<<w>>, <<"deallocate", w>>} /\ w \in Mapping
    \/ p \in Logging /\ s = <<w>>
                     /\ w \in {"log_core_online", "alloc_stats", "shutdown", "alloc_error"}
    \/ p \in Logging /\ s = <<"alloc_error", w>> /\ w \in Mapping

\* What holds while the boot code is at w.
Facts(w) ==
    /\ w \in Early => ~ csr.paging
    /\ w \in Late => csr.paging
    /\ w \notin {"_boot", "error_loop"} => machine.reloc
    /\ w \notin {"_boot", "error_loop"} =>
          space.code = IF w = "entry_trampoline" THEN "virt" ELSE Here
    /\ space.heap = IF w \in {"relocate", "entry_trampoline"} THEN "virt" ELSE Here
    /\ w \in {"copy_fdt", "map_first", "replace_with"} \cup Mapping => space.table = "phys"
    /\ w \in {"replace_with", "set_phymem_offset", "relocate", "entry_trampoline"}
             \cup Mapping => mapped = {1}
    /\ w \in {"rust_trampoline", "box_context", "csrw_sscratch", "install_handler"}
          => csr.stvec = "rust_trampoline"
    /\ w \in {"override_log", "local_storage", "main", "log_core_online", "alloc_stats"}
          => csr.stvec = "_trap_handler"
    /\ w = "install_handler" => csr.sscratch = CONTEXT

\* What the words say that override_log has stored so far.
LogWords == /\ "vtable" \notin unwritten => space.log \in {"none", "virt"}
            /\ "tag" \notin unwritten => space.log # "none"

\* Once traps are handled, the logger is virtual, or override_log still stores
\* it; code that logs before is about to panic.
Logger(p, s) ==
    /\ csr.stvec = "_trap_handler" => (p = "override_log" /\ LogWords) \/ space.log = "virt"
    /\ p \in Logging => \/ space.log = "virt"
                        \/ Head(s) = "alloc_error" /\ csr.stvec # "_trap_handler"

Place(p, s) == Logger(p, s) /\ \E w \in Top : Shape(p, s, w) /\ Facts(w)

-----------------------------------------------------------------------------
(* What the hart does: it runs the boot code, it handles an interrupt of   *)
(* it, it handles a fault or panics in its handler, or it is lost.         *)

Values == (Regs \cup {"address"})
          \X {"kernel", "handler", "none", "null", "HartContext", "trap frame"}
RegFile == [Regs -> Values]

Global ==
    /\ DOMAIN csr = {"paging", "stvec", "sie", "sscratch", "sepc"}
    /\ DOMAIN space = {"fdt", "code", "log", "table", "heap", "sp"}
    /\ DOMAIN context = {"temp_sp", "frame", "damaged"}
    /\ machine \in Machines /\ home \in machine.regions
    /\ space.sp = Here /\ space.fdt = Here
    /\ csr.paging \in BOOLEAN
    /\ csr.stvec \in {"firmware", "rust_trampoline", "_trap_handler"}
    /\ csr.paging <=> csr.stvec # "firmware"
    /\ csr.paging => space.code = "virt" /\ space.heap = "virt" /\ mapped = {1}
    /\ ~ csr.paging => space.log \in {"none", "phys"}
    /\ csr.stvec # "_trap_handler" => unwritten = Words

Running ==
    /\ trapped = <<>> /\ regs \in RegFile
    /\ csr.sie => csr.stvec = "_trap_handler"
    /\ csr.stvec = "_trap_handler" => csr.sscratch = CONTEXT
    /\ Place(pc, stack)

\* The handler of the interrupt t, with the stack s of the code below: where the
\* values of t are on their way through sscratch, temp_sp and the frame.
Handler(t, s) ==
    \/ /\ pc = "trap" /\ \E c \in Causes : stack = <<c>> \o s
       /\ csr.sepc = t.pc /\ csr.sscratch = CONTEXT
       /\ regs = t.regs
    \/ /\ pc = "trap_save" /\ \E c \in Causes : stack = <<c>> \o s
       /\ csr.sepc = t.pc /\ csr.sscratch = t.regs["s0"]
       /\ regs = [t.regs EXCEPT !["s0"] = CONTEXT, !["sp"] = FRAME]
       /\ context.temp_sp = t.regs["sp"]
    \/ /\ pc = "trap_call" /\ \E c \in Causes : stack = <<c>> \o s
       /\ csr.sepc = t.pc /\ csr.sscratch = CONTEXT
       /\ context.frame = t.regs
    \/ /\ pc \in Causes \cup {"trap_return", "ipi_loop"} /\ stack = <<t.pc>> \o s
       /\ csr.sscratch = CONTEXT /\ context.frame = t.regs
    \/ /\ pc \in Logging /\ stack = <<"trap_return">> \o (<<t.pc>> \o s)
       /\ csr.sscratch = CONTEXT /\ context.frame = t.regs
    \/ /\ pc = "sret" /\ stack = s
       /\ csr.sepc = t.pc /\ csr.sscratch = CONTEXT
       /\ regs = t.regs

\* The stacks of the boot code.
Stacks == {<<>>} \cup {<<w>> : w \in Top}
          \cup ({"push", "deallocate", "alloc_error"} \X Mapping)

Handling ==
    /\ csr.stvec = "_trap_handler" /\ csr.sie = FALSE
    /\ Len(trapped) = 1 /\ trapped = <<trapped[1]>> /\ trapped[1].regs \in RegFile
    /\ \E s \in Stacks : Place(trapped[1].pc, s) /\ Handler(trapped[1], s)

\* A fault is never returned from.
Doomed ==
    /\ csr.stvec = "_trap_handler" /\ csr.sie = FALSE
    /\ pc \in {"trap", "trap_save", "trap_call", "fault", "panic", "shutdown", "off"}
    /\ pc \in {"trap", "trap_save", "trap_call"} => Head(stack) = "fault"

HartInv == Global /\ (Running \/ Handling \/ Doomed \/ pc = "lost")
-----------------------------------------------------------------------------
(* Stacks *)

\* Small stacks, as calls build them and returns take them apart.
LEMMA SmallStacks ==
    ASSUME NEW x \in Labels, NEW y \in Labels
    PROVE  /\ <<x>> \o <<>> = <<x>> /\ <<x>> \o <<y>> = <<x, y>> /\ <<x, y>> \o <<>> = <<x, y>>
           /\ Head(<<x>>) = x /\ Tail(<<x>>) = <<>>
           /\ Head(<<x, y>>) = x /\ Tail(<<x, y>>) = <<y>>
           /\ <<x>> \in Seq(Labels) /\ <<x, y>> \in Seq(Labels) /\ <<>> \in Seq(Labels)
<1>1. <<x>> \in Seq(Labels) /\ <<x, y>> \in Seq(Labels) /\ <<>> \in Seq(Labels)
  OBVIOUS
<1>2. <<x>> \o <<>> = <<x>> /\ <<x, y>> \o <<>> = <<x, y>>
  OBVIOUS
<1>3. <<x>> \o <<y>> = <<x, y>>
  <2>1. <<x>> \in Seq(Labels) /\ <<y>> \in Seq(Labels) /\ Len(<<x>>) = 1 /\ Len(<<y>>) = 1
    OBVIOUS
  <2>2. /\ <<x>> \o <<y>> \in Seq(Labels) /\ Len(<<x>> \o <<y>>) = 2
        /\ (<<x>> \o <<y>>)[1] = x /\ (<<x>> \o <<y>>)[2] = y
    BY <2>1, ConcatProperties
  <2>3. /\ <<x, y>> \in Seq(Labels) /\ Len(<<x, y>>) = 2
        /\ <<x, y>>[1] = x /\ <<x, y>>[2] = y
    OBVIOUS
  <2>4. \A i \in 1 .. 2 : (<<x>> \o <<y>>)[i] = <<x, y>>[i]
    BY <2>2, <2>3
  <2> QED
    BY <2>2, <2>3, <2>4, SeqEqual
<1>4. Head(<<x>>) = x /\ Head(<<x, y>>) = x
  OBVIOUS
<1>5. Tail(<<x>>) = <<>>
  OBVIOUS
<1>6. Tail(<<x, y>>) = <<y>>
  OBVIOUS
<1> QED
  BY <1>1, <1>2, <1>3, <1>4, <1>5, <1>6

\* A call puts one place on the stack.
LEMMA Pushed ==
    ASSUME NEW s \in Seq(Labels), NEW x \in Labels
    PROVE  <<x>> \o s \in Seq(Labels) /\ Head(<<x>> \o s) = x /\ Tail(<<x>> \o s) = s
<1>1. <<x>> \in Seq(Labels) /\ Len(<<x>>) = 1 /\ <<x>>[1] = x
  OBVIOUS
<1>2. /\ <<x>> \o s \in Seq(Labels) /\ Len(<<x>> \o s) = 1 + Len(s)
      /\ (<<x>> \o s)[1] = x
      /\ \A i \in 1 .. Len(s) : (<<x>> \o s)[i + 1] = s[i]
  BY <1>1
<1>3. <<x>> \o s # <<>>
  BY <1>2
<1>4. Head(<<x>> \o s) = x
  BY <1>2, <1>3
<1>5. /\ Tail(<<x>> \o s) \in Seq(Labels) /\ Len(Tail(<<x>> \o s)) = Len(s)
      /\ \A i \in 1 .. Len(s) : Tail(<<x>> \o s)[i] = s[i]
  BY <1>2, <1>3
<1>6. Tail(<<x>> \o s) = s
  BY <1>5, SeqEqual
<1> QED
  BY <1>2, <1>4, <1>6

LEMMA TopLabels == Top \subseteq Labels /\ Mapping \subseteq Top
BY DEF Labels, Top, BootOnly, Early, Late

LEMMA StacksAre == \A s \in Stacks : s \in Seq(Labels)
<1>1. {"push", "deallocate", "alloc_error"} \subseteq Labels
  BY DEF Labels, BootOnly
<1>2. <<>> \in Seq(Labels)
  OBVIOUS
<1>3. \A w \in Top : <<w>> \in Seq(Labels)
  BY SmallStacks, TopLabels
<1>4. \A x \in {"push", "deallocate", "alloc_error"}, w \in Mapping : <<x, w>> \in Seq(Labels)
  BY <1>1, SmallStacks, TopLabels
<1>5. \A s \in {"push", "deallocate", "alloc_error"} \X Mapping : s = <<s[1], s[2]>>
  OBVIOUS
<1> QED
  BY <1>2, <1>3, <1>4, <1>5, ZenonT(60) DEF Stacks

\* The boot code's stack is one of them, and its place is a label.
LEMMA PlaceStack ==
    ASSUME NEW p, NEW s, Place(p, s)
    PROVE  s \in Stacks /\ p \in Labels
<1>1. PICK w \in Top : Shape(p, s, w)
  BY DEF Place
<1>2. s = <<>> \/ s = <<w>>
      \/ \E x \in {"push", "deallocate", "alloc_error"} : s = <<x, w>> /\ w \in Mapping
  BY <1>1 DEF Shape
<1>3. s \in Stacks
  BY <1>2, TopLabels DEF Stacks
<1>4. p \in Labels
  BY <1>1, TopLabels DEF Shape, Labels, BootOnly
<1> QED
  BY <1>3, <1>4

\* Where nothing is to return to, the facts of the place hold.
LEMMA AtTop ==
    ASSUME NEW p \in Top \ {"alloc_error"}, NEW s, Place(p, s)
    PROVE  s = <<>> /\ Facts(p)
<1>1. PICK w \in Top : Shape(p, s, w) /\ Facts(w)
  BY DEF Place
<1>2. p \notin {"alloc_order", "push", "deallocate", "alloc_error", "allocate"} \cup Logging
  BY DEF Top, Early, Late, Mapping, Logging
<1>3. p \in Top /\ s = <<>> /\ w = p
  BY <1>1, <1>2 DEF Shape
<1> QED
  BY <1>1, <1>3

\* A place where nothing is to return to.
LEMMA IsTop ==
    ASSUME NEW p \in Top, Facts(p), Logger(p, <<>>)
    PROVE  Place(p, <<>>)
BY DEF Place, Shape

\* The code panics on top of nothing.
LEMMA MayPanic ==
    ASSUME NEW p, NEW s, Place(p, s),
           p \notin {"_boot", "error_loop", "relocate", "entry_trampoline", "override_log"}
    PROVE  Facts("panic") /\ Logger("panic", <<>>) /\ "panic" \in Top
<1>1. PICK w \in Top : Shape(p, s, w) /\ Facts(w)
  BY DEF Place
<1>2. w \notin {"_boot", "error_loop", "relocate", "entry_trampoline"}
  BY <1>1 DEF Shape, Mapping
<1>3. machine.reloc /\ space.code = Here /\ space.heap = Here
  BY <1>1, <1>2 DEF Facts
<1>4. Facts("panic")
  BY <1>3 DEF Facts, Early, Late, Mapping
<1>5. Logger("panic", <<>>)
  BY DEF Place, Logger, Logging
<1> QED
  BY <1>4, <1>5 DEF Top

-----------------------------------------------------------------------------
(* Steps of the boot code *)

LEMMA InBoot ==
    ASSUME HartInv, pc \in BootOnly
    PROVE  Running
<1>1. pc \notin {"trap", "trap_save", "trap_call", "fault", "panic", "shutdown", "off", "lost",
                 "trap_return", "ipi_loop", "sret"} \cup Causes \cup Logging
  BY DEF BootOnly, Early, Late, Mapping, Causes, Logging
<1>2. ~ Doomed /\ pc # "lost"
  BY <1>1 DEF Doomed
<1>3. ~ Handling
  BY <1>1 DEF Handling, Handler
<1> QED
  BY <1>2, <1>3 DEF HartInv

\* What a step of the boot code has to show.
LEMMA BootStep ==
    ASSUME Running, UNCHANGED trapVars, Global', Place(pc, stack)',
           csr'.sie => csr'.stvec = "_trap_handler",
           csr'.stvec = "_trap_handler" => csr'.sscratch = CONTEXT
    PROVE  HartInv'
BY DEF Running, HartInv, trapVars

\* Most steps only move.
LEMMA Straight ==
    ASSUME HartInv, Running, UNCHANGED <<machine, csr, space, mapped, home, unwritten, trapVars>>,
           Place(pc', stack')
    PROVE  HartInv'
<1>1. Global'
  BY DEF HartInv, Global, trapVars, Here
<1>2. Place(pc, stack)'
  BY DEF Place, Logger, LogWords, Facts, Here
<1>3. /\ csr'.sie => csr'.stvec = "_trap_handler"
      /\ csr'.stvec = "_trap_handler" => csr'.sscratch = CONTEXT
  BY DEF Running
<1> QED
  BY <1>1, <1>2, <1>3, BootStep

LEMMA PanicStep ==
    ASSUME HartInv, Running, UNCHANGED <<machine, csr, space, mapped, home, unwritten, trapVars>>, Panic,
           pc \notin {"_boot", "error_loop", "relocate", "entry_trampoline", "override_log"}
    PROVE  HartInv'
<1>1. Place(pc', stack')
  BY MayPanic, IsTop DEF Running, Panic
<1> QED
  BY <1>1, Straight

\* Where the boot code is at a place of its own.
LEMMA BootAt ==
    ASSUME HartInv, pc \in Early \cup Late
    PROVE  Running /\ Global /\ stack = <<>> /\ Facts(pc) /\ Logger(pc, <<>>) /\ Place(pc, <<>>)
<1>1. pc \in BootOnly /\ pc \in Top \ {"alloc_error"}
  BY DEF BootOnly, Top, Early, Late, Mapping
<1>2. Running /\ Global
  BY <1>1, InBoot DEF HartInv
<1>3. Place(pc, stack)
  BY <1>2 DEF Running
<1>4. stack = <<>> /\ Facts(pc)
  BY <1>1, <1>3, AtTop
<1> QED
  BY <1>2, <1>3, <1>4 DEF Place

\* The boot code comes to a place of its own.
LEMMA ToTop ==
    ASSUME HartInv, Running, UNCHANGED trapVars, Global',
           NEW p \in Top, pc' = p, stack' = <<>>, Facts(p)', Logger(p, <<>>)',
           csr'.sie => csr'.stvec = "_trap_handler",
           csr'.stvec = "_trap_handler" => csr'.sscratch = CONTEXT
    PROVE  HartInv'
<1>1. Place(pc, stack)'
  BY DEF Place, Shape, Facts, Logger, LogWords, Here
<1> QED
  BY <1>1, BootStep

\* The boot code comes to a place of its own and changes nothing.
LEMMA MoveTop ==
    ASSUME HartInv, Running, UNCHANGED <<machine, csr, space, mapped, home, unwritten, trapVars>>,
           NEW p \in Top, pc' = p, stack' = <<>>, Facts(p), Logger(p, <<>>)
    PROVE  HartInv'
BY IsTop, Straight

\* The boot code calls something and changes nothing.
LEMMA MoveCall ==
    ASSUME HartInv, Running, UNCHANGED <<machine, csr, space, mapped, home, unwritten, trapVars>>,
           NEW w \in Top, Shape(pc', stack', w), Facts(w), Logger(pc', stack')
    PROVE  HartInv'
BY Straight DEF Place

\* The steps up to the first allocation.
LEMMA FirstSteps ==
    ASSUME HartInv, Boot \/ ReadTree \/ init_log \/ PmemInit
    PROVE  HartInv'
<1> USE DEF At, Goto
<1>1. CASE Boot
  <2>1. pc = "_boot" /\ pc \in Early
    BY <1>1 DEF Boot, Early
  <2>2. Running /\ Global /\ stack = <<>> /\ Facts("_boot") /\ Logger("_boot", <<>>)
    BY <2>1, BootAt
  <2>3. CASE machine.reloc
    <3>1. Global'
      BY <1>1, <2>2, <2>3 DEF Global, Boot, Here, trapVars, memVars, Facts, Early
    <3>2. Facts("_before_main")' /\ Logger("_before_main", <<>>)'
      BY <1>1, <2>2, <2>3 DEF Global, Boot, Here, memVars, Facts, Logger, Early, Late,
                              Mapping, Logging
    <3>3. ~ csr'.sie /\ csr'.stvec = "firmware"
      BY <1>1, <2>2 DEF Boot, Global, Facts, Early
    <3> QED
      BY <1>1, <2>2, <2>3, <3>1, <3>2, <3>3, ToTop DEF Boot, Top, Early
  <2>4. CASE ~ machine.reloc
    <3>1. Global'
      BY <1>1, <2>2, <2>4 DEF Global, Boot, Here, trapVars, memVars
    <3>2. Facts("error_loop")' /\ Logger("error_loop", <<>>)'
      BY <1>1, <2>2, <2>4 DEF Global, Boot, Here, memVars, Facts, Logger, Early, Late,
                              Mapping, Logging
    <3>3. ~ csr'.sie /\ csr'.stvec = "firmware"
      BY <1>1, <2>2 DEF Boot, Global, Facts, Early
    <3> QED
      BY <1>1, <2>2, <2>4, <3>1, <3>2, <3>3, ToTop DEF Boot, Top, Early
  <2> QED
    BY <2>3, <2>4
<1>2. CASE ReadTree
  <2>1. pc = "_before_main" /\ pc \in Early
        /\ UNCHANGED <<machine, csr, space, mapped, home, unwritten, trapVars>>
    BY <1>2 DEF ReadTree, Early, memVars
  <2>2. Running /\ stack = <<>> /\ Facts("_before_main") /\ Logger("_before_main", <<>>)
    BY <2>1, BootAt
  <2>3. CASE Panic
    BY <2>1, <2>2, <2>3, PanicStep
  <2>4. ASSUME NEW p \in {"init_log", "pmem_init"}, Goto(p)
        PROVE  HartInv'
    <3>1. Facts(p) /\ Logger(p, <<>>) /\ p \in Top
      BY <2>2 DEF Facts, Logger, Early, Late, Mapping, Logging, Top
    <3> QED
      BY <2>1, <2>2, <2>4, <3>1, MoveTop
  <2> QED
    BY <1>2, <2>3, <2>4 DEF ReadTree
<1>3. CASE init_log
  <2>1. pc = "init_log" /\ pc \in Early
    BY <1>3 DEF init_log, Early
  <2>2. Running /\ Global /\ stack = <<>> /\ Facts("init_log") /\ Logger("init_log", <<>>)
    BY <2>1, BootAt
  <2>3. Global'
    BY <1>3, <2>2 DEF Global, init_log, Here, trapVars, memVars, Facts, Early
  <2>4. Facts("pmem_init")' /\ Logger("pmem_init", <<>>)'
    BY <1>3, <2>2 DEF Global, init_log, Here, memVars, Facts, Logger, Early, Late,
                      Mapping, Logging
  <2> QED
    BY <1>3, <2>2, <2>3, <2>4, ToTop DEF init_log, Top, Early, Running
<1>4. CASE PmemInit
  <2>1. pc = "pmem_init" /\ pc \in Early
        /\ UNCHANGED <<machine, csr, space, mapped, home, unwritten, trapVars>>
    BY <1>4 DEF PmemInit, Early, memVars
  <2>2. Running /\ stack = <<>> /\ Facts("pmem_init") /\ Logger("pmem_init", <<>>)
    BY <2>1, BootAt
  <2>3. CASE Panic
    BY <2>1, <2>2, <2>3, PanicStep
  <2>4. CASE Goto("lock_table")
    <3>1. Facts("lock_table") /\ Logger("lock_table", <<>>) /\ "lock_table" \in Top
      BY <2>2 DEF Facts, Logger, Early, Late, Mapping, Logging, Top
    <3> QED
      BY <2>1, <2>2, <2>4, <3>1, MoveTop
  <2> QED
    BY <1>4, <2>3, <2>4 DEF PmemInit
<1> QED
  BY <1>1, <1>2, <1>3, <1>4

\* The label of a call that returns to the place that makes it.
LEMMA CallTop ==
    ASSUME stack = <<>>, NEW p, NEW w \in Labels, Call(p, w)
    PROVE  pc' = p /\ stack' = <<w>>
BY SmallStacks DEF Call

\* The page table is built and the tree copied.
LEMMA TableSteps ==
    ASSUME HartInv, NewTable \/ CopyTree \/ MapMemory
    PROVE  HartInv'
<1> USE DEF At, Goto
<1>1. CASE NewTable
  <2>1. pc = "lock_table" /\ pc \in Early
    BY <1>1 DEF NewTable, Early
  <2>2. Running /\ Global /\ stack = <<>> /\ Facts("lock_table") /\ Logger("lock_table", <<>>)
    BY <2>1, BootAt
  <2>3. Global'
    BY <1>1, <2>2 DEF Global, NewTable, Here, trapVars, memVars
  <2>4. "copy_fdt" \in Labels /\ "copy_fdt" \in Top
    BY DEF Labels, BootOnly, Early, Top
  <2>5. pc' = "allocate" /\ stack' = <<"copy_fdt">>
    BY <1>1, <2>2, <2>4, CallTop DEF NewTable
  <2>6. Facts("copy_fdt")' /\ Logger(pc, stack)'
    BY <1>1, <2>2, <2>5 DEF Global, NewTable, Here, memVars, Facts, Logger, Early, Late,
                            Mapping, Logging
  <2>7. Place(pc, stack)'
    BY <2>4, <2>5, <2>6 DEF Place, Shape, Facts, Here
  <2> QED
    BY <1>1, <2>2, <2>3, <2>7, BootStep DEF NewTable, Running
<1>2. CASE CopyTree
  <2>1. pc = "copy_fdt" /\ pc \in Early
        /\ UNCHANGED <<machine, csr, space, mapped, home, unwritten, trapVars>>
    BY <1>2 DEF CopyTree, Early, memVars
  <2>2. Running /\ stack = <<>> /\ Facts("copy_fdt") /\ Logger("copy_fdt", <<>>)
    BY <2>1, BootAt
  <2>3. "map_first" \in Labels /\ "map_first" \in Top
    BY DEF Labels, BootOnly, Early, Top
  <2>4. pc' = "alloc_order" /\ stack' = <<"map_first">>
    BY <1>2, <2>2, <2>3, CallTop DEF CopyTree
  <2>5. Facts("map_first") /\ Logger(pc', stack')
    BY <2>2, <2>4 DEF Facts, Logger, Early, Late, Mapping, Logging
  <2>6. Shape(pc', stack', "map_first")
    BY <2>4 DEF Shape
  <2> QED
    BY <2>1, <2>2, <2>3, <2>5, <2>6, MoveCall
<1>3. CASE MapMemory
  <2>1. pc = "map_first" /\ pc \in Early
    BY <1>3 DEF MapMemory, Early
  <2>2. Running /\ Global /\ stack = <<>> /\ Facts("map_first") /\ Logger("map_first", <<>>)
    BY <2>1, BootAt
  <2>3. Global'
    BY <1>3, <2>2 DEF Global, MapMemory, Here, trapVars
  <2>4. ASSUME NEW p \in {"map_memory", "panic"}
        PROVE  Facts(p)' /\ Logger(p, <<>>)' /\ p \in Top
    BY <1>3, <2>2 DEF Global, MapMemory, Here, Facts, Logger, Early, Late, Mapping,
                      Logging, Top
  <2>5. \E p \in {"map_memory", "panic"} : pc' = p /\ stack' = <<>>
    BY <1>3, <2>2 DEF MapMemory, Panic
  <2> QED
    BY <1>3, <2>2, <2>3, <2>4, <2>5, ToTop DEF MapMemory, Running
<1> QED
  BY <1>1, <1>2, <1>3

\* Every pointer is converted, and paging goes on.
LEMMA SwitchSteps ==
    ASSUME HartInv, ConvertTable \/ set_phymem_offset \/ Relocate \/ EnablePaging
    PROVE  HartInv'
<1> USE DEF At, Goto
<1>1. CASE ConvertTable
  <2>1. pc = "replace_with" /\ pc \in Early
    BY <1>1 DEF ConvertTable, Early
  <2>2. Running /\ Global /\ stack = <<>> /\ Facts("replace_with")
        /\ Logger("replace_with", <<>>)
    BY <2>1, BootAt
  <2>3. Global'
    BY <1>1, <2>2 DEF Global, ConvertTable, Here, trapVars, memVars
  <2>4. Facts("set_phymem_offset")' /\ Logger("set_phymem_offset", <<>>)'
    BY <1>1, <2>2 DEF Global, ConvertTable, Here, memVars, Facts, Logger, Early, Late,
                      Mapping, Logging
  <2> QED
    BY <1>1, <2>2, <2>3, <2>4, ToTop DEF ConvertTable, Top, Early, Running
<1>2. CASE set_phymem_offset
  <2>1. pc = "set_phymem_offset" /\ pc \in Early
    BY <1>2 DEF set_phymem_offset, Early
  <2>2. Running /\ Global /\ stack = <<>> /\ Facts("set_phymem_offset")
        /\ Logger("set_phymem_offset", <<>>)
    BY <2>1, BootAt
  <2>3. Global'
    BY <1>2, <2>2 DEF Global, set_phymem_offset, Here, trapVars, memVars
  <2>4. Facts("relocate")' /\ Logger("relocate", <<>>)'
    BY <1>2, <2>2 DEF Global, set_phymem_offset, Here, memVars, Facts, Logger, Early, Late,
                      Mapping, Logging
  <2> QED
    BY <1>2, <2>2, <2>3, <2>4, ToTop DEF set_phymem_offset, Top, Early, Running
<1>3. CASE Relocate
  <2>1. pc = "relocate" /\ pc \in Early
    BY <1>3 DEF Relocate, Early
  <2>2. Running /\ Global /\ stack = <<>> /\ Facts("relocate") /\ Logger("relocate", <<>>)
    BY <2>1, BootAt
  <2>3. Global'
    BY <1>3, <2>2 DEF Global, Relocate, Here, trapVars, memVars
  <2>4. Facts("entry_trampoline")' /\ Logger("entry_trampoline", <<>>)'
    BY <1>3, <2>2 DEF Global, Relocate, Here, memVars, Facts, Logger, Early, Late,
                      Mapping, Logging
  <2>5. pc' = "entry_trampoline" /\ stack' = <<>>
    BY <1>3, <2>2 DEF Relocate, Facts
  <2> QED
    BY <1>3, <2>2, <2>3, <2>4, <2>5, ToTop DEF Relocate, Top, Early, Running
<1>4. CASE EnablePaging
  <2>1. pc = "entry_trampoline" /\ pc \in Early
    BY <1>4 DEF EnablePaging, Early
  <2>2. Running /\ Global /\ stack = <<>> /\ Facts("entry_trampoline")
        /\ Logger("entry_trampoline", <<>>)
    BY <2>1, BootAt
  <2>3. Global'
    BY <1>4, <2>2 DEF Global, EnablePaging, Here, trapVars, memVars, Facts, Early
  <2>4. Facts("rust_trampoline")' /\ Logger("rust_trampoline", <<>>)'
    BY <1>4, <2>2 DEF Global, EnablePaging, Here, memVars, Facts, Logger, Early, Late,
                      Mapping, Logging
  <2>5. csr'.stvec = "rust_trampoline" /\ ~ csr'.sie
    BY <1>4, <2>2 DEF EnablePaging, Global
  <2> QED
    BY <1>4, <2>2, <2>3, <2>4, <2>5, ToTop DEF EnablePaging, Top, Late
<1> QED
  BY <1>1, <1>2, <1>3, <1>4

\* The hart's context, the handler and the logger.
LEMMA HartSteps ==
    ASSUME HartInv, InitHartContext \/ BoxContext \/ install_handler \/ OverrideLog
                    \/ init_hart_local_storage
    PROVE  HartInv'
<1> USE DEF At, Goto
<1>1. ASSUME NEW p, NEW w \in {"box_context", "csrw_sscratch", "main"}, pc = p,
             p \in {"rust_trampoline", "box_context", "local_storage"},
             w = "main" <=> p = "local_storage",
             UNCHANGED <<machine, csr, space, mapped, home, unwritten, trapVars>>,
             Call(IF w = "main" THEN "alloc_order" ELSE "allocate", w)
      PROVE  HartInv'
  <2>1. pc \in Late /\ w \in Labels /\ w \in Top
    BY <1>1 DEF Late, Labels, BootOnly, Top
  <2>2. Running /\ stack = <<>> /\ Facts(p) /\ Logger(p, <<>>)
    BY <1>1, <2>1, BootAt
  <2>3. pc' = (IF w = "main" THEN "alloc_order" ELSE "allocate") /\ stack' = <<w>>
    BY <1>1, <2>1, <2>2, CallTop
  <2>4. Facts(w)
    BY <1>1, <2>2 DEF Facts, Early, Late, Mapping
  <2>5. Logger(pc', stack')
    BY <1>1, <2>2, <2>3 DEF Logger, Logging
  <2>6. Shape(pc', stack', w)
    BY <1>1, <2>3 DEF Shape
  <2> QED
    BY <1>1, <2>1, <2>2, <2>4, <2>5, <2>6, MoveCall
<1>2. CASE InitHartContext
  BY <1>1, <1>2 DEF InitHartContext, memVars
<1>3. CASE BoxContext
  <2>1. CASE At("box_context")
    BY <1>1, <1>3, <2>1 DEF BoxContext, memVars
  <2>2. CASE At("csrw_sscratch")
    <3>1. pc \in Late
      BY <2>2 DEF Late
    <3>2. Running /\ Global /\ stack = <<>> /\ Facts("csrw_sscratch")
          /\ Logger("csrw_sscratch", <<>>)
      BY <2>2, <3>1, BootAt
    <3>3. csr' = [csr EXCEPT !.sscratch = CONTEXT] /\ Goto("install_handler")
          /\ UNCHANGED <<machine, space, mapped, home, unwritten, trapVars>>
      BY <1>3, <2>2 DEF BoxContext, memVars
    <3>4. Global'
      BY <3>2, <3>3 DEF Global, Here, trapVars
    <3>5. Facts("install_handler")' /\ Logger("install_handler", <<>>)'
      BY <3>2, <3>3 DEF Global, Here, Facts, Logger, Early, Late, Mapping, Logging
    <3>6. csr'.sie = csr.sie /\ csr'.stvec = csr.stvec /\ csr'.sscratch = CONTEXT
      BY <3>2, <3>3 DEF Global
    <3>7. "install_handler" \in Top
      BY DEF Top, Late
    <3> QED
      BY <3>2, <3>3, <3>4, <3>5, <3>6, <3>7, ToTop DEF Running
  <2> QED
    BY <1>3, <2>1, <2>2 DEF BoxContext
<1>4. CASE install_handler
  <2>1. pc = "install_handler" /\ pc \in Late
    BY <1>4 DEF install_handler, Late
  <2>2. Running /\ Global /\ stack = <<>> /\ Facts("install_handler")
        /\ Logger("install_handler", <<>>)
    BY <2>1, BootAt
  <2>3. Global'
    BY <1>4, <2>2 DEF Global, install_handler, Here, trapVars, memVars, Facts, Late
  <2>4. Facts("override_log")' /\ Logger("override_log", <<>>)'
    BY <1>4, <2>2 DEF Global, install_handler, Here, memVars, Facts, Logger, Early, Late,
                      Mapping, Logging, LogWords, Words
  <2>5. csr'.stvec = "_trap_handler" /\ csr'.sscratch = CONTEXT
    BY <1>4, <2>2 DEF install_handler, Global, Facts
  <2> QED
    BY <1>4, <2>2, <2>3, <2>4, <2>5, ToTop DEF install_handler, Top, Late
<1>5. CASE OverrideLog
  <2>1. pc = "override_log" /\ pc \in Late
    BY <1>5 DEF OverrideLog, Late
  <2>2. Running /\ Global /\ stack = <<>> /\ Facts("override_log")
        /\ Logger("override_log", <<>>)
    BY <2>1, BootAt
  <2>3. PICK word \in unwritten :
           /\ space' = [space EXCEPT !.log = LoggerWith(word)]
           /\ unwritten' = unwritten \ {word}
           /\ Goto(IF unwritten = {word} THEN "local_storage" ELSE "override_log")
    BY <1>5 DEF OverrideLog
  <2>4. UNCHANGED <<machine, csr, mapped, home, trapVars>>
    BY <1>5 DEF OverrideLog
  <2>5. csr.stvec = "_trap_handler" /\ csr.paging
    BY <2>2 DEF Facts, Late
  <2>6. Global'
    BY <2>2, <2>3, <2>4, <2>5 DEF Global, Here, trapVars
  <2>7. space'.log = LoggerWith(word)
    BY <2>2, <2>3 DEF Global
  <2>8. LogWords \/ space.log = "virt"
    BY <2>2, <2>5 DEF Logger
  <2>9. LogWords' \/ space'.log = "virt"
    BY <2>3, <2>7, <2>8 DEF LogWords, LoggerWith
  <2>10. unwritten = {word} => space'.log = "virt"
    BY <2>3, <2>7, <2>8 DEF LogWords, LoggerWith
  <2>11. ASSUME NEW p \in {"override_log", "local_storage"}
         PROVE  Facts(p)' /\ p \in Top /\ p \notin Logging
    BY <2>2, <2>3, <2>4, <2>5 DEF Global, Here, Facts, Early, Late, Mapping, Logging, Top
  <2>12. Logger("override_log", <<>>)'
    BY <2>9, <2>11 DEF Logger
  <2>13. unwritten = {word} => Logger("local_storage", <<>>)'
    BY <2>10, <2>11 DEF Logger
  <2> QED
    BY <2>2, <2>3, <2>4, <2>6, <2>11, <2>12, <2>13, ToTop DEF Running
<1>6. CASE init_hart_local_storage
  BY <1>1, <1>6 DEF init_hart_local_storage, memVars
<1> QED
  BY <1>2, <1>3, <1>4, <1>5, <1>6

\* main and the end.
LEMMA MainSteps ==
    ASSUME HartInv, Main
    PROVE  HartInv'
<1> USE DEF At
<1>1. pc \in {"main", "log_core_online", "alloc_stats"} /\ pc \in Late
      /\ UNCHANGED <<machine, csr, space, mapped, home, unwritten, trapVars>>
  BY DEF Main, Late, memVars
<1>2. Running /\ Global /\ stack = <<>> /\ Facts(pc) /\ Logger(pc, <<>>)
  BY <1>1, BootAt
<1>3. CASE Panic
  BY <1>1, <1>2, <1>3, PanicStep
<1>4. ASSUME NEW w \in {"log_core_online", "alloc_stats", "shutdown"}, Call("log", w)
      PROVE  HartInv'
  <2>1. w \in Labels /\ w \in Top
    BY DEF Labels, BootOnly, Top, Late
  <2>2. pc' = "log" /\ stack' = <<w>>
    BY <1>2, <1>4, <2>1, CallTop
  <2>3. Facts(w)
    BY <1>1, <1>2 DEF Facts, Early, Late, Mapping
  <2>4. Logger(pc', stack')
    BY <1>1, <1>2, <2>2 DEF Logger, Logging, Facts
  <2>5. Shape(pc', stack', w)
    BY <2>2 DEF Shape, Logging
  <2> QED
    BY <1>1, <1>2, <2>1, <2>3, <2>4, <2>5, MoveCall
<1> QED
  BY <1>1, <1>3, <1>4 DEF Main

-----------------------------------------------------------------------------
(* Calls and returns of the boot code *)

\* What a call needs to know about the logger is there when it returns.
LEMMA KeepLogger ==
    ASSUME NEW p, NEW s, Logger(p, s), p # "override_log",
           NEW q, q \notin Logging, NEW r
    PROVE  Logger(q, r)
BY DEF Logger

\* The labels that calls return to.
LEMMA Returns ==
    /\ {"push", "deallocate", "alloc_error", "trap_return"} \subseteq Labels
    /\ {"push", "deallocate", "alloc_error"} \cap Logging = {}
    /\ Top \cap Logging = {} /\ "alloc_error" \in Top
BY DEF Labels, BootOnly, Logging, Top, Early, Late, Mapping

\* The boot code returns from a call.
LEMMA ReturnStep ==
    ASSUME HartInv, Running, UNCHANGED <<machine, csr, space, mapped, home, unwritten, trapVars>>,
           pc \in Allocating \cup {"push", "log_unlock"}, Return
    PROVE  HartInv'
<1>1. PICK w \in Top : Shape(pc, stack, w) /\ Facts(w)
  BY DEF Running, Place
<1>2. Logger(pc, stack) /\ pc # "override_log" /\ pc \notin Top
  BY DEF Running, Place, Allocating, Top, Early, Late, Mapping
<1>3. ASSUME stack = <<w>>
      PROVE  HartInv'
  <2>1. pc' = w /\ stack' = <<>>
    BY <1>3, SmallStacks, TopLabels DEF Return
  <2>2. Logger(w, <<>>)
    BY <1>2, KeepLogger, Returns
  <2> QED
    BY <1>1, <2>1, <2>2, MoveTop
<1>4. ASSUME NEW x \in {"push", "deallocate", "alloc_error"}, stack = <<x, w>>, w \in Mapping
      PROVE  HartInv'
  <2>1. pc' = x /\ stack' = <<w>>
    BY <1>4, SmallStacks, TopLabels, Returns DEF Return
  <2>2. Logger(pc', stack')
    BY <1>2, <2>1, KeepLogger, Returns
  <2>3. Shape(pc', stack', w)
    BY <1>4, <2>1 DEF Shape
  <2> QED
    BY <1>1, <2>2, <2>3, MoveCall
<1> QED
  BY <1>1, <1>2, <1>3, <1>4 DEF Shape

\* The allocator.
LEMMA AllocatorSteps ==
    ASSUME HartInv, AllocateOk \/ AllocOrderFails \/ AllocateFails \/ AllocError
    PROVE  HartInv'
<1> USE DEF At
<1>1. Running /\ Global
  <2>1. pc \in BootOnly
    BY DEF AllocateOk, AllocOrderFails, AllocateFails, AllocError, Allocating, BootOnly
  <2> QED
    BY <2>1, InBoot DEF HartInv
<1>2. UNCHANGED <<machine, csr, space, mapped, home, unwritten, trapVars>>
  BY DEF AllocateOk, AllocOrderFails, AllocateFails, AllocError, memVars
<1>3. CASE AllocateOk
  BY <1>1, <1>2, <1>3, ReturnStep DEF AllocateOk
<1>4. CASE AllocOrderFails \/ AllocError
  BY <1>1, <1>2, <1>4, PanicStep DEF AllocOrderFails, AllocError
<1>5. CASE AllocateFails
  <2>1. pc = "allocate" /\ pc' = "log" /\ stack' = <<"alloc_error">> \o Tail(stack)
    BY <1>5 DEF AllocateFails
  <2>2. PICK w \in Top : Shape("allocate", stack, w) /\ Facts(w)
    BY <1>1, <2>1 DEF Running, Place
  <2>a. "allocate" \notin Top /\ "allocate" \notin Logging
    BY DEF Top, Early, Late, Mapping, Logging
  <2>3. /\ w \in {"copy_fdt", "box_context", "csrw_sscratch"} \cup Mapping
        /\ stack = <<w>> \/ (stack = <<"deallocate", w>> /\ w \in Mapping)
    BY <2>2, <2>a DEF Shape
  <2>4. csr.stvec # "_trap_handler"
    BY <1>1, <2>2, <2>3 DEF Facts, Global, Early, Mapping
  <2>5. CASE stack = <<w>>
    <3>1. stack' = <<"alloc_error">> /\ Head(stack') = "alloc_error"
      BY <2>1, <2>5, SmallStacks, TopLabels, Returns
    <3>2. Facts("alloc_error")
      BY <2>2, <2>3 DEF Facts, Early, Late, Mapping
    <3>3. Shape(pc', stack', "alloc_error")
      BY <2>1, <3>1 DEF Shape, Logging
    <3>4. Logger(pc', stack')
      BY <2>4, <3>1 DEF Logger
    <3> QED
      BY <1>1, <1>2, <3>2, <3>3, <3>4, Returns, MoveCall
  <2>6. CASE stack = <<"deallocate", w>> /\ w \in Mapping
    <3>1. stack' = <<"alloc_error", w>> /\ Head(stack') = "alloc_error"
      BY <2>1, <2>6, SmallStacks, TopLabels, Returns
    <3>2. Shape(pc', stack', w)
      BY <2>1, <2>6, <3>1 DEF Shape, Logging
    <3>3. Logger(pc', stack')
      BY <2>4, <3>1 DEF Logger
    <3> QED
      BY <1>1, <1>2, <2>2, <3>2, <3>3, MoveCall
  <2> QED
    BY <2>3, <2>5, <2>6
<1> QED
  BY <1>3, <1>4, <1>5

\* PageTable::map and what it calls.
LEMMA MapSteps ==
    ASSUME HartInv, MapNewTable \/ PushSubtable \/ GrowSubtables \/ MapDone
    PROVE  HartInv'
<1> USE DEF At
<1>1. UNCHANGED <<machine, csr, space, mapped, home, unwritten, trapVars>>
  BY DEF MapNewTable, PushSubtable, GrowSubtables, MapDone, memVars
<1>2. CASE MapNewTable
  <2>1. pc \in Mapping /\ pc' = "alloc_order" /\ stack' = <<"push", pc>> \o stack
    BY <1>2 DEF MapNewTable
  <2>2. Running /\ stack = <<>> /\ Facts(pc) /\ Logger(pc, <<>>)
    BY <2>1, BootAt DEF Early
  <2>3. stack' = <<"push", pc>>
    BY <2>1, <2>2, SmallStacks, TopLabels, Returns
  <2>4. Logger(pc', stack')
    BY <2>1, <2>2, KeepLogger DEF Mapping, Logging
  <2>5. Shape(pc', stack', pc)
    BY <2>1, <2>3 DEF Shape
  <2> QED
    BY <1>1, <2>1, <2>2, <2>4, <2>5, MoveCall, TopLabels
<1>3. CASE PushSubtable \/ GrowSubtables
  <2>1. pc = "push" /\ Running
    BY <1>3, InBoot DEF PushSubtable, GrowSubtables, BootOnly
  <2>2. PICK w \in Top : Shape("push", stack, w) /\ Facts(w)
    BY <2>1 DEF Running, Place
  <2>3. stack = <<w>> /\ w \in Mapping
    BY <2>2 DEF Shape, Top, Early, Late, Mapping, Logging
  <2>4. CASE Return
    BY <1>1, <2>1, <2>4, ReturnStep
  <2>5. ASSUME pc' = "allocate", stack' \in {<<w>>, <<"deallocate", w>>}
        PROVE  HartInv'
    <3>1. Logger(pc', stack')
      BY <2>1, <2>5, KeepLogger DEF Running, Place, Logging
    <3>2. Shape(pc', stack', w)
      BY <2>3, <2>5 DEF Shape
    <3> QED
      BY <1>1, <2>1, <2>2, <3>1, <3>2, MoveCall
  <2>6. CASE GrowSubtables
    BY <2>3, <2>5, <2>6, SmallStacks, TopLabels, Returns DEF GrowSubtables, Call
  <2> QED
    BY <1>3, <2>3, <2>4, <2>5, <2>6 DEF PushSubtable
<1>4. CASE MapDone
  <2>1. pc \in Mapping /\ pc \in Early
    BY <1>4 DEF MapDone, Mapping, Early
  <2>2. Running /\ stack = <<>> /\ Facts(pc) /\ Logger(pc, <<>>)
    BY <2>1, BootAt
  <2>3. ASSUME NEW p \in {"map_sections", "replace_with"}, Goto(p)
        PROVE  HartInv'
    <3>1. Facts(p) /\ p \in Top
      BY <2>1, <2>2 DEF Facts, Early, Late, Mapping, Top
    <3>2. Logger(p, <<>>)
      BY <2>1, <2>2, KeepLogger DEF Mapping, Logging
    <3> QED
      BY <1>1, <2>2, <2>3, <3>1, <3>2, MoveTop DEF Goto
  <2>4. ASSUME Call("alloc_order", "map_stack")
        PROVE  HartInv'
    <3>1. "map_stack" \in Top /\ "map_stack" \in Labels
      BY TopLabels DEF Mapping
    <3>2. pc' = "alloc_order" /\ stack' = <<"map_stack">>
      BY <2>2, <2>4, <3>1, CallTop
    <3>3. Facts("map_stack")
      BY <2>1, <2>2 DEF Facts, Early, Late, Mapping
    <3>4. Logger(pc', stack')
      BY <2>1, <2>2, <3>2, KeepLogger DEF Mapping, Logging
    <3>5. Shape(pc', stack', "map_stack")
      BY <3>2 DEF Shape
    <3> QED
      BY <1>1, <2>2, <3>1, <3>3, <3>4, <3>5, MoveCall
  <2> QED
    BY <1>4, <2>3, <2>4 DEF MapDone
<1> QED
  BY <1>2, <1>3, <1>4

\* The boot code logs.
LEMMA BootLogs ==
    ASSUME HartInv, Running, LogLock \/ LogWrite \/ LogUnlock
    PROVE  HartInv'
<1> USE DEF At
<1>1. UNCHANGED <<machine, csr, space, mapped, home, unwritten, trapVars>>
  BY DEF LogLock, LogWrite, LogUnlock, memVars
<1>2. CASE LogUnlock
  BY <1>1, <1>2, ReturnStep DEF LogUnlock
<1>3. CASE LogLock \/ LogWrite
  <2>1. pc \in Logging /\ pc' \in Logging /\ stack' = stack
    BY <1>3 DEF LogLock, LogWrite, Goto, Logging
  <2>2. PICK w \in Top : Shape(pc, stack, w) /\ Facts(w)
    BY DEF Running, Place
  <2>3. Logger(pc', stack')
    BY <2>1 DEF Running, Place, Logger, Logging
  <2>4. Shape(pc', stack', w)
    BY <2>1, <2>2, Returns DEF Shape, Logging
  <2> QED
    BY <1>1, <2>2, <2>3, <2>4, MoveCall
<1> QED
  BY <1>2, <1>3

\* The end of main and of a panic, of the boot code or of a handler.
LEMMA LastSteps ==
    ASSUME HartInv, panic_handler \/ Shutdown
    PROVE  HartInv'
<1> USE DEF At
<1>1. /\ pc \in {"panic", "shutdown"} /\ pc \in Top \ {"alloc_error"}
      /\ UNCHANGED <<machine, csr, space, mapped, home, unwritten, trapVars>>
      /\ \E p \in {"panic", "shutdown", "off"} : pc' = p /\ stack' \in {stack, <<>>}
  BY DEF panic_handler, Shutdown, memVars, Top, Goto, Panic
<1>2. CASE Running
  <2>1. stack = <<>> /\ Facts(pc) /\ Logger(pc, stack)
    BY <1>1, <1>2, AtTop DEF Running, Place
  <2>2. PICK p \in {"panic", "shutdown", "off"} : pc' = p /\ stack' = <<>>
    BY <1>1, <2>1
  <2>3. Facts(p) /\ p \in Top
    BY <1>1, <2>1 DEF Facts, Early, Late, Mapping, Top
  <2>4. Logger(p, <<>>)
    BY <1>1, <2>1, KeepLogger DEF Logging
  <2> QED
    BY <1>1, <1>2, <2>2, <2>3, <2>4, MoveTop
<1>3. CASE Doomed
  <2>1. Global'
    BY <1>1 DEF HartInv, Global, trapVars, Here
  <2>2. Doomed'
    BY <1>1, <1>3 DEF Doomed
  <2> QED
    BY <2>1, <2>2 DEF HartInv
<1>4. ~ Handling /\ pc # "lost"
  BY <1>1 DEF Handling, Handler, Logging, Causes
<1> QED
  BY <1>2, <1>3, <1>4 DEF HartInv

-----------------------------------------------------------------------------
(* Traps *)

\* The places of the boot code are not those of the trap handler.
LEMMA BootPlaces ==
    ASSUME NEW p, NEW s, Place(p, s)
    PROVE  p \in BootOnly \cup {"panic", "shutdown", "off"} \cup Logging
<1>1. PICK w \in Top : Shape(p, s, w)
  BY DEF Place
<1> QED
  BY <1>1 DEF Shape, Top, BootOnly

LEMMA TrapPlaces ==
    ASSUME NEW p \in {"trap", "trap_save", "trap_call", "sret", "trap_return", "fault",
                      "ipi_loop", "lost"} \cup Causes,
           NEW s
    PROVE  ~ Place(p, s)
<1>1. p \notin BootOnly \cup {"panic", "shutdown", "off"} \cup Logging
  BY DEF BootOnly, Early, Late, Mapping, Logging, Causes
<1> QED
  BY <1>1, BootPlaces

\* The trap that is being handled, and the stack below it.
HandlesTrap(t, s) ==
    /\ trapped = <<t>> /\ t.regs \in RegFile
    /\ Place(t.pc, s) /\ Handler(t, s)
    /\ csr.stvec = "_trap_handler" /\ csr.sie = FALSE
    /\ s \in Seq(Labels) /\ t.pc \in Labels

LEMMA InHandler ==
    ASSUME Handling
    PROVE  \E t, s : s \in Stacks /\ HandlesTrap(t, s)
<1>1. PICK s \in Stacks : Place(trapped[1].pc, s) /\ Handler(trapped[1], s)
  BY DEF Handling
<1>2. s \in Seq(Labels) /\ trapped[1].pc \in Labels
  BY <1>1, StacksAre, PlaceStack
<1> QED
  BY <1>1, <1>2 DEF Handling, HandlesTrap

\* A sequence of one trap.
LEMMA OneTrap ==
    ASSUME NEW t
    PROVE  /\ <<t>> \o <<>> = <<t>> /\ Len(<<t>>) = 1 /\ <<t>>[1] = t /\ Tail(<<t>>) = <<>>
OBVIOUS

\* Handling a trap changes neither the address spaces nor what the boot code
\* below relies on.
LEMMA HandlerStep ==
    ASSUME Global, NEW t, NEW s \in Stacks, HandlesTrap(t, s),
           UNCHANGED <<machine, space, mapped, home, unwritten, trapped>>,
           DOMAIN csr' = DOMAIN csr, DOMAIN context' = DOMAIN context,
           csr'.paging = csr.paging, csr'.stvec = csr.stvec, csr'.sie = FALSE,
           Handler(t, s)'
    PROVE  HartInv'
<1>1. Global'
  BY DEF Global, Here
<1>2. Place(t.pc, s)'
  <2>1. PICK w \in Top : Shape(t.pc, s, w) /\ Facts(w)
    BY DEF HandlesTrap, Place
  <2>2. w # "install_handler"
    BY <2>1 DEF HandlesTrap, Facts
  <2>3. Facts(w)'
    BY <2>1, <2>2 DEF Facts, Here
  <2>4. Logger(t.pc, s)'
    BY DEF HandlesTrap, Place, Logger, LogWords
  <2> QED
    BY <2>1, <2>3, <2>4 DEF Place
<1>3. Len(trapped') = 1 /\ trapped'[1] = t
  BY OneTrap DEF HandlesTrap
<1>4. Handling'
  BY <1>2, <1>3 DEF Handling, HandlesTrap
<1> QED
  BY <1>1, <1>4 DEF HartInv

\* A handled fault goes on to the panic.
LEMMA DoomedStep ==
    ASSUME Global, Doomed, UNCHANGED <<machine, space, mapped, home, unwritten>>,
           DOMAIN csr' = DOMAIN csr, DOMAIN context' = DOMAIN context,
           csr'.paging = csr.paging, csr'.stvec = csr.stvec, csr'.sie = FALSE,
           pc' \in {"trap", "trap_save", "trap_call", "fault", "panic", "shutdown", "off"},
           pc' \in {"trap", "trap_save", "trap_call"} => Head(stack') = "fault"
    PROVE  HartInv'
<1>1. Global'
  BY DEF Global, Here
<1> QED
  BY <1>1 DEF HartInv, Doomed

\* An interrupt comes while the boot code runs.
LEMMA InterruptStep ==
    ASSUME HartInv, Interrupt
    PROVE  HartInv'
<1>1. Global /\ Running /\ csr.stvec = "_trap_handler" /\ csr.sscratch = CONTEXT
  BY DEF HartInv, Handling, Doomed, Running, Interrupt
<1>2. PICK t : t = [pc |-> pc, regs |-> regs]
  OBVIOUS
<1>3. PICK c \in Causes : Trap(c)
  BY DEF Interrupt, Causes
<1>4. PICK s : s = stack
  OBVIOUS
<1>5. /\ csr' = [csr EXCEPT !.sepc = pc, !.sie = FALSE] /\ trapped' = <<t>>
      /\ pc' = "trap" /\ stack' = <<c>> \o s
      /\ UNCHANGED <<machine, regs, context, space, mapped, home, unwritten>>
  BY <1>1, <1>2, <1>3, <1>4, OneTrap DEF Trap, Call, Running, Interrupt, memVars
<1>6. /\ csr'.sepc = t.pc /\ csr'.sie = FALSE /\ csr'.sscratch = CONTEXT
      /\ csr'.stvec = csr.stvec /\ csr'.paging = csr.paging /\ DOMAIN csr' = DOMAIN csr
  BY <1>1, <1>2, <1>5 DEF Global
<1>7. Place(t.pc, s)
  BY <1>1, <1>2, <1>4 DEF Running
<1>8. s \in Stacks
  BY <1>7, PlaceStack
<1>9. Global'
  BY <1>1, <1>5, <1>6 DEF Global, Here
<1>10. Place(t.pc, s)'
  BY <1>1, <1>5, <1>6, <1>7 DEF Place, Logger, LogWords, Facts, Here
<1>11. Handler(t, s)'
  BY <1>2, <1>5, <1>6 DEF Handler
<1>12. Len(trapped') = 1 /\ trapped'[1] = t /\ t.regs \in RegFile
  BY <1>1, <1>2, <1>5, OneTrap DEF Running
<1>13. Handling'
  BY <1>1, <1>5, <1>6, <1>8, <1>10, <1>11, <1>12 DEF Handling
<1> QED
  BY <1>9, <1>13 DEF HartInv

\* The stack of the boot code and of a handler is a sequence.
LEMMA StackTyped ==
    ASSUME Running \/ Handling
    PROVE  stack \in Seq(Labels)
<1>1. CASE Running
  BY <1>1, PlaceStack, StacksAre DEF Running
<1>2. CASE Handling
  <2>1. PICK t, s : HandlesTrap(t, s)
    BY <1>2, InHandler
  <2>2. <<t.pc>> \o s \in Seq(Labels) /\ \A c \in Causes : <<c>> \o s \in Seq(Labels)
    BY <2>1, Pushed DEF HandlesTrap, Labels
  <2>3. <<"trap_return">> \o (<<t.pc>> \o s) \in Seq(Labels)
    BY <2>2, Pushed, Returns
  <2> QED
    BY <2>1, <2>2, <2>3 DEF HandlesTrap, Handler
<1> QED
  BY <1>1, <1>2

\* Code that panics follows valid pointers only: it does not fault again.
LEMMA DoomedIsSound ==
    ASSUME Global, Doomed
    PROVE  Misused = {} /\ Unmapped = {}
<1>1. space.sp = Here /\ space.code = Here
  BY DEF Global, Doomed, Here
<1>2. Uses(pc) \subseteq {"sp", "code"}
  <2>1. pc \notin Allocating \cup Mapping \cup {"push", "_before_main", "map_first",
                    "rust_trampoline", "main", "log_core_online", "log_write"}
    BY DEF Doomed, Allocating, Mapping
  <2> QED
    BY <2>1 DEF Uses
<1>3. Misused = {}
  BY <1>1, <1>2 DEF Misused
<1>4. pc \notin Allocating /\ pc # "rust_trampoline"
  BY DEF Doomed, Allocating
<1> QED
  BY <1>3, <1>4 DEF Unmapped

\* The hart leaves for good.
LEMMA LostStep ==
    ASSUME HartInv, pc' = "lost",
           UNCHANGED <<machine, csr, context, space, mapped, home, unwritten>>
    PROVE  HartInv'
BY DEF HartInv, Global, Here

LEMMA FaultStep ==
    ASSUME HartInv, Fault \/ Corrupted
    PROVE  HartInv'
<1>1. UNCHANGED <<machine, context, space, mapped, home, unwritten>>
  BY DEF Fault, Corrupted, trapVars, memVars
<1>2. CASE Corrupted
  BY <1>1, <1>2, LostStep DEF Corrupted
<1>3. CASE Fault /\ csr.stvec # "_trap_handler"
  BY <1>1, <1>3, LostStep DEF Fault
<1>4. CASE Fault /\ csr.stvec = "_trap_handler"
  <2>1. Global /\ (Running \/ Handling)
    BY <1>4, DoomedIsSound DEF HartInv, Fault
  <2>2. /\ csr' = [csr EXCEPT !.sepc = pc, !.sie = FALSE]
        /\ pc' = "trap" /\ stack' = <<"fault">> \o stack
    BY <1>4 DEF Fault, Trap, Call
  <2>3. Head(stack') = "fault"
    BY <2>1, <2>2, StackTyped, Pushed DEF Labels
  <2>4. csr'.sie = FALSE /\ csr'.stvec = csr.stvec /\ csr'.paging = csr.paging
        /\ DOMAIN csr' = DOMAIN csr
    BY <2>1, <2>2 DEF Global
  <2>5. Global'
    BY <1>1, <2>1, <2>4 DEF Global, Here
  <2>6. Doomed'
    BY <1>4, <2>2, <2>3, <2>4 DEF Doomed
  <2> QED
    BY <2>5, <2>6 DEF HartInv
<1> QED
  BY <1>2, <1>3, <1>4

\* The entry of the handler: the interrupted registers reach the frame.
LEMMA EntrySteps ==
    ASSUME HartInv, SwitchStack \/ SaveRegisters \/ CallHandler
    PROVE  HartInv'
<1> USE DEF At, Goto
<1>1. /\ pc \in {"trap", "trap_save", "trap_call"}
      /\ UNCHANGED <<machine, space, mapped, home, unwritten, trapped>>
  BY DEF SwitchStack, SaveRegisters, CallHandler, memVars
<1>2. Global /\ (Handling \/ Doomed)
  BY <1>1, TrapPlaces DEF HartInv, Running
<1>3. /\ DOMAIN csr' = DOMAIN csr /\ DOMAIN context' = DOMAIN context
      /\ csr'.paging = csr.paging /\ csr'.stvec = csr.stvec /\ csr'.sie = FALSE
  <2>1. csr.sie = FALSE
    BY <1>2 DEF Handling, Doomed
  <2>2. CASE SwitchStack
    BY <1>2, <2>2 DEF SwitchStack, Global
  <2>3. CASE SaveRegisters
    BY <1>2, <2>1, <2>3 DEF SaveRegisters, Global
  <2>4. CASE CallHandler
    BY <2>1, <2>4 DEF CallHandler
  <2> QED
    BY <2>2, <2>3, <2>4
<1>4. CASE Doomed
  <2>1. Head(stack) = "fault"
    BY <1>1, <1>4 DEF Doomed
  <2>2. \/ pc' \in {"trap_save", "trap_call"} /\ stack' = stack
        \/ pc' = Head(stack)
    BY DEF SwitchStack, SaveRegisters, CallHandler
  <2> QED
    BY <1>1, <1>2, <1>3, <1>4, <2>1, <2>2, DoomedStep
<1>5. CASE Handling
  <2>1. PICK t, s : s \in Stacks /\ HandlesTrap(t, s)
    BY <1>5, InHandler
  <2>2. PICK c \in Causes : stack = <<c>> \o s
    BY <1>1, <2>1, StackTyped DEF HandlesTrap, Handler, Causes, Logging
  <2>3. Head(stack) = c /\ Tail(stack) = s
    BY <2>1, <2>2, Pushed DEF HandlesTrap, Labels
  <2>4. CASE SwitchStack
    <3>1. /\ csr.sepc = t.pc /\ regs = t.regs
      BY <2>1, <2>4 DEF SwitchStack, HandlesTrap, Handler, Causes, Logging
    <3>2. csr'.sepc = t.pc /\ csr'.sscratch = t.regs["s0"] /\ context'.temp_sp = t.regs["sp"]
      BY <1>2, <2>4, <3>1 DEF SwitchStack, Global
    <3>3. regs' = [t.regs EXCEPT !["s0"] = CONTEXT, !["sp"] = FRAME]
      BY <2>4, <3>1 DEF SwitchStack
    <3>4. pc' = "trap_save" /\ stack' = <<c>> \o s
      BY <2>2, <2>4 DEF SwitchStack
    <3>5. Handler(t, s)'
      BY <3>2, <3>3, <3>4 DEF Handler
    <3> QED
      BY <1>1, <1>2, <1>3, <2>1, <3>5, HandlerStep
  <2>5. CASE SaveRegisters
    <3>1. /\ csr.sepc = t.pc /\ csr.sscratch = t.regs["s0"]
          /\ regs = [t.regs EXCEPT !["s0"] = CONTEXT, !["sp"] = FRAME]
          /\ context.temp_sp = t.regs["sp"] /\ t.regs \in RegFile
      BY <2>1, <2>5 DEF SaveRegisters, HandlesTrap, Handler, Causes, Logging
    <3>2. "s0" \in Regs /\ "sp" \in Regs
      BY DEF Regs
    <3>3. regs["s0"] = CONTEXT
      BY <3>1, <3>2 DEF RegFile
    <3>4. [regs EXCEPT !["sp"] = context.temp_sp, !["s0"] = csr.sscratch] = t.regs
      BY <3>1, <3>2 DEF RegFile
    <3>5. context'.frame = t.regs /\ csr'.sepc = t.pc /\ csr'.sscratch = CONTEXT
      BY <1>2, <2>5, <3>1, <3>3, <3>4 DEF SaveRegisters, Global
    <3>6. pc' = "trap_call" /\ stack' = <<c>> \o s
      BY <2>2, <2>5 DEF SaveRegisters
    <3>7. Handler(t, s)'
      BY <3>5, <3>6 DEF Handler
    <3> QED
      BY <1>1, <1>2, <1>3, <2>1, <3>7, HandlerStep
  <2>6. CASE CallHandler
    <3>1. csr.sepc = t.pc /\ csr.sscratch = CONTEXT /\ context.frame = t.regs
      BY <2>1, <2>6 DEF CallHandler, HandlesTrap, Handler, Causes, Logging
    <3>2. pc' = c /\ stack' = <<t.pc>> \o s /\ UNCHANGED <<csr, context>>
      BY <2>3, <2>6, <3>1 DEF CallHandler
    <3>3. Handler(t, s)'
      BY <3>1, <3>2 DEF Handler
    <3> QED
      BY <1>1, <1>2, <1>3, <2>1, <3>3, HandlerStep
  <2> QED
    BY <2>4, <2>5, <2>6
<1> QED
  BY <1>2, <1>4, <1>5

\* The handler itself, with the message of a timer interrupt.
LEMMA HandlerSteps ==
    ASSUME HartInv, trap_handler \/ LogLock \/ LogWrite \/ LogUnlock
    PROVE  HartInv'
<1> USE DEF At, Goto
<1>1. UNCHANGED <<machine, csr, context, space, mapped, home, unwritten, trapped>>
  BY DEF trap_handler, LogLock, LogWrite, LogUnlock, trapVars, memVars
<1>2. pc \in Causes \cup Logging \cup {"fault"}
  BY DEF trap_handler, LogLock, LogWrite, LogUnlock, Causes, Logging
<1>3. CASE Running
  <2>1. ~ trap_handler
    BY <1>3, TrapPlaces DEF trap_handler, Running, Causes
  <2> QED
    BY <1>3, <2>1, BootLogs
<1>4. CASE Doomed
  <2>1. Panic
    BY <1>4 DEF Doomed, trap_handler, LogLock, LogWrite, LogUnlock
  <2>2. csr'.sie = FALSE
    BY <1>1, <1>4 DEF Doomed, HartInv
  <2> QED
    BY <1>1, <1>4, <2>1, <2>2, DoomedStep DEF Panic, HartInv
<1>5. CASE Handling
  <2>1. PICK t, s : s \in Stacks /\ HandlesTrap(t, s)
    BY <1>5, InHandler
  <2>a. Global /\ csr'.sie = FALSE
    BY <1>1, <2>1 DEF HartInv, HandlesTrap
  <2>2. csr.sscratch = CONTEXT /\ context.frame = t.regs /\ pc # "fault"
    BY <1>2, <2>1 DEF HandlesTrap, Handler, Causes, Logging
  <2>3. CASE trap_handler
    <3>1. stack = <<t.pc>> \o s
      BY <2>1, <2>3 DEF trap_handler, HandlesTrap, Handler, Causes, Logging
    <3>2. \/ pc' \in {"trap_return", "ipi_loop"} /\ stack' = stack
          \/ pc' = "log" /\ stack' = <<"trap_return">> \o stack
      BY <2>2, <2>3 DEF trap_handler, Call
    <3>3. Handler(t, s)'
      BY <1>1, <2>2, <3>1, <3>2 DEF Handler, Logging
    <3> QED
      BY <1>1, <2>1, <2>a, <3>3, HandlerStep
  <2>4. CASE LogLock \/ LogWrite \/ LogUnlock
    <3>1. pc \in Logging
      BY <2>4 DEF LogLock, LogWrite, LogUnlock, Logging
    <3>2. stack = <<"trap_return">> \o (<<t.pc>> \o s)
      BY <2>1, <3>1 DEF HandlesTrap, Handler, Causes, Logging
    <3>3. Head(stack) = "trap_return" /\ Tail(stack) = <<t.pc>> \o s
      BY <2>1, <3>2, Pushed, Returns DEF HandlesTrap
    <3>4. \/ pc' \in Logging /\ stack' = stack
          \/ pc' = "trap_return" /\ stack' = <<t.pc>> \o s
      BY <2>4, <3>3 DEF LogLock, LogWrite, LogUnlock, Return, Logging
    <3>5. Handler(t, s)'
      BY <1>1, <2>2, <3>2, <3>4 DEF Handler
    <3> QED
      BY <1>1, <2>1, <2>a, <3>5, HandlerStep
  <2> QED
    BY <2>3, <2>4
<1>6. pc # "lost"
  BY <1>2 DEF Causes, Logging
<1> QED
  BY <1>3, <1>4, <1>5, <1>6 DEF HartInv

\* The way back.
LEMMA ExitSteps ==
    ASSUME HartInv, RestoreRegisters \/ Sret
    PROVE  HartInv'
<1> USE DEF At
<1>1. pc \in {"trap_return", "sret"} /\ UNCHANGED <<machine, context, space, mapped, home, unwritten>>
  BY DEF RestoreRegisters, Sret, memVars
<1>2. Global /\ Handling
  BY <1>1, TrapPlaces DEF HartInv, Running, Doomed
<1>3. PICK t, s : s \in Stacks /\ HandlesTrap(t, s)
  BY <1>2, InHandler
<1>4. CASE RestoreRegisters
  <2>1. stack = <<t.pc>> \o s /\ csr.sscratch = CONTEXT /\ context.frame = t.regs
    BY <1>3, <1>4 DEF RestoreRegisters, HandlesTrap, Handler, Causes, Logging
  <2>2. Head(stack) = t.pc /\ Tail(stack) = s
    BY <1>3, <2>1, Pushed DEF HandlesTrap
  <2>3. /\ csr' = [csr EXCEPT !.sepc = t.pc] /\ regs' = t.regs
        /\ pc' = "sret" /\ stack' = s /\ UNCHANGED trapped
    BY <1>4, <2>1, <2>2 DEF RestoreRegisters
  <2>4. /\ csr'.sepc = t.pc /\ csr'.sscratch = CONTEXT /\ csr'.sie = FALSE
        /\ csr'.stvec = csr.stvec /\ csr'.paging = csr.paging /\ DOMAIN csr' = DOMAIN csr
    BY <1>2, <1>3, <2>1, <2>3 DEF Global, HandlesTrap
  <2>5. Handler(t, s)'
    BY <2>3, <2>4 DEF Handler
  <2> QED
    BY <1>1, <1>2, <1>3, <2>3, <2>4, <2>5, HandlerStep
<1>5. CASE Sret
  <2>1. stack = s /\ csr.sepc = t.pc /\ csr.sscratch = CONTEXT /\ regs = t.regs
    BY <1>3, <1>5 DEF Sret, HandlesTrap, Handler, Causes, Logging
  <2>2. /\ csr' = [csr EXCEPT !.sie = TRUE] /\ regs' = t.regs
        /\ pc' = t.pc /\ stack' = s /\ trapped' = <<>>
    BY <1>3, <1>5, <2>1, OneTrap DEF Sret, HandlesTrap
  <2>3. /\ csr'.sscratch = CONTEXT /\ csr'.stvec = "_trap_handler"
        /\ csr'.paging = csr.paging /\ DOMAIN csr' = DOMAIN csr
    BY <1>2, <1>3, <2>1, <2>2 DEF Global, HandlesTrap
  <2>4. Global'
    BY <1>1, <1>2, <1>3, <2>3 DEF Global, Here, HandlesTrap
  <2>5. Place(t.pc, s)
    BY <1>3 DEF HandlesTrap
  <2>6. Place(pc, stack)'
    <3>1. PICK w \in Top : Shape(t.pc, s, w) /\ Facts(w)
      BY <2>5 DEF Place
    <3>2. Facts(w)'
      BY <1>1, <1>3, <2>1, <2>3, <3>1 DEF Facts, Here, HandlesTrap
    <3>3. Logger(pc, stack)'
      BY <1>1, <1>3, <2>2, <2>3, <2>5 DEF Place, Logger, LogWords, HandlesTrap
    <3> QED
      BY <2>2, <3>1, <3>2, <3>3 DEF Place
  <2>7. Running'
    BY <1>3, <2>2, <2>3, <2>6 DEF Running, HandlesTrap
  <2> QED
    BY <2>4, <2>7 DEF HartInv
<1> QED
  BY <1>4, <1>5

-----------------------------------------------------------------------------
(* The theorems *)

\* Every step keeps the invariant.
LEMMA HartNext ==
    ASSUME HartInv, [KernelNext]_kernelVars
    PROVE  HartInv'
<1>1. CASE Step
  <2>1. CASE Boot \/ ReadTree \/ init_log \/ PmemInit
    BY <2>1, FirstSteps
  <2>2. CASE NewTable \/ CopyTree \/ MapMemory
    BY <2>2, TableSteps
  <2>3. CASE MapNewTable \/ PushSubtable \/ GrowSubtables \/ MapDone
    BY <2>3, MapSteps
  <2>4. CASE ConvertTable \/ set_phymem_offset \/ Relocate \/ EnablePaging
    BY <2>4, SwitchSteps
  <2>5. CASE InitHartContext \/ BoxContext \/ install_handler \/ OverrideLog
             \/ init_hart_local_storage
    BY <2>5, HartSteps
  <2>6. CASE Main
    BY <2>6, MainSteps
  <2>7. CASE Shutdown \/ panic_handler
    BY <2>7, LastSteps
  <2>8. CASE AllocateOk \/ AllocOrderFails \/ AllocateFails \/ AllocError
    BY <2>8, AllocatorSteps
  <2>9. CASE trap_handler \/ LogLock \/ LogWrite \/ LogUnlock
    BY <2>9, HandlerSteps
  <2>10. CASE Fault
    BY <2>10, FaultStep
  <2>11. CASE SwitchStack \/ SaveRegisters \/ CallHandler
    BY <2>11, EntrySteps
  <2>12. CASE RestoreRegisters \/ Sret
    BY <2>12, ExitSteps
  <2> QED
    BY <1>1, <2>1, <2>2, <2>3, <2>4, <2>5, <2>6, <2>7, <2>8, <2>9, <2>10, <2>11, <2>12
       DEF Step
<1>2. CASE Interrupt
  BY <1>2, InterruptStep
<1>3. CASE Corrupted
  BY <1>3, FaultStep
<1>4. CASE UNCHANGED kernelVars
  <2>1. /\ UNCHANGED <<machine, pc, stack, csr, regs, context, trapped, space, mapped, home, unwritten>>
    BY <1>4 DEF kernelVars
  <2>2. Global'
    BY <2>1 DEF HartInv, Global, Here
  <2>3. CASE Running
    <3>1. Place(pc, stack)'
      BY <2>1, <2>3 DEF Running, Place, Logger, LogWords, Facts, Here
    <3> QED
      BY <2>1, <2>2, <2>3, <3>1 DEF HartInv, Running
  <2>4. CASE Handling
    <3>1. PICK t, s : s \in Stacks /\ HandlesTrap(t, s)
      BY <2>4, InHandler
    <3>2. Handler(t, s)'
      BY <2>1, <3>1 DEF HandlesTrap, Handler
    <3>3. Global /\ csr'.sie = FALSE
      BY <2>1, <3>1 DEF HartInv, HandlesTrap
    <3> QED
      BY <2>1, <3>1, <3>2, <3>3, HandlerStep
  <2>5. CASE Doomed \/ pc = "lost"
    BY <2>1, <2>2, <2>5 DEF HartInv, Doomed
  <2> QED
    BY <2>3, <2>4, <2>5 DEF HartInv
<1> QED
  BY <1>1, <1>2, <1>3, <1>4 DEF KernelNext

\* The hart starts at _boot.
LEMMA HartInit ==
    ASSUME KernelInit
    PROVE  HartInv
<1>1. /\ pc = "_boot" /\ stack = <<>> /\ trapped = <<>> /\ regs = ValuesOf("kernel")
      /\ csr = [paging |-> FALSE, stvec |-> "firmware", sie |-> FALSE,
                sscratch |-> NULL, sepc |-> "none"]
      /\ context = [temp_sp |-> NULL, frame |-> ValuesOf("none"), damaged |-> FALSE]
      /\ space = [fdt |-> "phys", code |-> "none", log |-> "none",
                  table |-> "none", heap |-> "phys", sp |-> "phys"]
      /\ mapped = {} /\ home = 1 /\ machine \in Machines /\ unwritten = Words
  BY DEF KernelInit, KernelAt
<1>2. Global
  <2>1. home \in machine.regions
    BY <1>1 DEF Machines
  <2> QED
    BY <1>1, <2>1 DEF Global, Here
<1>3. regs \in RegFile
  BY <1>1 DEF ValuesOf, RegFile, Values
<1>4. Place(pc, stack)
  <2>1. "_boot" \in Top
    BY DEF Top, Early
  <2>2. Facts("_boot")
    BY <1>1 DEF Facts, Here, Early, Late, Mapping
  <2>3. Logger("_boot", <<>>)
    BY <1>1 DEF Logger, Logging
  <2> QED
    BY <1>1, <2>1, <2>2, <2>3, IsTop
<1>5. Running
  BY <1>1, <1>3, <1>4 DEF Running
<1> QED
  BY <1>2, <1>5 DEF HartInv

\* The hart is at all times in one of the four situations, for every machine.
THEOREM HartInvariant == KernelSpec => []HartInv
<1>1. KernelInit => HartInv
  BY HartInit
<1>2. HartInv /\ [KernelNext]_kernelVars => HartInv'
  BY HartNext
<1> QED
  BY <1>1, <1>2, PTL DEF KernelSpec

\* A handler that returns gives back every register and the place it
\* interrupted, whatever was interrupted and however often: it runs with
\* interrupts off, and a fault inside it, which writes the frame again, never
\* returns.
THEOREM HandlersRestore == KernelSpec => []RegistersRestored
<1>1. HartInv => RegistersRestored
  <2> SUFFICES ASSUME HartInv, pc = "sret"
               PROVE  regs = trapped[1].regs /\ csr.sepc = trapped[1].pc
    BY DEF RegistersRestored
  <2>1. Handling
    BY TrapPlaces DEF HartInv, Running, Doomed
  <2>2. PICK t, s : HandlesTrap(t, s)
    BY <2>1, InHandler
  <2>3. regs = t.regs /\ csr.sepc = t.pc
    BY <2>2 DEF HandlesTrap, Handler, Causes, Logging
  <2> QED
    BY <2>2, <2>3, OneTrap DEF HandlesTrap
<1> QED
  BY <1>1, HartInvariant, PTL

\* Code that only uses its stack, or nothing.
LEMMA PlainUses ==
    ASSUME Global, pc \notin Allocating \cup Mapping
              \cup {"push", "_before_main", "map_first", "rust_trampoline", "main",
                    "log_core_online", "log_write", "panic"}
    PROVE  Misused = {}
<1>1. Uses(pc) \subseteq {"sp"}
  BY DEF Uses
<1> QED
  BY <1>1 DEF Misused, Global

\* The boot code follows valid pointers.
LEMMA BootIsSound ==
    ASSUME Global, Running
    PROVE  Misused \subseteq (IF EarlyLog THEN {"log"} ELSE {})
<1>1. PICK w \in Top : Shape(pc, stack, w) /\ Facts(w)
  BY DEF Running, Place
<1>2. Logger(pc, stack)
  BY DEF Running, Place
<1>3. CASE pc \in Allocating
  <2>a. pc \notin Top /\ pc \notin Logging
    BY <1>3 DEF Allocating, Top, Early, Late, Mapping, Logging
  <2>1. w \notin {"relocate", "entry_trampoline"}
    BY <1>1, <2>a DEF Shape, Mapping
  <2>2. Uses(pc) = {"sp", "heap"}
    BY <1>3 DEF Uses, Allocating, Mapping
  <2> QED
    BY <1>1, <2>1, <2>2 DEF Misused, Facts, Global
<1>4. CASE pc \in Mapping \cup {"push"}
  <2>a. pc \notin {"alloc_order", "allocate", "alloc_error", "deallocate"} \cup Logging
    BY <1>4 DEF Mapping, Logging
  <2>b. "push" \notin Top
    BY DEF Top, Early, Late, Mapping
  <2>1. w \in Mapping
    BY <1>1, <1>4, <2>a, <2>b DEF Shape
  <2>2. Uses(pc) = {"sp", "table", "heap"}
    BY <1>4 DEF Uses, Allocating, Mapping
  <2>3. ~ csr.paging /\ space.table = "phys" /\ space.heap = Here
    BY <1>1, <2>1 DEF Facts, Early, Mapping
  <2> QED
    BY <2>2, <2>3 DEF Misused, Global, Here
<1>5. CASE pc \in {"_before_main", "map_first", "rust_trampoline", "main", "log_core_online"}
  <2>1. Uses(pc) = {"sp", "fdt"}
    BY <1>5 DEF Uses, Allocating, Mapping
  <2> QED
    BY <2>1 DEF Misused, Global
<1>6. CASE pc = "log_write"
  <2>1. w \notin {"_boot", "error_loop", "entry_trampoline"}
    BY <1>1, <1>6 DEF Shape, Top, Early, Late, Mapping, Logging
  <2>2. space.code = Here
    BY <1>1, <2>1 DEF Facts
  <2>3. Uses(pc) = {"sp", "code"} \cup IF space.log = "none" THEN {} ELSE {"log"}
    BY <1>6 DEF Uses, Allocating, Mapping
  <2>4. Misused \subseteq {"log"}
    BY <2>2, <2>3 DEF Misused, Global
  <2>5. CASE space.log \in {"none", Here}
    BY <2>2, <2>3, <2>5 DEF Misused, Global
  <2>6. CASE space.log \notin {"none", Here}
    <3>1. csr.paging /\ space.log # "virt"
      BY <2>6 DEF Global, Here
    <3>2. Head(stack) = "alloc_error" /\ csr.stvec # "_trap_handler"
      BY <1>2, <1>6, <3>1 DEF Logger, Logging
    <3>3. csr.stvec = "rust_trampoline"
      BY <3>1, <3>2 DEF Global
    <3> QED
      BY <1>6, <2>4, <3>1, <3>2, <3>3 DEF EarlyLog
  <2> QED
    BY <2>5, <2>6
<1>7. CASE pc = "panic"
  <2>1. Facts("panic")
    BY <1>7, AtTop DEF Running, Top
  <2>2. Uses(pc) = {"sp", "code"}
    BY <1>7 DEF Uses, Allocating, Mapping
  <2> QED
    BY <2>1, <2>2 DEF Misused, Global, Facts
<1> QED
  BY <1>3, <1>4, <1>5, <1>6, <1>7, PlainUses

\* So does the handler of an interrupt, unless it logs before override_log.
LEMMA HandlerIsSound ==
    ASSUME Global, Handling
    PROVE  Misused \subseteq (IF EarlyLog THEN {"log"} ELSE {})
<1>1. PICK t, s : HandlesTrap(t, s)
  BY InHandler
<1>2. pc \in {"trap", "trap_save", "trap_call", "trap_return", "ipi_loop", "sret"}
             \cup Causes \cup Logging
  BY <1>1 DEF HandlesTrap, Handler
<1>3. CASE pc = "log_write"
  <2>1. csr.paging /\ space.code = Here
    BY <1>1 DEF HandlesTrap, Global, Here
  <2>2. Uses(pc) = {"sp", "code"} \cup IF space.log = "none" THEN {} ELSE {"log"}
    BY <1>3 DEF Uses, Allocating, Mapping
  <2>3. Misused \subseteq {"log"}
    BY <2>1, <2>2 DEF Misused, Global
  <2>4. CASE space.log = "virt"
    BY <2>1, <2>2, <2>4 DEF Misused, Global, Here
  <2>5. CASE space.log # "virt"
    <3>1. t.pc = "override_log"
      BY <1>1, <2>5 DEF HandlesTrap, Place, Logger
    <3>2. trapped # <<>> /\ trapped[Len(trapped)] = t
      BY <1>1, OneTrap DEF HandlesTrap
    <3> QED
      BY <1>3, <2>1, <2>3, <3>1, <3>2 DEF EarlyLog
  <2> QED
    BY <2>4, <2>5
<1>4. CASE pc # "log_write"
  <2>1. pc \notin Allocating \cup Mapping
              \cup {"push", "_before_main", "map_first", "rust_trampoline", "main",
                    "log_core_online", "log_write", "panic"}
    BY <1>2, <1>4 DEF Allocating, Mapping, Causes, Logging
  <2> QED
    BY <2>1, PlainUses
<1> QED
  BY <1>3, <1>4

\* The pointers are converted in an order in which no code meets one of the other
\* address space, on every machine and for every way the boot can fail; the
\* exception is the logger in the two windows that EarlyLog names.
THEOREM SpacesRespected == KernelSpec => []NoStrayAccess
<1>1. HartInv => NoStrayAccess
  <2> SUFFICES ASSUME HartInv PROVE NoStrayAccess
    OBVIOUS
  <2>1. Global
    BY DEF HartInv
  <2>2. Misused \subseteq (IF EarlyLog THEN {"log"} ELSE {})
    <3>1. CASE pc = "lost"
      BY <2>1, <3>1, PlainUses DEF Allocating, Mapping
    <3> QED
      BY <2>1, <3>1, BootIsSound, HandlerIsSound, DoomedIsSound DEF HartInv
  <2>3. machine.regions = {1} => Unmapped = {}
    BY <2>1 DEF Unmapped, Global
  <2> QED
    BY <2>2, <2>3 DEF NoStrayAccess
<1> QED
  BY <1>1, HartInvariant, PTL

-----------------------------------------------------------------------------
(* The words of the enable block *)

\* Places of bits in the enable block.
Places == Nat \X (0 .. 7)

\* The code's words and the controller's bytes agree on the place of a bit.
LEMMA SamePlace ==
    ASSUME NEW h \in Nat, NEW id \in Nat
    PROVE  LET loc == enable_idx_bit(plic_context(h), id)
           IN  /\ loc[1] \in Nat /\ loc[2] \in 0 .. 31
               /\ BitOf(loc[1], loc[2]) = EnableBit(Supervisor(h), id)
<1>1. /\ 4 * ((1 + 2 * h) * 32 + id \div 32) + (id % 32) \div 8
            = 128 * (2 * h + 1) + id \div 8
      /\ (id % 32) % 8 = id % 8
      /\ (1 + 2 * h) * 32 + id \div 32 \in Nat
      /\ id % 32 \in 0 .. 31
  OBVIOUS
<1> QED
  BY <1>1 DEF enable_idx_bit, plic_context, BitOf, EnableBit, Supervisor

\* Every bit of the block is in one word, at one place of it.
LEMMA WordOf ==
    ASSUME NEW b \in Places, NEW entry \in Nat
    PROVE  b[1] \div 4 = entry <=> \E bit \in 0 .. 31 : b = BitOf(entry, bit)
<1>1. b[1] \in Nat /\ b[2] \in 0 .. 7 /\ b = <<b[1], b[2]>>
  BY DEF Places
<1>2. ASSUME b[1] \div 4 = entry
      PROVE  \E bit \in 0 .. 31 : b = BitOf(entry, bit)
  <2>1. ASSUME NEW n \in Nat
        PROVE  n % 4 \in 0 .. 3 /\ 4 * (n \div 4) + (n % 4) = n
    OBVIOUS
  <2>2. ASSUME NEW m \in 0 .. 3, NEW k \in 0 .. 7
        PROVE  8 * m + k \in 0 .. 31 /\ (8 * m + k) \div 8 = m /\ (8 * m + k) % 8 = k
    OBVIOUS
  <2>3. PICK n \in Nat, k \in 0 .. 7 : b = <<n, k>>
    BY <1>1
  <2>4. n \div 4 = entry
    BY <1>2, <2>3
  <2>5. BitOf(entry, 8 * (n % 4) + k) = <<4 * entry + (n % 4), k>>
    BY <2>1, <2>2 DEF BitOf
  <2>6. 4 * entry + (n % 4) = n
    BY <2>1, <2>4
  <2> QED
    BY <2>1, <2>2, <2>3, <2>5, <2>6
<1>3. ASSUME NEW bit \in 0 .. 31, b = BitOf(entry, bit)
      PROVE  b[1] \div 4 = entry
  <2>1. b[1] = 4 * entry + bit \div 8 /\ bit \div 8 \in 0 .. 3
    BY <1>3 DEF BitOf
  <2> QED
    BY <2>1
<1> QED
  BY <1>2, <1>3

\* Different bits of a word are at different places.
LEMMA BitsDiffer ==
    ASSUME NEW entry \in Nat, NEW bit \in 0 .. 31, NEW other \in 0 .. 31,
           BitOf(entry, bit) = BitOf(entry, other)
    PROVE  bit = other
<1>1. bit \div 8 = other \div 8 /\ bit % 8 = other % 8
  BY DEF BitOf
<1> QED
  BY <1>1

\* Harts and ids are small numbers.
LEMMA Ids == /\ \A h \in Harts : h \in Nat
             /\ \A id \in Sources : id \in 1 .. 1023 /\ id \in Nat
BY DriversAssumption

\* Words of different harts are different, because a context has 1024 bits.
LEMMA WordsDiffer ==
    ASSUME NEW h \in Harts, NEW g \in Harts, NEW id \in Sources, NEW j \in Sources, h # g
    PROVE  enable_idx_bit(plic_context(h), id)[1] # enable_idx_bit(plic_context(g), j)[1]
<1>1. (1 + 2 * h) * 32 + id \div 32 # (1 + 2 * g) * 32 + j \div 32
  BY Ids, SMTT(30)
<1> QED
  BY <1>1 DEF enable_idx_bit, plic_context

\* Every pair of a hart and an id has its own bit.
LEMMA PlacesDiffer ==
    ASSUME NEW h \in Harts, NEW g \in Harts, NEW id \in Sources, NEW j \in Sources,
           EnableBit(Supervisor(h), id) = EnableBit(Supervisor(g), j)
    PROVE  h = g /\ id = j
<1>1. /\ 128 * (2 * h + 1) + id \div 8 = 128 * (2 * g + 1) + j \div 8
      /\ id % 8 = j % 8
  BY DEF EnableBit, Supervisor
<1>2. id \div 8 \in 0 .. 127 /\ j \div 8 \in 0 .. 127
  <2>1. \A n \in 1 .. 1023 : n \div 8 \in 0 .. 127
    OBVIOUS
  <2> QED
    BY <2>1, Ids, SMTT(30)
<1>3. h = g /\ id \div 8 = j \div 8
  BY <1>1, <1>2, Ids, SMTT(30)
<1> QED
  BY <1>1, <1>3, Ids

\* Writing a word back with a bit set or cleared changes that bit only, when the
\* word is still what was read.
LEMMA StoreBit ==
    ASSUME enables \subseteq Places, NEW entry \in Nat, NEW bit \in 0 .. 31
    PROVE  /\ WriteWord(entry, ReadWord(entry) \cup {bit})
                 => enables' = enables \cup {BitOf(entry, bit)}
           /\ WriteWord(entry, ReadWord(entry) \ {bit})
                 => enables' = enables \ {BitOf(entry, bit)}
<1> DEFINE Others == {b \in enables : b[1] \div 4 # entry}
           HereNow == {b \in enables : b[1] \div 4 = entry}
           Bits(w) == {BitOf(entry, k) : k \in w}
<1>1. Bits(ReadWord(entry)) = HereNow
  <2>1. \A k \in ReadWord(entry) : BitOf(entry, k) \in HereNow
    <3>1. \A k \in 0 .. 31 : BitOf(entry, k) \in enables => BitOf(entry, k)[1] \div 4 = entry
      BY WordOf
    <3> QED
      BY <3>1 DEF ReadWord
  <2>2. \A b \in HereNow : \E k \in ReadWord(entry) : b = BitOf(entry, k)
    BY WordOf DEF ReadWord
  <2> QED
    BY <2>1, <2>2
<1>2. enables = Others \cup HereNow
  OBVIOUS
<1>3. ASSUME WriteWord(entry, ReadWord(entry) \cup {bit})
      PROVE  enables' = enables \cup {BitOf(entry, bit)}
  <2>1. Bits(ReadWord(entry) \cup {bit}) = HereNow \cup {BitOf(entry, bit)}
    BY <1>1
  <2> QED
    BY <1>2, <1>3, <2>1 DEF WriteWord
<1>4. ASSUME WriteWord(entry, ReadWord(entry) \ {bit})
      PROVE  enables' = enables \ {BitOf(entry, bit)}
  <2>1. Bits(ReadWord(entry) \ {bit}) = HereNow \ {BitOf(entry, bit)}
    <3>1. \A k \in ReadWord(entry) : BitOf(entry, k) = BitOf(entry, bit) => k = bit
      BY BitsDiffer DEF ReadWord
    <3>2. Bits(ReadWord(entry) \ {bit}) = Bits(ReadWord(entry)) \ {BitOf(entry, bit)}
      BY <3>1
    <3> QED
      BY <1>1, <3>2
  <2>2. BitOf(entry, bit)[1] \div 4 = entry
    <3>1. BitOf(entry, bit)[1] = 4 * entry + bit \div 8 /\ bit \div 8 \in 0 .. 3
      BY DEF BitOf
    <3> QED
      BY <3>1
  <2>3. BitOf(entry, bit) \notin Others
    BY <2>2
  <2> QED
    BY <1>2, <1>4, <2>1, <2>3 DEF WriteWord
<1> QED
  BY <1>3, <1>4

-----------------------------------------------------------------------------
(* What the harts' code does *)

Bytes == 0 .. 255

TaskOps == {"idle", "enable", "disable", "write", "write_data", "read", "read_data"}

WriteOps == {"write", "write_data"}

\* A write always has a byte left.
Tasks == {t \in [op : TaskOps, id : Nat, word : SUBSET (0 .. 31), rest : Seq(Bytes),
                  locked : BOOLEAN] :
             t.op \in WriteOps => t.rest # <<>>}

\* A hart that does `op` and is in neither enable nor disable.
Plain(t) == t \in Tasks /\ t.op \notin {"enable", "disable"}

\* The values that Becomes is used with.
LEMMA IdleTask == Plain(NoTask) /\ NoTask.op = "idle" /\ NoTask \in Tasks
<1>1. <<>> \in Seq(Bytes)
  OBVIOUS
<1> QED
  BY <1>1 DEF NoTask, Tasks, TaskOps, WriteOps, Plain

\* The code goes on with other bytes to write ...
LEMMA WriteTask ==
    ASSUME NEW op \in WriteOps, NEW t \in Tasks, NEW r \in Seq(Bytes), r # <<>>
    PROVE  LET u == [t EXCEPT !.op = op, !.rest = r]
           IN  Plain(u) /\ u.op = op /\ u.rest = r
BY DEF Tasks, TaskOps, WriteOps, Plain

LEMMA LockTask ==
    ASSUME NEW r \in Seq(Bytes), r # <<>>, NEW b \in BOOLEAN,
           NEW u, u = [NoTask EXCEPT !.op = "write", !.rest = r, !.locked = b]
    PROVE  Plain(u) /\ u.op = "write"
BY IdleTask DEF Tasks, TaskOps, WriteOps, Plain

\* ... or with the same ones, or it reads.
LEMMA NextTask ==
    ASSUME NEW t \in Tasks
    PROVE  /\ t.op \in WriteOps =>
                 LET u == [t EXCEPT !.op = "write_data"]
                 IN  Plain(u) /\ u.op = "write_data" /\ u.rest = t.rest
           /\ LET u == [t EXCEPT !.op = "read"] IN Plain(u) /\ u.op = "read"
           /\ LET u == [t EXCEPT !.op = "read_data"] IN Plain(u) /\ u.op = "read_data"
BY DEF Tasks, TaskOps, WriteOps, Plain

\* What write_str, write and try_write start with.
LEMMA Message == /\ MESSAGE \in Seq(Bytes) /\ MESSAGE # <<>>
                 /\ <<Head(MESSAGE)>> \in Seq(Bytes) /\ <<Head(MESSAGE)>> # <<>>
<1>1. MESSAGE \in Seq(Bytes) /\ MESSAGE # <<>>
  BY DriversAssumption DEF Bytes
<1>2. Head(MESSAGE) \in Bytes
  BY <1>1, HeadTailProperties
<1>3. <<Head(MESSAGE)>> \in Seq(Bytes) /\ Len(<<Head(MESSAGE)>>) = 1
  BY <1>2
<1> QED
  BY <1>1, <1>3, EmptySeq

\* What enable and disable have in hand is still what the word contains.
Loaded(h) == /\ task[h].id \in Sources
             /\ task[h].word = ReadWord(enable_idx_bit(plic_context(h), task[h].id)[1])

EnableInv == /\ EnableExact
             /\ requested \subseteq Harts \X Sources
             /\ task \in [Harts -> Tasks]
             /\ \A h \in Harts : task[h].op \in {"enable", "disable"} => Loaded(h)

\* Enabled bits are places of the block.
LEMMA EnabledPlaces ==
    ASSUME EnableInv
    PROVE  enables \subseteq Places
<1> SUFFICES ASSUME NEW pair \in requested
             PROVE  EnableBit(Supervisor(pair[1]), pair[2]) \in Places
  BY DEF EnableInv, EnableExact
<1>1. pair[1] \in Nat /\ pair[2] \in Nat
  BY Ids DEF EnableInv
<1>2. 128 * (2 * pair[1] + 1) + pair[2] \div 8 \in Nat /\ pair[2] % 8 \in 0 .. 7
  BY <1>1
<1> QED
  BY <1>2 DEF EnableBit, Supervisor, Places

\* A step that leaves the enable block and the tasks alone.
LEMMA EnableQuiet ==
    ASSUME EnableInv, UNCHANGED <<enables, requested, task>>
    PROVE  EnableInv'
BY DEF EnableInv, EnableExact, Loaded, ReadWord

\* A step of a hart's code that is not in enable or disable afterwards.
LEMMA EnablePlain ==
    ASSUME EnableInv, NEW h \in Harts, NEW t, Plain(t), Becomes(h, t),
           UNCHANGED <<enables, requested>>
    PROVE  EnableInv'
<1>1. task' \in [Harts -> Tasks]
  BY DEF EnableInv, Plain, Becomes
<1>2. ASSUME NEW g \in Harts, task'[g].op \in {"enable", "disable"}
      PROVE  Loaded(g)'
  <2>1. g # h /\ task'[g] = task[g]
    BY <1>2 DEF EnableInv, Plain, Becomes
  <2> QED
    BY <1>2, <2>1 DEF EnableInv, Loaded, ReadWord
<1> QED
  BY <1>1, <1>2 DEF EnableInv, EnableExact

\* The first half of enable and disable: the word is read.
LEMMA EnableLoad ==
    ASSUME EnableInv, NEW h \in Harts, NEW id \in Sources,
           NEW op \in {"enable", "disable"}, LoadEnables(h, op, id)
    PROVE  EnableInv'
<1> DEFINE w == ReadWord(enable_idx_bit(plic_context(h), id)[1])
           t == [NoTask EXCEPT !.op = op, !.id = id, !.word = w]
<1>1. Becomes(h, t) /\ UNCHANGED <<enables, requested>>
  BY DEF LoadEnables, plicVars
<1>2. t \in Tasks /\ t.op = op /\ t.id = id /\ t.word = w
  <2>1. w \in SUBSET (0 .. 31) /\ op \in TaskOps /\ id \in Nat
    BY Ids DEF ReadWord, TaskOps
  <2> HIDE DEF w
  <2> QED
    BY <2>1, IdleTask DEF Tasks, WriteOps
<1> HIDE DEF t
<1>3. task' \in [Harts -> Tasks] /\ task'[h] = t /\ \A g \in Harts : g # h => task'[g] = task[g]
  BY <1>1, <1>2 DEF EnableInv, Becomes
<1>4. ASSUME NEW g \in Harts, task'[g].op \in {"enable", "disable"}
      PROVE  Loaded(g)'
  <2>1. CASE g = h
    BY <1>1, <1>2, <1>3, <2>1 DEF Loaded, ReadWord
  <2>2. CASE g # h
    BY <1>1, <1>3, <1>4, <2>2 DEF EnableInv, Loaded, ReadWord
  <2> QED
    BY <2>1, <2>2
<1> QED
  BY <1>1, <1>3, <1>4 DEF EnableInv, EnableExact

\* The second half: no other hart has the word in hand, so that nothing is lost.
LEMMA EnableStore ==
    ASSUME EnableInv, NEW h \in Harts, StoreEnables(h)
    PROVE  EnableInv'
<1>1. task[h].op \in {"enable", "disable"} /\ Becomes(h, NoTask)
  BY DEF StoreEnables, Does
<1>2. PICK id \in Sources : id = task[h].id
  BY <1>1 DEF EnableInv, Loaded
<1> DEFINE loc == enable_idx_bit(plic_context(h), id)
           place == EnableBit(Supervisor(h), id)
           pair == <<h, id>>
<1>a. id \in 1 .. 1023 /\ id \in Nat /\ h \in Nat
  BY Ids
<1>b. task[h].word = ReadWord(loc[1])
  BY <1>1, <1>2 DEF EnableInv, Loaded
<1>3. loc[1] \in Nat /\ loc[2] \in 0 .. 31 /\ BitOf(loc[1], loc[2]) = place
  BY <1>a, SamePlace
<1>4. enables \subseteq Places
  BY EnabledPlaces
<1>5. \/ /\ WriteWord(loc[1], ReadWord(loc[1]) \cup {loc[2]})
         /\ requested' = requested \cup {pair}
      \/ /\ WriteWord(loc[1], ReadWord(loc[1]) \ {loc[2]})
         /\ requested' = requested \ {pair}
  BY <1>2, <1>b DEF StoreEnables
<1> HIDE DEF loc
<1>6. \/ enables' = enables \cup {place} /\ requested' = requested \cup {pair}
      \/ enables' = enables \ {place} /\ requested' = requested \ {pair}
  BY <1>3, <1>4, <1>5, StoreBit
<1>7. requested' \subseteq Harts \X Sources
  BY <1>6 DEF EnableInv
<1>8. EnableExact'
  <2>1. \A p \in requested : EnableBit(Supervisor(p[1]), p[2]) = place => p = pair
    <3> SUFFICES ASSUME NEW p \in requested, EnableBit(Supervisor(p[1]), p[2]) = place
                 PROVE  p = pair
      OBVIOUS
    <3>1. PICK g \in Harts, j \in Sources : p = <<g, j>>
      BY DEF EnableInv
    <3>2. EnableBit(Supervisor(h), id) = EnableBit(Supervisor(g), j)
      BY <3>1
    <3>3. h = g /\ id = j
      BY <3>2, PlacesDiffer
    <3> QED
      BY <3>1, <3>3
  <2>2. pair[1] = h /\ pair[2] = id
    OBVIOUS
  <2>3. enables = {EnableBit(Supervisor(p[1]), p[2]) : p \in requested}
    BY DEF EnableInv, EnableExact
  <2>4. EnableBit(Supervisor(pair[1]), pair[2]) = place
    BY <2>2
  <2> HIDE DEF pair, place
  <2>5. enables' = {EnableBit(Supervisor(p[1]), p[2]) : p \in requested'}
    BY <1>6, <2>1, <2>3, <2>4
  <2> QED
    BY <2>5 DEF EnableExact
<1>9. task' \in [Harts -> Tasks] /\ task'[h] = NoTask
      /\ \A g \in Harts : g # h => task'[g] = task[g]
  BY <1>1, IdleTask DEF EnableInv, Becomes, Plain
<1>10. ASSUME NEW g \in Harts, task'[g].op \in {"enable", "disable"}
       PROVE  Loaded(g)'
  <2>1. g # h /\ task'[g] = task[g] /\ Loaded(g)
    BY <1>9, <1>10, IdleTask DEF EnableInv
  <2> DEFINE entry == enable_idx_bit(plic_context(g), task[g].id)[1]
  <2>2. entry \in Nat /\ entry # loc[1]
    <3>1. g \in Nat /\ task[g].id \in Sources /\ task[g].id \in Nat
      BY <2>1, Ids DEF Loaded
    <3>2. enable_idx_bit(plic_context(g), task[g].id)[1] \in Nat
      BY <3>1, SamePlace
    <3>3. h # g
      BY <2>1
    <3>4. enable_idx_bit(plic_context(h), id)[1]
             # enable_idx_bit(plic_context(g), task[g].id)[1]
      BY <3>1, <3>3, WordsDiffer
    <3> QED
      BY <3>2, <3>4 DEF loc
  <2>3. \A k \in 0 .. 31 : BitOf(entry, k) # place
    <3> SUFFICES ASSUME NEW k \in 0 .. 31, BitOf(entry, k) = BitOf(loc[1], loc[2])
                 PROVE  FALSE
      BY <1>3
    <3>1. 4 * entry + k \div 8 = 4 * loc[1] + loc[2] \div 8
      BY DEF BitOf
    <3>2. k \div 8 \in 0 .. 3 /\ loc[2] \div 8 \in 0 .. 3
      BY <1>3
    <3> HIDE DEF entry
    <3> QED
      BY <1>3, <2>2, <3>1, <3>2
  <2> HIDE DEF entry, place
  <2>4. {k \in 0 .. 31 : BitOf(entry, k) \in enables'} = ReadWord(entry)
    BY <1>6, <2>3 DEF ReadWord
  <2> QED
    BY <2>1, <2>4 DEF Loaded, ReadWord, entry
<1> QED
  BY <1>7, <1>8, <1>9, <1>10 DEF EnableInv

\* The rest of a message.
LEMMA RestOf ==
    ASSUME NEW r \in Seq(Bytes), r # <<>>
    PROVE  /\ Head(r) \in Bytes
           /\ Tail(r) \in Seq(Bytes)
           /\ Len(r) # 1 => Tail(r) # <<>>
<1>1. /\ Head(r) \in Bytes /\ Tail(r) \in Seq(Bytes) /\ Len(Tail(r)) = Len(r) - 1
      /\ Len(r) \in Nat
  BY HeadTailProperties, LenProperties
<1>2. Len(r) # 1 => Len(Tail(r)) # 0
  BY <1>1
<1>3. Len(<<>>) = 0
  OBVIOUS
<1> QED
  BY <1>1, <1>2, <1>3

\* The steps that are not in enable or disable, before or after.
OtherCall(h) == \/ write_str(h) \/ write(h) \/ try_write(h)
                \/ WaitTransmitter(h) \/ write_data(h)
                \/ read(h) \/ WaitData(h) \/ read_data(h)

\* write_str and write start to write.
LEMMA Started ==
    ASSUME NEW h, write_str(h) \/ write(h)
    PROVE  /\ \E t : Plain(t) /\ t.op = "write" /\ Becomes(h, t)
           /\ Calls(h) /\ UNCHANGED <<uartVars, plicVars, setup, requested>>
<1>1. PICK r \in {MESSAGE, <<Head(MESSAGE)>>}, b \in BOOLEAN : StartWrite(h, r, b)
  BY DEF write_str, write
<1>2. r \in Seq(Bytes) /\ r # <<>>
  BY Message
<1>3. PICK t : t = [NoTask EXCEPT !.op = "write", !.rest = r, !.locked = b]
  OBVIOUS
<1>4. Plain(t) /\ t.op = "write"
  BY <1>2, <1>3, LockTask
<1> QED
  BY <1>1, <1>3, <1>4 DEF StartWrite

\* Each of them leaves the hart's code with a task of another kind, or as it is.
LEMMA OtherTasks ==
    ASSUME task \in [Harts -> Tasks], NEW h \in Harts, OtherCall(h)
    PROVE  \/ UNCHANGED task
           \/ \E t : Plain(t) /\ Becomes(h, t)
<1>1. task[h] \in Tasks
  OBVIOUS
<1>2. CASE write_str(h) \/ write(h)
  BY <1>2, Started
<1>3. CASE try_write(h)
  <2>1. "write_data" \in WriteOps
    BY DEF WriteOps
  <2> QED
    BY <1>3, <2>1, IdleTask, Message, WriteTask DEF try_write
<1>4. CASE WaitTransmitter(h)
  <2>1. task[h].op \in WriteOps
    BY <1>4 DEF WaitTransmitter, Does, WriteOps
  <2> QED
    BY <1>1, <1>4, <2>1, NextTask DEF WaitTransmitter
<1>5. CASE write_data(h)
  <2>1. task[h].op \in WriteOps /\ "write" \in WriteOps
    BY <1>5 DEF write_data, Does, WriteOps
  <2>2. task[h].rest \in Seq(Bytes) /\ task[h].rest # <<>>
    BY <1>1, <2>1 DEF Tasks
  <2>3. Becomes(h, IF Len(task[h].rest) = 1 THEN NoTask
                   ELSE [task[h] EXCEPT !.op = "write", !.rest = Tail(task[h].rest)])
    BY <1>5 DEF write_data
  <2>4. CASE Len(task[h].rest) = 1
    BY <2>3, <2>4, IdleTask
  <2>5. CASE Len(task[h].rest) # 1
    <3>1. Tail(task[h].rest) \in Seq(Bytes) /\ Tail(task[h].rest) # <<>>
      BY <2>2, <2>5, RestOf
    <3>2. Plain([task[h] EXCEPT !.op = "write", !.rest = Tail(task[h].rest)])
      BY <1>1, <2>1, <3>1, WriteTask
    <3> QED
      BY <2>3, <2>5, <3>2
  <2> QED
    BY <2>4, <2>5
<1>6. CASE read(h)
  BY <1>6, IdleTask, NextTask DEF read
<1>7. CASE WaitData(h)
  BY <1>1, <1>7, NextTask DEF WaitData
<1>8. CASE read_data(h)
  BY <1>8, IdleTask DEF read_data
<1> QED
  BY <1>2, <1>3, <1>4, <1>5, <1>6, <1>7, <1>8 DEF OtherCall

\* Every step keeps the enable block exact.
LEMMA EnableNext ==
    ASSUME EnableInv, [DriversNext]_driverVars
    PROVE  EnableInv'
<1>1. CASE UNCHANGED <<enables, requested, task>>
  BY <1>1, EnableQuiet
<1>2. ASSUME NEW h \in Harts, OtherCall(h)
      PROVE  EnableInv'
  <2>1. UNCHANGED <<enables, requested>>
    BY <1>2, Started DEF OtherCall, try_write, WaitTransmitter, write_data, read,
                         WaitData, read_data, plicVars, clientVars
  <2> QED
    BY <1>2, <2>1, OtherTasks, EnableQuiet, EnablePlain DEF EnableInv
<1>3. ASSUME NEW h \in Harts, StoreEnables(h)
      PROVE  EnableInv'
  BY <1>3, EnableStore
<1>4. ASSUME NEW h \in Harts, ClientCall(h)
      PROVE  EnableInv'
  <2>1. ASSUME NEW id \in Sources, LoadEnables(h, "enable", id) \/ LoadEnables(h, "disable", id)
        PROVE  EnableInv'
    BY <2>1, EnableLoad
  <2>2. ASSUME \/ \E id \in Sources, p \in {0, 2} : set_priority(h, id, p)
               \/ \E t \in 0 .. 1 : set_threshold(h, t)
        PROVE  EnableInv'
    BY <1>1, <2>2 DEF set_priority, set_threshold
  <2>3. ASSUME write_str(h) \/ write(h) \/ try_write(h) \/ read(h)
        PROVE  EnableInv'
    BY <1>2, <2>3 DEF OtherCall
  <2> QED
    BY <1>4, <2>1, <2>2, <2>3 DEF ClientCall
<1>5. ASSUME NEW h \in Harts, IrqStep(h)
      PROVE  EnableInv'
  BY <1>1, <1>5 DEF IrqStep, TakeInterrupt, claim, TryRead, Drain, finish, plicVars, clientVars
<1>6. ASSUME NEW h \in Harts, TaskStep(h)
      PROVE  EnableInv'
  BY <1>2, <1>3, <1>6 DEF TaskStep, OtherCall
<1>7. CASE UartInit \/ PlicInit \/ Transmit \/ Receive \/ UartSignals \/ OtherSignals
  BY <1>1, <1>7 DEF UartInit, PlicInit, Transmit, Receive, UartSignals, OtherSignals,
                    Signals, plicVars, clientVars
<1>8. CASE UNCHANGED driverVars
  BY <1>1, <1>8 DEF driverVars, plicVars, clientVars
<1> QED
  BY <1>4, <1>5, <1>6, <1>7, <1>8 DEF DriversNext

\* The words that enable and disable read, change and write back never lose or
\* gain a bit, for any number of harts that do so at once and are interrupted in
\* between: the block is at every step what the harts asked for.
THEOREM EnableBlockExact == DriversSpec => []EnableExact
<1>1. DriversInit => EnableInv
  <2> SUFFICES ASSUME DriversInit PROVE EnableInv
    OBVIOUS
  <2>1. enables = {} /\ requested = {} /\ task = [h \in Harts |-> NoTask]
    BY DEF DriversInit, DriversAt
  <2>2. \A h \in Harts : task[h].op = "idle"
    BY <2>1, IdleTask
  <2> QED
    BY <2>1, <2>2, IdleTask DEF EnableInv, EnableExact
<1>2. EnableInv => EnableExact
  BY DEF EnableInv
<1>3. EnableInv /\ [DriversNext]_driverVars => EnableInv'
  BY EnableNext
<1> QED
  BY <1>1, <1>2, <1>3, PTL DEF DriversSpec
-----------------------------------------------------------------------------
(* The serial port *)

Port == [fcr : Nat, lcr : Nat, ier : Nat, dll : Nat, dlm : Nat,
         thr : Seq(Bytes), rx : Seq(Bytes)]

\* The registers after the first n writes of init.
Programmed(u, n) ==
    /\ n >= 1 => u.fcr = 1
    /\ u.lcr = IF n < 2 THEN 0 ELSE IF n \in 4 .. 6 THEN 131 ELSE 3
    /\ n >= 3 => u.ier = 1
    /\ n >= 5 => u.dll = 80
    /\ n >= 6 => u.dlm = 2

Writes(h) == task[h].op \in WriteOps

\* The harts that have seen the transmitter empty and store their byte next.
Storing == {h \in Harts : task[h].op = "write_data"}

\* Without a race there is at most one, the transmitter is still empty for it,
\* and the line is exact.
Exact == races = 0 => /\ line \o uart.thr = written
                      /\ \A g, h \in Storing : g = h
                      /\ Storing # {} => uart.thr = <<>>

\* The races that have not cost a byte yet.
Slack == Len(line) + Len(uart.thr) + races - Len(written)

\* They pay for every hart that is about to store and will find the
\* transmitter full: all of them, or all but one if it is empty now.
Counted == /\ Slack >= 0
           /\ Cardinality(Storing) <= Slack + (IF uart.thr = <<>> THEN 1 ELSE 0)

\* Nobody writes before init is done.
LineInv ==
    /\ uart \in Port /\ setup \in 0 .. 8
    /\ line \in Seq(Bytes) /\ written \in Seq(Bytes) /\ races \in Nat
    /\ Programmed(uart, setup)
    /\ task \in [Harts -> Tasks]
    /\ \A h \in Harts : Writes(h) => setup = 8
    /\ Exact /\ Counted

\* There are finitely many harts.
LEMMA StoringFinite == IsFiniteSet(Storing) /\ Cardinality(Storing) \in Nat
<1>1. IsFiniteSet(Harts) /\ Storing \in SUBSET Harts
  BY DriversAssumption DEF Storing
<1> QED
  BY <1>1, FS_Subset, FS_CardinalityType

\* What is counted are numbers.
LEMMA Lengths ==
    ASSUME LineInv
    PROVE  /\ Len(line) \in Nat /\ Len(uart.thr) \in Nat /\ Len(written) \in Nat
           /\ races \in Nat /\ Slack \in Int
<1>1. /\ Len(line) \in Nat /\ Len(uart.thr) \in Nat /\ Len(written) \in Nat
      /\ races \in Nat
  BY LenProperties DEF LineInv, Port
<1> QED
  BY <1>1 DEF Slack

\* A step that touches at most the receiver.
ReceiverOnly == /\ uart' \in Port
                /\ uart'.fcr = uart.fcr /\ uart'.lcr = uart.lcr /\ uart'.ier = uart.ier
                /\ uart'.dll = uart.dll /\ uart'.dlm = uart.dlm /\ uart'.thr = uart.thr
                /\ UNCHANGED <<line, written, races, setup>>

\* The receiver takes a byte or loses one.
LEMMA ReceiverSteps ==
    ASSUME uart \in Port, UNCHANGED <<line, written, races, setup>>,
           \/ TakeByte
           \/ \E x \in Bytes : uart' = [uart EXCEPT !.rx = Append(@, x)]
           \/ UNCHANGED uart
    PROVE  ReceiverOnly
<1>1. ASSUME NEW r \in Seq(Bytes), uart' = [uart EXCEPT !.rx = r]
      PROVE  ReceiverOnly
  BY <1>1 DEF Port, ReceiverOnly
<1>2. uart.rx \in Seq(Bytes)
  BY DEF Port
<1>3. CASE TakeByte
  <2>1. (IF uart.rx = <<>> THEN uart.rx ELSE Tail(uart.rx)) \in Seq(Bytes)
    BY <1>2, RestOf
  <2> QED
    BY <1>1, <1>3, <2>1 DEF TakeByte
<1>4. ASSUME NEW x \in Bytes, uart' = [uart EXCEPT !.rx = Append(@, x)]
      PROVE  ReceiverOnly
  <2>1. Append(uart.rx, x) \in Seq(Bytes)
    BY <1>2
  <2> QED
    BY <1>1, <1>4, <2>1
<1>5. CASE UNCHANGED uart
  BY <1>5 DEF ReceiverOnly
<1> QED
  BY <1>3, <1>4, <1>5

\* A step that leaves the transmitter and the tasks alone.
LEMMA LineQuiet ==
    ASSUME LineInv, ReceiverOnly, UNCHANGED task
    PROVE  LineInv'
<1>1. Storing' = Storing
  BY DEF Storing
<1>2. Exact' /\ Counted'
  BY <1>1 DEF LineInv, ReceiverOnly, Exact, Counted, Slack
<1> QED
  BY <1>2 DEF LineInv, ReceiverOnly, Programmed, Writes

\* A hart goes on to a task in which it does not store a byte next.
LEMMA LineTask ==
    ASSUME LineInv, ReceiverOnly, NEW h \in Harts, NEW t \in Tasks, Becomes(h, t),
           t.op # "write_data", t.op \in WriteOps => setup = 8
    PROVE  LineInv'
<1>1. /\ task' \in [Harts -> Tasks] /\ task'[h] = t
      /\ \A g \in Harts : g # h => task'[g] = task[g]
  BY DEF LineInv, Becomes
<1>2. \A g \in Harts : task'[g].op \in WriteOps => setup = 8
  BY <1>1 DEF LineInv, Writes
<1>3. Storing' \subseteq Storing
  BY <1>1 DEF Storing
<1>4. Cardinality(Storing)' <= Cardinality(Storing) /\ Cardinality(Storing)' \in Nat
  BY <1>3, StoringFinite, FS_Subset, FS_CardinalityType
<1>5. Slack' = Slack /\ Slack \in Int
  BY Lengths DEF ReceiverOnly, Slack
<1>6. Counted'
  BY <1>4, <1>5, StoringFinite DEF LineInv, Counted, ReceiverOnly
<1>7. Exact'
  BY <1>3 DEF LineInv, Exact, ReceiverOnly
<1> QED
  BY <1>1, <1>2, <1>6, <1>7 DEF LineInv, ReceiverOnly, Programmed, Writes

LEMMA LineIdle ==
    ASSUME LineInv, ReceiverOnly, NEW h \in Harts, NEW t \in Tasks, Becomes(h, t),
           t.op \notin WriteOps
    PROVE  LineInv'
BY LineTask DEF WriteOps

\* A hart finds the transmitter empty; if another has, that is a race.
LEMMA LineCheck ==
    ASSUME LineInv, NEW h \in Harts, NEW t \in Tasks, Becomes(h, t),
           t.op = "write_data", setup = 8, task[h].op # "write_data",
           uart.thr = <<>>, Checked, UNCHANGED <<uart, line, written, setup>>
    PROVE  LineInv'
<1>1. /\ task' \in [Harts -> Tasks] /\ task'[h] = t
      /\ \A g \in Harts : g # h => task'[g] = task[g]
  BY DEF LineInv, Becomes
<1>2. Storing' = Storing \cup {h} /\ h \notin Storing
  BY <1>1 DEF Storing
<1>3. Cardinality(Storing)' = Cardinality(Storing) + 1
  BY <1>2, StoringFinite, FS_AddElement
<1>4. races' = races + (IF Storing = {} THEN 0 ELSE 1) /\ races \in Nat
  BY DEF Checked, Storing, LineInv
<1>5. Slack \in Int /\ Slack' = Slack + (IF Storing = {} THEN 0 ELSE 1)
  <2>1. /\ Len(line) \in Nat /\ Len(uart.thr) \in Nat /\ Len(written) \in Nat
        /\ races \in Nat /\ Slack \in Int
    BY Lengths
  <2>2. Slack' = Len(line) + Len(uart.thr) + races' - Len(written)
    BY DEF Slack
  <2>3. CASE Storing = {}
    BY <1>4, <2>1, <2>2, <2>3 DEF Slack
  <2>4. CASE Storing # {}
    <3>1. races' = races + 1
      BY <1>4, <2>4
    <3>2. ASSUME NEW k \in Nat, NEW l \in Nat, NEW m \in Nat, NEW n \in Nat
          PROVE  k + l + (m + 1) - n = (k + l + m - n) + 1
      OBVIOUS
    <3>3. Slack = Len(line) + Len(uart.thr) + races - Len(written)
      BY DEF Slack
    <3>4. Slack' = Slack + 1
      BY <2>1, <2>2, <3>1, <3>2, <3>3
    <3> QED
      BY <2>1, <2>4, <3>4
  <2> QED
    BY <2>1, <2>3, <2>4
<1>6. Storing = {} <=> Cardinality(Storing) = 0
  BY StoringFinite, FS_EmptySet
<1>7. Counted'
  BY <1>3, <1>5, <1>6, StoringFinite DEF LineInv, Counted
<1>8. Exact'
  BY <1>2, <1>4 DEF LineInv, Exact
<1> QED
  BY <1>1, <1>4, <1>7, <1>8 DEF LineInv, Programmed, Writes

\* Init writes the registers one by one; the two bytes of the divisor go to the
\* latch because LCR was set before.
LEMMA LineSetup ==
    ASSUME LineInv, UartInit
    PROVE  LineInv'
<1>1. setup \in 0 .. 6 /\ setup' = setup + 1 /\ UNCHANGED <<line, written, races, task>>
  BY DEF LineInv, UartInit, InitWrites
<1>2. uart \in Port /\ Programmed(uart, setup)
  BY DEF LineInv
<1>3. uart' = SetRegister(uart, InitWrites[setup + 1][1], InitWrites[setup + 1][2])
  BY DEF UartInit
<1>4. uart' \in Port /\ uart'.thr = uart.thr /\ Programmed(uart', setup + 1)
  <2>1. CASE setup = 0
    BY <1>2, <1>3, <2>1 DEF InitWrites, SetRegister, Programmed, Port
  <2>2. CASE setup = 1
    BY <1>2, <1>3, <2>2, SMTT(30) DEF InitWrites, SetRegister, Programmed, Port
  <2>3. CASE setup = 2
    BY <1>2, <1>3, <2>3 DEF InitWrites, SetRegister, Programmed, Port
  <2>4. CASE setup = 3
    BY <1>2, <1>3, <2>4 DEF InitWrites, SetRegister, Programmed, Port
  <2>5. CASE setup = 4
    BY <1>2, <1>3, <2>5 DEF InitWrites, SetRegister, Programmed, Port, divisor
  <2>6. CASE setup = 5
    BY <1>2, <1>3, <2>6 DEF InitWrites, SetRegister, Programmed, Port, divisor
  <2>7. CASE setup = 6
    BY <1>2, <1>3, <2>7, SMTT(30) DEF InitWrites, SetRegister, Programmed, Port
  <2> QED
    BY <1>1, <2>1, <2>2, <2>3, <2>4, <2>5, <2>6, <2>7
<1>5. \A h \in Harts : ~ Writes(h)
  BY <1>1 DEF LineInv
<1>6. \A h \in Harts : ~ Writes(h)'
  BY <1>1, <1>5 DEF Writes
<1>7. Exact' /\ Counted'
  BY <1>1, <1>4 DEF LineInv, Exact, Counted, Slack, Storing
<1> QED
  BY <1>1, <1>4, <1>6, <1>7 DEF LineInv

\* The byte that is stored follows what the line carried if the transmitter is
\* empty; if it is full, the byte is lost, and a race pays for it.
LEMMA LineStore ==
    ASSUME LineInv, NEW h \in Harts, write_data(h)
    PROVE  LineInv'
<1> DEFINE r == task[h].rest
           x == Head(r)
           t == IF Len(r) = 1 THEN NoTask ELSE [task[h] EXCEPT !.op = "write", !.rest = Tail(r)]
<1>1. /\ task[h].op = "write_data" /\ Writes(h) /\ task[h] \in Tasks
      /\ Becomes(h, t) /\ UNCHANGED <<line, races, setup>>
      /\ uart' = SetRegister(uart, 0, x) /\ written' = Append(written, x)
  BY DEF write_data, Does, LineInv, Writes, WriteOps
<1>2. setup = 8 /\ uart \in Port /\ Programmed(uart, 8) /\ uart.thr \in Seq(Bytes)
      /\ line \in Seq(Bytes) /\ written \in Seq(Bytes) /\ races \in Nat
  BY <1>1 DEF LineInv, Port
<1>3. r \in Seq(Bytes) /\ r # <<>> /\ x \in Bytes
  BY <1>1, RestOf DEF Tasks, Writes
<1>4. t \in Tasks /\ t.op # "write_data"
  <2>1. CASE Len(r) = 1
    BY <2>1, IdleTask
  <2>2. CASE Len(r) # 1
    <3>1. Tail(r) \in Seq(Bytes) /\ Tail(r) # <<>> /\ "write" \in WriteOps
      BY <1>3, <2>2, RestOf DEF WriteOps
    <3>2. LET u == [task[h] EXCEPT !.op = "write", !.rest = Tail(r)]
          IN  Plain(u) /\ u.op = "write"
      BY <1>1, <3>1, WriteTask, ZenonT(60)
    <3> QED
      BY <2>2, <3>2 DEF Plain
  <2> QED
    BY <2>1, <2>2
<1> HIDE DEF x, t
<1> DEFINE b == IF uart.thr = <<>> THEN <<x>> ELSE uart.thr
<1>5. uart' = [uart EXCEPT !.thr = b]
  BY <1>1, <1>2 DEF SetRegister, Programmed
<1>6. b \in Seq(Bytes) /\ <<x>> \in Seq(Bytes) /\ Append(written, x) \in Seq(Bytes)
      /\ Len(<<x>>) = 1 /\ <<x>> # <<>> /\ Len(Append(written, x)) = Len(written) + 1
  BY <1>2, <1>3
<1>7. Len(b) = Len(uart.thr) + (IF uart.thr = <<>> THEN 1 ELSE 0) /\ b # <<>>
  <2>1. CASE uart.thr = <<>>
    <3>1. Len(<<>>) = 0
      OBVIOUS
    <3> QED
      BY <1>6, <2>1, <3>1
  <2>2. CASE uart.thr # <<>>
    BY <2>2, Lengths
  <2> QED
    BY <2>1, <2>2
<1> HIDE DEF b
<1>8. uart' \in Port /\ Programmed(uart', 8) /\ uart'.thr = b /\ written' \in Seq(Bytes)
  BY <1>1, <1>2, <1>5, <1>6, ZenonT(60) DEF Port, Programmed
<1>9. /\ task' \in [Harts -> Tasks] /\ task'[h] = t
      /\ \A g \in Harts : g # h => task'[g] = task[g]
  BY <1>1, <1>4 DEF LineInv, Becomes
<1>10. Storing' = Storing \ {h} /\ h \in Storing
  BY <1>1, <1>4, <1>9 DEF Storing
<1>11. Cardinality(Storing)' = Cardinality(Storing) - 1 /\ Cardinality(Storing) \in Nat
  BY <1>10, StoringFinite, FS_RemoveElement
<1>12. Slack \in Int /\ Slack' = Slack - (IF uart.thr = <<>> THEN 0 ELSE 1)
  <2>1. Len(written') = Len(written) + 1
    BY <1>1, <1>6
  <2>2. Len(uart'.thr) = Len(uart.thr) + (IF uart.thr = <<>> THEN 1 ELSE 0)
    BY <1>7, <1>8
  <2>3. /\ Len(line) \in Nat /\ Len(uart.thr) \in Nat /\ Len(written) \in Nat
        /\ races \in Nat /\ Slack \in Int
    BY Lengths
  <2>4. Slack' = Len(line) + Len(uart'.thr) + races - Len(written')
    BY <1>1 DEF Slack
  <2>5. CASE uart.thr = <<>>
    BY <2>1, <2>2, <2>3, <2>4, <2>5 DEF Slack
  <2>6. CASE uart.thr # <<>>
    BY <2>1, <2>2, <2>3, <2>4, <2>6 DEF Slack
  <2> QED
    BY <2>3, <2>5, <2>6
<1>13. Counted'
  <2>1. Cardinality(Storing) # 0
    BY <1>10, StoringFinite, FS_EmptySet
  <2>2. /\ Slack >= 0
        /\ Cardinality(Storing) <= Slack + (IF uart.thr = <<>> THEN 1 ELSE 0)
    BY DEF LineInv, Counted
  <2> QED
    BY <1>7, <1>8, <1>11, <1>12, <2>1, <2>2 DEF Counted
<1>14. Exact'
  <2> SUFFICES ASSUME races = 0
               PROVE  line \o b = written' /\ Storing' = {}
    BY <1>1, <1>8 DEF Exact
  <2>1. line \o uart.thr = written /\ uart.thr = <<>> /\ Storing = {h}
    BY <1>10 DEF LineInv, Exact
  <2>2. line \o <<x>> = Append(line, x) /\ line \o <<>> = line
    BY <1>2, <1>3
  <2> QED
    BY <1>1, <1>10, <2>1, <2>2 DEF b
<1>15. \A g \in Harts : task'[g].op \in WriteOps => setup = 8
  BY <1>2
<1> QED
  BY <1>1, <1>2, <1>8, <1>9, <1>13, <1>14, <1>15 DEF LineInv, Writes

\* Every step keeps the line faithful.
LEMMA LineNext ==
    ASSUME LineInv, [DriversNext]_driverVars
    PROVE  LineInv'
<1>a. uart \in Port /\ task \in [Harts -> Tasks]
  BY DEF LineInv
<1>1. ASSUME UNCHANGED <<uart, line, written, races, setup, task>>
      PROVE  LineInv'
  BY <1>a, <1>1, ReceiverSteps, LineQuiet
<1>2. CASE Transmit
  <2>1. /\ line' = line \o uart.thr /\ uart' = [uart EXCEPT !.thr = <<>>]
        /\ UNCHANGED <<written, races, setup, task>> /\ uart.thr # <<>>
    BY <1>2 DEF Transmit
  <2>2. uart' \in Port /\ uart'.thr = <<>> /\ Programmed(uart', setup)
    <3>1. <<>> \in Seq(Bytes) /\ Programmed(uart, setup)
      BY DEF LineInv
    <3> QED
      BY <1>a, <2>1, <3>1 DEF Port, Programmed
  <2>3. /\ line' \in Seq(Bytes) /\ line' \o <<>> = line \o uart.thr
        /\ Len(line') = Len(line) + Len(uart.thr) /\ Len(<<>>) = 0
    BY <2>1 DEF LineInv, Port
  <2>4. Storing' = Storing
    BY <2>1 DEF Storing
  <2>5. Slack' = Slack /\ Slack \in Int
    BY <2>1, <2>2, <2>3, Lengths DEF Slack
  <2>6. Counted'
    BY <2>1, <2>2, <2>4, <2>5, StoringFinite DEF Counted, LineInv
  <2>7. Exact'
    BY <2>1, <2>2, <2>3, <2>4 DEF Exact, LineInv
  <2> QED
    BY <2>1, <2>2, <2>3, <2>6, <2>7 DEF LineInv, Writes
<1>3. CASE Receive
  <2>1. PICK x \in {S, S + 1} : uart' = [uart EXCEPT !.rx = Append(@, x)]
    BY <1>3 DEF Receive
  <2>2. x \in Bytes /\ UNCHANGED <<line, written, races, setup, task>>
    BY <1>3 DEF Receive, S, Bytes
  <2> QED
    BY <1>a, <2>1, <2>2, ReceiverSteps, LineQuiet
<1>4. CASE UartInit
  BY <1>4, LineSetup
<1>5. CASE PlicInit
  <2>1. setup = 7 /\ setup' = 8 /\ UNCHANGED <<uart, line, written, races, task>>
    BY <1>5 DEF PlicInit, InitWrites, uartVars
  <2>2. Programmed(uart, 8)
    BY <2>1 DEF LineInv, Programmed
  <2>3. Exact' /\ Counted'
    BY <2>1 DEF LineInv, Exact, Counted, Slack, Storing
  <2> QED
    BY <2>1, <2>2, <2>3 DEF LineInv, Programmed, Writes
<1>6. CASE UartSignals \/ OtherSignals
  BY <1>1, <1>6 DEF UartSignals, OtherSignals, Signals, uartVars
<1>7. ASSUME NEW h \in Harts, ClientCall(h)
      PROVE  LineInv'
  <2>1. ASSUME UNCHANGED uartVars, UNCHANGED setup
        PROVE  ReceiverOnly
    BY <1>a, <2>1, ReceiverSteps DEF uartVars
  <2>2. ASSUME NEW id \in Sources, NEW op \in {"enable", "disable"}, LoadEnables(h, op, id)
        PROVE  LineInv'
    <3>1. PICK t : /\ t = [NoTask EXCEPT !.op = op, !.id = id,
                              !.word = ReadWord(enable_idx_bit(plic_context(h), id)[1])]
                   /\ Becomes(h, t)
      BY <2>2 DEF LoadEnables
    <3>2. t \in Tasks /\ t.op = op
      <4>1. ReadWord(enable_idx_bit(plic_context(h), id)[1]) \in SUBSET (0 .. 31)
            /\ op \in TaskOps /\ id \in Nat
        BY Ids DEF ReadWord, TaskOps
      <4> QED
        BY <3>1, <4>1, IdleTask DEF Tasks, WriteOps
    <3> QED
      BY <2>1, <2>2, <3>1, <3>2, LineIdle DEF LoadEnables, WriteOps
  <2>3. ASSUME \/ \E id \in Sources, p \in {0, 2} : set_priority(h, id, p)
               \/ \E t \in 0 .. 1 : set_threshold(h, t)
        PROVE  LineInv'
    BY <1>1, <2>3 DEF set_priority, set_threshold, uartVars
  <2>4. Calls(h) => setup = 8 /\ task[h].op = "idle"
    BY DEF Calls, Ready, InitWrites, Does, LineInv
  <2>5. CASE write_str(h) \/ write(h)
    BY <2>1, <2>4, <2>5, Started, LineTask DEF Plain
  <2>6. CASE try_write(h)
    <3>1. CASE transmitter_empty
      <4>1. PICK t : /\ t = [NoTask EXCEPT !.op = "write_data", !.rest = <<Head(MESSAGE)>>]
                     /\ Becomes(h, t)
        BY <2>6, <3>1 DEF try_write
      <4>2. "write_data" \in WriteOps
        BY DEF WriteOps
      <4>3. Plain(t) /\ t.op = "write_data"
        BY <4>1, <4>2, IdleTask, Message, WriteTask, ZenonT(60)
      <4>4. /\ setup = 8 /\ task[h].op # "write_data" /\ uart.thr = <<>> /\ Checked
            /\ UNCHANGED <<uart, line, written, setup>>
        BY <2>4, <2>6, <3>1 DEF try_write, transmitter_empty
      <4> QED
        BY <4>1, <4>3, <4>4, LineCheck DEF Plain
    <3>2. CASE ~ transmitter_empty
      BY <1>1, <2>6, <3>2 DEF try_write
    <3> QED
      BY <3>1, <3>2
  <2>7. CASE read(h)
    <3>1. Plain([NoTask EXCEPT !.op = "read"]) /\ [NoTask EXCEPT !.op = "read"].op = "read"
      BY IdleTask, NextTask
    <3> QED
      BY <2>1, <2>7, <3>1, LineIdle DEF read, Plain, WriteOps
  <2> QED
    BY <1>7, <2>2, <2>3, <2>5, <2>6, <2>7 DEF ClientCall
<1>8. ASSUME NEW h \in Harts, TaskStep(h)
      PROVE  LineInv'
  <2>1. CASE StoreEnables(h)
    <3>1. ReceiverOnly /\ Becomes(h, NoTask)
      BY <1>a, <2>1, ReceiverSteps DEF StoreEnables, uartVars
    <3> QED
      BY <3>1, IdleTask, LineIdle DEF WriteOps
  <2>2. CASE WaitTransmitter(h)
    <3>1. /\ uart.thr = <<>> /\ Writes(h) /\ task[h].op # "write_data" /\ Checked
          /\ UNCHANGED <<uart, line, written, setup>>
          /\ Becomes(h, [task[h] EXCEPT !.op = "write_data"])
      BY <2>2 DEF WaitTransmitter, transmitter_empty, Does, Writes, WriteOps
    <3>2. setup = 8
      BY <3>1 DEF LineInv
    <3>3. LET u == [task[h] EXCEPT !.op = "write_data"] IN u \in Tasks /\ u.op = "write_data"
      BY <1>a, <3>1, NextTask DEF Plain, Writes
    <3> QED
      BY <3>1, <3>2, <3>3, LineCheck
  <2>3. CASE write_data(h)
    BY <2>3, LineStore
  <2>4. CASE WaitData(h)
    <3>1. ReceiverOnly /\ Becomes(h, [task[h] EXCEPT !.op = "read_data"])
      BY <1>a, <2>4, ReceiverSteps DEF WaitData, uartVars
    <3>2. LET u == [task[h] EXCEPT !.op = "read_data"] IN u \in Tasks /\ u.op = "read_data"
      BY <1>a, NextTask DEF Plain
    <3> QED
      BY <3>1, <3>2, LineIdle DEF WriteOps
  <2>5. CASE read_data(h)
    <3>1. ReceiverOnly /\ Becomes(h, NoTask)
      BY <1>a, <2>5, ReceiverSteps DEF read_data
    <3> QED
      BY <3>1, IdleTask, LineIdle DEF WriteOps
  <2> QED
    BY <1>8, <2>1, <2>2, <2>3, <2>4, <2>5 DEF TaskStep
<1>9. ASSUME NEW h \in Harts, IrqStep(h)
      PROVE  LineInv'
  <2>1. CASE Drain(h)
    BY <1>a, <2>1, ReceiverSteps, LineQuiet DEF Drain
  <2>2. CASE TakeInterrupt(h) \/ claim(h) \/ TryRead(h) \/ finish(h)
    BY <1>1, <2>2 DEF TakeInterrupt, claim, TryRead, finish, uartVars
  <2> QED
    BY <1>9, <2>1, <2>2 DEF IrqStep
<1>10. CASE UNCHANGED driverVars
  BY <1>1, <1>10 DEF driverVars, uartVars
<1> QED
  BY <1>2, <1>3, <1>4, <1>5, <1>6, <1>7, <1>8, <1>9, <1>10 DEF DriversNext

\* What the harts write leaves the port in order and complete, for every message
\* and every number of harts, unless two of them are between the check of the
\* transmitter and the store at once; however often that happens, it costs at
\* most a byte each time.  No write of init reaches the data register.
THEOREM LineFaithful == DriversSpec => []SentAsWritten
<1>1. DriversInit => LineInv
  <2> SUFFICES ASSUME DriversInit PROVE LineInv
    OBVIOUS
  <2>1. /\ uart = [fcr |-> 0, lcr |-> 0, ier |-> 0, dll |-> 0, dlm |-> 0,
                   thr |-> <<>>, rx |-> <<>>]
        /\ line = <<>> /\ written = <<>> /\ races = 0 /\ setup = 0
        /\ task = [h \in Harts |-> NoTask]
    BY DEF DriversInit, DriversAt
  <2>2. <<>> \in Seq(Bytes) /\ <<>> \o <<>> = <<>> /\ Len(<<>>) = 0
    OBVIOUS
  <2>3. uart \in Port /\ Programmed(uart, 0) /\ uart.thr = <<>>
    BY <2>1, <2>2 DEF Port, Programmed
  <2>4. /\ task \in [Harts -> Tasks]
        /\ \A h \in Harts : ~ Writes(h) /\ task[h].op # "write_data"
    BY <2>1, IdleTask DEF Writes, WriteOps
  <2>5. Storing = {} /\ Cardinality(Storing) = 0
    BY <2>4, FS_EmptySet DEF Storing
  <2>6. Exact /\ Counted
    BY <2>1, <2>2, <2>3, <2>5 DEF Exact, Counted, Slack
  <2> QED
    BY <2>1, <2>2, <2>3, <2>4, <2>6 DEF LineInv
<1>2. LineInv => SentAsWritten
  <2> SUFFICES ASSUME LineInv PROVE SentAsWritten
    OBVIOUS
  <2>1. setup >= 7 => /\ uart.lcr = 3 /\ uart.fcr = 1 /\ uart.ier = 1
                      /\ uart.dlm * 256 + uart.dll = 592
    BY DEF LineInv, Programmed
  <2>2. Len(line \o uart.thr) = Len(line) + Len(uart.thr) /\ Len(written) \in Nat
        /\ Len(line) \in Nat /\ Len(uart.thr) \in Nat /\ races \in Nat
    BY DEF LineInv, Port
  <2>3. Len(written) <= Len(line \o uart.thr) + races
    BY <2>2 DEF LineInv, Counted, Slack
  <2>4. races = 0 => line \o uart.thr = written
    BY DEF LineInv, Exact
  <2> QED
    BY <2>1, <2>3, <2>4 DEF SentAsWritten, InitWrites, divisor
<1>3. LineInv /\ [DriversNext]_driverVars => LineInv'
  BY LineNext
<1> QED
  BY <1>1, <1>2, <1>3, PTL DEF DriversSpec
=============================================================================
