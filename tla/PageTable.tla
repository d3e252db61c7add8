----------------------------- MODULE PageTable -----------------------------
(***************************************************************************)
(* `PageTable<M>` of crates/kernel/src/page.rs, with the TLB of the hart   *)
(* that uses it.  Addresses are page numbers, virtual ones in a tree of    *)
(* LEVELS levels with FANOUT entries per table (512 in the code); a page   *)
(* size is named by its vpn_idx (0 Kilopage, 1 Megapage, ...).  Calls run  *)
(* under the PAGE_TABLE mutex, so one at a time; each level that map       *)
(* descends and each page of map_alloc and free is one step, because the   *)
(* hart's page walker may fill the TLB in between.  The buddy allocator is *)
(* its abstract specification: any naturally aligned free block.           *)
(***************************************************************************)
EXTENDS Integers, FiniteSets

CONSTANTS LEVELS, FANOUT,
          PhysPages,      \* pages of the physical allocator, without the root's
          Root,           \* the page of the root table
          MapRequests,    \* [v, size, ppn] that map is called with
          AllocRequests   \* [v, count, size] that map_alloc is called with

ASSUME PageTableAssumption ==
    /\ LEVELS \in Nat \ {0} /\ FANOUT \in Nat \ {0}
    /\ IsFiniteSet(PhysPages) /\ PhysPages \subseteq Nat
    /\ Root \in Nat \ PhysPages
    /\ \A q \in MapRequests : q.v \in Nat /\ q.size \in Nat /\ q.ppn \in Nat
    \* map_alloc is unimplemented!() for larger pages
    /\ \A q \in AllocRequests :
          q.v \in Nat /\ q.size \in {0, 1} /\ q.count \in Nat \ {0}

\* Arithmetic facts about the page sizes in use.
ASSUME PowersOfFanout ==
    /\ FANOUT^0 = 1
    /\ \A l \in 0 .. LEVELS : /\ FANOUT^l \in Nat \ {0}
                             /\ FANOUT^(l + 1) = FANOUT * FANOUT^l

VARIABLES tables,     \* tables[t][k]: entry k of the table in page t
          subtables,  \* pages of the tables below the root
          free,       \* free pages of the physical allocator
          tlb,        \* cached translations; one is enough, see TlbFill
          call,       \* the running call
          ret,        \* how the last call returned
          mapped,     \* mapped[v]: where v should translate to
          allocs      \* allocations by map_alloc that were not freed

vars == <<tables, subtables, free, tlb, call, ret, mapped, allocs>>

-----------------------------------------------------------------------------
(* Entries and addresses *)

Levels == 0 .. LEVELS - 1

PageCount(size) == FANOUT^size      \* PageSize::size, in pages

MAX_ADDRESS == FANOUT^LEVELS

VirtPages == 0 .. MAX_ADDRESS - 1

vpn(v, level) == (v \div FANOUT^level) % FANOUT

is_aligned(addr, size) == addr % PageCount(size) = 0

\* The pages of a mapping of the given size that contains v.
Offset(v, size) == v % PageCount(size)
Base(v, size) == v - Offset(v, size)
Span(v, size) == Base(v, size) .. Base(v, size) + PageCount(size) - 1

\* An entry is invalid, or it has flags (a leaf), or it has none (a branch).
ZERO == [valid |-> FALSE, flags |-> FALSE, ppn |-> 0]
Branch(page) == [valid |-> TRUE, flags |-> FALSE, ppn |-> page]
Leaf(page) == [valid |-> TRUE, flags |-> TRUE, ppn |-> page]

kind(e) == CASE ~ e.valid          -> "none"
             [] e.valid /\ e.flags -> "leaf"
             [] OTHER              -> "branch"

ZeroTable == [k \in 0 .. FANOUT - 1 |-> ZERO]

\* traverse: the table reached at each level on the way to v, -1 for none.
TableAt(v) ==
    LET at[l \in Levels] ==
          IF l = LEVELS - 1 THEN Root
          ELSE LET above == at[l + 1]
                   e == tables[above][vpn(v, l + 1)]
               IN  IF above # -1 /\ kind(e) = "branch" THEN e.ppn ELSE -1
    IN  at

\* The levels (none or one) at which a leaf maps v.
LeafLevels(v) ==
    LET at == TableAt(v)
    IN  {l \in Levels : at[l] # -1 /\ kind(tables[at[l]][vpn(v, l)]) = "leaf"}

\* The leaf that maps v, as traverse and the hart's page walker find it.
LeafFound(v) == LET size == CHOOSE l \in LeafLevels(v) : TRUE
                IN  [size |-> size, table |-> TableAt(v)[size], index |-> vpn(v, size)]

\* traverse then names the size of the leaf and is unreachable!() for level 3:
\* translate, unmap and free panic on a Terapage, which only Sv48 has.
Terapage == 3
TraversePanics(v) == \E l \in LeafLevels(v) : l >= Terapage

UNMAPPED == -1
PANIC == -2

\* Mutant of translate: the offset in a large page is dropped.
translate_base(v) ==
    IF LeafLevels(v) = {} THEN UNMAPPED
    ELSE IF TraversePanics(v) THEN PANIC
    ELSE LET m == LeafFound(v) IN  tables[m.table][m.index].ppn

\* translate: the physical page of v, UNMAPPED, or the panic in traverse.
translate(v) ==
    IF LeafLevels(v) = {} THEN UNMAPPED
    ELSE IF TraversePanics(v) THEN PANIC
    ELSE LET m == LeafFound(v)
         IN  tables[m.table][m.index].ppn + Offset(v, m.size)

sfence(v) == {x \in tlb : v \notin Span(x.v, x.size)}

-----------------------------------------------------------------------------
(* Calls *)

NoCall == [op |-> "idle", v |-> 0, size |-> 0, ppn |-> 0, level |-> 0, table |-> 0,
           first |-> 0, end |-> 0, alloc |-> FALSE]

Idle == call.op = "idle"

Return(result) == call' = NoCall /\ ret' = result

\* The panic handler never returns, and PAGE_TABLE stays locked.
Dead == [NoCall EXCEPT !.op = "panic"]
Panic == call' = Dead /\ ret' = "Panic"

\* map: the page size must exist (UnsupportedPageSize), the address must be in
\* range (InvalidAddress) and both addresses aligned (UnalignedAddress).
Acceptable(q) == /\ q.size < LEVELS
                 /\ q.v < MAX_ADDRESS
                 /\ is_aligned(q.ppn, q.size) /\ is_aligned(q.v, q.size)

MapRefused(q) ==
    /\ Idle
    /\ ~ Acceptable(q)
    /\ ret' = "Err"
    /\ UNCHANGED <<tables, subtables, free, tlb, call, mapped, allocs>>

Map(q) ==
    /\ Idle
    /\ Acceptable(q)
    /\ call' = [op |-> "map", v |-> q.v, size |-> q.size, ppn |-> q.ppn,
                level |-> LEVELS - 1, table |-> Root,
                first |-> q.v, end |-> q.v + 1, alloc |-> FALSE]
    /\ ret' = "none"
    /\ UNCHANGED <<tables, subtables, free, tlb, mapped, allocs>>

Entry == tables[call.table][vpn(call.v, call.level)]

Descending == call.op = "map" /\ call.level > call.size

\* map: a branch leads to the next table.
FollowBranch ==
    /\ Descending
    /\ kind(Entry) = "branch"
    /\ call' = [call EXCEPT !.table = Entry.ppn, !.level = @ - 1]
    /\ UNCHANGED <<tables, subtables, free, tlb, ret, mapped, allocs>>

\* Mutant of NewTable: the page is neither recorded nor taken.
NewTableNotRecorded ==
    /\ Descending
    /\ kind(Entry) = "none"
    /\ \E page \in free :
          /\ tables' = [t \in DOMAIN tables \cup {page} |->
                IF t = page THEN ZeroTable
                ELSE IF t = call.table
                     THEN [tables[t] EXCEPT ![vpn(call.v, call.level)] = Branch(page)]
                ELSE tables[t]]
          /\ call' = [call EXCEPT !.table = page, !.level = @ - 1]
    /\ UNCHANGED <<subtables, free, tlb, ret, mapped, allocs>>

\* map: an empty entry gets a new table from zalloc_order(0).  (What the push on
\* the vector subtables allocates when that is full is in Kernel!PushSubtable.)
NewTable ==
    /\ Descending
    /\ kind(Entry) = "none"
    /\ \E page \in free :
          /\ free' = free \ {page}
          /\ subtables' = subtables \cup {page}
          /\ tables' = [t \in DOMAIN tables \cup {page} |->
                IF t = page THEN ZeroTable
                ELSE IF t = call.table
                     THEN [tables[t] EXCEPT ![vpn(call.v, call.level)] = Branch(page)]
                ELSE tables[t]]
          /\ call' = [call EXCEPT !.table = page, !.level = @ - 1]
    /\ UNCHANGED <<tlb, ret, mapped, allocs>>

\* map: no page for a table.  What was built so far stays, and so does, for
\* map_alloc, everything mapped before and the page just allocated.
NewTableFails ==
    /\ Descending
    /\ kind(Entry) = "none"
    /\ free = {}
    /\ Return("Err")
    /\ UNCHANGED <<tables, subtables, free, tlb, mapped, allocs>>

\* map: a leaf on the way or at the end is an error.
AlreadyMapped ==
    /\ call.op = "map"
    /\ kind(Entry) = "leaf"
    /\ Return("Err")
    /\ UNCHANGED <<tables, subtables, free, tlb, mapped, allocs>>

\* map_alloc: is this its last page?
LastPage == call.v + PageCount(call.size) >= call.end

NextPage == IF call.alloc /\ ~ LastPage
            THEN /\ call' = [call EXCEPT !.op = "alloc", !.v = @ + PageCount(call.size)]
                 /\ ret' = ret
            ELSE Return("Ok")

Granted == [v |-> call.first, size |-> call.size,
            count |-> (call.end - call.first) \div PageCount(call.size)]

\* map: write the leaf and flush the TLB for the address; what the entry was
\* before is not asked, unless it was a leaf.
WriteLeaf ==
    /\ call.op = "map"
    /\ call.level = call.size
    /\ kind(Entry) # "leaf"
    /\ tables' = [tables EXCEPT ![call.table][vpn(call.v, call.size)] = Leaf(call.ppn)]
    /\ tlb' = sfence(call.v)
    /\ mapped' = [v \in VirtPages |->
                    IF v \in Span(call.v, call.size)
                    THEN call.ppn + Offset(v, call.size) ELSE mapped[v]]
    /\ allocs' = IF call.alloc /\ LastPage THEN allocs \cup {Granted} ELSE allocs
    /\ NextPage
    /\ UNCHANGED <<subtables, free>>

MapAlloc(q) ==
    /\ Idle
    /\ call' = [op |-> "alloc", v |-> q.v, size |-> q.size, ppn |-> 0,
                level |-> LEVELS - 1, table |-> Root,
                first |-> q.v, end |-> q.v + q.count * PageCount(q.size), alloc |-> TRUE]
    /\ ret' = "none"
    /\ UNCHANGED <<tables, subtables, free, tlb, mapped, allocs>>

\* The naturally aligned free blocks for a page of the given size.
Block(page, size) == page .. page + PageCount(size) - 1
FreeBlocks(size) == {page \in free : is_aligned(page, size) /\ Block(page, size) \subseteq free}

\* Mutant of AllocPage: a large page takes one page only.
AllocFirstPage ==
    /\ call.op = "alloc"
    /\ \E page \in FreeBlocks(call.size) :
          /\ free' = free \ {page}
          /\ call' = [call EXCEPT !.op = "map", !.ppn = page,
                                  !.level = LEVELS - 1, !.table = Root]
    /\ UNCHANGED <<tables, subtables, tlb, ret, mapped, allocs>>

\* map_alloc: one page from the allocator, then map it.  When map refuses it,
\* the page is not given back.
AllocPage ==
    /\ call.op = "alloc"
    /\ \E page \in FreeBlocks(call.size) :
          /\ free' = free \ Block(page, call.size)
          /\ IF Acceptable([v |-> call.v, size |-> call.size, ppn |-> page])
             THEN /\ call' = [call EXCEPT !.op = "map", !.ppn = page,
                                          !.level = LEVELS - 1, !.table = Root]
                  /\ ret' = ret
             ELSE Return("Err")
    /\ UNCHANGED <<tables, subtables, tlb, mapped, allocs>>

AllocPageFails ==
    /\ call.op = "alloc"
    /\ FreeBlocks(call.size) = {}
    /\ Return("Err")
    /\ UNCHANGED <<tables, subtables, free, tlb, mapped, allocs>>

\* free: by its contract, of a whole allocation of map_alloc.
Free(a) ==
    /\ Idle
    /\ a \in allocs
    /\ allocs' = allocs \ {a}
    /\ IF LeafLevels(a.v) = {}
       THEN ret' = "Err" /\ call' = call
       ELSE IF TraversePanics(a.v) THEN Panic
       ELSE LET size == LeafFound(a.v).size
            IN  /\ call' = [NoCall EXCEPT !.op = "free", !.v = a.v, !.size = size,
                              !.first = a.v, !.end = a.v + a.count * PageCount(size)]
                /\ ret' = "none"
    /\ UNCHANGED <<tables, subtables, free, tlb, mapped>>

\* Mutant of FreePage: no sfence.
FreePageUnflushed ==
    /\ call.op = "free"
    /\ LeafLevels(call.v) # {}
    /\ LET m == LeafFound(call.v)
       IN  /\ tables' = [tables EXCEPT ![m.table][m.index] = ZERO]
           /\ free' = free \cup Block(translate(call.v), call.size)
           /\ mapped' = [v \in VirtPages |->
                           IF v \in Span(call.v, m.size) THEN UNMAPPED ELSE mapped[v]]
    /\ IF LastPage THEN Return("Ok")
       ELSE call' = [call EXCEPT !.v = @ + PageCount(call.size)] /\ ret' = ret
    /\ UNCHANGED <<subtables, tlb, allocs>>

\* free: one page of the allocation.  The TLB is flushed for the address that
\* free was called with, not for the one of this page.  (That the unwrap and the
\* unreachable!() on the way are not met is part of GrantedStaysMapped.)
FreePage ==
    /\ call.op = "free"
    /\ LeafLevels(call.v) # {} /\ ~ TraversePanics(call.v)
    /\ LET m == LeafFound(call.v)
       IN  /\ tables' = [tables EXCEPT ![m.table][m.index] = ZERO]
           /\ tlb' = sfence(call.first)
           /\ free' = free \cup Block(translate(call.v), call.size)
           /\ mapped' = [v \in VirtPages |->
                           IF v \in Span(call.v, m.size) THEN UNMAPPED ELSE mapped[v]]
    /\ IF LastPage THEN Return("Ok")
       ELSE call' = [call EXCEPT !.v = @ + PageCount(call.size)] /\ ret' = ret
    /\ UNCHANGED <<subtables, allocs>>

\* unmap: clear the entry; the TLB is left to the caller.
Unmap(v) ==
    /\ Idle
    /\ LeafLevels(v) # {} /\ ~ TraversePanics(v)
    /\ LET m == LeafFound(v)
       IN  /\ tables' = [tables EXCEPT ![m.table][m.index] = ZERO]
           /\ mapped' = [u \in VirtPages |->
                           IF u \in Span(v, m.size) THEN UNMAPPED ELSE mapped[u]]
    /\ ret' = "Ok"
    /\ UNCHANGED <<subtables, free, tlb, call, allocs>>

\* unmap, or translate for a client: the unreachable!() in traverse.
TerapagePanics(v) ==
    /\ Idle
    /\ TraversePanics(v)
    /\ Panic
    /\ UNCHANGED <<tables, subtables, free, tlb, mapped, allocs>>

\* The hart's page walker caches any translation at any time.  Only one is
\* kept: entries do not interact, so every entry's life is a behaviour of this.
TlbFill(v) ==
    /\ LeafLevels(v) # {}
    /\ LET m == LeafFound(v)
       IN  tlb' = {[v |-> Base(v, m.size), size |-> m.size,
                    ppn |-> tables[m.table][m.index].ppn]}
    /\ UNCHANGED <<tables, subtables, free, call, ret, mapped, allocs>>

-----------------------------------------------------------------------------
Init == /\ tables = [t \in {Root} |-> ZeroTable]
        /\ subtables = {}
        /\ free = PhysPages
        /\ tlb = {}
        /\ call = NoCall
        /\ ret = "none"
        /\ mapped = [v \in VirtPages |-> UNMAPPED]
        /\ allocs = {}

\* unmap is for what map mapped; an allocation is given back with free.
Unmappable == UNION {Span(q.v, q.size) : q \in {q \in MapRequests : Acceptable(q)}}

Run == \/ FollowBranch \/ NewTable \/ NewTableFails \/ AlreadyMapped \/ WriteLeaf
       \/ AllocPage \/ AllocPageFails \/ FreePage

Next == \/ \E q \in MapRequests : MapRefused(q) \/ Map(q)
        \/ \E q \in AllocRequests : MapAlloc(q)
        \/ \E a \in allocs : Free(a)
        \/ \E v \in Unmappable : Unmap(v) \/ TerapagePanics(v)
        \/ \E v \in VirtPages : TlbFill(v)
        \/ Run

Spec == Init /\ [][Next]_vars

-----------------------------------------------------------------------------
(* How the tables are used *)

\* The pages of an allocation or of a request for one.
Area(a) == a.v .. a.v + a.count * PageCount(a.size) - 1

\* Requests of map_alloc whose pages map does not refuse.
UsableRequests == {r \in AllocRequests : r.size < LEVELS /\ is_aligned(r.v, r.size)}

\* map and map_alloc work on separate areas, and map_alloc does not use two
\* page sizes in one place.
RequestsSeparate ==
    /\ \A q \in MapRequests, r \in UsableRequests :
          Acceptable(q) => Span(q.v, q.size) \cap Area(r) = {}
    /\ \A r, s \in UsableRequests : Area(r) \cap Area(s) # {} => r.size = s.size

\* Each allocation is one page, of either size.
SinglePages == \A r \in AllocRequests : r.count = 1

-----------------------------------------------------------------------------
(* Properties *)

BranchesTo(t) == {at \in (DOMAIN tables) \X (0 .. FANOUT - 1) :
                     tables[at[1]][at[2]] = Branch(t)}

\* The tables form a tree made of pages the allocator gave out: a branch leads
\* to a recorded subtable, no subtable hangs below two entries, none is free.
\* (Drop frees each recorded subtable once.)
TablesFormTree ==
    /\ \A t \in DOMAIN tables : \A k \in 0 .. FANOUT - 1 :
          kind(tables[t][k]) = "branch" => tables[t][k].ppn \in subtables
    /\ \A t \in subtables : Cardinality(BranchesTo(t)) <= 1
    /\ (subtables \cup {Root}) \cap free = {}

\* Pages that some map maps with a Terapage.
InTerapage == UNION {Span(q.v, q.size) :
                        q \in {q \in MapRequests : Acceptable(q) /\ q.size >= Terapage}}

\* translate sees exactly what the completed map, unmap and free steps left:
\* building tables for one address never disturbs another.  The one exception is
\* the panic of traverse, which meets mapped pages of a Terapage and nothing else:
\* without Terapages (in Sv39, say) translate is exact.
TranslateExact ==
    \A v \in VirtPages : translate(v) # mapped[v] =>
       translate(v) = PANIC /\ mapped[v] # UNMAPPED /\ v \in InTerapage

\* "Translate the virtual address and return the physical address": for what map
\* mapped, in every page size that map takes, the unreachable!() is not reached.
TranslateTotal == \A v \in VirtPages : translate(v) # PANIC

AllocatedPages == UNION {Area(a) : a \in allocs}

\* What map_alloc granted stays until free takes it back: each of its pages
\* translates to a physical page of its own that is neither free nor a page
\* table, whatever else is mapped, unmapped or fails in between; and a running
\* free finds every page it still has to give back (it unwraps translate, and
\* traverse must not meet its unreachable!()).
GrantedStaysMapped ==
    /\ \A v \in AllocatedPages : translate(v) \in PhysPages \ (free \cup subtables)
    /\ \A u, v \in AllocatedPages : translate(u) = translate(v) => u = v
    /\ call.op = "free" =>
          \A v \in call.v .. call.end - 1 : translate(v) \notin {UNMAPPED, PANIC}

\* After free() gave a page back, no cached translation of what map_alloc mapped
\* reaches it: "flush tlb for this page".  (What map maps may be free memory: boot
\* maps all of it at KERNEL_PHYS_MEM_BASE.)
NoStaleAccess ==
    \A x \in tlb : x.v \notin Unmappable =>
       \A p \in Block(x.ppn, x.size) : p \notin free

\* "the address is already mapped, throw an error": map never replaces a
\* mapping that exists.
MapNeverReplaces ==
    [][\A v \in VirtPages : mapped[v] # UNMAPPED => mapped'[v] \in {mapped[v], UNMAPPED}]_vars
=============================================================================
