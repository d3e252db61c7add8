--------------------------- MODULE PageAllocator ---------------------------
(***************************************************************************)
(* What the kernel relies on from its physical allocator: the pages it was *)
(* given are, at every moment, either free or part of exactly one block    *)
(* that was handed out; a block is naturally aligned (page::map insists on *)
(* that for megapages) and lies inside memory the allocator was given.     *)
(***************************************************************************)
EXTENDS Integers

CONSTANT Memory     \* the pages that may be given to the allocator

VARIABLES free,     \* free pages
          live      \* blocks handed out, [block |-> first page, order |-> k]

vars == <<free, live>>

Pages(x) == x.block .. (x.block + 2^x.order - 1)

Init == free = {} /\ live = {}

\* More memory is added: fresh pages only.
Add == /\ free \subseteq free'
       /\ free' \subseteq Memory
       /\ \A x \in live : Pages(x) \cap free' = {}
       /\ UNCHANGED live

Alloc(x) == /\ x.block % (2^x.order) = 0
            /\ Pages(x) \subseteq free
            /\ x \notin live
            /\ free' = free \ Pages(x)
            /\ live' = live \cup {x}

Free(x) == /\ x \in live
           /\ free' = free \cup Pages(x)
           /\ live' = live \ {x}

Next == \/ Add
        \/ \E x \in live' : Alloc(x)
        \/ \E x \in live : Free(x)

Spec == Init /\ [][Next]_vars
=============================================================================
