----------------------------- MODULE DeviceTree -----------------------------
(***************************************************************************)
(* The flattened device tree reader (crates/devicetree): the header, the   *)
(* token parser over the structure block, the iterators over nodes,        *)
(* children, properties and memory reservations, path lookup, and the      *)
(* decoding of `reg' and `compatible'.                                     *)
(*                                                                         *)
(* The parser works on bytes, and what can go wrong is at that level (data *)
(* that looks like tokens, names whose terminator needs a word of its own, *)
(* paddings), so buf is a sequence of bytes. A string is the sequence of   *)
(* its bytes. `tree' is the tree that the firmware flattened into buf; the *)
(* code never sees it, the properties compare its answers with it.         *)
(*                                                                         *)
(* An iterator's next() is one step. Where the code panics (an overflow of *)
(* a u8 level, a slice out of bounds) the step ends in status "panic".     *)
(***************************************************************************)
EXTENDS Integers, Sequences, SequencesExt

CONSTANTS
    Trees,      \* what the firmware may pass: a root (name, nop, props, kids) and
                \* the memory reservations (start, size: eight bytes each)
    Paths,      \* the paths to look up, as split_terminator('/') yields them
    Compatible, \* the strings compatible_with is called with
    Strings,    \* the strings block: nul-terminated strings, tails are shared
    Behind,     \* the bytes that lie behind the tree in memory
    LEVEL_MAX,  \* the largest level: u8::MAX, scaled down
    ADDRESS_CELLS, SIZE_CELLS, REG, COMPATIBLE \* the property names it knows

ASSUME LevelAssumption == LEVEL_MAX \in Nat \ {0}

VARIABLES
    tree,  \* history: the tree that was flattened
    buf,   \* the bytes of the DeviceTree
    op,    \* the query the client made last: its name and path
    it,    \* its iterator
    status,\* "running", "ended" after None, or "panic"
    out,   \* what the iterator yielded so far
    want   \* history: what it has to yield, computed from tree

vars == <<tree, buf, op, it, status, out, want>>

-----------------------------------------------------------------------------
(* The format, as the firmware writes it.                                  *)

FDT_BEGIN_NODE == 1
FDT_END_NODE == 2
FDT_PROP == 3
FDT_NOP == 4
FDT_END == 9
MAGIC == <<208, 13, 254, 237>>

align_up(val, alignment) == ((val + alignment - 1) \div alignment) * alignment

Zeros(n) == [i \in 1 .. n |-> 0]

BigEndian(n) == Zeros(2) \o <<n \div 256, n % 256>>

Padded(bytes) == bytes \o Zeros(align_up(Len(bytes), 4) - Len(bytes))

NameOffset(name) ==
    CHOOSE off \in 0 .. Len(Strings) - 1 : IsPrefix(Append(name, 0), SubSeq(Strings, off + 1, Len(Strings)))

FlattenProp(p) ==
    BigEndian(FDT_PROP) \o BigEndian(Len(p.data)) \o BigEndian(NameOffset(p.name)) \o Padded(p.data)

RECURSIVE FlattenNode(_)
FlattenNode(t) ==
    BigEndian(FDT_BEGIN_NODE) \o Padded(Append(t.name, 0))
    \o (IF t.nop THEN BigEndian(FDT_NOP) ELSE <<>>)
    \o FlattenSeq([i \in DOMAIN t.props |-> FlattenProp(t.props[i])])
    \o FlattenSeq([i \in DOMAIN t.kids |-> FlattenNode(t.kids[i])])
    \o BigEndian(FDT_END_NODE)

\* Header, reservations, structure and strings.
Flatten(t) ==
    LET reserved == FlattenSeq([i \in DOMAIN t.reserved |-> t.reserved[i].start \o t.reserved[i].size]) \o Zeros(16)
        struct   == FlattenNode(t.root) \o BigEndian(FDT_END)
        strings  == 40 + Len(reserved) + Len(struct)
    IN  MAGIC
        \o FlattenSeq([i \in 1 .. 9 |-> BigEndian(
              <<strings + Len(Strings), 40 + Len(reserved), strings, 40, 17, 16, 0, Len(Strings), Len(struct)>>[i])])
        \o reserved \o struct \o Strings

-----------------------------------------------------------------------------
(* lib.rs: the header. A position is a number of bytes from the start.     *)

Value(word) == ((word[1] * 256 + word[2]) * 256 + word[3]) * 256 + word[4]

\* The word at a position, which is known to be there.
u32_at(pos) == Value(SubSeq(buf, pos + 1, pos + 4))

total_size == u32_at(4)
struct_offset == u32_at(8)
strings_offset == u32_at(12)
mem_rsv_offset == u32_at(16)
struct_size == u32_at(36)

\* DeviceTree::from_ptr, reading what memory holds from the pointer on: <<>> for
\* None.
from_ptr(mem) ==
    IF SubSeq(mem, 1, 4) # MAGIC THEN <<>> ELSE <<SubSeq(mem, 1, Value(SubSeq(mem, 5, 8)))>>

\* DeviceTree::copy_to_slice: the new tree is the whole slice.
copy_to_slice(slice) == buf \o SubSeq(slice, Len(buf) + 1, Len(slice))

-----------------------------------------------------------------------------
(* parse.rs: the token iterator over the slice that tokens() cuts out.     *)

StructEnd == struct_offset + struct_size

Remaining(pos) == StructEnd - pos

\* The number of bytes before the needle, or -1 for None.
memchr(needle, haystack) ==
    LET found == {k \in DOMAIN haystack : haystack[k] = needle}
    IN  IF found = {} THEN -1 ELSE Min(found) - 1

NoToken == [kind |-> "none"]
BadSlice == [kind |-> "panic"]

\* Mutant of BeginNodeToken: the terminator is forgotten.
BeginNodeTokenNoNul(pos) ==
    LET rest == SubSeq(buf, pos + 1, StructEnd)
        nul  == memchr(0, rest)
    IN  [kind |-> "begin", name |-> SubSeq(rest, 1, nul), pos |-> pos + align_up(nul, 4)]

BeginNodeToken(pos) ==
    LET rest == SubSeq(buf, pos + 1, StructEnd)
        nul  == memchr(0, rest)
        len  == align_up(nul + 1, 4)
    IN  IF nul < 0 THEN NoToken
        ELSE IF len > Remaining(pos) THEN BadSlice
        ELSE [kind |-> "begin", name |-> SubSeq(rest, 1, nul), pos |-> pos + len]

PropertyToken(pos) ==
    LET len  == u32_at(pos)
        next == pos + 8 + align_up(len, 4)
    IN  IF Remaining(pos) < 8 THEN NoToken
        ELSE IF next > StructEnd THEN BadSlice
        ELSE [kind |-> "prop", off |-> u32_at(pos + 4), data |-> SubSeq(buf, pos + 9, pos + 8 + len), pos |-> next]

\* TokenIter::next; the word FDT_END ends the iteration like any unknown one.
RECURSIVE next_token(_)
next_token(pos) ==
    IF Remaining(pos) < 4 THEN NoToken
    ELSE CASE u32_at(pos) = FDT_BEGIN_NODE -> BeginNodeToken(pos + 4)
           [] u32_at(pos) = FDT_PROP       -> PropertyToken(pos + 4)
           [] u32_at(pos) = FDT_END_NODE   -> [kind |-> "end", pos |-> pos + 4]
           [] u32_at(pos) = FDT_NOP        -> next_token(pos + 4)
           [] OTHER                        -> NoToken

-----------------------------------------------------------------------------
(* What a call of next() answers: Some(item), None or a panic.             *)

\* The first element as an Option: the sequence of it, or <<>>.
FirstOf(s) == IF s = <<>> THEN <<>> ELSE <<Head(s)>>

Node(t, level) == [name |-> t.name, level |-> level, pos |-> t.pos]

Some(item, i) == [status |-> "running", items |-> <<item>>, it |-> i]
None(i) == [status |-> "ended", items |-> <<>>, it |-> i]
Panic(i) == [status |-> "panic", items |-> <<>>, it |-> i]

\* Nodes::next.
RECURSIVE nodes_next(_)
nodes_next(i) ==
    LET t == next_token(i.pos)
    IN  CASE t.kind = "none"  -> None(i)
          [] t.kind = "panic" -> Panic(i)
          [] t.kind = "prop"  -> nodes_next([i EXCEPT !.pos = t.pos])
          [] t.kind = "begin" ->
               IF i.level = LEVEL_MAX THEN Panic(i)
               ELSE Some(Node(t, i.level), [i EXCEPT !.pos = t.pos, !.level = @ + 1])
          [] t.kind = "end"   ->
               IF i.level = 0 THEN Panic(i)
               ELSE nodes_next([i EXCEPT !.pos = t.pos, !.level = @ - 1])

\* Children::next; level is the code's nesting_level, base its node_level.
RECURSIVE children_next(_)
children_next(i) ==
    LET t == next_token(i.pos)
        up == [i EXCEPT !.pos = t.pos, !.level = @ + 1]
        down == [i EXCEPT !.pos = t.pos, !.level = @ - 1]
    IN  CASE t.kind = "none"  -> None(i)
          [] t.kind = "panic" -> Panic(i)
          [] t.kind = "prop"  -> children_next([i EXCEPT !.pos = t.pos])
          [] t.kind = "begin" ->
               IF i.level = LEVEL_MAX THEN Panic(i)
               ELSE IF i.level = i.base + 1 THEN Some(Node(t, i.level), up)
               ELSE children_next(up)
          [] t.kind = "end"   ->
               IF i.level = 0 THEN Panic(i)
               ELSE IF down.level <= i.base THEN None(down)
               ELSE children_next(down)

\* DeviceTree::string_at: <<>> for None.
string_at(off) ==
    LET start == strings_offset + off
        nul   == memchr(0, SubSeq(buf, start + 1, Len(buf)))
    IN  IF start > Len(buf) \/ nul < 0 THEN <<>> ELSE <<SubSeq(buf, start + 1, start + nul)>>

\* Properties::next.
props_next(i) ==
    LET t == next_token(i.pos)
    IN  CASE t.kind = "panic" -> Panic(i)
          [] t.kind = "prop" /\ string_at(t.off) # <<>> ->
               Some([name |-> string_at(t.off)[1], data |-> t.data], [i EXCEPT !.pos = t.pos])
          [] OTHER -> None(i)

\* Mutant of LeftParent: one level too late.
LeftParentLate(i) == i.level < i.looking - 2

\* An end token closed the node below which find_nodes was looking.
LeftParent(i) == i.level < i.looking - 1

\* The closure of DeviceTree::find_nodes. looking is looking_level, level is
\* nesting_level, path holds the parts not consumed yet and last the last part
\* once it is.
RECURSIVE find_nodes_next(_)
find_nodes_next(i) ==
    LET t    == next_token(i.pos)
        at   == [i EXCEPT !.pos = t.pos]
        up   == [at EXCEPT !.level = @ + 1]
        down == [at EXCEPT !.level = @ - 1]
        part == FirstOf(i.path \o i.last)
        rest == IF i.path = <<>> THEN <<>> ELSE Tail(i.path)
    IN  CASE t.kind = "none"  -> None(i)
          [] t.kind = "panic" -> Panic(i)
          [] t.kind = "prop"  -> find_nodes_next(at)
          [] t.kind = "begin" ->
               IF i.level = LEVEL_MAX THEN Panic(i)
               ELSE IF up.level # i.looking THEN find_nodes_next(up)
               ELSE IF part = <<>> THEN None(up)
               ELSE IF ~ IsPrefix(part[1], t.name) THEN find_nodes_next(up)
               ELSE IF rest = <<>> THEN Some(Node(t, i.level), [up EXCEPT !.path = <<>>, !.last = part])
               ELSE IF i.looking = LEVEL_MAX THEN Panic(i)
               ELSE find_nodes_next([up EXCEPT !.path = rest, !.looking = @ + 1])
          [] t.kind = "end"   ->
               IF i.level = 0 THEN Panic(i)
               ELSE IF LeftParent(down) THEN None(down)
               ELSE find_nodes_next(down)

-----------------------------------------------------------------------------
(* The iterators as the methods create them. One record serves all, with   *)
(* the fields that an iterator does not have at a fixed value.             *)

Iterator(pos) ==
    [pos |-> pos, level |-> 0, base |-> 0, looking |-> 1, path |-> <<>>, last |-> <<>>,
     address_cells |-> 0, size_cells |-> 0, data |-> <<>>]

\* Mutant of nodes: the root is on level one.
nodesFromOne == [Iterator(struct_offset) EXCEPT !.level = 1]

nodes == Iterator(struct_offset)

find_nodes(path) == [Iterator(struct_offset) EXCEPT !.path = path]

\* The loop of find_node is the closure of find_nodes, left at the first match.
find_node(path) == find_nodes_next(find_nodes(path))

children(n) == [Iterator(n.pos) EXCEPT !.level = n.level + 1, !.base = n.level]

props(n) == Iterator(n.pos)

\* Node::prop: <<>> or the first property of that name.
RECURSIVE find_prop(_, _)
find_prop(i, name) ==
    LET r == props_next(i)
    IN  IF r.items = <<>> \/ r.items[1].name = name THEN r.items ELSE find_prop(r.it, name)

prop(n, name) == find_prop(props(n), name)

DataOf(ps) == IF ps = <<>> THEN <<>> ELSE ps[1].data

\* and_then(|prop| NonZeroU32::new(prop.as_u32()?)), with 0 for None.
Cells(ps) == IF Len(DataOf(ps)) = 4 THEN Value(DataOf(ps)) ELSE 0

\* Mutant of regions: the cells of the node itself.
regionsOwnCells(n) ==
    [Iterator(n.pos) EXCEPT !.address_cells = Cells(prop(n, ADDRESS_CELLS)),
                            !.size_cells = Cells(prop(n, SIZE_CELLS)),
                            !.data = DataOf(prop(n, REG))]

\* Node::regions: the cells come from the root, whatever the node's parent.
regions(n) ==
    LET root == find_node(<< <<>> >>).items[1]
    IN  [Iterator(n.pos) EXCEPT !.address_cells = Cells(prop(root, ADDRESS_CELLS)),
                                !.size_cells = Cells(prop(root, SIZE_CELLS)),
                                !.data = DataOf(prop(n, REG))]

\* A number of a `reg' property: its digits, without leading zeros.
Number(bytes) ==
    LET digits == {k \in DOMAIN bytes : bytes[k] # 0}
    IN  IF digits = {} THEN <<>> ELSE SubSeq(bytes, Min(digits), Len(bytes))

\* Regions::read_num, with 0 cells for None.
read_num(i, count) ==
    CASE count = 0                -> None(i)
      [] count > 2                -> Panic(i)
      [] Len(i.data) < 4 * count  -> None(i)
      [] OTHER -> Some(Number(SubSeq(i.data, 1, 4 * count)),
                       [i EXCEPT !.data = SubSeq(@, 4 * count + 1, Len(@))])

\* A start of as many cells, then a size.
read_region(i, address_cells, size_cells) ==
    LET start == read_num(i, address_cells)
        size  == read_num(start.it, size_cells)
    IN  IF start.items = <<>> THEN start
        ELSE IF size.items = <<>> THEN size
        ELSE Some([start |-> start.items[1], size |-> size.items[1]], size.it)

\* Regions::next.
regions_next(i) == read_region(i, i.address_cells, i.size_cells)

memory_reservations == [Iterator(0) EXCEPT !.data = SubSeq(buf, mem_rsv_offset + 1, Len(buf))]

\* MemoryReservations::next.
reservations_next(i) ==
    LET r == read_region(i, 2, 2)
    IN  IF r.items = << [start |-> <<>>, size |-> <<>>] >> THEN None([i EXCEPT !.data = <<>>]) ELSE r

\* Node::compatible_with: the strings of the list, up to an empty or an
\* unterminated one.
RECURSIVE any_string(_, _)
any_string(table, x) ==
    LET nul == memchr(0, table)
    IN  /\ nul > 0
        /\ \/ SubSeq(table, 1, nul) = x
           \/ any_string(SubSeq(table, nul + 2, Len(table)), x)

compatible_with(n, x) == any_string(DataOf(prop(n, COMPATIBLE)), x)

-----------------------------------------------------------------------------
(* The reference: the same questions asked of the tree itself. A node is   *)
(* known by its position, the sequence of child indices from the root.     *)

RECURSIVE Below(_, _)
Below(t, p) == IF p = <<>> THEN t ELSE Below(t.kids[Head(p)], Tail(p))

At(p) == Below(tree.root, p)

RECURSIVE PositionsBelow(_, _)
PositionsBelow(t, p) ==
    <<p>> \o FlattenSeq([k \in DOMAIN t.kids |-> PositionsBelow(t.kids[k], Append(p, k))])

\* All positions, in the order in which the nodes appear in the block.
Positions == PositionsBelow(tree.root, <<>>)

KidsOf(p) == [k \in DOMAIN At(p).kids |-> Append(p, k)]

\* The node at p is reached by the first Len(p) + 1 parts of the path: each name
\* on the way starts with its part.
Reached(p, path) ==
    \A d \in 0 .. Len(p) : IsPrefix(path[d + 1], At(SubSeq(p, 1, d)).name)

\* "all nodes that match the given path", in order.
Matches(path) == SelectSeq(Positions, LAMBDA p : Len(p) + 1 = Len(path) /\ Reached(p, path))

\* An earlier part of the path fits two nodes: the code follows only the first.
Ambiguous(path) ==
    \E p, q \in Range(Positions) :
        /\ p # q
        /\ Len(p) = Len(q) /\ Len(p) + 1 < Len(path)
        /\ Reached(p, path) /\ Reached(q, path)

PropsNamed(p, name) == SelectSeq(At(p).props, LAMBDA q : q.name = name)

RegionsOf(p) ==
    LET a == Cells(PropsNamed(<<>>, ADDRESS_CELLS))
        s == Cells(PropsNamed(<<>>, SIZE_CELLS))
        data == DataOf(PropsNamed(p, REG))
        entry == 4 * (a + s)
    IN  IF a = 0 \/ s = 0 THEN <<>>
        ELSE [k \in 1 .. Len(data) \div entry |->
                [start |-> Number(SubSeq(data, (k - 1) * entry + 1, (k - 1) * entry + 4 * a)),
                 size  |-> Number(SubSeq(data, (k - 1) * entry + 4 * a + 1, k * entry))]]

ReservationsOf(t) ==
    [k \in DOMAIN t.reserved |-> [start |-> Number(t.reserved[k].start), size |-> Number(t.reserved[k].size)]]

\* x is one of the nul-terminated strings that data is made of.
Lists(data, x) ==
    \E i \in 1 .. Len(data) :
        /\ i > 1 => data[i - 1] = 0
        /\ IsPrefix(Append(x, 0), SubSeq(data, i, Len(data)))

-----------------------------------------------------------------------------
(* The client: a query on the tree, then queries on nodes that the query   *)
(* before yielded. Iterators are clones over the same bytes and do not     *)
(* disturb each other, so one at a time and one such chain will do.        *)

NodeOps == {"nodes", "children"}
FindOps == {"find_node", "find_nodes"}
DataOps == {"props", "regions", "reservations", "compatible_with"}

Query(name) == [name |-> name, path |-> <<>>]

Init ==
    /\ tree \in Trees
    /\ buf = from_ptr(Flatten(tree) \o Behind)[1]
    /\ op = Query("none")
    /\ it = Iterator(0)
    /\ status = "ended"
    /\ out = <<>>
    /\ want = <<>>

First == op.name = "none"

\* _before_main copies the tree into a block of whole pages, with something old
\* behind it, and goes on with the copy ...
CopyToSlice ==
    /\ First
    /\ Len(buf) = total_size
    /\ buf' = copy_to_slice(Zeros(total_size) \o Behind)
    /\ UNCHANGED <<tree, op, it, status, out, want>>

\* ... which rust_trampoline opens again by its address.
Reopen ==
    /\ First
    /\ Len(buf) > total_size
    /\ buf' = from_ptr(buf)[1]
    /\ UNCHANGED <<tree, op, it, status, out, want>>

Start(query, i, answer) ==
    /\ status = "ended"
    /\ op' = query
    /\ it' = i
    /\ status' = "running"
    /\ out' = <<>>
    /\ want' = answer
    /\ UNCHANGED <<tree, buf>>

Nodes == First /\ Start(Query("nodes"), nodes, Positions)

MemoryReservations ==
    First /\ Start(Query("reservations"), memory_reservations, ReservationsOf(tree))

FindNodes(path) ==
    First /\ Start([name |-> "find_nodes", path |-> path], find_nodes(path), Matches(path))

\* find_node answers at once.
FindNode(path) ==
    /\ First
    /\ op' = [name |-> "find_node", path |-> path]
    /\ LET r == find_node(path)
       IN  /\ it' = r.it
           /\ status' = IF r.status = "panic" THEN "panic" ELSE "ended"
           /\ out' = r.items
    /\ want' = FirstOf(Matches(path))
    /\ UNCHANGED <<tree, buf>>

\* The client has a k-th node, and it is the one that the reference expects.
Handle(k) == op.name \in NodeOps \cup FindOps /\ k \in DOMAIN out \cap DOMAIN want

Children(k) == Handle(k) /\ Start(Query("children"), children(out[k]), KidsOf(want[k]))

Props(k) == Handle(k) /\ Start(Query("props"), props(out[k]), At(want[k]).props)

Regions(k) == Handle(k) /\ Start(Query("regions"), regions(out[k]), RegionsOf(want[k]))

CompatibleWith(k, x) ==
    /\ Handle(k)
    /\ status = "ended"
    /\ op' = Query("compatible_with")
    /\ out' = <<compatible_with(out[k], x)>>
    /\ want' = <<Lists(DataOf(PropsNamed(want[k], COMPATIBLE)), x)>>
    /\ UNCHANGED <<tree, buf, it, status>>

\* What the iterator's next() answers.
Answer ==
    CASE op.name = "nodes"      -> nodes_next(it)
      [] op.name = "find_nodes" -> find_nodes_next(it)
      [] op.name = "children"   -> children_next(it)
      [] op.name = "props"      -> props_next(it)
      [] op.name = "regions"    -> regions_next(it)
      [] op.name = "reservations" -> reservations_next(it)

CallNext ==
    /\ status = "running"
    /\ LET r == Answer
       IN  /\ it' = r.it
           /\ status' = r.status
           /\ out' = out \o r.items
    /\ UNCHANGED <<tree, buf, op, want>>

Next ==
    \/ CopyToSlice
    \/ Reopen
    \/ Nodes
    \/ MemoryReservations
    \/ \E path \in Paths : FindNodes(path)
    \/ \E path \in Paths : FindNode(path)
    \/ \E k \in DOMAIN out : Children(k)
    \/ \E k \in DOMAIN out : Props(k)
    \/ \E k \in DOMAIN out : Regions(k)
    \/ \E k \in DOMAIN out, x \in Compatible : CompatibleWith(k, x)
    \/ CallNext

Spec == Init /\ [][Next]_vars

-----------------------------------------------------------------------------
(* Properties.                                                             *)

\* The nodes yielded so far are the first ones expected, at their levels.
NodesMatch ==
    /\ Len(out) <= Len(want)
    /\ \A k \in DOMAIN out :
          out[k].name = At(want[k]).name /\ out[k].level = Len(want[k])

\* None is missing when the iterator ends.
NodesAgree == NodesMatch /\ (status = "ended" => Len(out) = Len(want))

DataAgrees == IsPrefix(out, want) /\ (status = "ended" => out = want)

(* nodes() yields every node once, in order, with its level; children() of *)
(* a node, however the client came by it, yields exactly its own children  *)
(* and props() exactly its own properties, whatever their data looks like  *)
(* and however deep the nodes in between (node.rs, Nodes in lib.rs).       *)
IteratorsExact ==
    /\ op.name \in NodeOps => NodesAgree
    /\ op.name = "props" => DataAgrees

(* find_nodes() yields what its documentation promises, "all nodes that   *)
(* match the given path", and find_node() the first of them: in order,     *)
(* never a node of another subtree, and with none missing at the end       *)
(* unless an earlier part of the path fits two nodes.  There the code ends *)
(* behind the first of the two, and what it yields is still the beginning  *)
(* of the documented answer (lib.rs).                                      *)
FindExact ==
    op.name \in FindOps =>
        /\ NodesMatch
        /\ status = "ended" /\ ~ Ambiguous(op.path) => Len(out) = Len(want)

(* regions() cuts `reg' into the entries that the root's cells prescribe,  *)
(* leaving an incomplete one out, memory_reservations() stops at the zero  *)
(* entry and not at a zero start, and compatible_with() finds exactly the  *)
(* strings of the list (node.rs, lib.rs).                                  *)
RegionsExact == op.name \in DataOps \ {"props"} => DataAgrees

RECURSIVE Height(_)
Height(t) == 1 + Max({0} \cup {Height(t.kids[k]) : k \in DOMAIN t.kids})

(* A query on a well-formed tree panics only for a tree of more levels, or *)
(* a path of more parts, than a u8 counts, or in regions() for cells that  *)
(* it does not support: the `-= 1' on levels and the slices never fail.    *)
PanicsOnlyBeyondLimits ==
    status = "panic" =>
        \/ Height(tree.root) > LEVEL_MAX
        \/ Len(op.path) > LEVEL_MAX
        \/ /\ op.name = "regions"
           /\ \E name \in {ADDRESS_CELLS, SIZE_CELLS} : Cells(PropsNamed(<<>>, name)) > 2
=============================================================================
