---------------------------- MODULE MCDeviceTree ----------------------------
(***************************************************************************)
(* Small trees for TLC. Their bytes are chosen to be confusing: names are  *)
(* prefixes of each other and take one or two words, property data looks   *)
(* like begin, end and property tokens, NOPs are in between, and names in  *)
(* the strings block are tails of others.                                  *)
(***************************************************************************)
EXTENDS DeviceTree

Reg == <<7>>
AddressCells == <<1, 9>>
SizeCells == <<2, 9>>
CompatibleName == <<3>>
StringsBlock == <<6, 7, 0>> \o <<1, 9, 0>> \o <<2, 9, 0>> \o <<3, 0>>

A == <<5>>
AB == <<5, 6>>
ABCD == <<5, 6, 7, 8>>

Property(name, data) == [name |-> name, data |-> data]
Tokens(n) == SubSeq(BigEndian(1) \o BigEndian(2) \o BigEndian(3) \o BigEndian(9) \o BigEndian(5) \o BigEndian(1), 1, n)
TreeNode(name, nop, ps, kids) == [name |-> name, nop |-> nop, props |-> ps, kids |-> kids]

UpTo2(S) == {<<>>} \cup {<<a>> : a \in S} \cup (S \X S)

\* Every shape of three levels with at most two children per node.
Leaves == {TreeNode(A, FALSE, <<Property(Reg, Tokens(9))>>, <<>>), TreeNode(ABCD, TRUE, <<>>, <<>>)}
Inner == {TreeNode(AB, FALSE, <<>>, kids) : kids \in UpTo2(Leaves)}
         \cup {TreeNode(A, TRUE, <<Property(Reg, Tokens(4)), Property(<<6, 7>>, <<>>)>>, kids) : kids \in UpTo2(Leaves)}
Shapes == {TreeNode(<<>>, FALSE, <<>>, kids) : kids \in UpTo2(Inner)}

\* Every combination of cells with `reg' of any length, whole entries or not.
CellProps(a, s) == <<Property(AddressCells, BigEndian(a)), Property(SizeCells, BigEndian(s))>>
RootProps == {CellProps(a, s) : a \in 0 .. 3, s \in 0 .. 3} \cup {<<Property(AddressCells, BigEndian(1))>>}
Devices ==
    {TreeNode(<<>>, TRUE, ps, <<TreeNode(AB, FALSE, <<Property(CompatibleName, c), Property(Reg, Tokens(n))>>, <<>>)>>) :
        ps \in RootProps, c \in {<<5, 0, 6, 5, 0>>, <<5, 6, 0>>}, n \in {0, 4, 7, 8, 12, 20, 24}}

RECURSIVE Chain(_)
Chain(n) == TreeNode(IF n = 0 THEN A ELSE AB, FALSE, <<>>, IF n = 0 THEN <<>> ELSE <<Chain(n - 1)>>)

\* With reservations, one of them at address zero.
Address(n) == Zeros(4) \o BigEndian(n)
Reserved == <<[start |-> Address(0), size |-> Address(8)], [start |-> Address(9), size |-> Address(0)]>>

\* Three levels fit LEVEL_MAX, four do not.
MCTrees ==
    [root : Shapes \cup Devices, reserved : {<<>>}]
    \cup [root : {TreeNode(<<>>, FALSE, <<>>, <<Chain(n)>>) : n \in 1 .. 2}, reserved : {Reserved}]

\* Looks like a begin token and like the tail of a name.
MCBehind == <<0, 0, 0, 1, 5, 0, 0>>

MCPaths == {<<>>, <<A>>} \cup {<< <<>> >> \o rest : rest \in
               {<<>>, <<A>>, <<AB>>, <<A, A>>, <<AB, A>>, <<A, ABCD>>, <<A, A, A>>}}

MCCompatible == {<<5>>, <<6>>, <<5, 6>>, <<6, 5>>}
=============================================================================
