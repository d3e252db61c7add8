---------------------------- MODULE BuddyProofs ----------------------------
(***************************************************************************)
(* Proofs about Buddy, for every number of orders, page size and set of    *)
(* regions.  First the facts that they rest on: arithmetic on sizes and    *)
(* buddies, what the list operations do to the set of free blocks, and the *)
(* order that add_single_region chooses.  Then the types, and that no page *)
(* is in two places.                                                       *)
(***************************************************************************)
EXTENDS Buddy, SequenceTheorems, WellFoundedInduction, TLAPS

-----------------------------------------------------------------------------
(* Arithmetic: alignment and buddies *)

\* A multiple divides without rest.
LEMMA DivMul ==
    ASSUME NEW s \in Nat \ {0}, NEW q \in Int
    PROVE  (s * q) \div s = q /\ (s * q) % s = 0
OBVIOUS

\* What divides without rest is a multiple.
LEMMA Divides ==
    \A s \in Nat \ {0}, b \in Nat : b % s = 0 => \E q \in Nat : b = s * q
<1> SUFFICES ASSUME NEW s \in Nat \ {0}, NEW b \in Nat, b % s = 0
             PROVE  \E q \in Nat : b = s * q
  OBVIOUS
<1>1. b = (s * (b \div s)) + (b % s)
  OBVIOUS
<1>2. b \div s \in Nat
  OBVIOUS
<1> QED
  BY <1>1, <1>2

\* A block of twice the size s: its lower half is even among the blocks of
\* size s, and both halves are aligned.
LEMMA HalvesAligned ==
    ASSUME NEW s \in Nat \ {0}, NEW b \in Nat, b % (2 * s) = 0
    PROVE  b % s = 0 /\ (b \div s) % 2 = 0 /\ (b + s) % s = 0
<1>1. PICK q \in Nat : b = (2 * s) * q
  <2>1. 2 * s \in Nat \ {0}
    OBVIOUS
  <2> QED
    BY <2>1, Divides
<1>2. b = s * (2 * q) /\ b + s = s * ((2 * q) + 1)
  BY <1>1
<1>3. b \div s = 2 * q /\ b % s = 0
  BY <1>2, DivMul
<1>4. (b + s) % s = 0
  BY <1>2, DivMul
<1> QED
  BY <1>3, <1>4

\* An even block of size s starts an aligned block of twice the size.
LEMMA EvenDoubles ==
    ASSUME NEW s \in Nat \ {0}, NEW b \in Nat, b % s = 0, (b \div s) % 2 = 0
    PROVE  b % (2 * s) = 0
<1>1. PICK p \in Nat : b = s * p
  BY Divides
<1>2. b \div s = p
  BY <1>1, DivMul
<1>3. PICK q \in Nat : p = 2 * q
  BY <1>2, Divides
<1>4. b = (2 * s) * q /\ 2 * s \in Nat \ {0}
  BY <1>1, <1>3
<1> QED
  BY <1>4, DivMul

\* An odd block of size s ends one.
LEMMA OddDoubles ==
    ASSUME NEW s \in Nat \ {0}, NEW b \in Nat, b % s = 0, (b \div s) % 2 # 0
    PROVE  b >= s /\ (b - s) % (2 * s) = 0 /\ (b - s) % s = 0
<1>1. PICK p \in Nat : b = s * p
  BY Divides
<1>2. b \div s = p
  BY <1>1, DivMul
<1>3. PICK q \in Nat : p = (2 * q) + 1
  BY <1>2
<1>4. b - s = (2 * s) * q /\ 2 * s \in Nat \ {0}
  BY <1>1, <1>3
<1>5. b - s = s * (2 * q)
  BY <1>4
<1>6. b - s >= 0
  BY <1>4
<1>7. (b - s) % (2 * s) = 0
  BY <1>4, DivMul
<1>8. (b - s) % s = 0
  BY <1>5, DivMul
<1> QED
  BY <1>6, <1>7, <1>8

\* A block whose number is odd is not below the block's size.
LEMMA BuddyNat ==
    ASSUME NEW b \in Nat, NEW o \in Orders
    PROVE  buddy_of(b, o) \in Nat
<1>1. 2^o \in Nat \ {0}
  BY PowersOfTwo
<1>2. ASSUME NEW s \in Nat \ {0}, (b \div s) % 2 # 0
      PROVE  b >= s
  <2>1. CASE b < s
    <3>1. b \div s = 0
      BY <2>1
    <3> QED
      BY <3>1, <1>2
  <2> QED
    BY <2>1
<1> QED
  BY <1>1, <1>2 DEF buddy_of, size_for_order

-----------------------------------------------------------------------------
(* Lists and the set of free blocks *)

Lists == [Orders -> Seq(Nat)]

DistinctSeq(s) == \A j, k \in DOMAIN s : s[j] = s[k] => j = k

\* Putting a new entry in front of a list.
LEMMA PushSeq ==
    ASSUME NEW s \in Seq(Nat), NEW b \in Nat
    PROVE  /\ <<b>> \o s \in Seq(Nat)
           /\ \A c : InList(<<b>> \o s, c) <=> c = b \/ InList(s, c)
           /\ DistinctSeq(s) /\ ~ InList(s, b) => DistinctSeq(<<b>> \o s)
<1> DEFINE t == <<b>> \o s
<1>1. <<b>> \in Seq(Nat) /\ Len(<<b>>) = 1 /\ <<b>>[1] = b
  OBVIOUS
<1>2. Len(s) \in Nat /\ DOMAIN s = 1 .. Len(s)
  BY LenProperties
<1>3. /\ t \in Seq(Nat)
      /\ Len(t) = 1 + Len(s)
      /\ \A i \in 1 .. 1 + Len(s) : t[i] = IF i <= 1 THEN <<b>>[i] ELSE s[i - 1]
  BY <1>1, ConcatProperties
<1>4. DOMAIN t = 1 .. 1 + Len(s)
  BY <1>3, LenProperties
<1> HIDE DEF t
<1>5. t[1] = b /\ \A i \in 1 .. Len(s) : t[i + 1] = s[i]
  <2>1. t[1] = b
    BY <1>1, <1>2, <1>3
  <2>2. ASSUME NEW i \in 1 .. Len(s)
        PROVE  t[i + 1] = s[i]
    <3>1. i + 1 \in 1 .. 1 + Len(s) /\ ~ (i + 1 <= 1) /\ (i + 1) - 1 = i
      BY <1>2
    <3> QED
      BY <3>1, <1>3
  <2> QED
    BY <2>1, <2>2
<1>6. \A i \in DOMAIN t : i = 1 \/ (i - 1 \in DOMAIN s /\ t[i] = s[i - 1])
  BY <1>2, <1>3, <1>4
<1>7. ASSUME NEW c
      PROVE  InList(t, c) <=> c = b \/ InList(s, c)
  <2>1. InList(t, c) => c = b \/ InList(s, c)
    BY <1>5, <1>6 DEF InList
  <2>2. c = b => InList(t, c)
    BY <1>2, <1>4, <1>5 DEF InList
  <2>3. ASSUME NEW i \in DOMAIN s, s[i] = c
        PROVE  InList(t, c)
    <3>1. i + 1 \in DOMAIN t /\ t[i + 1] = c
      BY <2>3, <1>2, <1>4, <1>5
    <3> QED
      BY <3>1 DEF InList
  <2> QED
    BY <2>1, <2>2, <2>3 DEF InList
<1>8. ASSUME DistinctSeq(s), ~ InList(s, b),
             NEW j \in DOMAIN t, NEW k \in DOMAIN t, t[j] = t[k]
      PROVE  j = k
  <2>1. /\ j = 1 \/ (j - 1 \in DOMAIN s /\ t[j] = s[j - 1])
        /\ k = 1 \/ (k - 1 \in DOMAIN s /\ t[k] = s[k - 1])
        /\ j \in Int /\ k \in Int /\ t[1] = b
    BY <1>2, <1>4, <1>5, <1>6
  <2>2. CASE j = 1 \/ k = 1
    BY <2>1, <2>2, <1>8 DEF InList
  <2>3. CASE j # 1 /\ k # 1
    <3>1. j - 1 = k - 1
      BY <2>1, <2>3, <1>8 DEF DistinctSeq
    <3> QED
      BY <2>1, <3>1
  <2> QED
    BY <2>2, <2>3
<1> QED
  BY <1>3, <1>7, <1>8 DEF t, DistinctSeq

\* Positions behind an entry k that is taken out move down by one.
LEMMA MovesDown ==
    ASSUME NEW n \in Nat, NEW k \in 1 .. n, NEW j \in 1 .. n, j > k
    PROVE  j - 1 \in 1 .. n - 1 /\ ~ (j - 1 < k) /\ (j - 1) + 1 = j
OBVIOUS

\* No two positions come from the same one.
LEMMA MovesApart ==
    ASSUME NEW i \in Int, NEW j \in Int, NEW k \in Int, NEW p,
           (i < k /\ p = i) \/ (i >= k /\ p = i + 1),
           (j < k /\ p = j) \/ (j >= k /\ p = j + 1)
    PROVE  i = j
OBVIOUS

\* Taking entry k out of a list.
LEMMA DeleteSeq ==
    ASSUME NEW s \in Seq(Nat), NEW k \in DOMAIN s, NEW t \in Seq(Nat),
           DistinctSeq(s), Len(t) = Len(s) - 1,
           \A i \in 1 .. Len(s) - 1 : t[i] = IF i < k THEN s[i] ELSE s[i + 1]
    PROVE  /\ \A c : InList(t, c) <=> c # s[k] /\ InList(s, c)
           /\ DistinctSeq(t)
<1>1. Len(s) \in Nat /\ DOMAIN s = 1 .. Len(s) /\ DOMAIN t = 1 .. Len(s) - 1
  BY LenProperties
<1>2. \A i \in DOMAIN t : \E j \in DOMAIN s :
          /\ t[i] = s[j]
          /\ j # k
          /\ (i < k /\ j = i) \/ (i >= k /\ j = i + 1)
  <2> SUFFICES ASSUME NEW i \in 1 .. Len(s) - 1
               PROVE  \E j \in 1 .. Len(s) :
                         /\ t[i] = s[j]
                         /\ j # k
                         /\ (i < k /\ j = i) \/ (i >= k /\ j = i + 1)
    BY <1>1
  <2>1. k \in 1 .. Len(s) /\ i \in 1 .. Len(s) /\ i + 1 \in 1 .. Len(s)
    BY <1>1
  <2>2. CASE i < k
    BY <2>1, <2>2
  <2>3. CASE i >= k
    <3>0. ~ (i < k) /\ i + 1 # k
      BY <2>1, <2>3
    <3>1. t[i] = s[i + 1] /\ i + 1 # k
      BY <3>0
    <3> QED
      BY <2>1, <2>3, <3>1
  <2> QED
    BY <2>1, <2>2, <2>3
<1>3. ASSUME NEW j \in DOMAIN s, j # k
      PROVE  \E i \in DOMAIN t : t[i] = s[j]
  <2>0. k \in 1 .. Len(s) /\ j \in 1 .. Len(s)
    BY <1>1
  <2>1. CASE j < k
    <3>1. j \in 1 .. Len(s) - 1
      BY <2>0, <2>1, <1>1
    <3> QED
      BY <2>1, <3>1, <1>1
  <2>2. CASE j > k
    <3>1. j - 1 \in 1 .. Len(s) - 1 /\ ~ (j - 1 < k) /\ (j - 1) + 1 = j
      BY <2>0, <2>2, <1>1, MovesDown
    <3>2. j - 1 \in DOMAIN t /\ t[j - 1] = s[j]
      BY <3>1, <1>1
    <3> QED
      BY <3>2
  <2> QED
    BY <2>0, <2>1, <2>2, <1>3
<1>4. ASSUME NEW c
      PROVE  InList(t, c) <=> c # s[k] /\ InList(s, c)
  <2>1. InList(t, c) => c # s[k] /\ InList(s, c)
    BY <1>2 DEF InList, DistinctSeq
  <2>2. c # s[k] /\ InList(s, c) => InList(t, c)
    BY <1>3 DEF InList
  <2> QED
    BY <2>1, <2>2
<1>5. DistinctSeq(t)
  <2> SUFFICES ASSUME NEW i \in DOMAIN t, NEW j \in DOMAIN t, t[i] = t[j]
               PROVE  i = j
    BY DEF DistinctSeq
  <2>1. PICK p \in DOMAIN s : /\ t[i] = s[p]
                              /\ (i < k /\ p = i) \/ (i >= k /\ p = i + 1)
    BY <1>2
  <2>2. PICK q \in DOMAIN s : /\ t[j] = s[q]
                              /\ (j < k /\ q = j) \/ (j >= k /\ q = j + 1)
    BY <1>2
  <2>3. p = q
    BY <2>1, <2>2 DEF DistinctSeq
  <2>4. i \in Int /\ j \in Int /\ k \in Int
    BY <1>1
  <2> QED
    BY <2>1, <2>2, <2>3, <2>4, MovesApart
<1> QED
  BY <1>4, <1>5

\* A block is free when the list of its order has its first page.
LEMMA FreeInIff ==
    ASSUME NEW lists \in Lists, NEW x
    PROVE  x \in FreeIn(lists)
              <=> \E o \in Orders, b \in Nat : x = Block(b, o) /\ InList(lists[o], b)
<1>1. ASSUME NEW o \in Orders, NEW k \in DOMAIN lists[o]
      PROVE  lists[o][k] \in Nat
  <2>1. lists[o] \in Seq(Nat)
    BY DEF Lists
  <2> QED
    BY <2>1, LenProperties, ElementOfSeq
<1> QED
  BY <1>1 DEF FreeIn, InList

\* A block is its first page and its order.
LEMMA BlockFields ==
    ASSUME NEW b, NEW o
    PROVE  /\ Block(b, o).block = b /\ Block(b, o).order = o
           /\ \A c, p : Block(b, o) = Block(c, p) => b = c /\ o = p
BY DEF Block

\* order_push adds the block to the free ones.
LEMMA PushFree ==
    ASSUME NEW lists \in Lists, NEW o \in Orders, NEW b \in Nat
    PROVE  LET new == order_push(lists, o, b)
           IN  /\ new \in Lists
               /\ FreeIn(new) = FreeIn(lists) \cup {Block(b, o)}
               /\ Distinct(lists) /\ Block(b, o) \notin FreeIn(lists) => Distinct(new)
<1> DEFINE new == order_push(lists, o, b)
<1>1. lists[o] \in Seq(Nat)
  BY DEF Lists
<1>2. new \in Lists /\ new[o] = <<b>> \o lists[o]
  BY <1>1, PushSeq DEF Lists, order_push
<1>3. \A p \in Orders : p # o => new[p] = lists[p]
  BY DEF order_push, Lists
<1> HIDE DEF new
<1>4. \A c : InList(new[o], c) <=> c = b \/ InList(lists[o], c)
  BY <1>1, <1>2, PushSeq
<1>5. FreeIn(new) = FreeIn(lists) \cup {Block(b, o)}
  <2>1. ASSUME NEW x \in FreeIn(new)
        PROVE  x \in FreeIn(lists) \cup {Block(b, o)}
    <3>1. PICK p \in Orders, c \in Nat : x = Block(c, p) /\ InList(new[p], c)
      BY <1>2, FreeInIff
    <3>2. CASE p = o
      BY <3>1, <3>2, <1>4, FreeInIff
    <3>3. CASE p # o
      BY <3>1, <3>3, <1>3, FreeInIff
    <3> QED
      BY <3>2, <3>3
  <2>2. ASSUME NEW x \in FreeIn(lists)
        PROVE  x \in FreeIn(new)
    <3>1. PICK p \in Orders, c \in Nat : x = Block(c, p) /\ InList(lists[p], c)
      BY FreeInIff
    <3>2. InList(new[p], c)
      BY <3>1, <1>3, <1>4
    <3> QED
      BY <3>1, <3>2, <1>2, FreeInIff
  <2>3. Block(b, o) \in FreeIn(new)
    BY <1>2, <1>4, FreeInIff
  <2> QED
    BY <2>1, <2>2, <2>3
<1>6. ASSUME Distinct(lists), Block(b, o) \notin FreeIn(lists)
      PROVE  Distinct(new)
  <2>1. DistinctSeq(lists[o]) /\ ~ InList(lists[o], b)
    BY <1>6, FreeInIff DEF Distinct, DistinctSeq
  <2>2. DistinctSeq(new[o])
    BY <1>1, <1>2, <2>1, PushSeq
  <2> QED
    BY <1>3, <1>6, <2>2 DEF Distinct, DistinctSeq
<1> QED
  BY <1>2, <1>5, <1>6 DEF new

\* The lists with entry k of list o taken out.
Without(new, lists, o, k) ==
    /\ \A p \in Orders : p # o => new[p] = lists[p]
    /\ Len(new[o]) = Len(lists[o]) - 1
    /\ \A i \in 1 .. Len(lists[o]) - 1 :
          new[o][i] = IF i < k THEN lists[o][i] ELSE lists[o][i + 1]

\* Then the block of that entry is no longer among the free ones.
LEMMA DeleteFree ==
    ASSUME NEW lists \in Lists, NEW o \in Orders, NEW k \in DOMAIN lists[o],
           NEW new \in Lists, Distinct(lists), Without(new, lists, o, k)
    PROVE  /\ Block(lists[o][k], o) \in FreeIn(lists)
           /\ FreeIn(new) = FreeIn(lists) \ {Block(lists[o][k], o)}
           /\ Distinct(new)
<1>1. lists[o] \in Seq(Nat) /\ new[o] \in Seq(Nat) /\ DistinctSeq(lists[o])
  BY DEF Lists, Distinct, DistinctSeq
<1>2. /\ \A c : InList(new[o], c) <=> c # lists[o][k] /\ InList(lists[o], c)
      /\ DistinctSeq(new[o])
  BY <1>1, DeleteSeq DEF Without
<1>3. Distinct(new)
  BY <1>2 DEF Distinct, DistinctSeq, Without
<1>4. lists[o][k] \in Nat /\ InList(lists[o], lists[o][k])
  BY <1>1, LenProperties, ElementOfSeq DEF InList
<1>5. ASSUME NEW x \in FreeIn(new)
      PROVE  x \in FreeIn(lists) \ {Block(lists[o][k], o)}
  <2>1. PICK p \in Orders, c \in Nat : x = Block(c, p) /\ InList(new[p], c)
    BY FreeInIff
  <2>2. CASE p = o
    BY <2>1, <2>2, <1>2, FreeInIff, BlockFields
  <2>3. CASE p # o
    BY <2>1, <2>3, FreeInIff, BlockFields DEF Without
  <2> QED
    BY <2>2, <2>3
<1>6. ASSUME NEW x \in FreeIn(lists), x # Block(lists[o][k], o)
      PROVE  x \in FreeIn(new)
  <2>1. PICK p \in Orders, c \in Nat : x = Block(c, p) /\ InList(lists[p], c)
    BY FreeInIff
  <2>2. CASE p = o
    BY <2>1, <2>2, <1>2, <1>6, FreeInIff
  <2>3. CASE p # o
    BY <2>1, <2>3, FreeInIff DEF Without
  <2> QED
    BY <2>2, <2>3
<1> QED
  BY <1>3, <1>4, <1>5, <1>6, FreeInIff

\* order_pop takes the first block.
LEMMA PopFree ==
    ASSUME NEW lists \in Lists, NEW o \in Orders, lists[o] # <<>>, Distinct(lists)
    PROVE  LET new == order_pop(lists, o)
               x   == Block(Head(lists[o]), o)
           IN  /\ new \in Lists
               /\ Head(lists[o]) \in Nat
               /\ x \in FreeIn(lists)
               /\ FreeIn(new) = FreeIn(lists) \ {x}
               /\ Distinct(new)
<1> DEFINE new == order_pop(lists, o)
<1>1. lists[o] \in Seq(Nat)
  BY DEF Lists
<1>2. /\ Head(lists[o]) \in Nat
      /\ Tail(lists[o]) \in Seq(Nat)
      /\ Len(Tail(lists[o])) = Len(lists[o]) - 1
      /\ \A i \in 1 .. Len(Tail(lists[o])) : Tail(lists[o])[i] = lists[o][i + 1]
  BY <1>1, HeadTailProperties
<1>3. Len(lists[o]) \in Nat \ {0} /\ DOMAIN lists[o] = 1 .. Len(lists[o])
  BY <1>1, EmptySeq, LenProperties
<1>4. 1 \in DOMAIN lists[o] /\ Head(lists[o]) = lists[o][1]
  BY <1>1, <1>3
<1>5. new \in Lists /\ new[o] = Tail(lists[o])
  BY <1>2 DEF order_pop, Lists
<1>6. \A p \in Orders : p # o => new[p] = lists[p]
  BY DEF order_pop, Lists
<1> HIDE DEF new
<1>7. \A i \in 1 .. Len(lists[o]) - 1 :
          new[o][i] = IF i < 1 THEN lists[o][i] ELSE lists[o][i + 1]
  BY <1>2, <1>3, <1>5
<1>8. Without(new, lists, o, 1)
  BY <1>2, <1>5, <1>6, <1>7 DEF Without
<1>9. /\ Block(lists[o][1], o) \in FreeIn(lists)
      /\ FreeIn(new) = FreeIn(lists) \ {Block(lists[o][1], o)}
      /\ Distinct(new)
  BY <1>4, <1>5, <1>8, DeleteFree
<1> QED
  BY <1>2, <1>4, <1>5, <1>9 DEF new

\* order_remove takes the block out of the list.
LEMMA RemoveFree ==
    ASSUME NEW lists \in Lists, NEW o \in Orders, NEW b,
           InList(lists[o], b), Distinct(lists)
    PROVE  LET new == order_remove(lists, o, b)
           IN  /\ new \in Lists
               /\ Block(b, o) \in FreeIn(lists)
               /\ FreeIn(new) = FreeIn(lists) \ {Block(b, o)}
               /\ Distinct(new)
<1> DEFINE new == order_remove(lists, o, b)
           s == lists[o]
           k == FirstAt(s, b)
           t == [i \in 1 .. Len(s) - 1 |-> IF i < k THEN s[i] ELSE s[i + 1]]
<1>1. s \in Seq(Nat) /\ DistinctSeq(s)
  BY DEF Lists, Distinct, DistinctSeq
<1>2. Len(s) \in Nat /\ DOMAIN s = 1 .. Len(s) /\ \A i \in DOMAIN s : s[i] \in Nat
  BY <1>1, LenProperties, ElementOfSeq
<1>3. PICK m \in DOMAIN s : s[m] = b
  BY DEF InList
<1>4. \A j \in 1 .. m - 1 : s[j] # b
  <2> SUFFICES ASSUME NEW j \in 1 .. m - 1 PROVE s[j] # s[m]
    BY <1>3
  <2>1. j \in DOMAIN s /\ j # m
    BY <1>2
  <2> QED
    BY <1>1, <2>1 DEF DistinctSeq
<1>5. k \in DOMAIN s /\ s[k] = b
  BY <1>3, <1>4 DEF FirstAt
<1>6. t \in [1 .. Len(s) - 1 -> Nat]
  <2>1. ASSUME NEW i \in 1 .. Len(s) - 1
        PROVE  i \in DOMAIN s /\ i + 1 \in DOMAIN s
    BY <1>2
  <2> QED
    BY <1>2, <2>1
<1>7. Len(s) - 1 \in Nat
  BY <1>2, <1>3
<1>8. t \in Seq(Nat) /\ Len(t) = Len(s) - 1
  BY <1>6, <1>7, SeqDef
<1>9. new = [lists EXCEPT ![o] = t]
  BY DEF order_remove
<1>10. new \in Lists /\ new[o] = t
  BY <1>8, <1>9 DEF Lists
<1>11. \A p \in Orders : p # o => new[p] = lists[p]
  BY <1>9 DEF Lists
<1>12. \A i \in 1 .. Len(s) - 1 : new[o][i] = IF i < k THEN s[i] ELSE s[i + 1]
  BY <1>10
<1>13. Without(new, lists, o, k)
  BY <1>8, <1>10, <1>11, <1>12 DEF Without
<1> HIDE DEF new, t, k
<1>14. /\ Block(s[k], o) \in FreeIn(lists)
       /\ FreeIn(new) = FreeIn(lists) \ {Block(s[k], o)}
       /\ Distinct(new)
  BY <1>5, <1>10, <1>13, DeleteFree
<1> QED
  BY <1>5, <1>10, <1>14 DEF new

-----------------------------------------------------------------------------
(* The order of an added block *)

\* A nonempty set of numbers has a least one.
LEMMA NatMin ==
    ASSUME NEW T, T \subseteq Nat, T # {}
    PROVE  \E m \in T : \A n \in T : m <= n
<1>1. PICK m \in T : \A n \in T : ~ (<<n, m>> \in OpToRel(<, Nat))
  BY WFMin, NatLessThanWellFounded
<1>2. \A n \in T : ~ (n < m)
  BY <1>1, Zenon DEF OpToRel
<1>3. \A n \in T : n \in Nat
  OBVIOUS
<1> QED
  BY <1>2, <1>3

\* The loop of add_single_region always ends with an order.
LEMMA RegionOrder ==
    ASSUME NEW start \in Nat, NEW end \in Nat
    PROVE  LET k == region_order(start, end)
           IN  /\ k \in Orders
               /\ \A j \in 1 .. k : Grows(start, end, j)
               /\ k = MAX_ORDER - 1 \/ ~ Grows(start, end, k + 1)
<1> DEFINE T == {k \in Orders : k = MAX_ORDER - 1 \/ ~ Grows(start, end, k + 1)}
<1>1. MAX_ORDER - 1 \in T /\ T \subseteq Nat
  BY OrderAssumption DEF Orders
<1>2. PICK m \in T : \A n \in T : m <= n
  <2> HIDE DEF T
  <2> QED
    BY <1>1, NatMin
<1>3. m \in Orders /\ (m = MAX_ORDER - 1 \/ ~ Grows(start, end, m + 1))
  OBVIOUS
<1>4. ASSUME NEW j \in 1 .. m
      PROVE  Grows(start, end, j)
  <2>1. j - 1 \in Orders /\ j - 1 # MAX_ORDER - 1 /\ ~ (m <= j - 1) /\ (j - 1) + 1 = j
    BY <1>3, OrderAssumption DEF Orders
  <2>2. j - 1 \notin T
    <3> HIDE DEF T
    <3> QED
      BY <1>2, <2>1
  <2> QED
    BY <2>1, <2>2
<1> QED
  BY <1>3, <1>4 DEF region_order

\* The sizes, as PowersOfTwo states them.
LEMMA OrderSizes ==
    ASSUME NEW o \in Orders
    PROVE  /\ 2^o \in Nat \ {0}
           /\ o > 0 => 2^o = 2 * 2^(o - 1) /\ o - 1 \in Orders
<1>1. ASSUME o > 0
      PROVE  o - 1 \in Orders /\ (o - 1) + 1 = o
  BY <1>1, OrderAssumption DEF Orders
<1> QED
  BY <1>1, PowersOfTwo

\* A start whose bits 0 .. k - 1 are clear is aligned to size 2^k.
LEMMA ClearBits ==
    ASSUME NEW b \in Nat, NEW k \in Orders, k > 0 => b % 2 = 0,
           \A j \in 1 .. k : (b \div 2^j) % 2 = 0
    PROVE  b % 2^k = 0
<1> DEFINE T == {j \in 0 .. k : b % 2^j # 0}
<1>1. k \in Nat /\ 0 .. k \subseteq Orders
  BY OrderAssumption DEF Orders
<1>2. SUFFICES ASSUME T # {} PROVE FALSE
  BY <1>1
<1>3. PICK m \in T : \A n \in T : m <= n
  <2>1. T \subseteq Nat
    BY <1>1
  <2> HIDE DEF T
  <2> QED
    BY <1>2, <2>1, NatMin
<1>4. m \in 0 .. k /\ b % 2^m # 0 /\ \A n \in 0 .. k : b % 2^n # 0 => m <= n
  BY <1>3
<1> HIDE DEF T
<1>5. m # 0
  <2>1. b % 1 = 0
    OBVIOUS
  <2> QED
    BY <1>4, <2>1, PowersOfTwo
<1>6. m - 1 \in 0 .. k /\ m \in Orders /\ m > 0 /\ m \in Nat /\ k > 0
  BY <1>1, <1>4, <1>5
<1>7. 2^m = 2 * 2^(m - 1) /\ 2^(m - 1) \in Nat \ {0}
  BY <1>6, OrderSizes
<1>8. b % 2^(m - 1) = 0
  BY <1>4, <1>6
<1>9. (b \div 2^(m - 1)) % 2 = 0
  <2>1. CASE m - 1 = 0
    <3>1. b \div 1 = b
      OBVIOUS
    <3> QED
      BY <2>1, <3>1, <1>6, PowersOfTwo
  <2>2. CASE m - 1 # 0
    BY <2>2, <1>1, <1>6
  <2> QED
    BY <2>1, <2>2
<1>10. b % (2 * 2^(m - 1)) = 0
  BY <1>7, <1>8, <1>9, EvenDoubles
<1> QED
  BY <1>4, <1>7, <1>10

-----------------------------------------------------------------------------
(* Blocks inside larger ones *)

\* Multiplying by a positive number keeps the order.
LEMMA MulOrder ==
    ASSUME NEW h \in Nat \ {0}, NEW a \in Int, NEW c \in Int
    PROVE  (h * a <= h * c) <=> (a <= c)
<1>1. ASSUME NEW d \in Nat PROVE h * d >= 0 /\ (d > 0 => h * d > 0)
  OBVIOUS
<1>2. ASSUME a <= c PROVE h * a <= h * c
  <2>1. c - a \in Nat /\ h * c = h * a + h * (c - a)
    BY <1>2
  <2> QED
    BY <1>1, <2>1
<1>3. ASSUME c < a PROVE h * c < h * a
  <2>1. a - c \in Nat /\ a - c > 0 /\ h * a = h * c + h * (a - c)
    BY <1>3
  <2>2. h * (a - c) > 0
    BY <1>1, <2>1
  <2> QED
    BY <2>1, <2>2
<1> QED
  BY <1>2, <1>3

\* Every size is a multiple of twice a smaller one.
LEMMA SizeMultiple ==
    ASSUME NEW o \in Orders, NEW p \in Orders, o < p
    PROVE  \E m \in Nat : 2^p = (2 * 2^o) * m
<1> DEFINE T == {q \in Orders : o < q /\ ~ \E m \in Nat : 2^q = (2 * 2^o) * m}
<1>1. o \in Nat /\ p \in Nat /\ Orders \subseteq Nat
  BY OrderAssumption DEF Orders
<1>2. SUFFICES ASSUME T # {} PROVE FALSE
  OBVIOUS
<1>3. PICK q \in T : \A n \in T : q <= n
  <2>1. T \subseteq Nat
    BY <1>1
  <2> HIDE DEF T
  <2> QED
    BY <1>2, <2>1, NatMin
<1>4. q \in Orders /\ o < q /\ q > 0 /\ ~ \E m \in Nat : 2^q = (2 * 2^o) * m
  BY <1>1
<1>5. q - 1 \in Orders /\ 2^q = 2 * 2^(q - 1) /\ 2^(q - 1) \in Nat /\ 2^o \in Nat
  BY <1>4, OrderSizes
<1>6. q - 1 \notin T
  <2>1. ~ (q <= q - 1)
    BY <1>1, <1>4
  <2> HIDE DEF T
  <2> QED
    BY <1>3, <2>1
<1>7. CASE q = o + 1
  <2>1. 2^q = (2 * 2^o) * 1
    BY <1>1, <1>5, <1>7
  <2> QED
    BY <1>4, <2>1
<1>8. CASE q # o + 1
  <2>1. o < q - 1
    BY <1>1, <1>4, <1>8
  <2>2. PICK m \in Nat : 2^(q - 1) = (2 * 2^o) * m
    BY <1>5, <1>6, <2>1
  <2>3. 2^q = (2 * 2^o) * (2 * m) /\ 2 * m \in Nat
    BY <1>5, <2>2
  <2> QED
    BY <1>4, <2>3
<1> QED
  BY <1>7, <1>8

\* The blocks of size h between two multiples of 2 * h come in pairs.
LEMMA PairInside ==
    ASSUME NEW h \in Nat \ {0}, NEW q \in Nat, NEW e \in Nat, NEW r \in Nat,
           (2 * h) * q <= h * r, h * r + h <= (2 * h) * e
    PROVE  /\ r % 2 = 0 => h * r + 2 * h <= (2 * h) * e
           /\ r % 2 # 0 => (2 * h) * q <= h * r - h
<1>1. /\ (2 * h) * q = h * (2 * q) /\ (2 * h) * e = h * (2 * e)
      /\ h * r + h = h * (r + 1) /\ h * r + 2 * h = h * (r + 2)
      /\ h * r - h = h * (r - 1)
  OBVIOUS
<1>2. 2 * q <= r
  BY <1>1, MulOrder
<1>3. r + 1 <= 2 * e
  BY <1>1, MulOrder
<1>4. ASSUME r % 2 = 0
      PROVE  h * (r + 2) <= h * (2 * e)
  <2>1. r + 2 <= 2 * e
    BY <1>3, <1>4
  <2> QED
    BY <2>1, MulOrder
<1>5. ASSUME r % 2 # 0
      PROVE  h * (2 * q) <= h * (r - 1)
  <2>1. 2 * q <= r - 1
    BY <1>2, <1>5
  <2> QED
    BY <2>1, MulOrder
<1> QED
  BY <1>1, <1>4, <1>5

\* The buddy of the buddy is the block.
LEMMA BuddyTwice ==
    ASSUME NEW b \in Nat, NEW o \in Orders, b % 2^o = 0
    PROVE  /\ buddy_of(buddy_of(b, o), o) = b
           /\ buddy_of(b, o) % 2^o = 0
           /\ buddy_of(b, o) # b
<1> DEFINE h == 2^o
           Flip(c) == IF (c \div h) % 2 = 0 THEN c + h ELSE c - h
<1>1. h \in Nat \ {0} /\ b % h = 0
  BY PowersOfTwo
<1>2. \A c : buddy_of(c, o) = Flip(c)
  BY DEF buddy_of, size_for_order
<1> HIDE DEF h
<1>3. PICK r \in Nat : b = h * r
  BY <1>1, Divides
<1>4. b \div h = r
  BY <1>1, <1>3, DivMul
<1>5. b + h = h * (r + 1) /\ b - h = h * (r - 1) /\ r + 1 \in Int /\ r - 1 \in Int
  BY <1>1, <1>3
<1>6. /\ (b + h) \div h = r + 1 /\ (b + h) % h = 0
      /\ (b - h) \div h = r - 1 /\ (b - h) % h = 0
  BY <1>1, <1>5, DivMul, ZenonT(60)
<1>7. Flip(Flip(b)) = b /\ Flip(b) % h = 0 /\ Flip(b) # b
  <2>1. CASE r % 2 = 0
    <3>1. Flip(b) = b + h /\ (r + 1) % 2 # 0
      BY <1>4, <2>1
    <3>2. Flip(b + h) = (b + h) - h
      BY <1>6, <3>1
    <3> QED
      BY <1>1, <1>6, <3>1, <3>2
  <2>2. CASE r % 2 # 0
    <3>1. Flip(b) = b - h /\ (r - 1) % 2 = 0
      BY <1>4, <2>2
    <3>2. Flip(b - h) = (b - h) + h
      BY <1>6, <3>1
    <3> QED
      BY <1>1, <1>6, <3>1, <3>2
  <2> QED
    BY <2>1, <2>2
<1> QED
  BY <1>2, <1>7 DEF h

\* An aligned block inside a larger aligned one has its buddy in there, too.
LEMMA BuddyInside ==
    ASSUME NEW b \in Nat, NEW o \in Orders, b % 2^o = 0,
           NEW c \in Nat, NEW p \in Orders, c % 2^p = 0,
           o < p, c <= b, b + 2^o <= c + 2^p
    PROVE  c <= buddy_of(b, o) /\ buddy_of(b, o) + 2^o <= c + 2^p
<1> DEFINE h == 2^o
<1>1. h \in Nat \ {0} /\ 2^p \in Nat \ {0}
  BY PowersOfTwo
<1>2. PICK m \in Nat : 2^p = (2 * h) * m
  BY SizeMultiple
<1>3. PICK r \in Nat : b = h * r
  BY <1>1, Divides
<1>4. PICK k \in Nat : c = 2^p * k
  BY <1>1, Divides
<1> HIDE DEF h
<1>5. /\ c = (2 * h) * (m * k) /\ c + 2^p = (2 * h) * (m * k + m)
      /\ m * k \in Nat /\ m * k + m \in Nat
  BY <1>1, <1>2, <1>4
<1>6. /\ r % 2 = 0 => b + 2 * h <= c + 2^p
      /\ r % 2 # 0 => c <= b - h
  <2>1. (2 * h) * (m * k) <= h * r /\ h * r + h <= (2 * h) * (m * k + m)
    BY <1>3, <1>5 DEF h
  <2> QED
    BY <1>1, <1>3, <1>5, <2>1, PairInside
<1>7. b \div h = r
  BY <1>1, <1>3, DivMul
<1>8. buddy_of(b, o) = IF r % 2 = 0 THEN b + h ELSE b - h
  BY <1>7 DEF h, buddy_of, size_for_order
<1>9. b + h <= c + 2^p
  BY DEF h
<1>10. CASE r % 2 = 0
  BY <1>1, <1>6, <1>8, <1>10 DEF h
<1>11. CASE r % 2 # 0
  BY <1>1, <1>6, <1>8, <1>9, <1>11 DEF h
<1> QED
  BY <1>10, <1>11


-----------------------------------------------------------------------------
(* Types *)

Stats == [free : Int, allocated : Int, total : Int]

Calls == [op : OpNames, block : Nat, cur : Orders, arg : Nat]

\* alloc_stats, dealloc_stats and add_region keep the books numbers.
LEMMA StatsTypes ==
    ASSUME NEW s \in Stats, NEW n \in Int
    PROVE  /\ alloc_stats(s, n) \in Stats
           /\ dealloc_stats(s, n) \in Stats
           /\ [s EXCEPT !.total = @ + n, !.free = @ + n] \in Stats
<1>1. s.free \in Int /\ s.allocated \in Int /\ s.total \in Int
  BY DEF Stats
<1>2. s.free + n \in Int /\ s.free - n \in Int /\ s.total + n \in Int
      /\ s.allocated + n \in Int /\ s.allocated - n \in Int
  BY <1>1
<1> QED
  BY <1>2 DEF alloc_stats, dealloc_stats, Stats

\* The changes that the steps make to the locals of a call.
LEMMA CallTypes ==
    /\ NoCall \in Calls
    /\ \A c \in Calls, b \in Nat, o \in Orders :
          /\ [c EXCEPT !.block = b] \in Calls
          /\ [c EXCEPT !.cur = o] \in Calls
          /\ [c EXCEPT !.block = b, !.cur = o] \in Calls
          /\ [c EXCEPT !.op = "split", !.block = b] \in Calls
<1>1. 0 \in Orders
  BY OrderAssumption DEF Orders
<1> QED
  BY <1>1 DEF NoCall, Calls, OpNames

\* order_remove on a list that has the block.
LEMMA RemoveType ==
    ASSUME NEW lists \in Lists, NEW o \in Orders, NEW b, InList(lists[o], b)
    PROVE  order_remove(lists, o, b) \in Lists
<1> DEFINE s == lists[o]
           k == FirstAt(s, b)
           t == [i \in 1 .. Len(s) - 1 |-> IF i < k THEN s[i] ELSE s[i + 1]]
<1>1. s \in Seq(Nat)
  BY DEF Lists
<1>2. Len(s) \in Nat /\ DOMAIN s = 1 .. Len(s) /\ \A i \in DOMAIN s : s[i] \in Nat
  BY <1>1, LenProperties, ElementOfSeq
<1>3. Len(s) - 1 \in Nat
  BY <1>2 DEF InList
<1>4. t \in [1 .. Len(s) - 1 -> Nat]
  <2>1. ASSUME NEW i \in 1 .. Len(s) - 1
        PROVE  i \in DOMAIN s /\ i + 1 \in DOMAIN s
    BY <1>2
  <2> QED
    BY <1>2, <2>1
<1>5. t \in Seq(Nat)
  BY <1>3, <1>4, SeqDef
<1>6. order_remove(lists, o, b) = [lists EXCEPT ![o] = t]
  BY DEF order_remove
<1> QED
  BY <1>5, <1>6 DEF Lists

\* What the proofs need of a region that add_region is called with: it lies
\* above the largest block.
RegionOK(r) == /\ FirstPage(r) \in Nat /\ EndPage(r) \in Nat
               /\ FirstPage(r) >= 2^MAX_ORDER

\* TypeOK with the sets by name, and for regions that need not be in Regions.
Typed ==
    /\ orders \in Lists
    /\ stats \in Stats
    /\ call \in Calls
    /\ ret \in RetNames
    /\ live \subseteq [block : Nat, order : Orders]
    /\ \A r \in added : RegionOK(r)
    /\ seeds \subseteq [block : Nat, order : Orders]

\* A step of the allocator for a caller who may add any region and ask for any
\* order.
BuddyStep == \/ \E r : AddRegionTooSmall(r) \/ AddRegion(r)
             \/ \E o : AllocateTooLarge(o) \/ Allocate(o)
             \/ \E x \in live : Deallocate(x)
             \/ Run

\* The steps of the specification are among them.
LEMMA NextIsStep == [Next]_vars => [BuddyStep]_vars
  BY DEF Next, BuddyStep

\* The types hold at the start.
LEMMA InitTypeOK == Init => Typed
<1> SUFFICES ASSUME Init PROVE Typed
  OBVIOUS
<1>1. orders \in Lists
  <2>1. <<>> \in Seq(Nat)
    OBVIOUS
  <2> QED
    BY <2>1 DEF Init, Lists
<1>2. stats \in Stats
  BY DEF Init, Stats
<1> QED
  BY <1>1, <1>2, CallTypes DEF Init, Typed, RetNames

\* Every step keeps the types, if a region that it adds is one for add_region.
LEMMA StepTypeOK ==
    ASSUME Typed, [BuddyStep]_vars, \A r \in added' : RegionOK(r)
    PROVE  Typed'
<1>a. call.block \in Nat /\ call.cur \in Orders /\ call.arg \in Nat
  BY DEF Calls, Typed
<1>b. {"none", "Ok", "RegionTooSmall", "OrderTooLarge",
       "NoMemoryAvailable", "NullPointer"} \subseteq RetNames
  BY DEF RetNames
<1>c. 0 \in Orders /\ Orders \subseteq Nat
  BY OrderAssumption DEF Orders
<1> DEFINE mate == buddy_of(call.block, call.cur)
<1>d. mate \in Nat /\ 2^call.cur \in Int /\ 2^call.cur * 2 \in Int
  BY <1>a, BuddyNat, PowersOfTwo
<1>1. CASE UNCHANGED vars
  BY <1>1 DEF vars, Typed
<1>2. ASSUME NEW r, AddRegionTooSmall(r) PROVE Typed'
  BY <1>b, <1>2 DEF AddRegionTooSmall, Typed
<1>3. ASSUME NEW r, AddRegion(r) PROVE Typed'
  <2>1. FirstPage(r) \in Nat /\ EndPage(r) \in Nat
    BY <1>3 DEF AddRegion, RegionOK
  <2>2. call' \in Calls
    BY <1>c, <1>3, <2>1 DEF AddRegion, Calls, OpNames
  <2> QED
    BY <1>b, <1>3, <2>2 DEF AddRegion, Typed
<1>4. CASE AddSingleRegion
  <2> DEFINE k == region_order(call.block, call.arg)
             start == call.block + 2^k
  <2>1. k \in Orders
    BY <1>a, RegionOrder
  <2>2. 2^k \in Int /\ start \in Nat
    BY <1>a, <2>1, PowersOfTwo
  <2>3. order_push(orders, k, call.block) \in Lists
    BY <1>a, <2>1, PushFree DEF Typed
  <2> HIDE DEF k
  <2>4. [stats EXCEPT !.total = @ + 2^k, !.free = @ + 2^k] \in Stats
    BY <2>2, StatsTypes DEF Typed
  <2>5. [call EXCEPT !.block = start] \in Calls /\ NoCall \in Calls
    BY <2>2, CallTypes, <1>a DEF Typed
  <2>6. Block(call.block, k) \in [block : Nat, order : Orders]
    BY <1>a, <2>1 DEF Block
  <2> QED
    BY <1>4, <1>b, <2>3, <2>4, <2>5, <2>6
    DEF AddSingleRegion, k, size_for_order, Return, Typed
<1>5. ASSUME NEW o, AllocateTooLarge(o) PROVE Typed'
  BY <1>b, <1>5 DEF AllocateTooLarge, Typed
<1>6. ASSUME NEW o, Allocate(o) PROVE Typed'
  <2>1. call' \in Calls
    BY <1>c, <1>6 DEF Allocate, Calls, OpNames
  <2> QED
    BY <1>b, <1>6, <2>1 DEF Allocate, Typed
<1>7. CASE SearchUp
  <2>1. call.cur + 1 < MAX_ORDER => [call EXCEPT !.cur = @ + 1] \in Calls
    <3>1. call.cur + 1 < MAX_ORDER => call.cur + 1 \in Orders
      BY <1>a, OrderAssumption DEF Orders
    <3> QED
      BY <1>a, <3>1, CallTypes DEF Typed
  <2> QED
    BY <1>b, <1>7, <2>1, CallTypes DEF SearchUp, Return, Typed
<1>8. CASE Pop
  <2>1. orders[call.cur] \in Seq(Nat) /\ orders[call.cur] # <<>>
    BY <1>8, <1>a DEF Pop, Typed, Lists
  <2>2. Head(orders[call.cur]) \in Nat /\ Tail(orders[call.cur]) \in Seq(Nat)
    BY <2>1, HeadTailProperties
  <2>3. order_pop(orders, call.cur) \in Lists
    BY <1>a, <2>2 DEF order_pop, Lists, Typed
  <2>4. alloc_stats(stats, 2^call.cur) \in Stats
    BY <1>d, StatsTypes DEF Typed
  <2>5. [call EXCEPT !.op = "split", !.block = Head(orders[call.cur])] \in Calls
    BY <1>a, <2>2, CallTypes DEF Typed
  <2> QED
    BY <1>8, <2>3, <2>4, <2>5 DEF Pop, size_for_order, Typed
<1>9. CASE Split
  <2> DEFINE order == call.cur - 1
             buddy == buddy_of(call.block, order)
  <2>1. order \in Orders
    BY <1>9, <1>a, OrderAssumption DEF Split, Orders
  <2>2. buddy \in Nat /\ 2^order \in Int
    BY <1>a, <2>1, BuddyNat, PowersOfTwo
  <2>3. order_push(orders, order, buddy) \in Lists
    BY <2>1, <2>2, PushFree DEF Typed
  <2>4. dealloc_stats(stats, 2^order) \in Stats
    BY <2>2, StatsTypes DEF Typed
  <2>5. [call EXCEPT !.cur = order] \in Calls
    BY <1>a, <2>1, CallTypes DEF Typed
  <2> QED
    BY <1>9, <1>b, <2>3, <2>4, <2>5, CallTypes DEF Split, size_for_order, Return, Typed
<1>10. CASE HandOut
  <2>1. Block(call.block, call.cur) \in [block : Nat, order : Orders]
    BY <1>a DEF Block
  <2> QED
    BY <1>10, <1>b, <2>1, CallTypes DEF HandOut, Return, Typed
<1>11. ASSUME NEW x \in live, Deallocate(x) PROVE Typed'
  <2>1. call' \in Calls
    BY <1>c, <1>11 DEF Deallocate, Calls, OpNames, Typed
  <2> QED
    BY <1>b, <1>11, <2>1 DEF Deallocate, Typed
<1>12. CASE PutBack
  <2>1. order_push(orders, call.cur, call.block) \in Lists
    BY <1>a, PushFree DEF Typed
  <2>2. dealloc_stats(stats, 2^call.cur) \in Stats
    BY <1>d, StatsTypes DEF Typed
  <2> QED
    BY <1>12, <1>b, <2>1, <2>2, CallTypes DEF PutBack, size_for_order, Return, Typed
<1>13. CASE Merge
  <2> DEFINE low == IF mate < call.block THEN mate ELSE call.block
  <2>1. call.cur + 1 \in Orders
    BY <1>13, <1>a, OrderAssumption DEF Merge, Orders
  <2>2. low \in Nat
    BY <1>a, <1>d
  <2>3. order_remove(orders, call.cur, mate) \in Lists
    BY <1>13, <1>a, RemoveType DEF Merge, Typed
  <2>4. alloc_stats(stats, 2^call.cur) \in Stats
    BY <1>d, StatsTypes DEF Typed
  <2>5. [call EXCEPT !.block = low, !.cur = @ + 1] \in Calls
    <3> HIDE DEF low
    <3> QED
      BY <1>a, <2>1, <2>2, CallTypes DEF Typed
  <2> QED
    BY <1>13, <2>3, <2>4, <2>5 DEF Merge, size_for_order, Typed
<1>14. CASE PutBackBoth
  <2> DEFINE removed == order_remove(orders, call.cur, mate)
             one == order_push(removed, call.cur, mate)
             s == alloc_stats(stats, 2^call.cur)
  <2>1. removed \in Lists
    BY <1>14, <1>a, RemoveType DEF PutBackBoth, Typed
  <2>2. one \in Lists
    <3> HIDE DEF removed, mate
    <3> QED
      BY <1>a, <1>d, <2>1, PushFree
  <2>3. order_push(one, call.cur, call.block) \in Lists
    <3> HIDE DEF one
    <3> QED
      BY <1>a, <2>2, PushFree
  <2>4. s \in Stats
    BY <1>d, StatsTypes DEF Typed
  <2>5. dealloc_stats(s, 2^call.cur * 2) \in Stats
    <3> HIDE DEF s
    <3> QED
      BY <1>d, <2>4, StatsTypes
  <2> QED
    BY <1>14, <1>b, <2>3, <2>5, CallTypes DEF PutBackBoth, size_for_order, Return, Typed
<1> QED
  BY <1>1, <1>2, <1>3, <1>4, <1>5, <1>6, <1>7, <1>8, <1>9, <1>10, <1>11,
     <1>12, <1>13, <1>14 DEF BuddyStep, Run

\* The regions that were added are among the listed ones.
Listed == added \subseteq Regions

\* Types and regions hold at the start, and every step keeps them.
LEMMA TypesKept ==
    /\ Init => Typed /\ Listed
    /\ Typed /\ Listed /\ [Next]_vars => (Typed /\ Listed)'
<1>1. Init => Typed /\ Listed
  BY InitTypeOK DEF Init, Listed
<1>2. ASSUME Typed, Listed, [Next]_vars
      PROVE  (Typed /\ Listed)'
  <2>1. Listed'
    BY <1>2 DEF Listed, Next, Run, vars, AddRegionTooSmall, AddRegion, AddSingleRegion,
                AllocateTooLarge, Allocate, SearchUp, Pop, Split, HandOut,
                Deallocate, PutBack, Merge, PutBackBoth
  <2>2. \A r \in added' : RegionOK(r)
    BY <2>1, RegionsAssumption DEF Listed, RegionOK
  <2> QED
    BY <1>2, <2>1, <2>2, NextIsStep, StepTypeOK
<1> QED
  BY <1>1, <1>2

\* Every value the allocator keeps has its type: in particular the recursion
\* of allocate and deallocate never leaves the array of free lists.
THEOREM TypeCorrect == Spec => []TypeOK
<1>1. Typed /\ Listed => TypeOK
  BY DEF Typed, Listed, TypeOK, Lists, Stats, Calls
<1> QED
  BY <1>1, TypesKept, PTL DEF Spec

-----------------------------------------------------------------------------
(* Blocks in three places: free, handed out, in hand *)

BlockSet == [block : Nat, order : Orders]

Apart(S) == \A x, y \in S : x # y => Disjoint(x, y)

\* NoOverlap without the lists.
Layout(F, L, H) == /\ Apart(F \cup L \cup H)
                   /\ F \cap L = {}
                   /\ H \cap (F \cup L) = {}

\* A block of first page b and order o, and its pages.
LEMMA BlockIn ==
    ASSUME NEW b \in Nat, NEW o \in Orders
    PROVE  /\ Block(b, o) \in BlockSet
           /\ Pages(Block(b, o)) = b .. (b + 2^o - 1)
BY DEF Block, BlockSet, Pages

\* Every block has a page.
LEMMA NonEmpty == \A x \in BlockSet : Pages(x) # {}
<1> SUFFICES ASSUME NEW x \in BlockSet PROVE x.block \in Pages(x)
  OBVIOUS
<1>1. x.block \in Nat /\ x.order \in Orders
  BY DEF BlockSet
<1>2. 2^x.order \in Nat \ {0}
  BY <1>1, PowersOfTwo
<1> QED
  BY <1>1, <1>2 DEF Pages

\* A block of an order above 0 is its two halves.
LEMMA Halves ==
    ASSUME NEW b \in Nat, NEW o \in Orders, o > 0
    PROVE  LET x    == Block(b, o)
               low  == Block(b, o - 1)
               high == Block(b + 2^(o - 1), o - 1)
           IN  /\ low \in BlockSet /\ high \in BlockSet
               /\ Pages(x) = Pages(low) \cup Pages(high)
               /\ Disjoint(low, high)
<1>1. o - 1 \in Orders /\ 2^o = 2 * 2^(o - 1) /\ 2^(o - 1) \in Nat \ {0}
  BY OrderSizes
<1>2. b + 2^(o - 1) \in Nat
  BY <1>1
<1>3. /\ Pages(Block(b, o)) = b .. (b + 2^o - 1)
      /\ Pages(Block(b, o - 1)) = b .. (b + 2^(o - 1) - 1)
      /\ Pages(Block(b + 2^(o - 1), o - 1))
            = (b + 2^(o - 1)) .. ((b + 2^(o - 1)) + 2^(o - 1) - 1)
      /\ Block(b, o - 1) \in BlockSet
      /\ Block(b + 2^(o - 1), o - 1) \in BlockSet
  BY <1>1, <1>2, BlockIn
<1>4. ASSUME NEW n \in Nat \ {0}
      PROVE  /\ b .. (b + 2 * n - 1) = (b .. (b + n - 1)) \cup ((b + n) .. ((b + n) + n - 1))
             /\ (b .. (b + n - 1)) \cap ((b + n) .. ((b + n) + n - 1)) = {}
  OBVIOUS
<1> QED
  BY <1>1, <1>3, <1>4 DEF Disjoint

\* A block moves between being in hand and being free or handed out.
LEMMA LayoutMoves ==
    ASSUME NEW F, NEW L, NEW x
    PROVE  /\ Layout(F, L, {x}) => /\ Layout(F \cup {x}, L, {})
                                   /\ Layout(F, L \cup {x}, {})
                                   /\ x \notin F
           /\ Layout(F, L, {}) /\ x \in F => Layout(F \ {x}, L, {x})
           /\ Layout(F, L, {}) /\ x \in L => Layout(F, L \ {x}, {x})
BY DEF Layout, Apart

\* The block in hand is replaced by one half, the other half becomes free.
LEMMA LayoutSplit ==
    ASSUME NEW F, NEW L, NEW x, NEW y \in BlockSet, NEW z \in BlockSet,
           Layout(F, L, {x}), Disjoint(y, z),
           Pages(y) \subseteq Pages(x), Pages(z) \subseteq Pages(x)
    PROVE  Layout(F \cup {z}, L, {y}) /\ z \notin F
<1>1. \A w \in F \cup L : Disjoint(w, x)
  BY DEF Layout, Apart
<1>2. \A w \in F \cup L : Disjoint(w, y) /\ Disjoint(y, w) /\ Disjoint(w, z) /\ Disjoint(z, w)
  BY <1>1 DEF Disjoint
<1>3. Pages(y) # {} /\ Pages(z) # {}
  BY NonEmpty
<1>4. y \notin F \cup L /\ z \notin F \cup L /\ y # z
  BY <1>2, <1>3 DEF Disjoint
<1>5. Disjoint(z, y)
  BY DEF Disjoint
<1> QED
  BY <1>2, <1>4, <1>5 DEF Layout, Apart

\* The block in hand and a free block become one block in hand.
LEMMA LayoutMerge ==
    ASSUME NEW F, NEW L, NEW x, NEW y \in F, NEW z \in BlockSet,
           Layout(F, L, {x}), Pages(z) \subseteq Pages(x) \cup Pages(y)
    PROVE  Layout(F \ {y}, L, {z})
<1>1. \A w \in (F \ {y}) \cup L : Disjoint(w, x) /\ Disjoint(w, y)
  BY DEF Layout, Apart
<1>2. \A w \in (F \ {y}) \cup L : Disjoint(w, z) /\ Disjoint(z, w)
  BY <1>1 DEF Disjoint
<1>3. Pages(z) # {}
  BY NonEmpty
<1>4. z \notin (F \ {y}) \cup L
  BY <1>2, <1>3 DEF Disjoint
<1> QED
  BY <1>2, <1>4 DEF Layout, Apart

\* A block of fresh pages becomes free.
LEMMA LayoutAdd ==
    ASSUME NEW F, NEW L, NEW x \in BlockSet,
           Layout(F, L, {}), \A w \in F \cup L : Disjoint(w, x)
    PROVE  Layout(F \cup {x}, L, {}) /\ x \notin F
<1>1. Pages(x) # {}
  BY NonEmpty
<1>2. x \notin F \cup L /\ \A w \in F \cup L : Disjoint(x, w)
  BY <1>1 DEF Disjoint
<1> QED
  BY <1>2 DEF Layout, Apart

-----------------------------------------------------------------------------
(* No page is in two places *)

\* BlocksValid without the lists.
Good(S, A) == \A x \in S : x.block % 2^x.order = 0 /\ Pages(x) \subseteq A

Safe == NoOverlap /\ BlocksValid /\ CallInv

\* The invariant, as a statement about three sets of blocks.
LEMMA SafeParts ==
    Safe <=> /\ Distinct(orders)
             /\ Layout(FreeBlocks, live, InHand)
             /\ Good(FreeBlocks \cup live \cup InHand, AddedPages)
             /\ CallInv
BY DEF Safe, NoOverlap, BlocksValid, Layout, Good, Apart, AllBlocks

\* Where the next state has its blocks and what its call is about.
LEMMA SafeNext ==
    ASSUME Distinct(orders'), Layout(FreeBlocks', live', InHand'),
           Good(FreeBlocks' \cup live' \cup InHand', AddedPages'), CallInv'
    PROVE  Safe'
BY DEF Safe, NoOverlap, BlocksValid, Layout, Good, Apart, AllBlocks

\* The blocks that TypeOK speaks about are blocks.
LEMMA BlockTypes ==
    ASSUME Typed
    PROVE  /\ FreeBlocks \subseteq BlockSet
           /\ live \subseteq BlockSet
           /\ InHand \subseteq BlockSet
           /\ call.block \in Nat /\ call.cur \in Orders /\ call.arg \in Nat
           /\ Block(call.block, call.cur) \in BlockSet
<1>1. call.block \in Nat /\ call.cur \in Orders /\ call.arg \in Nat
  BY DEF Typed, Calls
<1>2. Block(call.block, call.cur) \in BlockSet
  BY <1>1, BlockIn
<1>3. FreeBlocks \subseteq BlockSet
  <2> SUFFICES ASSUME NEW x \in FreeIn(orders) PROVE x \in BlockSet
    BY DEF FreeBlocks
  <2> QED
    BY FreeInIff, BlockIn DEF Typed
<1> QED
  BY <1>1, <1>2, <1>3 DEF InHand, Typed, BlockSet

\* A step that leaves the lists and what is handed out as they are, holds the
\* same block as before, and does not run add_region.
LEMMA QuietStep ==
    ASSUME Safe, UNCHANGED <<orders, live>>, InHand' = InHand, added \subseteq added',
           call'.op # "add", call'.op \in {"search", "split"} => call'.arg <= call'.cur
    PROVE  Safe'
<1>1. FreeBlocks' = FreeBlocks /\ (Distinct(orders) => Distinct(orders'))
  BY DEF FreeBlocks
<1>2. AddedPages \subseteq AddedPages'
  BY DEF AddedPages
<1>3. CallInv'
  BY DEF CallInv
<1> QED
  BY <1>1, <1>2, <1>3, SafeParts, SafeNext DEF Good

\* add_region that refuses a region changes no block.
LEMMA SafeAddRegionTooSmall ==
    ASSUME Safe, NEW r, AddRegionTooSmall(r)
    PROVE  Safe'
<1>1. InHand' = InHand /\ call' = call /\ call.op = "idle"
  BY DEF AddRegionTooSmall, InHand, Idle
<1> QED
  BY <1>1, QuietStep DEF AddRegionTooSmall

\* The start of allocate changes no block.
LEMMA SafeAllocate ==
    ASSUME Typed, Safe, NEW o, AllocateTooLarge(o) \/ Allocate(o)
    PROVE  Safe'
<1>1. CASE AllocateTooLarge(o)
  <2>1. InHand' = InHand /\ call' = call /\ call.op = "idle"
    BY <1>1 DEF AllocateTooLarge, InHand, Idle
  <2> QED
    BY <1>1, <2>1, QuietStep DEF AllocateTooLarge
<1>2. CASE Allocate(o)
  <2>1. InHand' = InHand /\ call'.op = "search" /\ call'.arg <= call'.cur
    BY <1>2, OrderAssumption DEF Allocate, InHand, Idle, Orders
  <2> QED
    BY <1>2, <2>1, QuietStep DEF Allocate
<1> QED
  BY <1>1, <1>2

\* Going up one order in allocate changes no block.
LEMMA SafeSearchUp ==
    ASSUME Typed, Safe, SearchUp
    PROVE  Safe'
<1>0. call.block \in Nat /\ call.cur \in Nat /\ call.arg \in Nat /\ call.arg <= call.cur
  BY BlockTypes, OrderAssumption DEF SearchUp, Orders, Safe, CallInv
<1>1. CASE call.cur + 1 < MAX_ORDER
  <2>1. call' = [call EXCEPT !.cur = @ + 1]
    BY <1>1 DEF SearchUp
  <2>2. call'.op = "search" /\ call'.arg = call.arg /\ call'.cur = call.cur + 1
    BY <2>1 DEF SearchUp, Typed, Calls
  <2>3. InHand' = InHand
    BY <2>2 DEF InHand, SearchUp
  <2> QED
    BY <1>0, <2>2, <2>3, QuietStep DEF SearchUp
<1>2. CASE ~ (call.cur + 1 < MAX_ORDER)
  <2>1. InHand' = InHand /\ call'.op = "idle"
    BY <1>2 DEF SearchUp, Return, NoCall, InHand
  <2> QED
    BY <2>1, QuietStep DEF SearchUp
<1> QED
  BY <1>1, <1>2

\* The fast path of allocate takes a free block in hand.
LEMMA SafePop ==
    ASSUME Typed, Safe, Pop
    PROVE  Safe'
<1> DEFINE x == Block(Head(orders[call.cur]), call.cur)
<1>1. call.cur \in Orders /\ orders \in Lists /\ orders[call.cur] # <<>>
  BY BlockTypes DEF Pop, Typed
<1>2. Distinct(orders) /\ Layout(FreeBlocks, live, InHand)
  BY SafeParts
<1>3. InHand = {}
  BY DEF Pop, InHand
<1>4. /\ x \in FreeBlocks
      /\ FreeBlocks' = FreeBlocks \ {x}
      /\ Distinct(orders')
  BY <1>1, <1>2, PopFree DEF Pop, FreeBlocks
<1>5. /\ call'.op = "split" /\ call'.block = Head(orders[call.cur])
      /\ call'.cur = call.cur /\ call'.arg = call.arg
  BY DEF Pop, Typed, Calls
<1>6. InHand' = {x}
  BY <1>5 DEF InHand
<1>7. CallInv'
  BY <1>5, SafeParts DEF CallInv, Pop
<1>8. live' = live /\ AddedPages' = AddedPages
  BY DEF Pop, AddedPages
<1> HIDE DEF x
<1>9. Layout(FreeBlocks', live', InHand')
  BY <1>2, <1>3, <1>4, <1>6, <1>8, LayoutMoves
<1>10. Good(FreeBlocks' \cup live' \cup InHand', AddedPages')
  BY <1>4, <1>6, <1>8, SafeParts DEF Good
<1> QED
  BY <1>4, <1>7, <1>9, <1>10, SafeNext

\* allocate hands out the block in hand.
LEMMA SafeHandOut ==
    ASSUME Typed, Safe, HandOut
    PROVE  Safe'
<1> DEFINE x == Block(call.block, call.cur)
<1>1. InHand = {x} /\ InHand' = {} /\ live' = live \cup {x} /\ call'.op = "idle"
  BY DEF HandOut, InHand, Return, NoCall
<1>2. FreeBlocks' = FreeBlocks /\ AddedPages' = AddedPages /\ orders' = orders
  BY DEF HandOut, FreeBlocks, AddedPages
<1>3. CallInv'
  BY <1>1 DEF CallInv
<1> HIDE DEF x
<1>4. Layout(FreeBlocks', live', InHand')
  BY <1>1, <1>2, SafeParts, LayoutMoves
<1>5. Good(FreeBlocks' \cup live' \cup InHand', AddedPages')
  BY <1>1, <1>2, SafeParts DEF Good
<1> QED
  BY <1>2, <1>3, <1>4, <1>5, SafeParts, SafeNext

\* deallocate takes a block that was handed out in hand.
LEMMA SafeDeallocate ==
    ASSUME Typed, Safe, NEW x \in live, Deallocate(x)
    PROVE  Safe'
<1>1. x = Block(x.block, x.order)
  BY DEF Typed, Block
<1>2. InHand = {} /\ live' = live \ {x} /\ call'.op = "merge"
  BY DEF Deallocate, Idle, InHand
<1>3. InHand' = {x}
  BY <1>1 DEF Deallocate, InHand
<1>4. FreeBlocks' = FreeBlocks /\ AddedPages' = AddedPages /\ orders' = orders
  BY DEF Deallocate, FreeBlocks, AddedPages
<1>5. CallInv'
  BY <1>2 DEF CallInv
<1>6. Layout(FreeBlocks', live', InHand')
  BY <1>2, <1>3, <1>4, SafeParts, LayoutMoves
<1>7. Good(FreeBlocks' \cup live' \cup InHand', AddedPages')
  BY <1>2, <1>3, <1>4, SafeParts DEF Good
<1> QED
  BY <1>4, <1>5, <1>6, <1>7, SafeParts, SafeNext

\* The block in hand is given up (the error of a null buddy).
LEMMA SafeGiveUp ==
    ASSUME Safe, UNCHANGED <<orders, live, added>>, call'.op = "idle"
    PROVE  Safe'
<1>1. InHand' = {}
  BY DEF InHand
<1>2. FreeBlocks' = FreeBlocks /\ AddedPages' = AddedPages
  BY DEF FreeBlocks, AddedPages
<1>3. CallInv'
  BY DEF CallInv
<1>4. Layout(FreeBlocks', live', InHand')
  BY <1>1, <1>2, SafeParts DEF Layout, Apart
<1>5. Good(FreeBlocks' \cup live' \cup InHand', AddedPages')
  BY <1>1, <1>2, SafeParts DEF Good
<1> QED
  BY <1>3, <1>4, <1>5, SafeParts, SafeNext

\* deallocate puts the block in hand into its list.
LEMMA SafePutBack ==
    ASSUME Typed, Safe, PutBack
    PROVE  Safe'
<1> DEFINE x == Block(call.block, call.cur)
<1>1. InHand = {x} /\ call'.op = "idle" /\ live' = live /\ added' = added
  BY DEF PutBack, InHand, Return, NoCall
<1>2. CASE buddy_of(call.block, call.cur) = 0
  BY <1>1, <1>2, SafeGiveUp DEF PutBack
<1>3. CASE buddy_of(call.block, call.cur) # 0
  <2>1. orders' = order_push(orders, call.cur, call.block)
    BY <1>3 DEF PutBack
  <2>2. x \notin FreeBlocks /\ Layout(FreeBlocks \cup {x}, live, {})
    <3> HIDE DEF x
    <3> QED
      BY <1>1, SafeParts, LayoutMoves
  <2>3. FreeBlocks' = FreeBlocks \cup {x} /\ Distinct(orders')
    BY <2>1, <2>2, BlockTypes, PushFree, SafeParts DEF FreeBlocks, Typed
  <2>4. InHand' = {} /\ CallInv' /\ AddedPages' = AddedPages
    BY <1>1 DEF InHand, CallInv, AddedPages
  <2> HIDE DEF x
  <2>5. Good(FreeBlocks' \cup live' \cup InHand', AddedPages')
    BY <1>1, <2>3, <2>4, SafeParts DEF Good
  <2> QED
    BY <1>1, <2>2, <2>3, <2>4, <2>5, SafeNext
<1> QED
  BY <1>2, <1>3

\* The slow path of allocate: the alignment of the block makes its buddy at the
\* lower order its upper half.
LEMMA SafeSplit ==
    ASSUME Typed, Safe, Split
    PROVE  Safe'
<1> DEFINE b == call.block
           order == call.cur - 1
           x == Block(b, call.cur)
           low == Block(b, order)
           high == Block(b + 2^order, order)
<1>1. /\ b \in Nat /\ call.cur \in Orders /\ call.cur > 0 /\ call.cur > call.arg
      /\ call.arg \in Nat /\ call.cur \in Nat
  BY BlockTypes, OrderAssumption DEF Split, Orders
<1>2. order \in Orders /\ 2^call.cur = 2 * 2^order /\ 2^order \in Nat \ {0}
  BY <1>1, OrderSizes
<1>3. InHand = {x} /\ live' = live /\ added' = added
  BY DEF Split, InHand
<1>4. x.block = b /\ x.order = call.cur
  BY BlockFields
<1>5. b % 2^call.cur = 0 /\ Pages(x) \subseteq AddedPages
  BY <1>3, <1>4, SafeParts DEF Good
<1>6. b % 2^order = 0 /\ (b \div 2^order) % 2 = 0 /\ (b + 2^order) % 2^order = 0
  BY <1>1, <1>2, <1>5, HalvesAligned
<1>7. buddy_of(b, order) = b + 2^order /\ buddy_of(b, order) # 0 /\ b + 2^order \in Nat
  BY <1>1, <1>2, <1>6 DEF buddy_of, size_for_order
<1>8. /\ low \in BlockSet /\ high \in BlockSet /\ Disjoint(low, high)
      /\ Pages(low) \subseteq Pages(x) /\ Pages(high) \subseteq Pages(x)
  BY <1>1, Halves
<1>9. /\ orders' = order_push(orders, order, b + 2^order)
      /\ call' = [call EXCEPT !.cur = order]
  BY <1>7 DEF Split
<1>10. call'.op = "split" /\ call'.block = b /\ call'.cur = order /\ call'.arg = call.arg
  BY <1>9 DEF Split, Typed, Calls
<1>11. InHand' = {low} /\ AddedPages' = AddedPages
  BY <1>3, <1>10 DEF InHand, AddedPages
<1>12. CallInv'
  BY <1>1, <1>10 DEF CallInv
<1>13. Layout(FreeBlocks \cup {high}, live, {low}) /\ high \notin FreeBlocks
  <2> HIDE DEF x, low, high
  <2> QED
    BY <1>3, <1>8, SafeParts, LayoutSplit
<1>14. FreeBlocks' = FreeBlocks \cup {high} /\ Distinct(orders')
  BY <1>2, <1>7, <1>9, <1>13, PushFree, SafeParts DEF FreeBlocks, Typed
<1>15. /\ low.block % 2^low.order = 0 /\ high.block % 2^high.order = 0
       /\ Pages(low) \subseteq AddedPages /\ Pages(high) \subseteq AddedPages
  BY <1>5, <1>6, <1>8, BlockFields
<1> HIDE DEF x, low, high
<1>16. Good(FreeBlocks' \cup live' \cup InHand', AddedPages')
  BY <1>3, <1>11, <1>14, <1>15, SafeParts DEF Good
<1> QED
  BY <1>3, <1>11, <1>12, <1>13, <1>14, <1>16, SafeNext

\* An aligned block and its buddy are the halves of an aligned block one order
\* up, which starts at the lower of the two.
LEMMA BuddiesDouble ==
    ASSUME NEW b \in Nat, NEW o \in Orders, o + 1 \in Orders, b % 2^o = 0
    PROVE  LET mate == buddy_of(b, o)
               low  == IF mate < b THEN mate ELSE b
           IN  /\ mate \in Nat /\ low \in Nat
               /\ low % 2^(o + 1) = 0
               /\ Pages(Block(low, o + 1)) = Pages(Block(b, o)) \cup Pages(Block(mate, o))
<1> DEFINE mate == buddy_of(b, o)
           low == IF mate < b THEN mate ELSE b
<1>1. /\ o \in Nat /\ o + 1 > 0 /\ (o + 1) - 1 = o
      /\ 2^(o + 1) = 2 * 2^o /\ 2^o \in Nat \ {0}
  BY PowersOfTwo, OrderAssumption DEF Orders
<1>2. CASE (b \div 2^o) % 2 = 0
  <2>1. mate = b + 2^o /\ low = b /\ mate \in Nat
    BY <1>1, <1>2 DEF buddy_of, size_for_order
  <2>2. b % 2^(o + 1) = 0
    BY <1>1, <1>2, EvenDoubles
  <2>3. Pages(Block(b, o + 1)) = Pages(Block(b, o)) \cup Pages(Block(b + 2^o, o))
    BY <1>1, Halves
  <2> HIDE DEF mate, low
  <2> QED
    BY <2>1, <2>2, <2>3 DEF mate, low
<1>3. CASE (b \div 2^o) % 2 # 0
  <2>1. b >= 2^o /\ (b - 2^o) % 2^(o + 1) = 0
    BY <1>1, <1>3, OddDoubles
  <2>2. /\ mate = b - 2^o /\ low = mate /\ mate \in Nat /\ mate + 2^o = b
    BY <1>1, <1>3, <2>1 DEF buddy_of, size_for_order
  <2> HIDE DEF mate, low
  <2>3. Pages(Block(mate, o + 1)) = Pages(Block(mate, o)) \cup Pages(Block(mate + 2^o, o))
    BY <1>1, <2>2, Halves
  <2>4. Pages(Block(low, o + 1)) = Pages(Block(b, o)) \cup Pages(Block(mate, o))
    BY <2>2, <2>3
  <2> QED
    BY <2>1, <2>2, <2>4 DEF mate, low
<1> QED
  BY <1>2, <1>3

\* deallocate takes the free buddy out of its list and holds both as one block.
LEMMA SafeMerge ==
    ASSUME Typed, Safe, Merge
    PROVE  Safe'
<1> DEFINE b == call.block
           o == call.cur
           mate == buddy_of(b, o)
           low == IF mate < b THEN mate ELSE b
           x == Block(b, o)
           y == Block(mate, o)
           z == Block(low, o + 1)
<1>1. b \in Nat /\ o \in Orders /\ o + 1 \in Orders
  BY BlockTypes, OrderAssumption DEF Merge, Orders
<1>2. InHand = {x} /\ live' = live /\ added' = added
  BY DEF Merge, InHand
<1>3. b % 2^o = 0 /\ Pages(x) \subseteq AddedPages
  <2>1. x.block = b /\ x.order = o
    BY BlockFields
  <2> QED
    BY <1>2, <2>1, SafeParts DEF Good
<1>4. /\ mate \in Nat /\ low \in Nat /\ low % 2^(o + 1) = 0
      /\ Pages(z) = Pages(x) \cup Pages(y)
  BY <1>1, <1>3, BuddiesDouble
<1>5. InList(orders[o], mate) /\ orders' = order_remove(orders, o, mate)
  BY DEF Merge
<1>6. y \in FreeBlocks /\ FreeBlocks' = FreeBlocks \ {y} /\ Distinct(orders')
  BY <1>1, <1>5, RemoveFree, SafeParts DEF FreeBlocks, Typed
<1>7. call' = [call EXCEPT !.block = low, !.cur = @ + 1]
  BY DEF Merge
<1>8. z \in BlockSet /\ z.block = low /\ z.order = o + 1
  <2> HIDE DEF low
  <2> QED
    BY <1>1, <1>4, BlockIn, BlockFields
<1>9. call'.op = "merge" /\ call'.block = low /\ call'.cur = o + 1
  <2> HIDE DEF low
  <2> QED
    BY <1>7 DEF Merge, Typed, Calls
<1>10. InHand' = {z} /\ AddedPages' = AddedPages /\ CallInv'
  BY <1>2, <1>9 DEF InHand, AddedPages, CallInv
<1> HIDE DEF x, y, z, low, mate
<1>11. Layout(FreeBlocks', live', InHand')
  BY <1>2, <1>4, <1>6, <1>8, <1>10, SafeParts, LayoutMerge
<1>12. Good(FreeBlocks' \cup live' \cup InHand', AddedPages')
  BY <1>2, <1>3, <1>4, <1>6, <1>8, <1>10, SafeParts DEF Good
<1> QED
  BY <1>6, <1>10, <1>11, <1>12, SafeNext

\* deallocate at the largest order takes the buddy out and puts both back.
LEMMA SafePutBackBoth ==
    ASSUME Typed, Safe, PutBackBoth
    PROVE  Safe'
<1> DEFINE b == call.block
           o == call.cur
           mate == buddy_of(b, o)
           x == Block(b, o)
           y == Block(mate, o)
           removed == order_remove(orders, o, mate)
           one == order_push(removed, o, mate)
<1>1. b \in Nat /\ o \in Orders /\ mate \in Nat
  BY BlockTypes, BuddyNat
<1>2. InHand = {x} /\ live' = live /\ added' = added
  BY DEF PutBackBoth, InHand
<1>3. InList(orders[o], mate) /\ orders' = order_push(one, o, b)
  BY DEF PutBackBoth
<1>4. /\ removed \in Lists /\ y \in FreeBlocks /\ Distinct(removed)
      /\ FreeIn(removed) = FreeBlocks \ {y}
  BY <1>1, <1>3, RemoveFree, SafeParts DEF FreeBlocks, Typed
<1> HIDE DEF removed, mate
<1>5. one \in Lists /\ Distinct(one) /\ FreeIn(one) = FreeBlocks
  <2>1. /\ one \in Lists
        /\ FreeIn(one) = FreeIn(removed) \cup {y}
        /\ Distinct(removed) /\ y \notin FreeIn(removed) => Distinct(one)
    BY <1>1, <1>4, PushFree
  <2> HIDE DEF one, y
  <2> QED
    BY <1>4, <2>1
<1> HIDE DEF one
<1>6. x \notin FreeBlocks /\ Layout(FreeBlocks \cup {x}, live, {})
  <2> HIDE DEF x
  <2> QED
    BY <1>2, SafeParts, LayoutMoves
<1>7. FreeBlocks' = FreeBlocks \cup {x} /\ Distinct(orders')
  BY <1>1, <1>3, <1>5, <1>6, PushFree DEF FreeBlocks
<1>8. call'.op = "idle"
  BY DEF PutBackBoth, Return, NoCall
<1>9. InHand' = {} /\ CallInv' /\ AddedPages' = AddedPages
  BY <1>2, <1>8 DEF InHand, CallInv, AddedPages
<1> HIDE DEF x, y
<1>10. Good(FreeBlocks' \cup live' \cup InHand', AddedPages')
  BY <1>2, <1>7, <1>9, SafeParts DEF Good
<1> QED
  BY <1>2, <1>6, <1>7, <1>9, <1>10, SafeNext

\* A region that add_region may be called with: its pages are not in a region
\* that was added before, and it does not start one page behind a multiple of
\* four pages.
Admissible(r) == /\ RegionOK(r)
                 /\ MAX_ORDER = 1 \/ FirstPage(r) % 4 # 1
                 /\ AddedPages \cap RegionPages(r) = {}

\* add_region starts with a region whose pages are in no block, since regions do
\* not overlap.
LEMMA SafeAddRegion ==
    ASSUME Typed, Safe, NEW r, Admissible(r), AddRegion(r)
    PROVE  Safe'
<1>1. /\ InHand = {} /\ InHand' = {} /\ live' = live /\ orders' = orders
      /\ added' = added \cup {r}
  BY DEF AddRegion, Idle, InHand, Typed
<1>2. FreeBlocks' = FreeBlocks /\ AddedPages \subseteq AddedPages'
  BY <1>1 DEF FreeBlocks, AddedPages
<1>3. AddedPages \cap RegionPages(r) = {}
  BY DEF Admissible
<1>4. /\ call'.op = "add" /\ call'.block = FirstPage(r) /\ call'.arg = EndPage(r)
      /\ FirstPage(r) < EndPage(r) /\ FirstPage(r) \in Nat /\ EndPage(r) \in Nat
  BY DEF AddRegion, Admissible, RegionOK
<1>5. call'.block .. call'.arg - 1 = RegionPages(r)
  BY <1>4 DEF RegionPages
<1>6. AllBlocks' = AllBlocks /\ \A x \in AllBlocks : Pages(x) \subseteq AddedPages
  BY <1>1, <1>2, SafeParts DEF AllBlocks, Good
<1>7. \A x \in AllBlocks' : Pages(x) \cap (call'.block .. call'.arg - 1) = {}
  BY <1>3, <1>5, <1>6
<1>8. CallInv'
  BY <1>1, <1>4, <1>7 DEF CallInv, Admissible
<1>9. Layout(FreeBlocks', live', InHand')
  BY <1>1, <1>2, SafeParts
<1>10. Good(FreeBlocks' \cup live' \cup InHand', AddedPages')
  BY <1>1, <1>2, SafeParts DEF Good
<1> QED
  BY <1>1, <1>8, <1>9, <1>10, SafeParts, SafeNext

\* What add_single_region puts into the lists: an aligned block at the start of
\* the rest of the region.  The rest after it is not one page behind a multiple
\* of four either.
LEMMA AddedBlock ==
    ASSUME NEW b \in Nat, NEW end \in Nat, b < end, MAX_ORDER = 1 \/ b % 4 # 1
    PROVE  LET k == region_order(b, end)
           IN  /\ k \in Orders /\ 2^k \in Nat \ {0}
               /\ b % 2^k = 0
               /\ b + 2^k <= end
               /\ b + 2^k < end => MAX_ORDER = 1 \/ (b + 2^k) % 4 # 1
<1> DEFINE k == region_order(b, end)
<1>1. /\ k \in Orders
      /\ \A j \in 1 .. k : Grows(b, end, j)
      /\ k = MAX_ORDER - 1 \/ ~ Grows(b, end, k + 1)
  BY RegionOrder
<1> HIDE DEF k
<1>2. /\ 2^k \in Nat \ {0} /\ k \in Nat /\ k <= MAX_ORDER - 1
      /\ 2^0 = 1 /\ MAX_ORDER \in Nat \ {0}
  BY <1>1, OrderAssumption, PowersOfTwo DEF Orders
<1>3. 2^1 = 2
  <2>1. 0 \in Orders /\ 0 + 1 = 1
    BY OrderAssumption DEF Orders
  <2> QED
    BY <2>1, PowersOfTwo
<1>4. ASSUME NEW j \in 1 .. k
      PROVE  (b \div 2^j) % 2 = 0 /\ b + 2^j <= end
  <2>1. j \in Orders
    BY <1>1, <1>2, OrderAssumption DEF Orders
  <2>2. 2^j \in Nat \ {0}
    BY <2>1, PowersOfTwo
  <2>3. b + 2^j <= end /\ b <= buddy_of(b, j)
    BY <1>1 DEF Grows, size_for_order
  <2> QED
    BY <2>2, <2>3 DEF buddy_of, size_for_order
<1>5. CASE k = 0
  <2>1. 2^k = 1
    BY <1>2, <1>5
  <2>2. b % 1 = 0 /\ b + 1 <= end
    OBVIOUS
  <2>3. ASSUME b + 1 < end, MAX_ORDER # 1
        PROVE  (b + 1) % 4 # 1
    <3>1. ~ Grows(b, end, 1)
      BY <1>1, <1>2, <1>5, <2>3
    <3>2. CASE b % 4 = 0
      <4>1. (b \div 2) % 2 = 0
        BY <3>2
      <4>2. buddy_of(b, 1) = b + 2
        BY <1>3, <4>1 DEF buddy_of, size_for_order
      <4> QED
        BY <1>3, <2>3, <3>1, <4>2 DEF Grows, size_for_order
    <3>3. CASE b % 4 # 0
      BY <3>3
    <3> QED
      BY <3>2, <3>3
  <2> QED
    BY <1>1, <2>1, <2>2, <2>3 DEF k
<1>6. CASE k > 0
  <2>1. b % 4 = 0
    <3>1. 1 \in 1 .. k /\ MAX_ORDER # 1
      BY <1>2, <1>6
    <3>2. (b \div 2) % 2 = 0
      BY <1>3, <1>4, <3>1
    <3> QED
      BY <3>1, <3>2
  <2>2. b % 2^k = 0
    <3>1. b % 2 = 0
      BY <2>1
    <3> QED
      BY <1>1, <1>4, <3>1, ClearBits
  <2>3. k \in 1 .. k
    BY <1>2, <1>6
  <2>4. 2^k = 2 * 2^(k - 1) /\ 2^(k - 1) \in Nat
    BY <1>1, <1>6, OrderSizes
  <2>5. (b + 2^k) % 4 # 1
    BY <2>1, <2>4
  <2> QED
    BY <1>1, <1>2, <1>4, <2>2, <2>3, <2>5 DEF k
<1> QED
  BY <1>2, <1>5, <1>6

\* add_single_region puts a block of fresh pages into a list.
LEMMA SafeAddSingleRegion ==
    ASSUME Typed, Safe, AddSingleRegion
    PROVE  Safe'
<1> DEFINE b == call.block
           end == call.arg
           k == region_order(b, end)
           x == Block(b, k)
<1>1. /\ b \in Nat /\ end \in Nat /\ b < end
      /\ MAX_ORDER = 1 \/ b % 4 # 1
      /\ \A w \in AllBlocks : Pages(w) \cap (b .. end - 1) = {}
  BY BlockTypes, SafeParts DEF AddSingleRegion, CallInv
<1>2. PICK r \in added : FirstPage(r) <= b /\ end = EndPage(r)
  BY SafeParts DEF AddSingleRegion, CallInv
<1>3. /\ k \in Orders /\ 2^k \in Nat \ {0} /\ b % 2^k = 0 /\ b + 2^k <= end
      /\ b + 2^k < end => MAX_ORDER = 1 \/ (b + 2^k) % 4 # 1
  BY <1>1, AddedBlock
<1> HIDE DEF k
<1>4. InHand = {} /\ live' = live /\ added' = added
  BY DEF AddSingleRegion, InHand
<1>5. CASE NullBuddy(b, end)
  BY <1>4, <1>5, SafeGiveUp DEF AddSingleRegion, Return, NoCall
<1>6. CASE ~ NullBuddy(b, end)
  <2>1. /\ orders' = order_push(orders, k, b)
        /\ IF b + 2^k < end
           THEN call' = [call EXCEPT !.block = b + 2^k]
           ELSE call' = NoCall
    BY <1>6 DEF AddSingleRegion, k, size_for_order, Return
  <2>2. x \in BlockSet /\ Pages(x) = b .. (b + 2^k - 1) /\ x.block = b /\ x.order = k
    BY <1>1, <1>3, BlockIn, BlockFields
  <2>3. Pages(x) \subseteq b .. end - 1
    BY <1>1, <1>3, <2>2
  <2>4. b .. end - 1 \subseteq AddedPages
    <3>1. FirstPage(r) \in Nat
      BY <1>2 DEF Typed, RegionOK
    <3>2. b .. end - 1 \subseteq RegionPages(r)
      BY <1>1, <1>2, <3>1 DEF RegionPages
    <3> QED
      BY <1>2, <3>2 DEF AddedPages
  <2>5. \A w \in FreeBlocks \cup live : Disjoint(w, x)
    BY <1>1, <2>3 DEF Disjoint, AllBlocks
  <2>6. x \notin FreeBlocks /\ Layout(FreeBlocks \cup {x}, live, {})
    <3> HIDE DEF x
    <3> QED
      BY <1>4, <2>2, <2>5, SafeParts, LayoutAdd
  <2>7. FreeBlocks' = FreeBlocks \cup {x} /\ Distinct(orders')
    BY <1>1, <1>3, <2>1, <2>6, PushFree, SafeParts DEF FreeBlocks, Typed
  <2>8. InHand' = {} /\ AddedPages' = AddedPages
    <3>1. call'.op \in {"add", "idle"}
      BY <2>1 DEF AddSingleRegion, NoCall, Typed, Calls
    <3> QED
      BY <1>4, <3>1 DEF InHand, AddedPages
  <2> HIDE DEF x
  <2>9. CallInv'
    <3>1. CASE b + 2^k < end
      <4>1. call'.op = "add" /\ call'.block = b + 2^k /\ call'.arg = end
        BY <2>1, <3>1 DEF AddSingleRegion, Typed, Calls
      <4>2. FirstPage(r) <= b + 2^k /\ r \in added'
        <5>1. FirstPage(r) \in Nat
          BY <1>2 DEF Typed, RegionOK
        <5> QED
          BY <1>1, <1>2, <1>3, <1>4, <5>1
      <4>3. ((b + 2^k) .. end - 1) \subseteq b .. end - 1
            /\ Pages(x) \cap ((b + 2^k) .. end - 1) = {}
        BY <1>1, <1>3, <2>2
      <4>4. \A w \in AllBlocks' : Pages(w) \cap ((b + 2^k) .. end - 1) = {}
        <5>1. AllBlocks' = AllBlocks \cup {x}
          BY <1>4, <2>7, <2>8 DEF AllBlocks
        <5> QED
          BY <1>1, <4>3, <5>1
      <4> QED
        BY <1>2, <1>3, <3>1, <4>1, <4>2, <4>4 DEF CallInv
    <3>2. CASE ~ (b + 2^k < end)
      <4>1. call'.op = "idle"
        BY <2>1, <3>2 DEF NoCall
      <4> QED
        BY <4>1 DEF CallInv
    <3> QED
      BY <3>1, <3>2
  <2>10. Good(FreeBlocks' \cup live' \cup InHand', AddedPages')
    BY <1>3, <1>4, <2>2, <2>3, <2>4, <2>7, <2>8, SafeParts DEF Good
  <2> QED
    BY <1>4, <2>6, <2>7, <2>8, <2>9, <2>10, SafeNext
<1> QED
  BY <1>5, <1>6

\* The invariant holds at the start.
LEMMA InitSafe == Init => Safe
<1> SUFFICES ASSUME Init PROVE Safe
  OBVIOUS
<1>1. \A o \in Orders : orders[o] = <<>>
  BY DEF Init
<1>2. DOMAIN <<>> = {}
  OBVIOUS
<1>3. FreeBlocks = {} /\ Distinct(orders)
  BY <1>1, <1>2 DEF FreeBlocks, FreeIn, Distinct
<1>4. live = {} /\ InHand = {} /\ CallInv
  BY DEF Init, InHand, CallInv, NoCall
<1> QED
  BY <1>3, <1>4, SafeParts DEF Layout, Good, Apart

\* Every step keeps the invariant.
LEMMA StepSafe ==
    ASSUME Typed, Safe, [BuddyStep]_vars, \A r : AddRegion(r) => Admissible(r)
    PROVE  Safe'
<1>1. CASE UNCHANGED vars
  BY <1>1 DEF vars, Safe, NoOverlap, BlocksValid, CallInv, AllBlocks, FreeBlocks,
              InHand, AddedPages
<1>2. ASSUME NEW r, AddRegionTooSmall(r) \/ AddRegion(r) PROVE Safe'
  BY <1>2, SafeAddRegionTooSmall, SafeAddRegion
<1>3. ASSUME NEW o, AllocateTooLarge(o) \/ Allocate(o) PROVE Safe'
  BY <1>3, SafeAllocate
<1>4. ASSUME NEW x \in live, Deallocate(x) PROVE Safe'
  BY <1>4, SafeDeallocate
<1>5. CASE Run
  BY <1>5, SafeAddSingleRegion, SafeSearchUp, SafePop, SafeSplit, SafeHandOut,
     SafePutBack, SafeMerge, SafePutBackBoth DEF Run
<1> QED
  BY <1>1, <1>2, <1>3, <1>4, <1>5 DEF BuddyStep

\* Types, regions and blocks.
Sound == Typed /\ Listed /\ Safe

\* The regions that the specification adds are admissible, where none starts one
\* page behind a multiple of four.
LEMMA SoundAdds ==
    ASSUME RegionsAligned, Sound, [Next]_vars, NEW r, AddRegion(r)
    PROVE  Admissible(r)
<1>1. r \in Regions /\ r \notin added /\ added \subseteq Regions
  BY TypesKept DEF AddRegion, Sound, Listed
<1>2. AddedPages \cap RegionPages(r) = {}
  BY <1>1, RegionsAssumption DEF AddedPages
<1>3. RegionOK(r) /\ FirstPage(r) % 4 # 1
  BY <1>1, RegionsAssumption DEF RegionOK, AddRegion, RegionsAligned
<1> QED
  BY <1>2, <1>3 DEF Admissible

\* They hold at the start and every step keeps them.
LEMMA SoundKept ==
    ASSUME RegionsAligned
    PROVE  (Init => Sound) /\ (Sound /\ [Next]_vars => Sound')
<1>1. Init => Sound
  BY TypesKept, InitSafe DEF Sound
<1>2. ASSUME Sound, [Next]_vars
      PROVE  Sound'
  <2>1. \A r : AddRegion(r) => Admissible(r)
    BY <1>2, SoundAdds
  <2>2. Safe'
    BY <1>2, <2>1, NextIsStep, StepSafe DEF Sound
  <2> QED
    BY <1>2, <2>2, TypesKept DEF Sound
<1> QED
  BY <1>1, <1>2

\* IInv is inductive where no region starts one page behind a multiple of four.
THEOREM InductiveInvariant == RegionsAligned => (Spec => []IInv)
<1>1. Sound => IInv
  BY DEF Sound, Typed, Listed, Safe, IInv, TypeOK, Lists, Stats, Calls
<1>2. ASSUME RegionsAligned
      PROVE  Spec => []IInv
  <2>1. (Init => Sound) /\ (Sound /\ [Next]_vars => Sound')
    BY <1>2, SoundKept
  <2> QED
    BY <1>1, <2>1, PTL DEF Spec
<1> QED
  BY <1>2

\* For such regions no page is ever in two places, whatever blocks of whatever
\* order the callers allocate and free: the free lists, the blocks handed out
\* and the block that allocate or deallocate has in hand are pairwise disjoint,
\* and no free list has an entry twice.
THEOREM NoPageTwice == RegionsAligned => (Spec => []NoOverlap)
<1>1. IInv => NoOverlap
  BY DEF IInv
<1> QED
  BY <1>1, InductiveInvariant, PTL

\* And every block is aligned to its size and inside memory that was added, also
\* when deallocate merges buddies or allocate splits a block.
THEOREM BlocksStayValid == RegionsAligned => (Spec => []BlocksValid)
<1>1. IInv => BlocksValid
  BY DEF IInv
<1> QED
  BY <1>1, InductiveInvariant, PTL
=============================================================================
