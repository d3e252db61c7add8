--------------------------- MODULE PageTableProofs ---------------------------
(***************************************************************************)
(* Proofs about PageTable: the tables form a tree, translate sees exactly  *)
(* what was mapped, allocations stay mapped to pages of their own, and,    *)
(* for allocations of one page, no cached translation reaches a page that  *)
(* was given back.                                                         *)
(***************************************************************************)
EXTENDS PageTable, FiniteSetTheorems, WellFoundedInduction, TLAPS

-----------------------------------------------------------------------------
(* Arithmetic: a virtual page number as a sequence of digits *)

\* The number of the page of the given size that contains v.
High(v, l) == v \div FANOUT^l

Index == 0 .. FANOUT - 1

LEMMA NatMin ==
    ASSUME NEW T, T \subseteq Nat, T # {}
    PROVE  \E m \in T : \A n \in T : m <= n
<1>1. PICK m \in T : \A n \in T : ~ (<<n, m>> \in OpToRel(<, Nat))
  BY WFMin, NatLessThanWellFounded
<1>2. \A n \in T : ~ (n < m)
  BY <1>1, Zenon DEF OpToRel
<1>3. \A n \in T : n \in Nat
  OBVIOUS
<1> QED
  BY <1>2, <1>3

\* Induction from the top level down: what holds at the root and passes from
\* each level to the one below it holds at every level.
LEMMA LevelInduction ==
    ASSUME NEW S, LEVELS - 1 \in S,
           \A l \in Levels : l # LEVELS - 1 /\ l + 1 \in S => l \in S
    PROVE  Levels \subseteq S
<1> DEFINE T == {n \in Levels : LEVELS - 1 - n \notin S}
<1> SUFFICES ASSUME Levels \ S # {} PROVE FALSE
  OBVIOUS
<1>1. LEVELS \in Nat \ {0}
  BY PageTableAssumption
<1>2. T # {} /\ T \subseteq Nat
  <2>1. PICK l \in Levels : l \notin S
    OBVIOUS
  <2>2. LEVELS - 1 - l \in Levels /\ LEVELS - 1 - (LEVELS - 1 - l) = l
    BY <1>1 DEF Levels
  <2>3. LEVELS - 1 - l \in T
    BY <2>1, <2>2
  <2>4. T \subseteq Nat
    BY <1>1 DEF Levels
  <2> QED
    BY <2>3, <2>4
<1>3. PICK n \in T : \A m \in T : n <= m
  <2> HIDE DEF T
  <2> QED
    BY <1>2, NatMin
<1>4. n \in Levels /\ LEVELS - 1 - n \notin S
  BY <1>3
<1>5. n # 0
  BY <1>1, <1>4
<1>6. n - 1 \in Levels /\ LEVELS - 1 - (n - 1) = (LEVELS - 1 - n) + 1
      /\ LEVELS - 1 - n \in Levels /\ LEVELS - 1 - n # LEVELS - 1
  BY <1>1, <1>4, <1>5 DEF Levels
<1>7. LEVELS - 1 - (n - 1) \in S
  <2>1. n - 1 \notin T
    <3>1. ~ (n <= n - 1)
      BY <1>4 DEF Levels
    <3> HIDE DEF T
    <3> QED
      BY <1>3, <3>1
  <2> QED
    BY <1>6, <2>1
<1> QED
  BY <1>4, <1>6, <1>7

LEMMA Powers ==
    ASSUME NEW l \in 0 .. LEVELS
    PROVE  FANOUT^l \in Nat \ {0} /\ FANOUT^(l + 1) = FANOUT * FANOUT^l
BY PowersOfFanout

\* Quotient and rest are unique.
LEMMA DivUnique ==
    ASSUME NEW d \in Nat \ {0}, NEW q \in Int, NEW r \in 0 .. d - 1
    PROVE  (d * q + r) \div d = q /\ (d * q + r) % d = r
OBVIOUS

LEMMA NoRest ==
    ASSUME NEW d \in Nat \ {0}, NEW q \in Nat
    PROVE  (d * q) % d = 0
OBVIOUS

LEMMA MulDiv ==
    ASSUME NEW d \in Nat \ {0}, NEW q \in Nat
    PROVE  (q * d) \div d = q
<1>1. q * d = d * q + 0 /\ 0 \in 0 .. d - 1
  OBVIOUS
<1>2. d * q + 0 \in Nat
  OBVIOUS
<1> QED
  BY <1>1, <1>2, DivUnique

LEMMA DivSplit ==
    ASSUME NEW v \in Nat, NEW d \in Nat \ {0}
    PROVE  \E q \in Nat, r \in 0 .. d - 1 : v = d * q + r /\ v \div d = q /\ v % d = r
<1>1. v = d * (v \div d) + (v % d)
  OBVIOUS
<1>2. v % d \in 0 .. d - 1
  OBVIOUS
<1>3. v \div d \in Nat
  OBVIOUS
<1> QED
  BY <1>1, <1>2, <1>3

\* Multiplying by a positive number keeps the order.
LEMMA MulOrder ==
    ASSUME NEW h \in Nat \ {0}, NEW a \in Int, NEW c \in Int
    PROVE  (h * a <= h * c) <=> (a <= c)
<1>1. ASSUME NEW d \in Nat PROVE h * d >= 0 /\ (d > 0 => h * d > 0)
  OBVIOUS
<1>2. ASSUME a <= c PROVE h * a <= h * c
  <2>1. c - a \in Nat /\ h * c = h * a + h * (c - a)
    BY <1>2
  <2> QED
    BY <1>1, <2>1
<1>3. ASSUME c < a PROVE h * c < h * a
  <2>1. a - c \in Nat /\ a - c > 0 /\ h * a = h * c + h * (a - c)
    BY <1>3
  <2>2. h * (a - c) > 0
    BY <1>1, <2>1
  <2> QED
    BY <2>1, <2>2
<1> QED
  BY <1>2, <1>3

\* Division in two steps.
LEMMA DivDiv ==
    ASSUME NEW v \in Nat, NEW a \in Nat \ {0}, NEW f \in Nat \ {0}
    PROVE  v \div (f * a) = (v \div a) \div f
<1>1. PICK q \in Nat, r \in 0 .. a - 1 : v = a * q + r /\ v \div a = q
  BY DivSplit
<1>2. PICK p \in Nat, s \in 0 .. f - 1 : q = f * p + s /\ q \div f = p
  BY DivSplit
<1>3. a * s \in Nat /\ a * s <= a * (f - 1)
  BY <1>2, MulOrder
<1>4. a * q = a * (f * p) + a * s
  BY <1>1, <1>2
<1>5. a * (f * p) = (f * a) * p /\ a * (f - 1) = f * a - a
  BY <1>2
<1>6. f * a \in Nat \ {0}
  OBVIOUS
<1>7. (a * s + r) \in 0 .. (f * a) - 1 /\ v = (f * a) * p + (a * s + r)
  <2>1. ASSUME NEW x \in Nat, NEW y \in Nat, NEW z \in Nat, y <= x - a
        PROVE  (y + r) \in 0 .. x - 1 /\ (z + y) + r = z + (y + r)
    BY <2>1
  <2>2. f * a \in Nat /\ a * s \in Nat /\ (f * a) * p \in Nat /\ a * s <= f * a - a
    BY <1>2, <1>3, <1>5
  <2>3. v = ((f * a) * p + a * s) + r
    BY <1>1, <1>4, <1>5
  <2> QED
    BY <2>1, <2>2, <2>3
<1>8. v \div (f * a) = p
  <2> DEFINE d == f * a
             w == a * s + r
  <2>1. d \in Nat \ {0} /\ w \in 0 .. d - 1 /\ v = d * p + w
    BY <1>6, <1>7
  <2> HIDE DEF d, w
  <2>2. v \div d = p
    BY <1>2, <2>1, DivUnique
  <2> QED
    BY <2>2 DEF d
<1> QED
  BY <1>1, <1>2, <1>8

\* The digit of level l and the digits above it.
LEMMA Digits ==
    ASSUME NEW v \in Nat, NEW l \in Levels
    PROVE  /\ High(v, l) \in Nat /\ High(v, l + 1) \in Nat
           /\ vpn(v, l) \in Index
           /\ High(v, l) = FANOUT * High(v, l + 1) + vpn(v, l)
           /\ High(v, l + 1) = High(v, l) \div FANOUT
<1>1. FANOUT \in Nat \ {0} /\ LEVELS \in Nat \ {0}
  BY PageTableAssumption
<1>2. l \in 0 .. LEVELS /\ l + 1 \in 0 .. LEVELS
  BY <1>1 DEF Levels
<1>3. FANOUT^l \in Nat \ {0} /\ FANOUT^(l + 1) = FANOUT * FANOUT^l
  BY <1>2, Powers
<1>4. High(v, l) \in Nat
  BY <1>3, DivSplit DEF High
<1>5. High(v, l + 1) = High(v, l) \div FANOUT
  BY <1>1, <1>3, DivDiv DEF High
<1>6. vpn(v, l) = High(v, l) % FANOUT
  BY DEF vpn, High
<1>7. PICK q \in Nat, r \in 0 .. FANOUT - 1 :
           High(v, l) = FANOUT * q + r /\ High(v, l) \div FANOUT = q /\ High(v, l) % FANOUT = r
  BY <1>1, <1>4, DivSplit
<1> QED
  BY <1>4, <1>5, <1>6, <1>7 DEF Index

\* No digits are left above the root.
LEMMA NoDigitsAbove ==
    ASSUME NEW v \in VirtPages
    PROVE  High(v, LEVELS) = 0
<1>1. LEVELS \in 0 .. LEVELS
  BY PageTableAssumption
<1>2. FANOUT^LEVELS \in Nat \ {0}
  BY <1>1, Powers
<1>3. v \in 0 .. FANOUT^LEVELS - 1
  BY DEF VirtPages, MAX_ADDRESS
<1>4. (FANOUT^LEVELS * 0 + v) \div FANOUT^LEVELS = 0
  BY <1>2, <1>3, DivUnique
<1>5. FANOUT^LEVELS * 0 + v = v
  BY <1>2, <1>3
<1> QED
  BY <1>4, <1>5 DEF High

\* The pages of a mapping are those with the same digits from its level on.
LEMMA SpanIsHigh ==
    ASSUME NEW u \in Nat, NEW v \in Nat, NEW l \in 0 .. LEVELS
    PROVE  u \in Span(v, l) <=> High(u, l) = High(v, l)
<1> DEFINE s == FANOUT^l
<1>1. s \in Nat \ {0}
  BY Powers
<1>2. Span(v, l) = (v - (v % s)) .. (v - (v % s)) + s - 1
  BY DEF Span, Base, Offset, PageCount
<1>3. High(u, l) = u \div s /\ High(v, l) = v \div s
  BY DEF High
<1> HIDE DEF s
<1>4. PICK q \in Nat, r \in 0 .. s - 1 : v = s * q + r /\ v \div s = q /\ v % s = r
  BY <1>1, DivSplit
<1>5. PICK p \in Nat, t \in 0 .. s - 1 : u = s * p + t /\ u \div s = p /\ u % s = t
  BY <1>1, DivSplit
<1>6. s * q \in Nat /\ s * p \in Nat
  BY <1>1
<1>7. v - (v % s) = s * q
  BY <1>4, <1>6
<1>8. ASSUME u \in Span(v, l) PROVE p = q
  <2>1. s * q <= u /\ u < s * q + s
    BY <1>1, <1>2, <1>6, <1>7, <1>8
  <2>2. s * q < s * p + s /\ s * p < s * q + s
    BY <1>1, <1>5, <1>6, <2>1
  <2>3. s * p + s = s * (p + 1) /\ s * q + s = s * (q + 1)
    BY <1>1
  <2>4. ~ (s * (p + 1) <= s * q) /\ ~ (s * (q + 1) <= s * p)
    BY <1>1, <2>2, <2>3
  <2>5. ~ (p + 1 <= q) /\ ~ (q + 1 <= p)
    BY <1>1, <2>4, MulOrder
  <2> QED
    BY <2>5
<1>9. ASSUME p = q PROVE u \in Span(v, l)
  BY <1>1, <1>2, <1>5, <1>6, <1>7, <1>9
<1> QED
  BY <1>3, <1>4, <1>5, <1>8, <1>9

\* Spans nest: the pages of a mapping agree on all digits from its level on.
LEMMA HigherAgree ==
    ASSUME NEW u \in Nat, NEW v \in Nat, NEW l \in Levels, High(u, l) = High(v, l)
    PROVE  High(u, l + 1) = High(v, l + 1) /\ vpn(u, l) = vpn(v, l)
<1>1. vpn(u, l) = vpn(v, l)
  BY DEF vpn, High
<1> QED
  BY <1>1, Digits

LEMMA LowerAgree ==
    ASSUME NEW u \in Nat, NEW v \in Nat, NEW l \in Levels,
           High(u, l + 1) = High(v, l + 1), vpn(u, l) = vpn(v, l)
    PROVE  High(u, l) = High(v, l)
BY Digits

-----------------------------------------------------------------------------
(* Walks: the recursive definition TableAt, for any set of tables *)

\* The table that table t leads to on the way to v, -1 for none.
Down(T, v, t, l) ==
    LET e == T[t][vpn(v, l)] IN  IF t # -1 /\ kind(e) = "branch" THEN e.ppn ELSE -1

Walk(T, v) ==
    LET at[l \in Levels] ==
          IF l = LEVELS - 1 THEN Root
          ELSE LET above == at[l + 1]
                   e == T[above][vpn(v, l + 1)]
               IN  IF above # -1 /\ kind(e) = "branch" THEN e.ppn ELSE -1
    IN  at

LEMMA WalkIsTableAt ==
    ASSUME NEW v
    PROVE  TableAt(v) = Walk(tables, v) /\ TableAt(v)' = Walk(tables', v)
BY DEF TableAt, Walk

\* There is a function that satisfies the recursive definition.
LEMMA WalkExists ==
    ASSUME NEW T, NEW v
    PROVE  \E f : f = [l \in Levels |-> IF l = LEVELS - 1 THEN Root
                                        ELSE Down(T, v, f[l + 1], l + 1)]
<1> DEFINE Partial(f, n) ==
               f = [l \in n .. LEVELS - 1 |-> IF l = LEVELS - 1 THEN Root
                                              ELSE Down(T, v, f[l + 1], l + 1)]
           S == {n \in Levels : \E f : Partial(f, n)}
<1>1. LEVELS \in Nat \ {0} /\ 0 \in Levels /\ LEVELS - 1 \in Levels
  BY PageTableAssumption DEF Levels
<1>2. LEVELS - 1 \in S
  <2> DEFINE g == [l \in {LEVELS - 1} |-> Root]
  <2>1. (LEVELS - 1) .. LEVELS - 1 = {LEVELS - 1}
    BY <1>1
  <2>2. Partial(g, LEVELS - 1)
    BY <2>1
  <2> QED
    BY <1>1, <2>2
<1>3. ASSUME NEW n \in Levels, n # LEVELS - 1, n + 1 \in S
      PROVE  n \in S
  <2>1. PICK f : Partial(f, n + 1)
    BY <1>3
  <2> DEFINE g == [l \in n .. LEVELS - 1 |->
                      IF l = n THEN Down(T, v, f[n + 1], n + 1) ELSE f[l]]
  <2>2. ASSUME NEW l \in n .. LEVELS - 1
        PROVE  g[l] = IF l = LEVELS - 1 THEN Root ELSE Down(T, v, g[l + 1], l + 1)
    <3>1. CASE l = n
      <4>1. n + 1 \in n .. LEVELS - 1 /\ n + 1 # n
        BY <1>1, <1>3 DEF Levels
      <4>2. g[l] = Down(T, v, f[n + 1], n + 1) /\ g[n + 1] = f[n + 1]
        BY <3>1, <4>1
      <4> QED
        BY <1>3, <3>1, <4>2
    <3>2. CASE l # n
      <4>1. l \in (n + 1) .. LEVELS - 1
        BY <1>1, <3>2 DEF Levels
      <4>2. g[l] = f[l]
        BY <3>2
      <4>3. f[l] = IF l = LEVELS - 1 THEN Root ELSE Down(T, v, f[l + 1], l + 1)
        BY <2>1, <4>1
      <4>4. ASSUME l # LEVELS - 1 PROVE g[l + 1] = f[l + 1]
        <5>1. l + 1 \in n .. LEVELS - 1 /\ l + 1 # n
          BY <1>1, <4>1, <4>4 DEF Levels
        <5> QED
          BY <5>1
      <4> QED
        BY <4>2, <4>3, <4>4
    <3> QED
      BY <3>1, <3>2
  <2>3. Partial(g, n)
    <3>1. DOMAIN g = n .. LEVELS - 1
      OBVIOUS
    <3>2. g = [l \in n .. LEVELS - 1 |-> g[l]]
      OBVIOUS
    <3> HIDE DEF g
    <3> QED
      BY <2>2, <3>2
  <2> HIDE DEF Partial, g
  <2> QED
    BY <1>3, <2>3
<1>4. 0 \in S
  <2>1. Levels \subseteq S
    <3> HIDE DEF S
    <3> QED
      BY <1>2, <1>3, LevelInduction
  <2> HIDE DEF S
  <2> QED
    BY <1>1, <2>1
<1>5. PICK f : Partial(f, 0)
  BY <1>4
<1> QED
  BY <1>5 DEF Levels

\* So the recursion equation holds.
LEMMA WalkEquation ==
    ASSUME NEW T, NEW v
    PROVE  Walk(T, v) = [l \in Levels |-> IF l = LEVELS - 1 THEN Root
                                          ELSE Down(T, v, Walk(T, v)[l + 1], l + 1)]
<1>1. PICK f : f = [l \in Levels |-> IF l = LEVELS - 1 THEN Root
                                     ELSE Down(T, v, f[l + 1], l + 1)]
  BY WalkExists
<1> QED
  BY <1>1, Zenon DEF Walk, Down

LEMMA WalkStep ==
    ASSUME NEW T, NEW v
    PROVE  /\ Walk(T, v)[LEVELS - 1] = Root
           /\ \A l \in Levels : l # LEVELS - 1
                 => l + 1 \in Levels /\ Walk(T, v)[l] = Down(T, v, Walk(T, v)[l + 1], l + 1)
<1>1. LEVELS - 1 \in Levels /\ \A l \in Levels : l # LEVELS - 1 => l + 1 \in Levels
  BY PageTableAssumption DEF Levels
<1> DEFINE W == Walk(T, v)
<1>2. W = [l \in Levels |-> IF l = LEVELS - 1 THEN Root ELSE Down(T, v, W[l + 1], l + 1)]
  BY WalkEquation
<1> HIDE DEF W
<1>3. \A l \in Levels : W[l] = IF l = LEVELS - 1 THEN Root ELSE Down(T, v, W[l + 1], l + 1)
  BY <1>2
<1>4. /\ W[LEVELS - 1] = Root
      /\ \A l \in Levels : l # LEVELS - 1
            => l + 1 \in Levels /\ W[l] = Down(T, v, W[l + 1], l + 1)
  BY <1>1, <1>3
<1> QED
  BY <1>4 DEF W

-----------------------------------------------------------------------------
(* Tables that form a forest: what walks can and cannot do *)

PTE == [valid : BOOLEAN, flags : BOOLEAN, ppn : Nat]

\* Branches lead to tables below the root, and each table has one parent entry.
Forest(T) ==
    /\ Root \in DOMAIN T /\ -1 \notin DOMAIN T
    /\ \A t \in DOMAIN T : T[t] \in [Index -> PTE]
    /\ \A t \in DOMAIN T, k \in Index :
          kind(T[t][k]) = "branch" => T[t][k].ppn \in DOMAIN T \ {Root}
    /\ \A s, t \in DOMAIN T, j, k \in Index :
          kind(T[s][j]) = "branch" /\ kind(T[t][k]) = "branch" /\ T[s][j].ppn = T[t][k].ppn
             => s = t /\ j = k

LEMMA Kinds ==
    /\ ZERO \in PTE /\ kind(ZERO) = "none"
    /\ \A p : kind(Branch(p)) = "branch" /\ Branch(p).ppn = p
    /\ \A p : kind(Leaf(p)) = "leaf" /\ Leaf(p).ppn = p
    /\ \A p \in Nat : Branch(p) \in PTE /\ Leaf(p) \in PTE
    /\ \A e \in PTE : kind(e) \in {"none", "leaf", "branch"} /\ e.ppn \in Nat
BY DEF PTE, kind, ZERO, Branch, Leaf

LEMMA LevelFacts ==
    /\ LEVELS \in Nat \ {0} /\ FANOUT \in Nat \ {0}
    /\ LEVELS - 1 \in Levels
    /\ \A l \in Levels : /\ l \in Nat /\ l \in 0 .. LEVELS /\ l + 1 \in 0 .. LEVELS
                         /\ l <= LEVELS - 1
                         /\ l # LEVELS - 1 => l + 1 \in Levels
    /\ VirtPages \subseteq Nat
<1>1. LEVELS \in Nat \ {0} /\ FANOUT \in Nat \ {0}
  BY PageTableAssumption
<1>2. VirtPages \subseteq Nat
  <2>1. LEVELS \in 0 .. LEVELS
    BY <1>1
  <2>2. MAX_ADDRESS \in Nat \ {0}
    BY <2>1, Powers DEF MAX_ADDRESS
  <2> QED
    BY <2>2 DEF VirtPages
<1> QED
  BY <1>1, <1>2 DEF Levels

LEMMA VpnIndex ==
    ASSUME NEW v \in Nat, NEW l \in Levels
    PROVE  vpn(v, l) \in Index
BY Digits

LEMMA WalkIn ==
    ASSUME NEW T, Forest(T), NEW v \in Nat, NEW l \in Levels
    PROVE  Walk(T, v)[l] \in DOMAIN T \cup {-1}
<1> DEFINE W == Walk(T, v)
           S == {n \in Levels : W[n] \in DOMAIN T \cup {-1}}
<1>1. W[LEVELS - 1] = Root
      /\ \A n \in Levels : n # LEVELS - 1 => n + 1 \in Levels /\ W[n] = Down(T, v, W[n + 1], n + 1)
  BY WalkStep
<1> HIDE DEF W
<1>2. LEVELS - 1 \in S
  BY <1>1, LevelFacts DEF Forest
<1>3. ASSUME NEW n \in Levels, n # LEVELS - 1, n + 1 \in S
      PROVE  n \in S
  <2>1. n + 1 \in Levels /\ W[n] = Down(T, v, W[n + 1], n + 1)
    BY <1>1, <1>3
  <2>2. vpn(v, n + 1) \in Index
    BY <2>1, VpnIndex
  <2> QED
    BY <1>3, <2>1, <2>2 DEF Down, Forest
<1>4. Levels \subseteq S
  <2> HIDE DEF S
  <2> QED
    BY <1>2, <1>3, LevelInduction
<1> QED
  BY <1>4 DEF W

\* A table reached below the root is reached through a branch of its parent.
LEMMA WalkParent ==
    ASSUME NEW T, Forest(T), NEW v \in Nat, NEW l \in Levels, l # LEVELS - 1,
           Walk(T, v)[l] # -1
    PROVE  /\ l + 1 \in Levels
           /\ Walk(T, v)[l + 1] \in DOMAIN T
           /\ vpn(v, l + 1) \in Index
           /\ kind(T[Walk(T, v)[l + 1]][vpn(v, l + 1)]) = "branch"
           /\ T[Walk(T, v)[l + 1]][vpn(v, l + 1)].ppn = Walk(T, v)[l]
           /\ Walk(T, v)[l] # Root
<1> DEFINE W == Walk(T, v)
<1>1. l + 1 \in Levels /\ W[l] = Down(T, v, W[l + 1], l + 1)
  BY WalkStep
<1>2. W[l + 1] \in DOMAIN T \cup {-1} /\ W[l] # -1
  BY <1>1, WalkIn
<1>3. vpn(v, l + 1) \in Index
  BY <1>1, VpnIndex
<1> HIDE DEF W
<1>4. /\ W[l + 1] \in DOMAIN T
      /\ kind(T[W[l + 1]][vpn(v, l + 1)]) = "branch"
      /\ T[W[l + 1]][vpn(v, l + 1)].ppn = W[l]
  BY <1>1, <1>2 DEF Down
<1>5. W[l] # Root
  BY <1>3, <1>4 DEF Forest
<1> QED
  BY <1>1, <1>3, <1>4, <1>5 DEF W

\* Pages that agree on the digits above a level reach the same table there.
LEMMA WalkSame ==
    ASSUME NEW T, NEW u \in Nat, NEW v \in Nat, NEW m \in Levels,
           High(u, m + 1) = High(v, m + 1)
    PROVE  Walk(T, u)[m] = Walk(T, v)[m]
<1> DEFINE A == Walk(T, u)
           B == Walk(T, v)
           S == {l \in Levels : High(u, l + 1) = High(v, l + 1) => A[l] = B[l]}
<1>1. A[LEVELS - 1] = Root
      /\ \A n \in Levels : n # LEVELS - 1 => n + 1 \in Levels /\ A[n] = Down(T, u, A[n + 1], n + 1)
  BY WalkStep
<1>2. B[LEVELS - 1] = Root
      /\ \A n \in Levels : n # LEVELS - 1 => n + 1 \in Levels /\ B[n] = Down(T, v, B[n + 1], n + 1)
  BY WalkStep
<1> HIDE DEF A, B
<1>3. LEVELS - 1 \in S
  BY <1>1, <1>2, LevelFacts
<1>4. ASSUME NEW n \in Levels, n # LEVELS - 1, n + 1 \in S
      PROVE  n \in S
  <2> SUFFICES ASSUME High(u, n + 1) = High(v, n + 1) PROVE A[n] = B[n]
    OBVIOUS
  <2>1. n + 1 \in Levels
    BY <1>1, <1>4
  <2>2. High(u, (n + 1) + 1) = High(v, (n + 1) + 1) /\ vpn(u, n + 1) = vpn(v, n + 1)
    BY <2>1, HigherAgree
  <2>3. A[n + 1] = B[n + 1]
    BY <1>4, <2>2
  <2> QED
    BY <1>1, <1>2, <1>4, <2>2, <2>3 DEF Down
<1>5. Levels \subseteq S
  <2> HIDE DEF S
  <2> QED
    BY <1>3, <1>4, LevelInduction
<1> QED
  BY <1>5 DEF A, B

\* A table has one place in the tree: it is reached at one level only, and only
\* by pages that agree on the digits above that level.
LEMMA WalkUnique ==
    ASSUME NEW T, Forest(T), NEW u \in VirtPages, NEW v \in VirtPages,
           NEW l \in Levels, NEW m \in Levels,
           Walk(T, u)[l] # -1, Walk(T, u)[l] = Walk(T, v)[m]
    PROVE  l = m /\ High(u, l + 1) = High(v, l + 1)
<1> DEFINE Placed(n) ==
               \A x, y \in VirtPages : \A j \in Levels :
                  Walk(T, x)[n] # -1 /\ Walk(T, x)[n] = Walk(T, y)[j]
                     => n = j /\ High(x, n + 1) = High(y, n + 1)
           S == {n \in Levels : Placed(n)}
<1>1. LEVELS - 1 \in S
  <2> SUFFICES ASSUME NEW x \in VirtPages, NEW y \in VirtPages, NEW j \in Levels,
                      Walk(T, x)[LEVELS - 1] # -1,
                      Walk(T, x)[LEVELS - 1] = Walk(T, y)[j]
               PROVE  LEVELS - 1 = j /\ High(x, (LEVELS - 1) + 1) = High(y, (LEVELS - 1) + 1)
    BY LevelFacts
  <2>1. Walk(T, y)[j] = Root
    BY WalkStep
  <2>2. j = LEVELS - 1
    <3> SUFFICES ASSUME j # LEVELS - 1 PROVE FALSE
      OBVIOUS
    <3> QED
      BY <2>1, WalkParent, LevelFacts
  <2>3. (LEVELS - 1) + 1 = LEVELS
    BY LevelFacts
  <2> QED
    BY <2>2, <2>3, NoDigitsAbove
<1>2. ASSUME NEW n \in Levels, n # LEVELS - 1, n + 1 \in S
      PROVE  n \in S
  <2>1. Placed(n + 1)
    BY <1>2
  <2> SUFFICES ASSUME NEW x \in VirtPages, NEW y \in VirtPages, NEW j \in Levels,
                      Walk(T, x)[n] # -1, Walk(T, x)[n] = Walk(T, y)[j]
               PROVE  n = j /\ High(x, n + 1) = High(y, n + 1)
    OBVIOUS
  <2>2. x \in Nat /\ y \in Nat
    BY LevelFacts
  <2>3. /\ n + 1 \in Levels
        /\ Walk(T, x)[n + 1] \in DOMAIN T
        /\ vpn(x, n + 1) \in Index
        /\ kind(T[Walk(T, x)[n + 1]][vpn(x, n + 1)]) = "branch"
        /\ T[Walk(T, x)[n + 1]][vpn(x, n + 1)].ppn = Walk(T, x)[n]
        /\ Walk(T, x)[n] # Root
    BY <1>2, <2>2, WalkParent
  <2>4. j # LEVELS - 1
    BY <2>3, WalkStep
  <2>5. /\ j + 1 \in Levels
        /\ Walk(T, y)[j + 1] \in DOMAIN T
        /\ vpn(y, j + 1) \in Index
        /\ kind(T[Walk(T, y)[j + 1]][vpn(y, j + 1)]) = "branch"
        /\ T[Walk(T, y)[j + 1]][vpn(y, j + 1)].ppn = Walk(T, y)[j]
    BY <2>2, <2>4, WalkParent
  <2>6. Walk(T, x)[n + 1] = Walk(T, y)[j + 1] /\ vpn(x, n + 1) = vpn(y, j + 1)
    BY <2>3, <2>5 DEF Forest
  <2>7. Walk(T, x)[n + 1] # -1
    BY <2>3 DEF Forest
  <2>8. n + 1 = j + 1 /\ High(x, (n + 1) + 1) = High(y, (n + 1) + 1)
    BY <2>1, <2>5, <2>6, <2>7
  <2>9. n = j
    BY <2>8, LevelFacts
  <2>10. High(x, n + 1) = High(y, n + 1)
    BY <2>2, <2>3, <2>6, <2>8, <2>9, LowerAgree
  <2> QED
    BY <2>9, <2>10
<1>3. Levels \subseteq S
  <2> HIDE DEF S
  <2> QED
    BY <1>1, <1>2, LevelInduction
<1> QED
  BY <1>3

\* A walk that ended does not go on.
LEMMA WalkDead ==
    ASSUME NEW T, NEW v, NEW l \in Levels, Walk(T, v)[l] = -1,
           NEW m \in Levels, m <= l
    PROVE  Walk(T, v)[m] = -1
<1> DEFINE W == Walk(T, v)
           S == {n \in Levels : n <= l => W[n] = -1}
<1>1. \A n \in Levels : n # LEVELS - 1 => n + 1 \in Levels /\ W[n] = Down(T, v, W[n + 1], n + 1)
  BY WalkStep
<1>2. W[l] = -1
  OBVIOUS
<1> HIDE DEF W
<1>3. LEVELS - 1 \in S
  BY <1>2, LevelFacts
<1>4. ASSUME NEW n \in Levels, n # LEVELS - 1, n + 1 \in S
      PROVE  n \in S
  <2>1. CASE n = l
    BY <1>2, <2>1
  <2>2. CASE n # l /\ n <= l
    <3>1. n + 1 <= l /\ n + 1 \in Levels
      BY <1>1, <1>4, <2>2, LevelFacts
    <3>2. W[n + 1] = -1
      BY <1>4, <3>1
    <3>3. W[n] = -1
      BY <1>1, <1>4, <3>2 DEF Down
    <3> QED
      BY <3>3
  <2>3. CASE ~ (n <= l)
    BY <2>3
  <2> QED
    BY <2>1, <2>2, <2>3
<1>5. Levels \subseteq S
  <2> HIDE DEF S
  <2> QED
    BY <1>3, <1>4, LevelInduction
<1> QED
  BY <1>5 DEF W

-----------------------------------------------------------------------------
(* Leaves and translations, for any set of tables *)

EntryAt(T, v, l) == T[Walk(T, v)[l]][vpn(v, l)]

Leaves(T, v) == {l \in Levels : Walk(T, v)[l] # -1 /\ kind(EntryAt(T, v, l)) = "leaf"}

PhysOf(T, v) ==
    IF Leaves(T, v) = {} THEN -1
    ELSE LET l == CHOOSE l \in Leaves(T, v) : TRUE IN  EntryAt(T, v, l).ppn + Offset(v, l)

LEMMA LeavesIsLeafLevels ==
    ASSUME NEW v
    PROVE  LeafLevels(v) = Leaves(tables, v) /\ LeafLevels(v)' = Leaves(tables', v)
BY WalkIsTableAt DEF LeafLevels, Leaves, EntryAt

\* Below an entry that is no branch there is nothing.
LEMMA NothingBelow ==
    ASSUME NEW T, NEW v \in Nat, NEW m \in Levels, NEW l \in Levels, l < m,
           Walk(T, v)[m] # -1, kind(EntryAt(T, v, m)) # "branch"
    PROVE  Walk(T, v)[l] = -1
<1>1. m - 1 \in Levels /\ m - 1 # LEVELS - 1 /\ (m - 1) + 1 = m /\ l <= m - 1
  BY LevelFacts DEF Levels
<1>2. Walk(T, v)[m - 1] = Down(T, v, Walk(T, v)[m], m)
  BY <1>1, WalkStep
<1>3. Walk(T, v)[m - 1] = -1
  BY <1>2 DEF Down, EntryAt
<1> QED
  BY <1>1, <1>3, WalkDead

LEMMA LeafOne ==
    ASSUME NEW T, NEW v \in Nat, NEW l \in Leaves(T, v)
    PROVE  Leaves(T, v) = {l}
<1> SUFFICES ASSUME NEW m \in Leaves(T, v), m # l PROVE FALSE
  OBVIOUS
<1>1. l \in Levels /\ m \in Levels /\ (l < m \/ m < l)
  BY LevelFacts DEF Leaves
<1> QED
  BY <1>1, NothingBelow DEF Leaves

LEMMA PhysOfLeaf ==
    ASSUME NEW T, NEW v \in Nat, NEW l \in Levels, Leaves(T, v) = {l}
    PROVE  PhysOf(T, v) = EntryAt(T, v, l).ppn + Offset(v, l)
<1>1. (CHOOSE m \in Leaves(T, v) : TRUE) = l
  OBVIOUS
<1> QED
  BY <1>1 DEF PhysOf

LEMMA PhysOfIsTranslate ==
    ASSUME NEW v
    PROVE  /\ ~ TraversePanics(v) => translate(v) = PhysOf(tables, v)
           /\ TraversePanics(v) => translate(v) = PANIC /\ LeafLevels(v) # {}
<1>1. ASSUME ~ TraversePanics(v) PROVE translate(v) = PhysOf(tables, v)
  <2> DEFINE m == CHOOSE l \in LeafLevels(v) : TRUE
  <2>1. LeafLevels(v) = Leaves(tables, v) /\ TableAt(v) = Walk(tables, v)
    BY WalkIsTableAt, LeavesIsLeafLevels
  <2>2. m = CHOOSE l \in Leaves(tables, v) : TRUE
    BY <2>1
  <2>3. LeafFound(v) = [size |-> m, table |-> Walk(tables, v)[m], index |-> vpn(v, m)]
    BY <2>1 DEF LeafFound
  <2> HIDE DEF m
  <2> QED
    BY <1>1, <2>1, <2>2, <2>3 DEF translate, PhysOf, EntryAt, UNMAPPED
<1>2. ASSUME TraversePanics(v) PROVE translate(v) = PANIC /\ LeafLevels(v) # {}
  BY <1>2 DEF TraversePanics, translate
<1> QED
  BY <1>1, <1>2

\* The leaf that traverse finds.
LEMMA TraverseIs ==
    ASSUME NEW v \in Nat, LeafLevels(v) # {}
    PROVE  \E l \in Levels :
              /\ Leaves(tables, v) = {l}
              /\ Walk(tables, v)[l] # -1
              /\ kind(EntryAt(tables, v, l)) = "leaf"
              /\ LeafFound(v) = [size |-> l, table |-> Walk(tables, v)[l], index |-> vpn(v, l)]
              /\ LeafFound(v).size = l /\ LeafFound(v).table = Walk(tables, v)[l]
              /\ LeafFound(v).index = vpn(v, l)
<1>1. PICK l \in Leaves(tables, v) : TRUE
  BY LeavesIsLeafLevels
<1>2. Leaves(tables, v) = {l}
  BY LeafOne
<1>3. l \in Levels /\ Walk(tables, v)[l] # -1 /\ kind(EntryAt(tables, v, l)) = "leaf"
  BY DEF Leaves
<1>4. (CHOOSE m \in LeafLevels(v) : TRUE) = l
  BY <1>2, LeavesIsLeafLevels
<1>5. LeafFound(v) = [size |-> l, table |-> Walk(tables, v)[l], index |-> vpn(v, l)]
  BY <1>4, WalkIsTableAt DEF LeafFound
<1> QED
  BY <1>2, <1>3, <1>5

-----------------------------------------------------------------------------
(* What writing one entry does to every translation *)

\* U is T with the entry for level l0 on the way to v0 written, and maybe with
\* tables that T does not have.
Written(T, U, v0, l0) ==
    /\ Walk(T, v0)[l0] # -1
    /\ DOMAIN T \subseteq DOMAIN U
    /\ \A t \in DOMAIN T, k \in Index :
          t # Walk(T, v0)[l0] \/ k # vpn(v0, l0) => U[t][k] = T[t][k]

\* Only the entry for the pages of the same span can have changed.
LEMMA EntryElsewhere ==
    ASSUME NEW T, NEW U, Forest(T), NEW v0 \in VirtPages, NEW l0 \in Levels,
           Written(T, U, v0, l0), NEW v \in VirtPages, NEW l \in Levels,
           Walk(T, v)[l] # -1, High(v, l0) # High(v0, l0) \/ l # l0
    PROVE  U[Walk(T, v)[l]][vpn(v, l)] = T[Walk(T, v)[l]][vpn(v, l)]
<1>1. v \in Nat /\ v0 \in Nat
  BY LevelFacts
<1>2. Walk(T, v)[l] \in DOMAIN T /\ vpn(v, l) \in Index
  BY <1>1, WalkIn, VpnIndex
<1>3. ASSUME Walk(T, v)[l] = Walk(T, v0)[l0], vpn(v, l) = vpn(v0, l0)
      PROVE  FALSE
  <2>1. l = l0 /\ High(v, l0 + 1) = High(v0, l0 + 1)
    BY <1>3, WalkUnique
  <2>2. High(v, l0) = High(v0, l0)
    BY <1>1, <1>3, <2>1, LowerAgree
  <2> QED
    BY <2>1, <2>2
<1> QED
  BY <1>2, <1>3 DEF Written

LEMMA WalkElsewhere ==
    ASSUME NEW T, NEW U, Forest(T), NEW v0 \in VirtPages, NEW l0 \in Levels,
           Written(T, U, v0, l0), NEW v \in VirtPages, NEW m \in Levels,
           High(v, l0) # High(v0, l0) \/ l0 <= m
    PROVE  Walk(U, v)[m] = Walk(T, v)[m]
<1> DEFINE A == Walk(T, v)
           B == Walk(U, v)
           S == {l \in Levels : High(v, l0) # High(v0, l0) \/ l0 <= l => B[l] = A[l]}
<1>1. A[LEVELS - 1] = Root
      /\ \A n \in Levels : n # LEVELS - 1 => n + 1 \in Levels /\ A[n] = Down(T, v, A[n + 1], n + 1)
  BY WalkStep
<1>2. B[LEVELS - 1] = Root
      /\ \A n \in Levels : n # LEVELS - 1 => n + 1 \in Levels /\ B[n] = Down(U, v, B[n + 1], n + 1)
  BY WalkStep
<1>3. \A l \in Levels : A[l] # -1 /\ (High(v, l0) # High(v0, l0) \/ l # l0)
                           => U[A[l]][vpn(v, l)] = T[A[l]][vpn(v, l)]
  BY EntryElsewhere
<1> HIDE DEF A, B
<1>4. LEVELS - 1 \in S
  BY <1>1, <1>2, LevelFacts
<1>5. ASSUME NEW n \in Levels, n # LEVELS - 1, n + 1 \in S
      PROVE  n \in S
  <2> SUFFICES ASSUME High(v, l0) # High(v0, l0) \/ l0 <= n PROVE B[n] = A[n]
    OBVIOUS
  <2>1. n + 1 \in Levels /\ (High(v, l0) # High(v0, l0) \/ (l0 <= n + 1 /\ n + 1 # l0))
    BY <1>1, <1>5, LevelFacts
  <2>2. B[n + 1] = A[n + 1]
    BY <1>5, <2>1
  <2>3. A[n + 1] # -1 => U[A[n + 1]][vpn(v, n + 1)] = T[A[n + 1]][vpn(v, n + 1)]
    BY <1>3, <2>1
  <2> QED
    BY <1>1, <1>2, <1>5, <2>2, <2>3 DEF Down
<1>6. Levels \subseteq S
  <2> HIDE DEF S
  <2> QED
    BY <1>4, <1>5, LevelInduction
<1> QED
  BY <1>6 DEF A, B

\* Other pages translate as before.
LEMMA OthersAsBefore ==
    ASSUME NEW T, NEW U, Forest(T), NEW v0 \in VirtPages, NEW l0 \in Levels,
           Written(T, U, v0, l0), NEW v \in VirtPages, High(v, l0) # High(v0, l0)
    PROVE  Leaves(U, v) = Leaves(T, v) /\ PhysOf(U, v) = PhysOf(T, v)
<1>1. \A l \in Levels : Walk(U, v)[l] = Walk(T, v)[l]
  BY WalkElsewhere
<1>2. \A l \in Levels : Walk(T, v)[l] # -1 => EntryAt(U, v, l) = EntryAt(T, v, l)
  BY <1>1, EntryElsewhere DEF EntryAt
<1>3. Leaves(U, v) = Leaves(T, v)
  BY <1>1, <1>2 DEF Leaves
<1>4. CASE Leaves(T, v) = {}
  BY <1>3, <1>4 DEF PhysOf
<1>5. CASE Leaves(T, v) # {}
  <2>1. PICK l \in Leaves(T, v) : TRUE
    BY <1>5
  <2>2. Leaves(T, v) = {l} /\ l \in Levels /\ Walk(T, v)[l] # -1 /\ v \in Nat
    BY LeafOne, LevelFacts DEF Leaves
  <2> QED
    BY <1>2, <1>3, <2>2, PhysOfLeaf
<1> QED
  BY <1>3, <1>4, <1>5

\* The pages of the span see the new entry, and only branches above it.
LEMMA SpanSeesEntry ==
    ASSUME NEW T, NEW U, Forest(T), NEW v0 \in VirtPages, NEW l0 \in Levels,
           Written(T, U, v0, l0), NEW v \in VirtPages, High(v, l0) = High(v0, l0)
    PROVE  /\ Walk(U, v)[l0] = Walk(T, v0)[l0] /\ Walk(U, v)[l0] # -1
           /\ EntryAt(U, v, l0) = U[Walk(T, v0)[l0]][vpn(v0, l0)]
           /\ \A l \in Levels : l > l0 => kind(EntryAt(U, v, l)) = "branch"
<1>1. v \in Nat /\ v0 \in Nat /\ l0 <= l0
  BY LevelFacts
<1>2. High(v, l0 + 1) = High(v0, l0 + 1) /\ vpn(v, l0) = vpn(v0, l0)
  BY <1>1, HigherAgree
<1>3. Walk(T, v)[l0] = Walk(T, v0)[l0]
  BY <1>1, <1>2, WalkSame
<1>4. Walk(U, v)[l0] = Walk(T, v0)[l0] /\ Walk(U, v)[l0] # -1
  BY <1>1, <1>3, WalkElsewhere DEF Written
<1>5. ASSUME NEW l \in Levels, l > l0 PROVE kind(EntryAt(U, v, l)) = "branch"
  <2>1. Walk(U, v)[l] # -1
    <3>1. l0 <= l
      BY <1>5, LevelFacts
    <3> QED
      BY <1>4, <3>1, WalkDead
  <2> QED
    BY <1>1, <1>4, <1>5, <2>1, NothingBelow
<1> QED
  BY <1>2, <1>4, <1>5 DEF EntryAt

LEMMA SpanLeaf ==
    ASSUME NEW T, NEW U, Forest(T), NEW v0 \in VirtPages, NEW l0 \in Levels,
           Written(T, U, v0, l0), NEW v \in VirtPages, High(v, l0) = High(v0, l0),
           kind(U[Walk(T, v0)[l0]][vpn(v0, l0)]) = "leaf"
    PROVE  /\ Leaves(U, v) = {l0}
           /\ PhysOf(U, v) = U[Walk(T, v0)[l0]][vpn(v0, l0)].ppn + Offset(v, l0)
<1>1. v \in Nat
  BY LevelFacts
<1>2. EntryAt(U, v, l0) = U[Walk(T, v0)[l0]][vpn(v0, l0)] /\ Walk(U, v)[l0] # -1
  BY SpanSeesEntry
<1>3. Leaves(U, v) = {l0}
  <2>1. l0 \in Leaves(U, v)
    BY <1>2 DEF Leaves
  <2> QED
    BY <1>1, <2>1, LeafOne
<1> QED
  BY <1>1, <1>2, <1>3, PhysOfLeaf

LEMMA SpanNone ==
    ASSUME NEW T, NEW U, Forest(T), NEW v0 \in VirtPages, NEW l0 \in Levels,
           Written(T, U, v0, l0), NEW v \in VirtPages, High(v, l0) = High(v0, l0),
           kind(U[Walk(T, v0)[l0]][vpn(v0, l0)]) = "none"
    PROVE  Leaves(U, v) = {} /\ PhysOf(U, v) = -1
<1>1. v \in Nat
  BY LevelFacts
<1>2. /\ EntryAt(U, v, l0) = U[Walk(T, v0)[l0]][vpn(v0, l0)] /\ Walk(U, v)[l0] # -1
      /\ \A l \in Levels : l > l0 => kind(EntryAt(U, v, l)) = "branch"
  BY SpanSeesEntry
<1>3. \A l \in Levels : l < l0 => Walk(U, v)[l] = -1
  BY <1>1, <1>2, NothingBelow
<1>4. \A l \in Levels : l > l0 \/ l = l0 \/ l < l0
  <2>1. l0 \in Nat /\ \A l \in Levels : l \in Nat
    BY LevelFacts
  <2> QED
    BY <2>1
<1>5. Leaves(U, v) = {}
  BY <1>2, <1>3, <1>4 DEF Leaves
<1> QED
  BY <1>5 DEF PhysOf

\* A branch to an empty table maps nothing.
LEMMA SpanNewTable ==
    ASSUME NEW T, NEW U, Forest(T), NEW v0 \in VirtPages, NEW l0 \in Levels,
           Written(T, U, v0, l0), NEW v \in VirtPages, High(v, l0) = High(v0, l0),
           NEW p \in Nat, U[Walk(T, v0)[l0]][vpn(v0, l0)] = Branch(p),
           \A k \in Index : U[p][k] = ZERO
    PROVE  /\ Leaves(U, v) = {} /\ PhysOf(U, v) = -1
           /\ l0 - 1 \in Levels => Walk(U, v)[l0 - 1] = p
<1>1. v \in Nat /\ l0 \in Nat
  BY LevelFacts
<1>2. /\ EntryAt(U, v, l0) = Branch(p) /\ Walk(U, v)[l0] # -1
      /\ \A l \in Levels : l > l0 => kind(EntryAt(U, v, l)) = "branch"
  BY SpanSeesEntry
<1>3. ASSUME l0 - 1 \in Levels
      PROVE  Walk(U, v)[l0 - 1] = p /\ kind(EntryAt(U, v, l0 - 1)) = "none"
  <2>1. l0 - 1 # LEVELS - 1 /\ (l0 - 1) + 1 = l0
    BY LevelFacts
  <2>2. Walk(U, v)[l0 - 1] = Down(U, v, Walk(U, v)[l0], l0)
    BY <1>3, <2>1, WalkStep
  <2>3. Walk(U, v)[l0 - 1] = p
    BY <1>2, <2>2, Kinds DEF Down, EntryAt
  <2>4. vpn(v, l0 - 1) \in Index
    BY <1>1, <1>3, VpnIndex
  <2> QED
    BY <2>3, <2>4, Kinds DEF EntryAt
<1>4. ASSUME NEW l \in Levels, l < l0 - 1
      PROVE  Walk(U, v)[l] = -1
  <2>1. l0 - 1 \in Levels /\ p # -1
    BY <1>1, <1>4, LevelFacts DEF Levels
  <2> QED
    BY <1>1, <1>3, <1>4, <2>1, NothingBelow
<1>5. \A l \in Levels : l > l0 \/ l = l0 \/ l < l0 - 1 \/ l = l0 - 1
  BY <1>1, LevelFacts
<1>6. Leaves(U, v) = {}
  BY <1>2, <1>3, <1>4, <1>5, Kinds DEF Leaves
<1> QED
  BY <1>3, <1>6 DEF PhysOf

\* Nothing is written: what the entry says of the pages of its span.
LEMMA NothingWritten ==
    ASSUME NEW T, NEW v0, NEW l0, Walk(T, v0)[l0] # -1
    PROVE  Written(T, T, v0, l0)
BY DEF Written

-----------------------------------------------------------------------------
(* Arithmetic: spans and areas *)

LEMMA PageCounts ==
    ASSUME NEW l \in 0 .. LEVELS
    PROVE  PageCount(l) \in Nat \ {0}
BY Powers DEF PageCount

LEMMA AlignedSpan ==
    ASSUME NEW v \in Nat, NEW l \in 0 .. LEVELS, is_aligned(v, l)
    PROVE  /\ Offset(v, l) = 0
           /\ Span(v, l) = v .. v + PageCount(l) - 1
           /\ \A u \in Span(v, l) : Offset(u, l) = u - v
<1> DEFINE s == PageCount(l)
<1>1. s \in Nat \ {0}
  BY PageCounts
<1>2. v % s = 0 /\ Offset(v, l) = 0
  BY DEF is_aligned, Offset
<1>3. Span(v, l) = v .. v + s - 1
  BY <1>2 DEF Span, Base
<1>4. ASSUME NEW u \in v .. v + s - 1 PROVE u % s = u - v
  <2> HIDE DEF s
  <2>1. PICK q \in Nat, r \in 0 .. s - 1 : v = s * q + r /\ v % s = r
    BY <1>1, DivSplit
  <2>2. v = s * q /\ s * q \in Nat
    BY <1>1, <1>2, <2>1
  <2>3. u - v \in 0 .. s - 1 /\ u = s * q + (u - v)
    BY <1>1, <1>4, <2>2
  <2>4. ASSUME NEW w \in 0 .. s - 1 PROVE (s * q + w) % s = w
    BY <1>1, DivUnique
  <2>5. (s * q + (u - v)) % s = u - v
    BY <2>3, <2>4
  <2> QED
    BY <2>3, <2>5
<1> QED
  BY <1>2, <1>3, <1>4 DEF Offset

LEMMA OffsetBound ==
    ASSUME NEW v \in Nat, NEW l \in 0 .. LEVELS
    PROVE  Offset(v, l) \in 0 .. PageCount(l) - 1 /\ Base(v, l) \in Nat
<1> DEFINE s == PageCount(l)
<1>1. s \in Nat \ {0}
  BY PageCounts
<1> HIDE DEF s
<1>2. PICK q \in Nat, r \in 0 .. s - 1 : v = s * q + r /\ v % s = r
  BY <1>1, DivSplit
<1>3. s * q \in Nat /\ v - r = s * q
  BY <1>1, <1>2
<1> QED
  BY <1>2, <1>3 DEF Offset, Base, s

\* A mapping that begins in the address range ends in it.
LEMMA SpanInVirt ==
    ASSUME NEW v \in VirtPages, NEW l \in Levels
    PROVE  Span(v, l) \subseteq VirtPages
<1> SUFFICES ASSUME NEW u \in Span(v, l) PROVE u \in VirtPages
  OBVIOUS
<1>1. v \in Nat /\ l \in 0 .. LEVELS /\ l \in Nat /\ l <= LEVELS /\ LEVELS \in Nat
  BY LevelFacts
<1>2. u \in Nat
  <2>1. Base(v, l) \in Nat /\ PageCount(l) \in Nat
    BY <1>1, OffsetBound, PageCounts
  <2> QED
    BY <2>1 DEF Span
<1> DEFINE T == {n \in l .. LEVELS : High(u, n) # High(v, n)}
<1>3. T = {}
  <2> SUFFICES ASSUME T # {} PROVE FALSE
    OBVIOUS
  <2>1. T \subseteq Nat
    BY <1>1
  <2>2. PICK n \in T : \A m \in T : n <= m
    <3> HIDE DEF T
    <3> QED
      BY <2>1, NatMin
  <2>3. n \in l .. LEVELS /\ High(u, n) # High(v, n) /\ n \in Nat
    BY <1>1, <2>2
  <2>4. n # l
    BY <1>1, <1>2, <2>3, SpanIsHigh
  <2>5. n - 1 \in l .. LEVELS /\ n - 1 \in Levels /\ (n - 1) + 1 = n /\ ~ (n <= n - 1)
    BY <1>1, <2>3, <2>4 DEF Levels
  <2>6. n - 1 \notin T
    <3> HIDE DEF T
    <3> QED
      BY <2>2, <2>5
  <2>7. High(u, n - 1) = High(v, n - 1)
    BY <2>5, <2>6
  <2>8. High(u, n) = High(v, n)
    BY <1>1, <1>2, <2>5, <2>7, HigherAgree
  <2> QED
    BY <2>3, <2>8
<1>4. LEVELS \in l .. LEVELS /\ LEVELS \in 0 .. LEVELS
  BY <1>1
<1>5. u \div FANOUT^LEVELS = 0
  BY <1>3, <1>4, NoDigitsAbove DEF High
<1> DEFINE s == FANOUT^LEVELS
<1>6. s \in Nat \ {0} /\ u \div s = 0
  BY <1>4, <1>5, Powers
<1> HIDE DEF s
<1>7. PICK q \in Nat, r \in 0 .. s - 1 : u = s * q + r /\ u \div s = q
  BY <1>2, <1>6, DivSplit
<1>8. u = r
  BY <1>6, <1>7
<1> QED
  BY <1>6, <1>8 DEF VirtPages, MAX_ADDRESS, s

\* Between two aligned addresses there is room for a page.
LEMMA AlignedStep ==
    ASSUME NEW x \in Nat, NEW y \in Nat, NEW l \in 0 .. LEVELS,
           is_aligned(x, l), is_aligned(y, l), x < y
    PROVE  x + PageCount(l) <= y
<1> DEFINE s == PageCount(l)
<1>1. s \in Nat \ {0} /\ x % s = 0 /\ y % s = 0
  BY PageCounts DEF is_aligned
<1> HIDE DEF s
<1>2. PICK q \in Nat, r \in 0 .. s - 1 : x = s * q + r /\ x % s = r
  BY <1>1, DivSplit
<1>3. PICK p \in Nat, t \in 0 .. s - 1 : y = s * p + t /\ y % s = t
  BY <1>1, DivSplit
<1>4. x = s * q /\ y = s * p /\ s * q \in Nat /\ s * p \in Nat
  BY <1>1, <1>2, <1>3
<1>5. ~ (s * p <= s * q)
  BY <1>4
<1>6. q + 1 <= p
  BY <1>1, <1>5, MulOrder
<1>7. s * (q + 1) <= s * p /\ s * (q + 1) = s * q + s
  BY <1>1, <1>6, MulOrder
<1>8. x + s <= y
  BY <1>4, <1>7
<1> QED
  BY <1>8 DEF s

LEMMA AlignedSum ==
    ASSUME NEW x \in Nat, NEW c \in Nat, NEW l \in 0 .. LEVELS, is_aligned(x, l)
    PROVE  is_aligned(x + c * PageCount(l), l) /\ is_aligned(x + PageCount(l), l)
<1> DEFINE s == PageCount(l)
<1>1. s \in Nat \ {0} /\ x % s = 0
  BY PageCounts DEF is_aligned
<1> HIDE DEF s
<1>2. PICK q \in Nat, r \in 0 .. s - 1 : x = s * q + r /\ x % s = r
  BY <1>1, DivSplit, SMTT(30)
<1>3. ASSUME NEW d \in Nat PROVE (x + d * s) % s = 0
  <2>1. x = s * q /\ s * q \in Nat /\ d * s = s * d /\ s * d \in Nat
    BY <1>1, <1>2
  <2>2. s * q + s * d = s * (q + d)
    BY <1>1
  <2>3. (s * (q + d)) % s = 0
    BY <1>1, NoRest
  <2> QED
    BY <2>1, <2>2, <2>3
<1>4. (x + 1 * s) % s = 0 /\ 1 * s = s
  BY <1>1, <1>3
<1> QED
  BY <1>3, <1>4 DEF is_aligned, s

LEMMA RequestFacts ==
    ASSUME NEW r \in UsableRequests
    PROVE  /\ r.v \in Nat /\ r.size \in Levels /\ r.size \in 0 .. LEVELS
           /\ r.count \in Nat \ {0}
           /\ is_aligned(r.v, r.size)
           /\ PageCount(r.size) \in Nat \ {0}
           /\ r.count * PageCount(r.size) \in Nat \ {0}
           /\ is_aligned(r.v + r.count * PageCount(r.size), r.size)
<1>1. /\ r.v \in Nat /\ r.size \in {0, 1} /\ r.size < LEVELS /\ r.count \in Nat \ {0}
      /\ is_aligned(r.v, r.size)
  BY PageTableAssumption DEF UsableRequests
<1>2. r.size \in Levels /\ r.size \in 0 .. LEVELS
  BY <1>1, LevelFacts DEF Levels
<1>3. PageCount(r.size) \in Nat \ {0}
  BY <1>2, PageCounts
<1>4. r.count * PageCount(r.size) \in Nat \ {0}
  BY <1>1, <1>3
<1> QED
  BY <1>1, <1>2, <1>3, <1>4, AlignedSum

\* An area consists of whole pages of its size.
LEMMA WholePages ==
    ASSUME NEW r \in UsableRequests, NEW v \in Area(r)
    PROVE  Span(v, r.size) \subseteq Area(r)
<1> DEFINE s == PageCount(r.size)
           end == r.v + r.count * s
<1>1. /\ r.v \in Nat /\ r.size \in 0 .. LEVELS /\ s \in Nat \ {0} /\ r.count * s \in Nat
      /\ is_aligned(r.v, r.size) /\ is_aligned(end, r.size)
  BY RequestFacts
<1>2. Area(r) = r.v .. end - 1 /\ end \in Nat
  BY <1>1 DEF Area
<1> HIDE DEF end, s
<1>3. v \in Nat /\ r.v <= v /\ v < end
  BY <1>1, <1>2
<1> DEFINE b == Base(v, r.size)
<1>4. b \in Nat /\ Span(v, r.size) = b .. b + s - 1 /\ b = v - Offset(v, r.size)
      /\ Offset(v, r.size) \in 0 .. s - 1
  BY <1>1, <1>3, OffsetBound DEF Span, Base, s
<1>5. is_aligned(b, r.size)
  <2>1. PICK q \in Nat, t \in 0 .. s - 1 : v = s * q + t /\ v % s = t
    BY <1>1, <1>3, DivSplit
  <2>2. b = v - t
    BY <1>4, <2>1 DEF Offset, s
  <2>3. b = s * q
    BY <1>1, <2>1, <2>2
  <2>4. (s * q) % s = 0
    BY <1>1, NoRest
  <2> QED
    BY <2>3, <2>4 DEF is_aligned, s
<1> HIDE DEF b
<1>6. b < end
  BY <1>2, <1>3, <1>4
<1>7. b + s <= end
  BY <1>1, <1>2, <1>4, <1>5, <1>6, AlignedStep DEF s
<1>8. r.v <= b
  <2> SUFFICES ASSUME b < r.v PROVE FALSE
    BY <1>1, <1>4
  <2>1. b + s <= r.v
    BY <1>1, <1>4, <1>5, AlignedStep DEF s
  <2> QED
    BY <1>1, <1>3, <1>4, <2>1
<1> QED
  BY <1>1, <1>2, <1>4, <1>7, <1>8, SMTT(30)

\* Being in one span is symmetric and transitive.
LEMMA SpanSymmetric ==
    ASSUME NEW u \in Nat, NEW v \in Nat, NEW l \in Levels, u \in Span(v, l)
    PROVE  v \in Span(u, l) /\ High(u, l) = High(v, l)
BY SpanIsHigh, LevelFacts

LEMMA SelfInSpan ==
    ASSUME NEW v \in Nat, NEW l \in Levels
    PROVE  v \in Span(v, l)
BY SpanIsHigh, LevelFacts
-----------------------------------------------------------------------------
(* The inductive invariant *)

\* The pages that map_alloc may map, and the size that it maps them with.
VArea == {v \in VirtPages : \E r \in UsableRequests : v \in Area(r)}

\* The pages that tables were made of and the pages of the allocator.
Pages ==
    /\ DOMAIN tables = subtables \cup {Root}
    /\ subtables \subseteq PhysPages /\ free \subseteq PhysPages
    /\ subtables \cap free = {}

\* Every mapped page of map_alloc's areas has a physical page of its own, which
\* is neither free nor a table.
Owned ==
    /\ \A v \in VArea : mapped[v] # -1 => mapped[v] \in PhysPages \ (free \cup subtables)
    /\ \A u, v \in VArea : mapped[u] # -1 /\ mapped[u] = mapped[v] => u = v

\* Leaves for map_alloc's areas have the size that was asked for, and so do
\* Terapages, which only map makes.
SizesFit ==
    /\ \A r \in UsableRequests : \A v \in Area(r) \cap VirtPages : Leaves(tables, v) \subseteq {r.size}
    /\ \A v \in VirtPages : \A l \in Leaves(tables, v) : l >= Terapage => v \in InTerapage

\* u belongs to no allocation.
Unclaimed(u) == \A a \in allocs : u \notin Area(a)

SameArea(a, r) == a.v = r.v /\ a.size = r.size /\ a.count = r.count

\* Allocations are apart from each other, and all of their pages are mapped.
Claims ==
    /\ \A a \in allocs : /\ \E r \in UsableRequests : SameArea(a, r)
                         /\ \A v \in Area(a) : v \in VirtPages /\ mapped[v] # -1
    /\ \A a, b \in allocs : a # b => Area(a) \cap Area(b) = {}

\* The request that a running map_alloc or free works for.
Serves(r) == call.first = r.v /\ call.size = r.size /\ call.end = r.v + r.count * PageCount(r.size)

InArea(r) == /\ r \in UsableRequests /\ Serves(r)
             /\ is_aligned(call.v, call.size)
             /\ call.first <= call.v /\ call.v < call.end

\* map stands at a table on the way to its address.
Mapping ==
    call.op = "map" =>
       /\ call.level \in Levels /\ call.size \in Levels /\ call.size <= call.level
       /\ call.v \in VirtPages /\ is_aligned(call.v, call.size)
       /\ call.ppn \in Nat
       /\ call.table = Walk(tables, call.v)[call.level] /\ call.table # -1
       /\ ~ call.alloc => \E q \in MapRequests :
             Acceptable(q) /\ call.v = q.v /\ call.size = q.size /\ call.ppn = q.ppn

\* map_alloc mapped the pages before the current one, and they belong to no
\* allocation yet.  The page in hand belongs to nobody.
Allocating ==
    call.alloc /\ call.op \in {"map", "alloc"} =>
       /\ \E r \in AllocRequests :
             /\ Serves(r)
             /\ InArea(r) \/ (call.op = "alloc" /\ call.v = r.v)
       /\ \A u \in call.first .. call.v - 1 :
             u \in VirtPages /\ mapped[u] # -1 /\ Unclaimed(u)
       /\ call.op = "map" =>
             /\ Block(call.ppn, call.size) \subseteq PhysPages \ (free \cup subtables)
             /\ \A v \in VArea : mapped[v] \notin Block(call.ppn, call.size)

\* free has still to give back mapped pages that belong to no allocation.
Freeing ==
    call.op = "free" =>
       /\ \E r \in AllocRequests : InArea(r)
       /\ \A u \in call.v .. call.end - 1 :
             u \in VirtPages /\ mapped[u] # -1 /\ Unclaimed(u)

CallTyped ==
    /\ call \in [op : {"idle", "map", "alloc", "free", "panic"}, v : Nat, size : Nat, ppn : Nat,
                 level : Int, table : Int, first : Nat, end : Nat, alloc : BOOLEAN]
    /\ call.op = "alloc" => call.alloc
    /\ call.op = "free" => ~ call.alloc

\* Translations are what was mapped, in the terms of this module.
Exact == /\ mapped \in [VirtPages -> Nat \cup {-1}]
         /\ \A v \in VirtPages : PhysOf(tables, v) = mapped[v]

TableInv ==
    /\ Forest(tables) /\ Pages
    /\ Exact
    /\ Owned /\ SizesFit /\ Claims
    /\ CallTyped /\ Mapping /\ Allocating /\ Freeing

\* A cached translation is one of map's, or it is what its pages are still
\* mapped to.
Current(x) ==
    \/ x.v \in Unmappable
    \/ /\ \A u \in Span(x.v, x.size) : u \in VArea /\ mapped[u] = x.ppn + Offset(u, x.size)
       /\ \A u \in Span(x.v, x.size) :
             \A r \in UsableRequests : u \in Area(r) => r.size = x.size

CacheInv ==
    /\ \A x \in tlb : x.size \in Levels /\ x.v \in VirtPages /\ x.ppn \in Nat /\ Current(x)
    /\ \A v \in VirtPages \ VArea : mapped[v] # -1 => v \in Unmappable
    /\ call.op = "free" => call.v = call.first

-----------------------------------------------------------------------------
(* The invariant holds initially and in steps that write no entry *)

LEMMA EmptyTree ==
    ASSUME NEW v \in VirtPages
    PROVE  LET T == [t \in {Root} |-> ZeroTable]
           IN  Forest(T) /\ Leaves(T, v) = {} /\ PhysOf(T, v) = -1
<1> DEFINE T == [t \in {Root} |-> ZeroTable]
<1>1. Forest(T)
  <2>1. \A k \in Index : T[Root][k] = ZERO
    BY DEF ZeroTable, Index
  <2>2. DOMAIN T = {Root} /\ T[Root] \in [Index -> PTE]
    BY Kinds DEF ZeroTable, Index
  <2>3. Root # -1
    BY PageTableAssumption
  <2> QED
    BY <2>1, <2>2, <2>3, Kinds DEF Forest
<1>2. Walk(T, v)[LEVELS - 1] = Root /\ Root # -1
  BY WalkStep, PageTableAssumption
<1>3. LEVELS - 1 \in Levels /\ v \in Nat
  BY LevelFacts
<1>4. T[Root][vpn(v, LEVELS - 1)] = ZERO
  BY <1>3, VpnIndex DEF ZeroTable, Index
<1> HIDE DEF T
<1>5. Written(T, T, v, LEVELS - 1)
  BY <1>2, NothingWritten
<1>6. Leaves(T, v) = {} /\ PhysOf(T, v) = -1
  BY <1>1, <1>2, <1>3, <1>4, <1>5, SpanNone, Kinds
<1> QED
  BY <1>1, <1>6 DEF T

LEMMA IdleCall ==
    NoCall \in [op : {"idle", "map", "alloc", "free", "panic"}, v : Nat, size : Nat, ppn : Nat,
                level : Int, table : Int, first : Nat, end : Nat, alloc : BOOLEAN]
    /\ NoCall.op = "idle"
BY DEF NoCall

\* A call that panicked is as inert as one that returned.
LEMMA DeadCall ==
    Dead \in [op : {"idle", "map", "alloc", "free", "panic"}, v : Nat, size : Nat, ppn : Nat,
              level : Int, table : Int, first : Nat, end : Nat, alloc : BOOLEAN]
    /\ Dead.op = "panic"
<1>1. PICK d : d = Dead
  OBVIOUS
<1>2. d = [op |-> "panic", v |-> 0, size |-> 0, ppn |-> 0, level |-> 0, table |-> 0,
           first |-> 0, end |-> 0, alloc |-> FALSE]
  BY <1>1 DEF Dead, NoCall
<1> QED
  BY <1>1, <1>2

LEMMA InvInit == Init => TableInv
<1> SUFFICES ASSUME Init PROVE TableInv
  OBVIOUS
<1>1. tables = [t \in {Root} |-> ZeroTable] /\ subtables = {} /\ free = PhysPages
      /\ call = NoCall /\ mapped = [v \in VirtPages |-> -1] /\ allocs = {}
  BY DEF Init, UNMAPPED
<1>2. 0 \in VirtPages
  <2>1. LEVELS \in 0 .. LEVELS
    BY PageTableAssumption
  <2> QED
    BY <2>1, Powers DEF VirtPages, MAX_ADDRESS
<1>3. Forest(tables) /\ \A v \in VirtPages : Leaves(tables, v) = {} /\ PhysOf(tables, v) = -1
  BY <1>1, <1>2, EmptyTree
<1>4. Pages
  BY <1>1 DEF Pages
<1>5. Exact
  BY <1>1, <1>3 DEF Exact
<1>6. Owned
  BY <1>1 DEF Owned, VArea
<1>7. SizesFit
  BY <1>3 DEF SizesFit
<1>8. Claims
  BY <1>1 DEF Claims
<1>9. CallTyped /\ Mapping /\ Allocating /\ Freeing
  BY <1>1, IdleCall DEF CallTyped, Mapping, Allocating, Freeing
<1> QED
  BY <1>3, <1>4, <1>5, <1>6, <1>7, <1>8, <1>9 DEF TableInv

\* Steps that leave the tables alone, and at most take pages from the allocator.
LEMMA TreeFrame ==
    ASSUME TableInv, UNCHANGED <<tables, subtables, mapped>>, free' \subseteq free
    PROVE  Forest(tables)' /\ Pages' /\ Exact' /\ Owned' /\ SizesFit'
<1>1. tables' = tables /\ subtables' = subtables /\ mapped' = mapped
  OBVIOUS
<1>2. Forest(tables')
  BY <1>1 DEF TableInv
<1>3. Pages'
  BY <1>1 DEF TableInv, Pages
<1>4. Exact'
  BY <1>1 DEF TableInv, Exact
<1>5. Owned'
  BY <1>1 DEF TableInv, Owned
<1>6. SizesFit'
  BY <1>1 DEF TableInv, SizesFit
<1> QED
  BY <1>2, <1>3, <1>4, <1>5, <1>6

LEMMA ClaimsFrame ==
    ASSUME TableInv, UNCHANGED <<mapped, allocs>>
    PROVE  Claims'
BY DEF TableInv, Claims

\* A call that returned or panicked asks for nothing.
LEMMA Returned ==
    ASSUME call' \in {NoCall, Dead}
    PROVE  CallTyped' /\ Mapping' /\ Allocating' /\ Freeing'
<1>1. CASE call' = NoCall
  BY <1>1, IdleCall DEF CallTyped, Mapping, Allocating, Freeing
<1>2. CASE call' = Dead
  BY <1>2, DeadCall DEF CallTyped, Mapping, Allocating, Freeing
<1> QED
  BY <1>1, <1>2

LEMMA StutterStep ==
    ASSUME TableInv, UNCHANGED <<tables, subtables, free, call, mapped, allocs>>
    PROVE  TableInv'
<1>1. Forest(tables)' /\ Pages' /\ Exact' /\ Owned' /\ SizesFit' /\ Claims'
  BY TreeFrame, ClaimsFrame
<1>2. CallTyped'
  BY DEF TableInv, CallTyped
<1>3. Mapping'
  BY DEF TableInv, Mapping
<1>4. Allocating'
  BY DEF TableInv, Allocating, Serves, InArea, Unclaimed
<1>5. Freeing'
  BY DEF TableInv, Freeing, Serves, InArea, Unclaimed
<1> QED
  BY <1>1, <1>2, <1>3, <1>4, <1>5 DEF TableInv

\* The steps that give up: refused, already mapped, out of memory, panic.
LEMMA GiveUpStep ==
    ASSUME TableInv, \/ NewTableFails \/ AlreadyMapped \/ AllocPageFails
                     \/ \E v \in Unmappable : TerapagePanics(v)
    PROVE  TableInv'
<1>1. call' \in {NoCall, Dead} /\ UNCHANGED <<tables, subtables, free, mapped, allocs>>
  BY DEF NewTableFails, AlreadyMapped, AllocPageFails, Return, TerapagePanics, Panic
<1> QED
  BY <1>1, TreeFrame, ClaimsFrame, Returned DEF TableInv

LEMMA RootWalk ==
    ASSUME NEW T, NEW v
    PROVE  Walk(T, v)[LEVELS - 1] = Root /\ Root # -1 /\ Root \in Nat
BY WalkStep, PageTableAssumption

\* What Acceptable says of a request.
LEMMA AcceptableFacts ==
    ASSUME NEW q, Acceptable(q), q.v \in Nat, q.size \in Nat
    PROVE  q.size \in Levels /\ q.v \in VirtPages /\ is_aligned(q.v, q.size)
<1>1. LEVELS \in Nat /\ LEVELS \in 0 .. LEVELS
  BY LevelFacts
<1>2. MAX_ADDRESS \in Nat
  BY <1>1, Powers DEF MAX_ADDRESS
<1> QED
  BY <1>1, <1>2 DEF Acceptable, Levels, VirtPages

LEMMA MapStep ==
    ASSUME TableInv, NEW q \in MapRequests, Map(q)
    PROVE  TableInv'
<1>1. UNCHANGED <<tables, subtables, free, mapped, allocs>> /\ Acceptable(q)
  BY DEF Map
<1>2. q.v \in Nat /\ q.size \in Nat /\ q.ppn \in Nat
  BY PageTableAssumption
<1>3. q.size \in Levels /\ q.v \in VirtPages /\ is_aligned(q.v, q.size)
  BY <1>1, <1>2, AcceptableFacts
<1>4. LEVELS - 1 \in Levels /\ q.size <= LEVELS - 1 /\ LEVELS - 1 \in Int
  BY <1>3, LevelFacts
<1>5. call' = [op |-> "map", v |-> q.v, size |-> q.size, ppn |-> q.ppn,
               level |-> LEVELS - 1, table |-> Root,
               first |-> q.v, end |-> q.v + 1, alloc |-> FALSE]
  BY DEF Map
<1>6. Root \in Nat /\ Root # -1
  BY RootWalk
<1>7. CallTyped'
  BY <1>2, <1>4, <1>5, <1>6 DEF CallTyped
<1>8. Mapping'
  <2>1. Walk(tables', q.v)[LEVELS - 1] = Root
    BY RootWalk
  <2> QED
    BY <1>1, <1>2, <1>3, <1>4, <1>5, <1>6, <2>1 DEF Mapping
<1>9. Allocating' /\ Freeing'
  BY <1>5 DEF Allocating, Freeing
<1> QED
  BY <1>1, <1>7, <1>8, <1>9, TreeFrame, ClaimsFrame DEF TableInv

LEMMA MapAllocStep ==
    ASSUME TableInv, NEW q \in AllocRequests, MapAlloc(q)
    PROVE  TableInv'
<1>1. UNCHANGED <<tables, subtables, free, mapped, allocs>>
  BY DEF MapAlloc
<1>2. q.v \in Nat /\ q.size \in {0, 1} /\ q.count \in Nat \ {0}
  BY PageTableAssumption
<1>3. q.size \in 0 .. LEVELS /\ LEVELS - 1 \in Int
  BY <1>2, LevelFacts
<1>4. PageCount(q.size) \in Nat \ {0}
  BY <1>3, PageCounts
<1>5. q.v + q.count * PageCount(q.size) \in Nat
  BY <1>2, <1>4
<1>6. call' = [op |-> "alloc", v |-> q.v, size |-> q.size, ppn |-> 0,
               level |-> LEVELS - 1, table |-> Root,
               first |-> q.v, end |-> q.v + q.count * PageCount(q.size), alloc |-> TRUE]
  BY DEF MapAlloc
<1>7. Root \in Nat
  BY RootWalk
<1>8. CallTyped'
  BY <1>2, <1>3, <1>5, <1>6, <1>7 DEF CallTyped
<1>9. Mapping' /\ Freeing'
  BY <1>6 DEF Mapping, Freeing
<1>10. Allocating'
  <2>1. Serves(q)' /\ call'.v = q.v /\ call'.op = "alloc" /\ call'.first = q.v
    BY <1>6 DEF Serves
  <2>2. call'.first .. call'.v - 1 = {}
    BY <1>2, <2>1
  <2> QED
    BY <2>1, <2>2 DEF Allocating
<1> QED
  BY <1>1, <1>8, <1>9, <1>10, TreeFrame, ClaimsFrame DEF TableInv

\* The entry that map looks at.
LEMMA EntryFacts ==
    ASSUME TableInv, call.op = "map"
    PROVE  /\ call.v \in VirtPages /\ call.v \in Nat
           /\ call.level \in Levels /\ call.size \in Levels /\ call.size <= call.level
           /\ call.level \in Nat /\ call.size \in Nat
           /\ call.table \in DOMAIN tables
           /\ call.table = Walk(tables, call.v)[call.level] /\ call.table # -1
           /\ vpn(call.v, call.level) \in Index
           /\ Entry \in PTE /\ Entry.ppn \in Nat
           /\ Entry = tables[call.table][vpn(call.v, call.level)]
           /\ Entry = EntryAt(tables, call.v, call.level)
<1>1. /\ call.v \in VirtPages /\ call.level \in Levels /\ call.size \in Levels
      /\ call.size <= call.level
      /\ call.table = Walk(tables, call.v)[call.level] /\ call.table # -1
  BY DEF TableInv, Mapping
<1>2. call.v \in Nat /\ call.level \in Nat /\ call.size \in Nat
  BY <1>1, LevelFacts
<1>3. Forest(tables)
  BY DEF TableInv
<1>4. call.table \in DOMAIN tables /\ vpn(call.v, call.level) \in Index
  BY <1>1, <1>2, <1>3, WalkIn, VpnIndex
<1>5. Entry \in PTE
  BY <1>3, <1>4 DEF Forest, Entry
<1> QED
  BY <1>1, <1>2, <1>4, <1>5, Kinds DEF Entry, EntryAt

LEMMA FollowBranchStep ==
    ASSUME TableInv, FollowBranch
    PROVE  TableInv'
<1>1. UNCHANGED <<tables, subtables, free, mapped, allocs>> /\ call.op = "map"
      /\ call.level > call.size /\ kind(Entry) = "branch"
      /\ call' = [call EXCEPT !.table = Entry.ppn, !.level = @ - 1]
  BY DEF FollowBranch, Descending
<1>2. /\ call.v \in VirtPages /\ call.level \in Levels /\ call.size \in Levels
      /\ call.level \in Nat /\ call.size \in Nat
      /\ call.table = Walk(tables, call.v)[call.level] /\ call.table # -1
      /\ Entry.ppn \in Nat /\ Entry = tables[call.table][vpn(call.v, call.level)]
  BY <1>1, EntryFacts
<1>3. CallTyped
  BY DEF TableInv
<1>4. /\ call' = [op |-> "map", v |-> call.v, size |-> call.size, ppn |-> call.ppn,
                  level |-> call.level - 1, table |-> Entry.ppn,
                  first |-> call.first, end |-> call.end, alloc |-> call.alloc]
  BY <1>1, <1>3 DEF CallTyped
<1>5. CallTyped'
  BY <1>2, <1>3, <1>4 DEF CallTyped
<1>6. Mapping'
  <2>1. call.level - 1 \in Levels /\ call.level - 1 # LEVELS - 1
        /\ (call.level - 1) + 1 = call.level /\ call.size <= call.level - 1
    BY <1>1, <1>2, LevelFacts DEF Levels
  <2>2. Walk(tables, call.v)[call.level - 1]
          = Down(tables, call.v, Walk(tables, call.v)[call.level], call.level)
    BY <2>1, WalkStep
  <2>3. Walk(tables', call.v)[call.level - 1] = Entry.ppn
    BY <1>1, <1>2, <2>2 DEF Down
  <2>4. /\ is_aligned(call.v, call.size) /\ call.ppn \in Nat
        /\ ~ call.alloc => \E q \in MapRequests :
              Acceptable(q) /\ call.v = q.v /\ call.size = q.size /\ call.ppn = q.ppn
    BY <1>1 DEF TableInv, Mapping
  <2>5. /\ call'.v = call.v /\ call'.size = call.size /\ call'.ppn = call.ppn
        /\ call'.alloc = call.alloc /\ call'.level = call.level - 1
        /\ call'.table = Entry.ppn /\ Entry.ppn # -1
    BY <1>2, <1>4
  <2> QED
    BY <1>2, <2>1, <2>3, <2>4, <2>5 DEF Mapping
<1>7. Allocating'
  <2> SUFFICES ASSUME call.alloc PROVE Allocating'
    BY <1>4 DEF Allocating
  <2>1. PICK r \in AllocRequests :
             Serves(r) /\ (InArea(r) \/ (call.op = "alloc" /\ call.v = r.v))
    BY <1>1 DEF TableInv, Allocating
  <2>2. InArea(r)
    BY <1>1, <2>1
  <2>3. InArea(r)' /\ Serves(r)'
    BY <1>4, <2>2 DEF InArea, Serves
  <2> QED
    BY <1>1, <1>4, <2>3 DEF TableInv, Allocating, Unclaimed
<1>8. Freeing'
  BY <1>4 DEF Freeing
<1> QED
  BY <1>1, <1>5, <1>6, <1>7, <1>8, TreeFrame, ClaimsFrame DEF TableInv

LEMMA AllocPageStep ==
    ASSUME TableInv, AllocPage
    PROVE  TableInv'
<1>1. PICK page \in FreeBlocks(call.size) :
          /\ free' = free \ Block(page, call.size)
          /\ IF Acceptable([v |-> call.v, size |-> call.size, ppn |-> page])
             THEN call' = [call EXCEPT !.op = "map", !.ppn = page,
                                       !.level = LEVELS - 1, !.table = Root]
             ELSE call' = NoCall
  BY DEF AllocPage, Return
<1>2. call.op = "alloc" /\ UNCHANGED <<tables, subtables, mapped, allocs>>
  BY DEF AllocPage
<1>3. CallTyped /\ call.alloc
  BY <1>2 DEF TableInv, CallTyped
<1>4. Forest(tables)' /\ Pages' /\ Exact' /\ Owned' /\ SizesFit' /\ Claims'
  BY <1>1, <1>2, TreeFrame, ClaimsFrame
<1> DEFINE q == [v |-> call.v, size |-> call.size, ppn |-> page]
<1>5. CASE ~ Acceptable(q)
  BY <1>1, <1>4, <1>5, Returned DEF TableInv
<1>6. CASE Acceptable(q)
  <2>1. call' = [op |-> "map", v |-> call.v, size |-> call.size, ppn |-> page,
                 level |-> LEVELS - 1, table |-> Root,
                 first |-> call.first, end |-> call.end, alloc |-> call.alloc]
    BY <1>1, <1>3, <1>6 DEF CallTyped
  <2>2. q.v \in Nat /\ q.size \in Nat /\ q.v = call.v /\ q.size = call.size
    BY <1>3 DEF CallTyped
  <2>3. call.size \in Levels /\ call.v \in VirtPages /\ is_aligned(call.v, call.size)
        /\ call.v \in Nat
    BY <1>6, <2>2, AcceptableFacts
  <2>4. page \in free /\ Block(page, call.size) \subseteq free
    BY DEF FreeBlocks
  <2>5. page \in Nat /\ -1 \notin PhysPages
    BY <2>4, PageTableAssumption DEF TableInv, Pages
  <2>6. Root \in Nat /\ Root # -1 /\ Walk(tables', call.v)[LEVELS - 1] = Root
    BY RootWalk
  <2>7. LEVELS - 1 \in Levels /\ LEVELS - 1 \in Int /\ call.size <= LEVELS - 1
    BY <2>3, LevelFacts
  <2>8. CallTyped'
    BY <1>3, <2>1, <2>5, <2>6, <2>7 DEF CallTyped
  <2>9. Mapping'
    BY <1>3, <2>1, <2>3, <2>5, <2>6, <2>7 DEF Mapping
  <2>10. Allocating'
    <3>1. PICK r \in AllocRequests :
               Serves(r) /\ (InArea(r) \/ (call.op = "alloc" /\ call.v = r.v))
      BY <1>2, <1>3 DEF TableInv, Allocating
    <3>2. InArea(r)
      <4>1. CASE call.v = r.v
        <5>1. r \in UsableRequests
          <6>1. r.size = call.size /\ call.size < LEVELS
            BY <2>3, <3>1, LevelFacts DEF Serves, Levels
          <6> QED
            BY <2>3, <4>1, <6>1 DEF UsableRequests
        <5>2. r.v \in Nat /\ r.count * PageCount(r.size) \in Nat \ {0}
          BY <5>1, RequestFacts
        <5> QED
          BY <2>3, <3>1, <4>1, <5>1, <5>2 DEF InArea, Serves
      <4> QED
        BY <3>1, <4>1
    <3>3. InArea(r)' /\ Serves(r)'
      BY <2>1, <3>2 DEF InArea, Serves
    <3>4. Block(page, call.size) \subseteq PhysPages \ (free' \cup subtables')
      BY <1>1, <1>2, <2>4 DEF TableInv, Pages
    <3>5. \A v \in VArea : mapped[v] \notin Block(page, call.size)
      BY <2>4, <2>5 DEF TableInv, Owned, Pages
    <3> QED
      BY <1>2, <1>3, <2>1, <3>3, <3>4, <3>5 DEF TableInv, Allocating, Unclaimed
  <2>11. Freeing'
    BY <2>1 DEF Freeing
  <2> QED
    BY <1>4, <2>8, <2>9, <2>10, <2>11 DEF TableInv
<1> QED
  BY <1>5, <1>6

\* What the invariant says of an allocation.
LEMMA ClaimFacts ==
    ASSUME TableInv, NEW a \in allocs
    PROVE  \E r \in UsableRequests :
              /\ SameArea(a, r) /\ Area(a) = Area(r) /\ Area(r) \subseteq VArea
              /\ a.v \in Area(a)
              /\ \A v \in Area(a) : v \in VirtPages /\ mapped[v] # -1
<1>1. PICK r \in UsableRequests : SameArea(a, r)
  BY DEF TableInv, Claims
<1>2. \A v \in Area(a) : v \in VirtPages /\ mapped[v] # -1
  BY DEF TableInv, Claims
<1>3. Area(a) = Area(r)
  BY <1>1 DEF SameArea, Area
<1>4. r.v \in Nat /\ r.count * PageCount(r.size) \in Nat \ {0}
  BY RequestFacts
<1>5. a.v \in Area(a)
  BY <1>1, <1>3, <1>4 DEF SameArea, Area
<1> QED
  BY <1>1, <1>2, <1>3, <1>5 DEF VArea

\* map_alloc makes no Terapages, so traverse does not panic in its areas.
LEMMA AreaNoTerapage ==
    ASSUME TableInv, NEW r \in UsableRequests, NEW v \in Area(r), v \in VirtPages
    PROVE  ~ TraversePanics(v)
<1>1. Leaves(tables, v) \subseteq {r.size}
  BY DEF TableInv, SizesFit
<1>2. r.size \in {0, 1}
  BY PageTableAssumption DEF UsableRequests
<1> QED
  BY <1>1, <1>2, LeavesIsLeafLevels DEF TraversePanics, Terapage

LEMMA FreeStep ==
    ASSUME TableInv, NEW a \in allocs, Free(a)
    PROVE  TableInv'
<1>1. UNCHANGED <<tables, subtables, free, mapped>> /\ allocs' = allocs \ {a} /\ Idle
  BY DEF Free
<1>2. Forest(tables)' /\ Pages' /\ Exact' /\ Owned' /\ SizesFit'
  BY <1>1, TreeFrame
<1>3. Claims'
  BY <1>1 DEF TableInv, Claims
<1>4. PICK r \in UsableRequests :
          /\ SameArea(a, r) /\ Area(a) = Area(r) /\ Area(r) \subseteq VArea
          /\ a.v \in Area(a)
          /\ \A v \in Area(a) : v \in VirtPages /\ mapped[v] # -1
  BY ClaimFacts
<1>5. a.v \in VirtPages /\ a.v \in Nat /\ mapped[a.v] # -1
  BY <1>4, LevelFacts
<1>6. LeafLevels(a.v) # {}
  <2>1. PhysOf(tables, a.v) # -1
    BY <1>5 DEF TableInv, Exact
  <2> QED
    BY <2>1, LeavesIsLeafLevels DEF PhysOf
<1>7. LeafFound(a.v).size = r.size
  <2>1. PICK l \in Levels : Leaves(tables, a.v) = {l} /\ LeafFound(a.v).size = l
    BY <1>5, <1>6, TraverseIs
  <2>2. Leaves(tables, a.v) \subseteq {r.size}
    BY <1>4, <1>5 DEF TableInv, SizesFit
  <2> QED
    BY <2>1, <2>2
<1>8. /\ r.v \in Nat /\ r.size \in Nat /\ r.count * PageCount(r.size) \in Nat \ {0}
      /\ is_aligned(r.v, r.size) /\ r.size \in Levels
  BY RequestFacts, LevelFacts
<1>9. call' = [op |-> "free", v |-> r.v, size |-> r.size, ppn |-> 0, level |-> 0, table |-> 0,
               first |-> r.v, end |-> r.v + r.count * PageCount(r.size), alloc |-> FALSE]
  <2>0. ~ TraversePanics(a.v)
    BY <1>4, <1>5, AreaNoTerapage
  <2>1. call' = [NoCall EXCEPT !.op = "free", !.v = a.v, !.size = r.size,
                   !.first = a.v, !.end = a.v + a.count * PageCount(r.size)]
    BY <1>6, <1>7, <2>0 DEF Free
  <2> QED
    BY <1>4, <2>1 DEF SameArea, NoCall
<1>10. CallTyped'
  BY <1>8, <1>9 DEF CallTyped
<1>11. Mapping' /\ Allocating'
  BY <1>9 DEF Mapping, Allocating
<1>12. Freeing'
  <2>1. InArea(r)' /\ r \in AllocRequests
    BY <1>8, <1>9 DEF InArea, Serves, UsableRequests
  <2>2. call'.v .. call'.end - 1 = Area(a)
    <3>1. call'.v = r.v /\ call'.end = r.v + r.count * PageCount(r.size)
      BY <1>9
    <3>2. Area(r) = r.v .. r.v + r.count * PageCount(r.size) - 1
      BY DEF Area
    <3>3. Area(a) = Area(r)
      BY <1>4
    <3> QED
      BY <1>8, <3>1, <3>2, <3>3
  <2>3. ASSUME NEW u \in Area(a) PROVE u \in VirtPages /\ mapped'[u] # -1 /\ Unclaimed(u)'
    BY <1>1, <1>4 DEF TableInv, Claims, Unclaimed
  <2> QED
    BY <2>1, <2>2, <2>3 DEF Freeing
<1> QED
  BY <1>2, <1>3, <1>10, <1>11, <1>12 DEF TableInv

-----------------------------------------------------------------------------
(* Steps that write an entry *)

\* Writing an entry that is no branch keeps the forest.
SameBut(T, U, t0, k0) ==
    \A t \in DOMAIN T, k \in Index : t # t0 \/ k # k0 => U[t][k] = T[t][k]

Rewritten(T, U, t0, k0, e) ==
    /\ t0 \in DOMAIN T /\ k0 \in Index /\ e \in PTE /\ kind(e) # "branch"
    /\ U = [T EXCEPT ![t0][k0] = e]

LEMMA WriteForest ==
    ASSUME NEW T, Forest(T), NEW U, NEW t0, NEW k0, NEW e, Rewritten(T, U, t0, k0, e)
    PROVE  Forest(U) /\ DOMAIN U = DOMAIN T /\ U[t0][k0] = e /\ SameBut(T, U, t0, k0)
<1> USE DEF SameBut, Rewritten
<1>1. \A t \in DOMAIN T : T[t] \in [Index -> PTE]
  BY DEF Forest
<1>2. DOMAIN U = DOMAIN T /\ U[t0][k0] = e
  BY <1>1
<1>3. \A t \in DOMAIN T, k \in Index : t # t0 \/ k # k0 => U[t][k] = T[t][k]
  BY <1>1
<1>4. \A t \in DOMAIN U : U[t] \in [Index -> PTE]
  BY <1>1
<1>5. \A t \in DOMAIN U, k \in Index : kind(U[t][k]) = "branch" => U[t][k] = T[t][k]
  BY <1>2, <1>3
<1> QED
  BY <1>2, <1>3, <1>4, <1>5 DEF Forest

\* So does hanging an empty table below an empty entry.
Grown(T, U, t0, k0, p) ==
    /\ t0 \in DOMAIN T /\ k0 \in Index /\ p \in Nat /\ p \notin DOMAIN T
    /\ DOMAIN U = DOMAIN T \cup {p} /\ U[p] = ZeroTable
    /\ U[t0] = [T[t0] EXCEPT ![k0] = Branch(p)]
    /\ \A t \in DOMAIN T : t # t0 => U[t] = T[t]

LEMMA GrowForest ==
    ASSUME NEW T, Forest(T), NEW U, NEW t0, NEW k0, NEW p, Grown(T, U, t0, k0, p)
    PROVE  /\ Forest(U) /\ DOMAIN U = DOMAIN T \cup {p} /\ U[t0][k0] = Branch(p)
           /\ \A k \in Index : U[p][k] = ZERO
           /\ SameBut(T, U, t0, k0)
<1> USE DEF Grown, SameBut
<1>1. \A t \in DOMAIN T : T[t] \in [Index -> PTE]
  BY DEF Forest
<1>2. DOMAIN U = DOMAIN T \cup {p} /\ U[t0][k0] = Branch(p) /\ t0 # p
  BY <1>1
<1>3. \A k \in Index : U[p][k] = ZERO
  BY <1>2 DEF ZeroTable, Index
<1>4. \A t \in DOMAIN T, k \in Index : t # t0 \/ k # k0 => U[t][k] = T[t][k]
  BY <1>1
<1>5. \A t \in DOMAIN U : U[t] \in [Index -> PTE]
  <2>1. ZeroTable \in [Index -> PTE] /\ Branch(p) \in PTE
    BY Kinds DEF ZeroTable, Index
  <2> QED
    BY <1>1, <2>1
<1>6. ASSUME NEW t \in DOMAIN U, NEW k \in Index, kind(U[t][k]) = "branch"
      PROVE  \/ t = t0 /\ k = k0 /\ U[t][k].ppn = p
             \/ t \in DOMAIN T /\ U[t][k] = T[t][k] /\ U[t][k].ppn \in DOMAIN T \ {Root}
  <2>1. t # p
    BY <1>3, <1>6, Kinds
  <2>2. CASE t = t0 /\ k = k0
    BY <1>2, <2>2, Kinds
  <2>3. CASE t # t0 \/ k # k0
    <3>1. t \in DOMAIN T
      BY <1>2, <2>1
    <3>2. U[t][k] = T[t][k]
      BY <1>4, <2>3, <3>1
    <3> QED
      BY <1>6, <3>1, <3>2 DEF Forest
  <2> QED
    BY <2>2, <2>3
<1>7. \A t \in DOMAIN U, k \in Index :
         kind(U[t][k]) = "branch" => U[t][k].ppn \in DOMAIN U \ {Root}
  <2>1. p # Root
    BY DEF Forest
  <2> QED
    BY <1>2, <1>6, <2>1
<1>8. \A s, t \in DOMAIN U, j, k \in Index :
         kind(U[s][j]) = "branch" /\ kind(U[t][k]) = "branch" /\ U[s][j].ppn = U[t][k].ppn
            => s = t /\ j = k
  <2> TAKE s, t \in DOMAIN U, j, k \in Index
  <2> HAVE kind(U[s][j]) = "branch" /\ kind(U[t][k]) = "branch" /\ U[s][j].ppn = U[t][k].ppn
  <2>1. CASE U[s][j].ppn = p
    <3>1. s = t0 /\ j = k0
      BY <1>6, <2>1
    <3>2. U[t][k].ppn = p /\ kind(U[t][k]) = "branch"
      BY <2>1
    <3>3. t = t0 /\ k = k0
      BY <1>6, <3>2
    <3> QED
      BY <3>1, <3>3
  <2>2. CASE U[s][j].ppn # p
    <3>1. s \in DOMAIN T /\ U[s][j] = T[s][j] /\ t \in DOMAIN T /\ U[t][k] = T[t][k]
      BY <1>6, <2>2
    <3> QED
      BY <3>1 DEF Forest
  <2> QED
    BY <2>1, <2>2
<1>9. Root \in DOMAIN U /\ -1 \notin DOMAIN U
  BY <1>2 DEF Forest
<1>10. Forest(U)
  BY <1>5, <1>7, <1>8, <1>9, Zenon DEF Forest
<1> QED
  BY <1>2, <1>3, <1>4, <1>10

\* A leaf maps all pages of its span.
LEMMA LeafSpan ==
    ASSUME TableInv, NEW v \in VirtPages, NEW l \in Levels, Leaves(tables, v) = {l},
           NEW u \in Span(v, l)
    PROVE  /\ u \in VirtPages /\ Leaves(tables, u) = {l}
           /\ mapped[u] = EntryAt(tables, v, l).ppn + Offset(u, l)
<1>1. u \in VirtPages
  BY SpanInVirt
<1>2. u \in Nat /\ v \in Nat
  BY <1>1, LevelFacts
<1>3. High(u, l) = High(v, l)
  BY <1>2, SpanSymmetric
<1>4. Walk(tables, v)[l] # -1 /\ kind(EntryAt(tables, v, l)) = "leaf"
  BY DEF Leaves
<1>5. Written(tables, tables, v, l) /\ Forest(tables)
  BY <1>4, NothingWritten DEF TableInv
<1>6. Leaves(tables, u) = {l} /\ PhysOf(tables, u) = EntryAt(tables, v, l).ppn + Offset(u, l)
  BY <1>1, <1>3, <1>4, <1>5, SpanLeaf DEF EntryAt
<1> QED
  BY <1>1, <1>6 DEF TableInv, Exact

\* A leaf for a page of map_alloc's areas has the size of the request; a leaf
\* for another page reaches into none of them.
LEMMA AreaSpan ==
    ASSUME TableInv, NEW v \in VirtPages, NEW l \in Levels, Leaves(tables, v) = {l}
    PROVE  /\ \A r \in UsableRequests :
                 v \in Area(r) => l = r.size /\ Span(v, l) \subseteq Area(r)
           /\ v \notin VArea => Span(v, l) \cap VArea = {}
<1>1. ASSUME NEW u \in Span(v, l), NEW r \in UsableRequests, u \in Area(r)
      PROVE  l = r.size /\ Span(u, l) \subseteq Area(r) /\ v \in Area(r)
  <2>1. u \in VirtPages /\ Leaves(tables, u) = {l}
    BY LeafSpan
  <2>2. l = r.size
    BY <1>1, <2>1 DEF TableInv, SizesFit
  <2>3. Span(u, l) \subseteq Area(r)
    BY <1>1, <2>2, WholePages
  <2>4. v \in Span(u, l)
    BY <2>1, SpanSymmetric, LevelFacts
  <2> QED
    BY <2>2, <2>3, <2>4
<1>2. v \in Span(v, l)
  BY SelfInSpan, LevelFacts
<1> QED
  BY <1>1, <1>2 DEF VArea

LEMMA NewTableStep ==
    ASSUME TableInv, NewTable
    PROVE  TableInv'
<1>1. /\ call.op = "map" /\ call.level > call.size /\ kind(Entry) = "none"
      /\ UNCHANGED <<mapped, allocs>>
  BY DEF NewTable, Descending
<1>2. /\ call.v \in VirtPages /\ call.level \in Levels /\ call.size \in Levels
      /\ call.level \in Nat /\ call.size \in Nat
      /\ call.table \in DOMAIN tables
      /\ call.table = Walk(tables, call.v)[call.level] /\ call.table # -1
      /\ vpn(call.v, call.level) \in Index
      /\ Entry = tables[call.table][vpn(call.v, call.level)]
  BY <1>1, EntryFacts
<1>3. PICK p \in free :
          /\ free' = free \ {p}
          /\ subtables' = subtables \cup {p}
          /\ tables' = [t \in DOMAIN tables \cup {p} |->
                IF t = p THEN ZeroTable
                ELSE IF t = call.table
                     THEN [tables[t] EXCEPT ![vpn(call.v, call.level)] = Branch(p)]
                ELSE tables[t]]
          /\ call' = [call EXCEPT !.table = p, !.level = @ - 1]
  BY DEF NewTable
<1>4. p \in PhysPages /\ p \in Nat /\ p \notin DOMAIN tables
  BY PageTableAssumption DEF TableInv, Pages
<1>5. Forest(tables)
  BY DEF TableInv
<1>6. /\ Forest(tables') /\ DOMAIN tables' = DOMAIN tables \cup {p}
      /\ tables'[call.table][vpn(call.v, call.level)] = Branch(p)
      /\ \A k \in Index : tables'[p][k] = ZERO
      /\ SameBut(tables, tables', call.table, vpn(call.v, call.level))
  <2>1. /\ DOMAIN tables' = DOMAIN tables \cup {p}
        /\ tables'[p] = ZeroTable
        /\ tables'[call.table]
             = [tables[call.table] EXCEPT ![vpn(call.v, call.level)] = Branch(p)]
        /\ \A t \in DOMAIN tables : t # call.table => tables'[t] = tables[t]
    BY <1>2, <1>3, <1>4
  <2>2. Grown(tables, tables', call.table, vpn(call.v, call.level), p)
    BY <1>2, <1>4, <2>1 DEF Grown
  <2>3. Forest(tables') /\ SameBut(tables, tables', call.table, vpn(call.v, call.level))
    BY <1>5, <2>2, GrowForest
  <2>4. tables'[call.table][vpn(call.v, call.level)] = Branch(p)
    BY <1>2, <1>5, <2>1 DEF Forest
  <2>5. \A k \in Index : tables'[p][k] = ZERO
    BY <2>1 DEF ZeroTable, Index
  <2> QED
    BY <2>1, <2>3, <2>4, <2>5
<1>7. Written(tables, tables', call.v, call.level) /\ Written(tables, tables, call.v, call.level)
  BY <1>2, <1>6 DEF Written, SameBut
<1>8. Pages'
  BY <1>3, <1>4, <1>6 DEF TableInv, Pages
<1>9. ASSUME NEW v \in VirtPages
      PROVE  Leaves(tables', v) = Leaves(tables, v) /\ PhysOf(tables', v) = PhysOf(tables, v)
  <2>1. CASE High(v, call.level) # High(call.v, call.level)
    BY <1>2, <1>5, <1>7, <2>1, OthersAsBefore
  <2>2. CASE High(v, call.level) = High(call.v, call.level)
    <3>1. Leaves(tables', v) = {} /\ PhysOf(tables', v) = -1
      BY <1>2, <1>4, <1>5, <1>6, <1>7, <2>2, SpanNewTable
    <3>2. Leaves(tables, v) = {} /\ PhysOf(tables, v) = -1
      BY <1>1, <1>2, <1>5, <1>7, <2>2, SpanNone
    <3> QED
      BY <3>1, <3>2
  <2> QED
    BY <2>1, <2>2
<1>10. Exact'
  BY <1>1, <1>9 DEF TableInv, Exact
<1>11. SizesFit'
  BY <1>9 DEF TableInv, SizesFit
<1>12. Owned'
  BY <1>1, <1>3 DEF TableInv, Owned
<1>13. Claims'
  BY <1>1, ClaimsFrame
<1>14. CallTyped
  BY DEF TableInv
<1>15. call' = [op |-> "map", v |-> call.v, size |-> call.size, ppn |-> call.ppn,
                level |-> call.level - 1, table |-> p,
                first |-> call.first, end |-> call.end, alloc |-> call.alloc]
  BY <1>1, <1>3, <1>14 DEF CallTyped
<1>16. CallTyped'
  BY <1>2, <1>4, <1>14, <1>15 DEF CallTyped
<1>17. Mapping'
  <2>1. call.level - 1 \in Levels /\ call.size <= call.level - 1
    BY <1>1, <1>2, LevelFacts DEF Levels
  <2>2. Walk(tables', call.v)[call.level - 1] = p
    BY <1>2, <1>4, <1>5, <1>6, <1>7, <2>1, SpanNewTable
  <2>3. /\ is_aligned(call.v, call.size) /\ call.ppn \in Nat
        /\ ~ call.alloc => \E q \in MapRequests :
              Acceptable(q) /\ call.v = q.v /\ call.size = q.size /\ call.ppn = q.ppn
    BY <1>1 DEF TableInv, Mapping
  <2>4. /\ call'.v = call.v /\ call'.size = call.size /\ call'.ppn = call.ppn
        /\ call'.alloc = call.alloc /\ call'.level = call.level - 1
        /\ call'.table = p /\ p # -1
    BY <1>4, <1>15
  <2> QED
    BY <1>2, <2>1, <2>2, <2>3, <2>4 DEF Mapping
<1>18. Allocating'
  <2> SUFFICES ASSUME call.alloc PROVE Allocating'
    BY <1>15 DEF Allocating
  <2>1. PICK r \in AllocRequests :
             Serves(r) /\ (InArea(r) \/ (call.op = "alloc" /\ call.v = r.v))
    BY <1>1 DEF TableInv, Allocating
  <2>2. InArea(r)
    BY <1>1, <2>1
  <2>3. InArea(r)' /\ Serves(r)'
    BY <1>15, <2>2 DEF InArea, Serves
  <2>4. Block(call.ppn, call.size) \subseteq PhysPages \ (free' \cup subtables')
    BY <1>1, <1>3 DEF TableInv, Allocating
  <2> QED
    BY <1>1, <1>15, <2>3, <2>4 DEF TableInv, Allocating, Unclaimed
<1>19. Freeing'
  BY <1>15 DEF Freeing
<1> QED
  BY <1>6, <1>8, <1>10, <1>11, <1>12, <1>13, <1>16, <1>17, <1>18, <1>19 DEF TableInv

\* The page that map_alloc maps lies in the areas of its request.
LEMMA AllocSpan ==
    ASSUME TableInv, NEW r \in AllocRequests, InArea(r), call.v \in VirtPages
    PROVE  /\ r \in UsableRequests /\ r.size = call.size /\ call.size \in Levels
           /\ call.v \in Area(r) /\ Area(r) = call.first .. call.end - 1
           /\ Span(call.v, call.size) = call.v .. call.v + PageCount(call.size) - 1
           /\ Span(call.v, call.size) \subseteq Area(r) \cap VirtPages
           /\ call.v + PageCount(call.size) <= call.end
           /\ is_aligned(call.v + PageCount(call.size), call.size)
           /\ PageCount(call.size) \in Nat \ {0}
           /\ call.first \in Nat /\ call.v \in Nat /\ call.end \in Nat
           /\ call.first <= call.v
<1>1. r \in UsableRequests /\ Serves(r) /\ is_aligned(call.v, call.size)
      /\ call.first <= call.v /\ call.v < call.end
  BY DEF InArea
<1>2. /\ call.first = r.v /\ call.size = r.size
      /\ call.end = r.v + r.count * PageCount(r.size)
  BY <1>1 DEF Serves
<1>3. /\ r.v \in Nat /\ r.size \in Levels /\ r.size \in 0 .. LEVELS
      /\ PageCount(r.size) \in Nat \ {0} /\ r.count * PageCount(r.size) \in Nat
      /\ is_aligned(r.v + r.count * PageCount(r.size), r.size)
  BY <1>1, RequestFacts
<1>4. call.v \in Nat /\ call.first \in Nat /\ call.end \in Nat
  BY DEF TableInv, CallTyped
<1>5. Area(r) = call.first .. call.end - 1
  <2>1. Area(r) = r.v .. (r.v + r.count * PageCount(r.size)) - 1
    BY <1>3 DEF Area
  <2> QED
    BY <1>2, <1>3, <1>4, <2>1
<1>6. call.v \in Area(r)
  BY <1>1, <1>4, <1>5
<1>7. Span(call.v, call.size) \subseteq Area(r)
  BY <1>1, <1>2, <1>6, WholePages
<1>8. Span(call.v, call.size) \subseteq VirtPages
  BY <1>2, <1>3, SpanInVirt
<1>9. Span(call.v, call.size) = call.v .. call.v + PageCount(call.size) - 1
  BY <1>1, <1>2, <1>3, <1>4, AlignedSpan
<1>10. call.v + PageCount(call.size) <= call.end
  <2>1. call.size \in 0 .. LEVELS /\ is_aligned(call.end, call.size)
    BY <1>2, <1>3
  <2> QED
    BY <1>1, <1>4, <2>1, AlignedStep
<1>11. is_aligned(call.v + PageCount(call.size), call.size)
  <2>1. call.size \in 0 .. LEVELS /\ 0 \in Nat
    BY <1>2, <1>3
  <2> QED
    BY <1>1, <1>4, <2>1, AlignedSum
<1> QED
  BY <1>1, <1>2, <1>3, <1>4, <1>5, <1>6, <1>7, <1>8, <1>9, <1>10, <1>11

\* What writing an entry does, in the terms of the invariant.
LEMMA WriteEntry ==
    ASSUME TableInv, NEW v0 \in VirtPages, NEW l0 \in Levels, Walk(tables, v0)[l0] # -1,
           NEW e, Rewritten(tables, tables', Walk(tables, v0)[l0], vpn(v0, l0), e)
    PROVE  /\ Forest(tables') /\ DOMAIN tables' = DOMAIN tables
           /\ \A v \in VirtPages : v \notin Span(v0, l0) =>
                 Leaves(tables', v) = Leaves(tables, v) /\ PhysOf(tables', v) = PhysOf(tables, v)
           /\ \A v \in Span(v0, l0) : v \in VirtPages
           /\ kind(e) = "none" => \A v \in Span(v0, l0) :
                 Leaves(tables', v) = {} /\ PhysOf(tables', v) = -1
           /\ kind(e) = "leaf" => \A v \in Span(v0, l0) :
                 Leaves(tables', v) = {l0} /\ PhysOf(tables', v) = e.ppn + Offset(v, l0)
<1> DEFINE t0 == Walk(tables, v0)[l0]
           k0 == vpn(v0, l0)
<1>1. Forest(tables)
  BY DEF TableInv
<1>2. v0 \in Nat /\ VirtPages \subseteq Nat /\ l0 \in 0 .. LEVELS
  BY LevelFacts
<1>3. t0 \in DOMAIN tables /\ k0 \in Index
  BY <1>1, <1>2, WalkIn, VpnIndex
<1>4. Forest(tables') /\ DOMAIN tables' = DOMAIN tables /\ SameBut(tables, tables', t0, k0)
  BY <1>1, WriteForest
<1>5. tables'[t0][k0] = e
  BY <1>1, <1>3 DEF Forest, Rewritten
<1>6. Written(tables, tables', v0, l0)
  BY <1>4 DEF Written, SameBut
<1>7. ASSUME NEW v \in VirtPages, v \notin Span(v0, l0)
      PROVE  Leaves(tables', v) = Leaves(tables, v) /\ PhysOf(tables', v) = PhysOf(tables, v)
  <2>1. High(v, l0) # High(v0, l0)
    BY <1>2, <1>7, SpanIsHigh
  <2> QED
    BY <1>1, <1>6, <2>1, OthersAsBefore
<1>8. \A v \in Span(v0, l0) : v \in VirtPages
  BY SpanInVirt
<1>9. ASSUME NEW v \in Span(v0, l0) PROVE v \in VirtPages /\ High(v, l0) = High(v0, l0)
  BY <1>2, <1>8, SpanIsHigh
<1>10. ASSUME NEW v \in Span(v0, l0), kind(e) = "none"
       PROVE  Leaves(tables', v) = {} /\ PhysOf(tables', v) = -1
  BY <1>1, <1>5, <1>6, <1>9, <1>10, SpanNone
<1>11. ASSUME NEW v \in Span(v0, l0), kind(e) = "leaf"
       PROVE  Leaves(tables', v) = {l0} /\ PhysOf(tables', v) = e.ppn + Offset(v, l0)
  <2>1. kind(tables'[t0][k0]) = "leaf"
    BY <1>5, <1>11
  <2>2. Leaves(tables', v) = {l0} /\ PhysOf(tables', v) = tables'[t0][k0].ppn + Offset(v, l0)
    BY <1>1, <1>6, <1>9, <2>1, SpanLeaf
  <2> QED
    BY <1>5, <2>2
<1> QED
  BY <1>4, <1>7, <1>8, <1>10, <1>11

\* unmap and free: clearing a leaf unmaps its span and nothing else.
LEMMA ClearLeaf ==
    ASSUME TableInv, NEW v0 \in VirtPages, NEW l0 \in Levels, Leaves(tables, v0) = {l0},
           tables' = [tables EXCEPT ![Walk(tables, v0)[l0]][vpn(v0, l0)] = ZERO],
           mapped' = [v \in VirtPages |-> IF v \in Span(v0, l0) THEN -1 ELSE mapped[v]]
    PROVE  Forest(tables)' /\ DOMAIN tables' = DOMAIN tables /\ Exact' /\ SizesFit'
<1>1. Walk(tables, v0)[l0] # -1
  BY DEF Leaves
<1>2. /\ Forest(tables') /\ DOMAIN tables' = DOMAIN tables
      /\ \A v \in VirtPages : v \notin Span(v0, l0) =>
            Leaves(tables', v) = Leaves(tables, v) /\ PhysOf(tables', v) = PhysOf(tables, v)
      /\ \A v \in Span(v0, l0) : Leaves(tables', v) = {} /\ PhysOf(tables', v) = -1
  <2>1. Walk(tables, v0)[l0] \in DOMAIN tables /\ vpn(v0, l0) \in Index
    BY <1>1, WalkIn, VpnIndex, LevelFacts DEF TableInv
  <2>2. Rewritten(tables, tables', Walk(tables, v0)[l0], vpn(v0, l0), ZERO)
    BY <2>1, Kinds DEF Rewritten
  <2>3. kind(ZERO) = "none"
    BY Kinds
  <2> QED
    BY <1>1, <2>2, <2>3, WriteEntry, ZenonT(60)
<1>3. Exact'
  BY <1>2 DEF TableInv, Exact
<1>4. SizesFit'
  BY <1>2 DEF TableInv, SizesFit
<1> QED
  BY <1>2, <1>3, <1>4

LEMMA UnmapStep ==
    ASSUME TableInv, RequestsSeparate, NEW v0 \in Unmappable, Unmap(v0)
    PROVE  TableInv'
<1>1. PICK q \in MapRequests : Acceptable(q) /\ v0 \in Span(q.v, q.size)
  BY DEF Unmappable
<1>2. q.v \in Nat /\ q.size \in Nat
  BY PageTableAssumption
<1>3. q.size \in Levels /\ q.v \in VirtPages
  BY <1>1, <1>2, AcceptableFacts
<1>4. v0 \in VirtPages /\ v0 \in Nat
  BY <1>1, <1>3, SpanInVirt, LevelFacts
<1>5. v0 \notin VArea
  BY <1>1 DEF RequestsSeparate, VArea
<1>6. LeafLevels(v0) # {} /\ Idle /\ UNCHANGED <<subtables, free, call, allocs>>
  BY DEF Unmap, UNMAPPED
<1>7. PICK l0 \in Levels :
          /\ Leaves(tables, v0) = {l0}
          /\ LeafFound(v0).size = l0 /\ LeafFound(v0).table = Walk(tables, v0)[l0]
          /\ LeafFound(v0).index = vpn(v0, l0)
  BY <1>4, <1>6, TraverseIs
<1>8. /\ tables' = [tables EXCEPT ![Walk(tables, v0)[l0]][vpn(v0, l0)] = ZERO]
      /\ mapped' = [v \in VirtPages |-> IF v \in Span(v0, l0) THEN -1 ELSE mapped[v]]
  BY <1>7 DEF Unmap, UNMAPPED
<1>9. Forest(tables)' /\ DOMAIN tables' = DOMAIN tables /\ Exact' /\ SizesFit'
  BY <1>4, <1>7, <1>8, ClearLeaf
<1>10. Span(v0, l0) \cap VArea = {}
  BY <1>4, <1>5, <1>7, AreaSpan
<1>11. \A v \in VArea : v \in VirtPages /\ mapped'[v] = mapped[v]
  BY <1>8, <1>10 DEF VArea
<1>12. Pages'
  BY <1>6, <1>9 DEF TableInv, Pages
<1>13. Owned'
  BY <1>6, <1>11 DEF TableInv, Owned
<1>14. Claims'
  <2>1. \A a \in allocs : Area(a) \subseteq VArea
    BY ClaimFacts
  <2> QED
    BY <1>6, <1>11, <2>1 DEF TableInv, Claims
<1>15. CallTyped'
  BY <1>6 DEF TableInv, CallTyped
<1>16. Mapping' /\ Allocating' /\ Freeing'
  BY <1>6 DEF Idle, Mapping, Allocating, Freeing
<1> QED
  BY <1>9, <1>12, <1>13, <1>14, <1>15, <1>16 DEF TableInv

\* The leaf that free clears, and the pages that it gives back.
LEMMA FreePageFacts ==
    ASSUME TableInv, FreePage
    PROVE  \E r \in UsableRequests :
              /\ r \in AllocRequests /\ InArea(r)
              /\ call.v \in VirtPages /\ call.size \in Levels
              /\ Leaves(tables, call.v) = {call.size}
              /\ tables' = [tables EXCEPT ![Walk(tables, call.v)[call.size]]
                                           [vpn(call.v, call.size)] = ZERO]
              /\ mapped' = [v \in VirtPages |->
                              IF v \in Span(call.v, call.size) THEN -1 ELSE mapped[v]]
              /\ free' = free \cup Block(mapped[call.v], call.size)
              /\ \A p \in Block(mapped[call.v], call.size) :
                    \E u \in Span(call.v, call.size) : mapped[u] = p
<1>1. call.op = "free" /\ LeafLevels(call.v) # {}
  BY DEF FreePage, UNMAPPED
<1>2. PICK r \in AllocRequests : InArea(r)
  BY <1>1 DEF TableInv, Freeing
<1>3. call.v \in call.v .. call.end - 1
  BY <1>2 DEF InArea, TableInv, CallTyped
<1>4. call.v \in VirtPages /\ mapped[call.v] # -1 /\ call.v \in Nat
  BY <1>1, <1>3, LevelFacts DEF TableInv, Freeing
<1>5. /\ r \in UsableRequests /\ r.size = call.size /\ call.size \in Levels
      /\ call.v \in Area(r)
      /\ Span(call.v, call.size) = call.v .. call.v + PageCount(call.size) - 1
      /\ PageCount(call.size) \in Nat \ {0}
  BY <1>2, <1>4, AllocSpan
<1>6. PICK l0 \in Levels :
          /\ Leaves(tables, call.v) = {l0}
          /\ LeafFound(call.v).size = l0 /\ LeafFound(call.v).table = Walk(tables, call.v)[l0]
          /\ LeafFound(call.v).index = vpn(call.v, l0)
  BY <1>1, <1>4, TraverseIs
<1>7. l0 = call.size
  BY <1>4, <1>5, <1>6, AreaSpan
<1>8. translate(call.v) = mapped[call.v]
  <2>1. ~ TraversePanics(call.v)
    BY DEF FreePage, UNMAPPED
  <2> QED
    BY <1>4, <2>1, PhysOfIsTranslate DEF TableInv, Exact
<1>9. /\ tables' = [tables EXCEPT ![Walk(tables, call.v)[call.size]]
                                   [vpn(call.v, call.size)] = ZERO]
      /\ mapped' = [v \in VirtPages |->
                      IF v \in Span(call.v, call.size) THEN -1 ELSE mapped[v]]
      /\ free' = free \cup Block(mapped[call.v], call.size)
  BY <1>6, <1>7, <1>8 DEF FreePage, UNMAPPED
<1>10. ASSUME NEW p \in Block(mapped[call.v], call.size)
       PROVE  \E u \in Span(call.v, call.size) : mapped[u] = p
  <2> DEFINE b == EntryAt(tables, call.v, call.size).ppn
  <2>1. is_aligned(call.v, call.size) /\ call.size \in 0 .. LEVELS
    BY <1>2, <1>5, LevelFacts DEF InArea
  <2>2. \A u \in Span(call.v, call.size) : mapped[u] = b + Offset(u, call.size)
    BY <1>4, <1>5, <1>6, <1>7, LeafSpan
  <2>3. \A u \in Span(call.v, call.size) : Offset(u, call.size) = u - call.v
    BY <1>4, <2>1, AlignedSpan
  <2>4. b \in Nat
    <3>1. Walk(tables, call.v)[call.size] \in DOMAIN tables /\ vpn(call.v, call.size) \in Index
      BY <1>4, <1>5, <1>6, <1>7, WalkIn, VpnIndex DEF TableInv, Leaves
    <3> QED
      BY <3>1, Kinds DEF TableInv, Forest, EntryAt
  <2> HIDE DEF b
  <2>5. call.v \in Span(call.v, call.size)
    BY <1>4, <1>5, SelfInSpan
  <2>6. mapped[call.v] = b
    BY <1>4, <2>2, <2>3, <2>4, <2>5
  <2>7. p \in b .. b + PageCount(call.size) - 1
    BY <2>6 DEF Block
  <2>8. call.v + (p - b) \in Span(call.v, call.size) /\ (call.v + (p - b)) - call.v = p - b
        /\ b + (p - b) = p
    BY <1>4, <1>5, <2>4, <2>7
  <2>9. mapped[call.v + (p - b)] = b + (p - b)
    BY <2>2, <2>3, <2>8
  <2> QED
    BY <2>8, <2>9
<1> QED
  BY <1>2, <1>4, <1>5, <1>6, <1>7, <1>9, <1>10

LEMMA FreePageStep ==
    ASSUME TableInv, FreePage
    PROVE  TableInv'
<1> DEFINE span == Span(call.v, call.size)
<1>1. PICK r \in UsableRequests :
          /\ r \in AllocRequests /\ InArea(r)
          /\ call.v \in VirtPages /\ call.size \in Levels
          /\ Leaves(tables, call.v) = {call.size}
          /\ tables' = [tables EXCEPT ![Walk(tables, call.v)[call.size]]
                                       [vpn(call.v, call.size)] = ZERO]
          /\ mapped' = [v \in VirtPages |-> IF v \in span THEN -1 ELSE mapped[v]]
          /\ free' = free \cup Block(mapped[call.v], call.size)
          /\ \A p \in Block(mapped[call.v], call.size) : \E u \in span : mapped[u] = p
  BY FreePageFacts
<1>2. call.op = "free" /\ UNCHANGED <<subtables, allocs>>
      /\ IF LastPage THEN call' = NoCall
         ELSE call' = [call EXCEPT !.v = @ + PageCount(call.size)]
  BY DEF FreePage, Return
<1>3. /\ r.size = call.size /\ call.v \in Area(r) /\ Area(r) = call.first .. call.end - 1
      /\ span = call.v .. call.v + PageCount(call.size) - 1
      /\ span \subseteq Area(r) \cap VirtPages
      /\ call.v + PageCount(call.size) <= call.end
      /\ is_aligned(call.v + PageCount(call.size), call.size)
      /\ PageCount(call.size) \in Nat \ {0}
      /\ call.first \in Nat /\ call.v \in Nat /\ call.end \in Nat /\ call.first <= call.v
  BY <1>1, AllocSpan
<1>4. \A u \in call.v .. call.end - 1 : u \in VirtPages /\ mapped[u] # -1 /\ Unclaimed(u)
  BY <1>2 DEF TableInv, Freeing
<1>5. \A u \in span : u \in VArea /\ mapped[u] # -1 /\ Unclaimed(u)
  <2>1. span \subseteq call.v .. call.end - 1
    BY <1>3
  <2>2. span \subseteq VArea
    BY <1>1, <1>3 DEF VArea
  <2> QED
    BY <1>4, <2>1, <2>2
<1>6. Forest(tables)' /\ DOMAIN tables' = DOMAIN tables /\ Exact' /\ SizesFit'
  BY <1>1, ClearLeaf
<1>7. \A v \in VirtPages : (v \in span => mapped'[v] = -1) /\ (v \notin span => mapped'[v] = mapped[v])
  BY <1>1
<1>8. \A p \in Block(mapped[call.v], call.size) : p \in PhysPages \ subtables
  BY <1>1, <1>5 DEF TableInv, Owned
<1> HIDE DEF span
<1>9. Pages'
  BY <1>1, <1>2, <1>6, <1>8 DEF TableInv, Pages
<1>10. \A v \in VArea : mapped'[v] # -1 => v \notin span /\ mapped'[v] = mapped[v]
  BY <1>7 DEF VArea
<1>11. Owned'
  <2>1. ASSUME NEW v \in VArea, mapped'[v] # -1
        PROVE  mapped'[v] \in PhysPages \ (free' \cup subtables')
    <3>1. v \notin span /\ mapped'[v] = mapped[v]
      BY <1>10, <2>1
    <3>2. mapped[v] \in PhysPages \ (free \cup subtables)
      BY <2>1, <3>1 DEF TableInv, Owned
    <3>3. mapped[v] \notin Block(mapped[call.v], call.size)
      BY <1>1, <1>5, <3>1 DEF TableInv, Owned
    <3> QED
      BY <1>1, <1>2, <3>1, <3>2, <3>3
  <2>2. ASSUME NEW u \in VArea, NEW v \in VArea, mapped'[u] # -1, mapped'[u] = mapped'[v]
        PROVE  u = v
    <3>1. mapped'[u] = mapped[u] /\ mapped'[v] = mapped[v]
      BY <1>10, <2>2
    <3> QED
      BY <2>2, <3>1 DEF TableInv, Owned
  <2> QED
    BY <2>1, <2>2 DEF Owned
<1>12. Claims'
  <2>1. ASSUME NEW a \in allocs, NEW v \in Area(a)
        PROVE  v \in VirtPages /\ mapped'[v] # -1
    <3>1. v \in VirtPages /\ mapped[v] # -1
      BY DEF TableInv, Claims
    <3>2. v \notin span
      BY <1>5 DEF Unclaimed
    <3> QED
      BY <1>7, <3>1, <3>2
  <2> QED
    BY <1>2, <2>1 DEF TableInv, Claims
<1>13. CASE LastPage
  <2>1. call' = NoCall
    BY <1>2, <1>13
  <2> QED
    BY <1>6, <1>9, <1>11, <1>12, <2>1, Returned DEF TableInv
<1>14. CASE ~ LastPage
  <2>1. CallTyped
    BY DEF TableInv
  <2>2. call' = [op |-> "free", v |-> call.v + PageCount(call.size), size |-> call.size,
                 ppn |-> call.ppn, level |-> call.level, table |-> call.table,
                 first |-> call.first, end |-> call.end, alloc |-> call.alloc]
    BY <1>2, <1>14, <2>1 DEF CallTyped
  <2>3. CallTyped'
    BY <1>2, <1>3, <2>1, <2>2 DEF CallTyped
  <2>4. Mapping' /\ Allocating'
    BY <2>2 DEF Mapping, Allocating
  <2>5. Freeing'
    <3>1. InArea(r)'
      <4>1. call.v + PageCount(call.size) < call.end
        BY <1>3, <1>14 DEF LastPage
      <4> QED
        BY <1>1, <1>3, <2>2, <4>1 DEF InArea, Serves
    <3>2. ASSUME NEW u \in (call.v + PageCount(call.size)) .. call.end - 1
          PROVE  u \in VirtPages /\ mapped'[u] # -1 /\ Unclaimed(u)'
      <4>1. u \in call.v .. call.end - 1 /\ u \notin span
        BY <1>3
      <4> QED
        BY <1>2, <1>4, <1>7, <4>1 DEF Unclaimed
    <3>3. call'.v = call.v + PageCount(call.size) /\ call'.end = call.end
      BY <2>2
    <3> QED
      BY <1>1, <3>1, <3>2, <3>3 DEF Freeing
  <2> QED
    BY <1>6, <1>9, <1>11, <1>12, <2>3, <2>4, <2>5 DEF TableInv
<1> QED
  BY <1>13, <1>14

-----------------------------------------------------------------------------
(* map writes its leaf *)

\* What the leaf of a map_alloc covers was not mapped: another size there would
\* have been found on the way.
LEMMA AllocSpanUnmapped ==
    ASSUME TableInv, call.op = "map", call.alloc, call.level = call.size,
           kind(Entry) # "leaf", NEW u \in Span(call.v, call.size)
    PROVE  mapped[u] = -1
<1>1. /\ call.v \in VirtPages /\ call.v \in Nat /\ call.size \in Levels
      /\ call.table = Walk(tables, call.v)[call.size] /\ call.table # -1
      /\ Entry = EntryAt(tables, call.v, call.size)
  BY EntryFacts
<1>2. PICK r \in AllocRequests : InArea(r)
  BY DEF TableInv, Allocating
<1>3. r \in UsableRequests /\ r.size = call.size
      /\ Span(call.v, call.size) \subseteq Area(r) \cap VirtPages
  BY <1>1, <1>2, AllocSpan
<1>4. u \in VirtPages /\ u \in Nat /\ Leaves(tables, u) \subseteq {call.size}
  BY <1>3, LevelFacts DEF TableInv, SizesFit
<1>5. High(u, call.size) = High(call.v, call.size)
  BY <1>1, <1>4, SpanSymmetric
<1>6. Written(tables, tables, call.v, call.size) /\ Forest(tables)
  BY <1>1, NothingWritten DEF TableInv
<1>7. EntryAt(tables, u, call.size) = Entry
  BY <1>1, <1>4, <1>5, <1>6, SpanSeesEntry DEF EntryAt
<1>8. Leaves(tables, u) = {}
  BY <1>4, <1>7 DEF Leaves
<1> QED
  BY <1>4, <1>8 DEF TableInv, Exact, PhysOf

\* map_alloc writes a leaf of the size that its area asks for; map writes
\* into no area of map_alloc.
LEMMA WriteTarget ==
    ASSUME TableInv, RequestsSeparate, call.op = "map",
           NEW u \in Span(call.v, call.size), NEW r \in UsableRequests, u \in Area(r)
    PROVE  call.alloc /\ r.size = call.size
<1>1. call.v \in VirtPages
  BY EntryFacts
<1>2. call.alloc
  <2> SUFFICES ASSUME ~ call.alloc PROVE FALSE
    BY DEF TableInv, CallTyped
  <2>1. PICK q \in MapRequests : Acceptable(q) /\ call.v = q.v /\ call.size = q.size
    BY DEF TableInv, Mapping
  <2> QED
    BY <2>1 DEF RequestsSeparate
<1>3. PICK s \in AllocRequests : InArea(s)
  BY <1>2 DEF TableInv, Allocating
<1>4. s \in UsableRequests /\ s.size = call.size
      /\ Span(call.v, call.size) \subseteq Area(s) \cap VirtPages
  BY <1>1, <1>3, AllocSpan
<1> QED
  BY <1>2, <1>4 DEF RequestsSeparate

\* The tables and the books after the leaf was written.
LEMMA WriteLeafTree ==
    ASSUME TableInv, RequestsSeparate, WriteLeaf
    PROVE  /\ Forest(tables)' /\ Pages' /\ Exact' /\ Owned' /\ SizesFit'
           /\ \A v \in Span(call.v, call.size) : v \in VirtPages /\ mapped'[v] # -1
           /\ \A v \in VirtPages : v \notin Span(call.v, call.size) => mapped'[v] = mapped[v]
<1> DEFINE span == Span(call.v, call.size)
<1>1. /\ call.op = "map" /\ call.level = call.size /\ kind(Entry) # "leaf"
      /\ tables' = [tables EXCEPT ![call.table][vpn(call.v, call.size)] = Leaf(call.ppn)]
      /\ mapped' = [v \in VirtPages |-> IF v \in span THEN call.ppn + Offset(v, call.size)
                                        ELSE mapped[v]]
      /\ UNCHANGED <<subtables, free>>
  BY DEF WriteLeaf
<1>2. /\ call.v \in VirtPages /\ call.v \in Nat /\ call.size \in Levels
      /\ call.table \in DOMAIN tables
      /\ call.table = Walk(tables, call.v)[call.size] /\ call.table # -1
      /\ vpn(call.v, call.size) \in Index
  BY <1>1, EntryFacts
<1>3. is_aligned(call.v, call.size) /\ call.ppn \in Nat
  BY <1>1 DEF TableInv, Mapping
<1>4. Leaf(call.ppn) \in PTE /\ kind(Leaf(call.ppn)) = "leaf" /\ Leaf(call.ppn).ppn = call.ppn
  BY <1>3, Kinds
<1>5. Rewritten(tables, tables', Walk(tables, call.v)[call.size], vpn(call.v, call.size),
                Leaf(call.ppn))
  BY <1>1, <1>2, <1>4 DEF Rewritten
<1>6. /\ Forest(tables') /\ DOMAIN tables' = DOMAIN tables
      /\ \A v \in VirtPages : v \notin span =>
            Leaves(tables', v) = Leaves(tables, v) /\ PhysOf(tables', v) = PhysOf(tables, v)
      /\ \A v \in span : v \in VirtPages
      /\ \A v \in span : Leaves(tables', v) = {call.size}
                         /\ PhysOf(tables', v) = call.ppn + Offset(v, call.size)
  BY <1>2, <1>4, <1>5, WriteEntry
<1>7. call.size \in 0 .. LEVELS /\ VirtPages \subseteq Nat
  BY <1>2, LevelFacts
<1>8. PageCount(call.size) \in Nat \ {0}
  BY <1>7, PageCounts
<1>9. ASSUME NEW v \in span
      PROVE  /\ Offset(v, call.size) \in 0 .. PageCount(call.size) - 1
             /\ Offset(v, call.size) = v - call.v /\ v \in Nat
  BY <1>2, <1>3, <1>6, <1>7, OffsetBound, AlignedSpan
<1>10. \A v \in VirtPages :
          /\ v \in span => mapped'[v] = call.ppn + Offset(v, call.size)
          /\ v \notin span => mapped'[v] = mapped[v]
  BY <1>1
<1>11. \A v \in span : mapped'[v] \in Nat /\ mapped'[v] \in Block(call.ppn, call.size)
  BY <1>3, <1>6, <1>8, <1>9, <1>10 DEF Block
<1>12. ASSUME NEW v \in span, NEW r \in UsableRequests, v \in Area(r)
       PROVE  call.alloc /\ r.size = call.size
  BY <1>1, <1>12, WriteTarget
<1> HIDE DEF span
<1>13. Exact'
  <2>1. \A v \in VirtPages : PhysOf(tables', v) = mapped'[v]
    BY <1>6, <1>10 DEF TableInv, Exact
  <2>2. mapped' \in [VirtPages -> Nat \cup {-1}]
    <3>1. \A v \in VirtPages : mapped'[v] \in Nat \cup {-1}
      BY <1>10, <1>11 DEF TableInv, Exact
    <3> QED
      BY <1>1, <3>1
  <2> QED
    BY <2>1, <2>2 DEF Exact
<1>14. SizesFit'
  <2>1. ASSUME NEW r \in UsableRequests, NEW v \in Area(r) \cap VirtPages
        PROVE  Leaves(tables', v) \subseteq {r.size}
    <3>1. CASE v \in span
      BY <1>6, <1>12, <3>1
    <3>2. CASE v \notin span
      BY <1>6, <3>2 DEF TableInv, SizesFit
    <3> QED
      BY <3>1, <3>2
  <2>2. ASSUME NEW v \in VirtPages, NEW l \in Leaves(tables', v), l >= Terapage
        PROVE  v \in InTerapage
    <3>1. CASE v \in span
      <4>1. l = call.size
        BY <1>6, <3>1
      <4>2. ~ call.alloc
        <5> SUFFICES ASSUME call.alloc PROVE FALSE
          OBVIOUS
        <5>1. PICK r \in AllocRequests : InArea(r)
          BY <1>1 DEF TableInv, Allocating
        <5>2. r.size \in {0, 1} /\ call.size = r.size
          BY <5>1, PageTableAssumption DEF InArea, Serves
        <5> QED
          BY <2>2, <4>1, <5>2 DEF Terapage
      <4>3. PICK q \in MapRequests : Acceptable(q) /\ call.v = q.v /\ call.size = q.size
        BY <1>1, <4>2 DEF TableInv, Mapping
      <4> QED
        BY <2>2, <3>1, <4>1, <4>3 DEF InTerapage, span
    <3>2. CASE v \notin span
      BY <1>6, <2>2, <3>2 DEF TableInv, SizesFit
    <3> QED
      BY <3>1, <3>2
  <2> QED
    BY <2>1, <2>2 DEF SizesFit
<1>15. Pages'
  BY <1>1, <1>6 DEF TableInv, Pages
<1>16. Owned'
  <2>1. ASSUME NEW v \in VArea
        PROVE  /\ v \in VirtPages
               /\ v \in span =>
                     /\ call.alloc /\ mapped'[v] \in Block(call.ppn, call.size)
                     /\ Block(call.ppn, call.size) \subseteq PhysPages \ (free \cup subtables)
               /\ v \in span => \A u \in VArea : mapped[u] \notin Block(call.ppn, call.size)
               /\ v \notin span => mapped'[v] = mapped[v]
    <3>1. v \in VirtPages /\ \E r \in UsableRequests : v \in Area(r)
      BY DEF VArea
    <3>2. v \in span => call.alloc
      BY <1>12, <3>1
    <3> QED
      BY <1>1, <1>10, <1>11, <3>1, <3>2 DEF TableInv, Allocating
  <2>2. ASSUME NEW v \in VArea, mapped'[v] # -1
        PROVE  mapped'[v] \in PhysPages \ (free' \cup subtables')
    <3>1. CASE v \in span
      BY <1>1, <2>1, <3>1
    <3>2. CASE v \notin span
      BY <1>1, <2>1, <2>2, <3>2 DEF TableInv, Owned
    <3> QED
      BY <3>1, <3>2
  <2>3. ASSUME NEW u \in VArea, NEW v \in VArea, mapped'[u] # -1, mapped'[u] = mapped'[v]
        PROVE  u = v
    <3>1. CASE u \in span /\ v \in span
      <4>1. /\ mapped'[u] = call.ppn + (u - call.v) /\ mapped'[v] = call.ppn + (v - call.v)
            /\ u \in Nat /\ v \in Nat
        BY <1>6, <1>9, <1>10, <3>1
      <4>2. call.ppn + (u - call.v) = call.ppn + (v - call.v)
        BY <2>3, <4>1
      <4>3. call.ppn \in Nat /\ call.v \in Nat
        BY <1>2, <1>3
      <4> QED
        BY <4>1, <4>2, <4>3
    <3>2. CASE u \in span /\ v \notin span
      BY <2>1, <2>3, <3>2
    <3>3. CASE u \notin span /\ v \in span
      BY <2>1, <2>3, <3>3
    <3>4. CASE u \notin span /\ v \notin span
      <4>1. mapped'[u] = mapped[u] /\ mapped'[v] = mapped[v]
        BY <2>1, <3>4
      <4> QED
        BY <2>3, <4>1 DEF TableInv, Owned
    <3> QED
      BY <3>1, <3>2, <3>3, <3>4
  <2> QED
    BY <2>2, <2>3 DEF Owned
<1>17. \A v \in span : v \in VirtPages /\ mapped'[v] # -1
  BY <1>6, <1>11
<1> QED
  BY <1>6, <1>10, <1>13, <1>14, <1>15, <1>16, <1>17 DEF span

LEMMA WriteLeafStep ==
    ASSUME TableInv, RequestsSeparate, WriteLeaf
    PROVE  TableInv'
<1> DEFINE span == Span(call.v, call.size)
<1>1. /\ call.op = "map" /\ call.level = call.size /\ kind(Entry) # "leaf"
      /\ allocs' = IF call.alloc /\ LastPage THEN allocs \cup {Granted} ELSE allocs
      /\ IF call.alloc /\ ~ LastPage
         THEN call' = [call EXCEPT !.op = "alloc", !.v = @ + PageCount(call.size)]
         ELSE call' = NoCall
  BY DEF WriteLeaf, NextPage, Return
<1>2. /\ Forest(tables)' /\ Pages' /\ Exact' /\ Owned' /\ SizesFit'
      /\ \A v \in span : v \in VirtPages /\ mapped'[v] # -1
      /\ \A v \in VirtPages : v \notin span => mapped'[v] = mapped[v]
  BY WriteLeafTree
<1>3. call.v \in VirtPages
  BY <1>1, EntryFacts
<1>4. \A v \in VirtPages : mapped[v] # -1 => mapped'[v] # -1
  BY <1>2
<1>5. CASE ~ call.alloc
  <2>1. allocs' = allocs /\ call' = NoCall
    BY <1>1, <1>5
  <2>2. Claims'
    BY <1>4, <2>1 DEF TableInv, Claims
  <2> QED
    BY <1>2, <2>1, <2>2, Returned DEF TableInv
<1>6. CASE call.alloc
  <2>1. PICK r \in AllocRequests : InArea(r)
    BY <1>1, <1>6 DEF TableInv, Allocating
  <2>2. /\ r \in UsableRequests /\ r.size = call.size /\ Area(r) = call.first .. call.end - 1
        /\ span = call.v .. call.v + PageCount(call.size) - 1
        /\ call.v + PageCount(call.size) <= call.end
        /\ is_aligned(call.v + PageCount(call.size), call.size)
        /\ PageCount(call.size) \in Nat \ {0}
        /\ call.first \in Nat /\ call.v \in Nat /\ call.end \in Nat /\ call.first <= call.v
    BY <1>3, <2>1, AllocSpan
  <2>3. Serves(r)
    BY <2>1 DEF InArea
  <2>4. \A u \in span : Unclaimed(u)
    <3>1. \A u \in span : mapped[u] = -1
      BY <1>1, <1>6, AllocSpanUnmapped
    <3> QED
      BY <3>1 DEF TableInv, Claims, Unclaimed
  <2>5. \A u \in call.first .. call.v - 1 : u \in VirtPages /\ mapped[u] # -1 /\ Unclaimed(u)
    BY <1>1, <1>6 DEF TableInv, Allocating
  <2>6. \A u \in call.first .. call.v + PageCount(call.size) - 1 :
           u \in VirtPages /\ mapped'[u] # -1 /\ Unclaimed(u)
    <3> SUFFICES ASSUME NEW u \in call.first .. call.v + PageCount(call.size) - 1
                 PROVE  u \in VirtPages /\ mapped'[u] # -1 /\ Unclaimed(u)
      OBVIOUS
    <3>1. u \in call.first .. call.v - 1 \/ u \in span
      BY <2>2
    <3> QED
      BY <1>2, <1>4, <2>4, <2>5, <3>1
  <2>7. CASE LastPage
    <3>1. allocs' = allocs \cup {Granted} /\ call' = NoCall
      BY <1>1, <1>6, <2>7
    <3>2. call.v + PageCount(call.size) = call.end
      BY <2>2, <2>7 DEF LastPage
    <3>3. SameArea(Granted, r)
      <4> DEFINE s == PageCount(call.size)
      <4>1. call.end = call.first + r.count * s /\ r.v = call.first
        BY <2>2, <2>3 DEF Serves
      <4>2. r.count \in Nat /\ r.count * s \in Nat
        BY <2>2, RequestFacts
      <4>3. s \in Nat \ {0}
        BY <2>2
      <4> HIDE DEF s
      <4>4. call.end - call.first = r.count * s
        BY <2>2, <4>1, <4>2
      <4>5. (r.count * s) \div s = r.count
        BY <4>2, <4>3, MulDiv
      <4>6. Granted = [v |-> call.first, size |-> call.size, count |-> r.count]
        BY <4>4, <4>5 DEF Granted, s
      <4> QED
        BY <2>2, <4>1, <4>6 DEF SameArea
    <3>4. Area(Granted) = call.first .. call.v + PageCount(call.size) - 1
      <4>1. Area(Granted) = Area(r)
        BY <3>3 DEF SameArea, Area
      <4>2. call.first .. call.end - 1 = call.first .. call.v + PageCount(call.size) - 1
        BY <2>2, <3>2
      <4> QED
        BY <2>2, <4>1, <4>2
    <3>5. ASSUME NEW a \in allocs'
          PROVE  /\ \E q \in UsableRequests : SameArea(a, q)
                 /\ \A v \in Area(a) : v \in VirtPages /\ mapped'[v] # -1
      <4>1. CASE a \in allocs
        BY <1>4, <4>1 DEF TableInv, Claims
      <4>2. CASE a = Granted
        BY <2>2, <2>6, <3>3, <3>4, <4>2
      <4> QED
        BY <3>1, <4>1, <4>2
    <3>6. ASSUME NEW a \in allocs', NEW b \in allocs', a # b
          PROVE  Area(a) \cap Area(b) = {}
      <4>1. \A c \in allocs : Area(c) \cap Area(Granted) = {}
        BY <2>6, <3>4 DEF Unclaimed
      <4>2. CASE a \in allocs /\ b \in allocs
        BY <3>6, <4>2 DEF TableInv, Claims
      <4>3. CASE a = Granted /\ b \in allocs
        BY <4>1, <4>3
      <4>4. CASE a \in allocs /\ b = Granted
        BY <4>1, <4>4
      <4> QED
        BY <3>1, <3>6, <4>2, <4>3, <4>4
    <3>7. Claims'
      BY <3>5, <3>6 DEF Claims
    <3> QED
      BY <1>2, <3>1, <3>7, Returned DEF TableInv
  <2>8. CASE ~ LastPage
    <3>1. CallTyped
      BY DEF TableInv
    <3>2. call' = [op |-> "alloc", v |-> call.v + PageCount(call.size), size |-> call.size,
                   ppn |-> call.ppn, level |-> call.level, table |-> call.table,
                   first |-> call.first, end |-> call.end, alloc |-> call.alloc]
          /\ allocs' = allocs
      BY <1>1, <1>6, <2>8, <3>1 DEF CallTyped
    <3>3. CallTyped'
      BY <1>6, <2>2, <3>1, <3>2 DEF CallTyped
    <3>4. Mapping' /\ Freeing'
      BY <3>2 DEF Mapping, Freeing
    <3>5. Allocating'
      <4>1. call.v + PageCount(call.size) < call.end
        BY <2>2, <2>8 DEF LastPage
      <4>2. InArea(r)' /\ Serves(r)'
        BY <2>1, <2>2, <3>2, <4>1 DEF InArea, Serves
      <4>3. call'.first = call.first /\ call'.v = call.v + PageCount(call.size)
            /\ call'.op = "alloc"
        BY <3>2
      <4>4. call.first .. (call.v + PageCount(call.size)) - 1
              = call.first .. call.v + PageCount(call.size) - 1
        BY <2>2
      <4>5. \A u \in call'.first .. call'.v - 1 :
               u \in VirtPages /\ mapped'[u] # -1 /\ Unclaimed(u)'
        BY <2>6, <3>2, <4>3, <4>4 DEF Unclaimed
      <4> QED
        BY <4>2, <4>3, <4>5 DEF Allocating
    <3>6. Claims'
      BY <1>4, <3>2 DEF TableInv, Claims
    <3> QED
      BY <1>2, <3>3, <3>4, <3>5, <3>6 DEF TableInv
  <2> QED
    BY <2>7, <2>8
<1>7. call.alloc \in BOOLEAN
  BY DEF TableInv, CallTyped
<1> QED
  BY <1>5, <1>6, <1>7

-----------------------------------------------------------------------------
(* Theorems *)

LEMMA InvNext ==
    ASSUME TableInv, RequestsSeparate, [Next]_vars
    PROVE  TableInv'
<1>1. ASSUME NEW q \in MapRequests, MapRefused(q) PROVE TableInv'
  BY <1>1, StutterStep DEF MapRefused
<1>2. ASSUME NEW q \in MapRequests, Map(q) PROVE TableInv'
  BY <1>2, MapStep
<1>3. ASSUME NEW q \in AllocRequests, MapAlloc(q) PROVE TableInv'
  BY <1>3, MapAllocStep
<1>4. ASSUME NEW a \in allocs, Free(a) PROVE TableInv'
  BY <1>4, FreeStep
<1>5. ASSUME NEW v \in Unmappable, Unmap(v) PROVE TableInv'
  BY <1>5, UnmapStep
<1>6. ASSUME NEW v \in VirtPages, TlbFill(v) PROVE TableInv'
  BY <1>6, StutterStep DEF TlbFill
<1>7. CASE FollowBranch
  BY <1>7, FollowBranchStep
<1>8. CASE NewTable
  BY <1>8, NewTableStep
<1>9. CASE NewTableFails \/ AlreadyMapped \/ AllocPageFails
  BY <1>9, GiveUpStep
<1>14. ASSUME NEW v \in Unmappable, TerapagePanics(v) PROVE TableInv'
  BY <1>14, GiveUpStep
<1>10. CASE WriteLeaf
  BY <1>10, WriteLeafStep
<1>11. CASE AllocPage
  BY <1>11, AllocPageStep
<1>12. CASE FreePage
  BY <1>12, FreePageStep
<1>13. CASE UNCHANGED vars
  BY <1>13, StutterStep DEF vars
<1> QED
  BY <1>1, <1>2, <1>3, <1>4, <1>5, <1>6, <1>7, <1>8, <1>9, <1>10, <1>11, <1>12, <1>13, <1>14
     DEF Next, Run

-----------------------------------------------------------------------------
(* The theorems about the tables *)

\* Whatever map, map_alloc, unmap and free of page.rs do, in any order, every
\* step of theirs keeps the tables, the allocator's pages, the allocations and
\* the running call as TableInv describes them.
THEOREM TreeInvariant == RequestsSeparate => (Spec => []TableInv)
<1> SUFFICES ASSUME RequestsSeparate PROVE Spec => []TableInv
  OBVIOUS
<1>1. Init => TableInv
  BY InvInit
<1>2. TableInv /\ [Next]_vars => TableInv'
  BY InvNext
<1> QED
  BY <1>1, <1>2, PTL DEF Spec

LEMMA TreeFromInv == TableInv => TablesFormTree
<1> SUFFICES ASSUME TableInv PROVE TablesFormTree
  OBVIOUS
<1>1. Forest(tables) /\ Pages
  BY DEF TableInv
<1>2. \A t \in DOMAIN tables : \A k \in 0 .. FANOUT - 1 :
         kind(tables[t][k]) = "branch" => tables[t][k].ppn \in subtables
  BY <1>1 DEF Forest, Pages, Index
<1>3. ASSUME NEW t \in subtables PROVE Cardinality(BranchesTo(t)) <= 1
  <2>1. ASSUME NEW a \in BranchesTo(t), NEW b \in BranchesTo(t) PROVE a = b
    <3>1. /\ a \in (DOMAIN tables) \X Index /\ tables[a[1]][a[2]] = Branch(t)
          /\ b \in (DOMAIN tables) \X Index /\ tables[b[1]][b[2]] = Branch(t)
      BY DEF BranchesTo, Index
    <3>2. /\ a[1] \in DOMAIN tables /\ a[2] \in Index /\ a = <<a[1], a[2]>>
          /\ b[1] \in DOMAIN tables /\ b[2] \in Index /\ b = <<b[1], b[2]>>
      BY <3>1
    <3>3. kind(Branch(t)) = "branch"
      BY Kinds
    <3>4. a[1] = b[1] /\ a[2] = b[2]
      BY <1>1, <3>1, <3>2, <3>3 DEF Forest
    <3> QED
      BY <3>2, <3>4
  <2>2. CASE BranchesTo(t) = {}
    BY <2>2, FS_EmptySet
  <2>3. CASE BranchesTo(t) # {}
    <3>1. PICK a : a \in BranchesTo(t)
      BY <2>3
    <3>2. BranchesTo(t) = {a}
      BY <2>1, <3>1
    <3>3. Cardinality({a}) = 1
      BY FS_Singleton
    <3> QED
      BY <3>2, <3>3
  <2> QED
    BY <2>2, <2>3
<1>4. (subtables \cup {Root}) \cap free = {}
  BY <1>1, PageTableAssumption DEF Pages
<1> QED
  BY <1>2, <1>3, <1>4 DEF TablesFormTree

\* map links a page from zalloc_order below exactly one entry and records it in
\* subtables, so that Drop gives every table back exactly once.
THEOREM TablesAreTree == RequestsSeparate => (Spec => []TablesFormTree)
<1> SUFFICES ASSUME RequestsSeparate PROVE Spec => []TablesFormTree
  OBVIOUS
<1>1. Spec => []TableInv
  BY TreeInvariant
<1>2. TableInv => TablesFormTree
  BY TreeFromInv
<1> QED
  BY <1>1, <1>2, PTL

LEMMA TranslateFromInv ==
    ASSUME TableInv, NEW v \in VirtPages
    PROVE  \/ translate(v) = mapped[v] /\ ~ TraversePanics(v)
           \/ translate(v) = PANIC /\ mapped[v] # UNMAPPED /\ v \in InTerapage
<1>1. CASE ~ TraversePanics(v)
  BY <1>1, PhysOfIsTranslate DEF TableInv, Exact
<1>2. CASE TraversePanics(v)
  <2>1. PICK l \in Leaves(tables, v) : l >= Terapage
    BY <1>2, LeavesIsLeafLevels DEF TraversePanics
  <2>2. v \in InTerapage
    BY <2>1 DEF TableInv, SizesFit
  <2>3. v \in Nat /\ l \in Levels
    BY LevelFacts DEF Leaves
  <2>4. v \in Span(v, l) /\ Leaves(tables, v) = {l}
    BY <2>3, SelfInSpan, LeafOne
  <2>5. mapped[v] = EntryAt(tables, v, l).ppn + Offset(v, l)
    BY <2>3, <2>4, LeafSpan
  <2>6. EntryAt(tables, v, l).ppn \in Nat
    <3>1. Walk(tables, v)[l] \in DOMAIN tables /\ vpn(v, l) \in Index
      BY <2>3, WalkIn, VpnIndex DEF TableInv, Leaves
    <3> QED
      BY <3>1, Kinds DEF TableInv, Forest, EntryAt
  <2>7. Offset(v, l) \in Nat
    <3>1. l \in 0 .. LEVELS
      BY <2>3, LevelFacts
    <3>2. PageCount(l) \in Nat /\ Offset(v, l) \in 0 .. PageCount(l) - 1
      BY <2>3, <3>1, OffsetBound, PageCounts
    <3> QED
      BY <3>2
  <2>8. mapped[v] # UNMAPPED
    BY <2>5, <2>6, <2>7 DEF UNMAPPED
  <2> QED
    BY <1>2, <2>2, <2>8, PhysOfIsTranslate
<1> QED
  BY <1>1, <1>2

\* translate returns what map, unmap and free left for the address, no matter which
\* tables it shares with others; only for mapped pages of a Terapage may it panic.
THEOREM TranslationsExact == RequestsSeparate => (Spec => []TranslateExact)
<1> SUFFICES ASSUME RequestsSeparate PROVE Spec => []TranslateExact
  OBVIOUS
<1>1. Spec => []TableInv
  BY TreeInvariant
<1>2. TableInv => TranslateExact
  BY TranslateFromInv DEF TranslateExact
<1> QED
  BY <1>1, <1>2, PTL

\* In a mode with at most three levels (Sv39) the unreachable!() of traverse is
\* unreachable: map refuses Terapages there.
THEOREM TotalInSv39 == RequestsSeparate /\ LEVELS <= 3 => (Spec => []TranslateTotal)
<1> SUFFICES ASSUME RequestsSeparate, LEVELS <= 3 PROVE Spec => []TranslateTotal
  OBVIOUS
<1>1. Spec => []TableInv
  BY TreeInvariant
<1>2. ASSUME TableInv, NEW v \in VirtPages PROVE translate(v) # PANIC
  <2>1. ~ TraversePanics(v)
    BY PageTableAssumption DEF TraversePanics, LeafLevels, Levels, Terapage
  <2>2. translate(v) = mapped[v] /\ mapped[v] \in Nat \cup {-1}
    BY <1>2, <2>1, PhysOfIsTranslate DEF TableInv, Exact
  <2> QED
    BY <2>2 DEF PANIC
<1>3. TableInv => TranslateTotal
  BY <1>2 DEF TranslateTotal
<1> QED
  BY <1>1, <1>3, PTL

LEMMA GrantsFromInv == TableInv => GrantedStaysMapped
<1> SUFFICES ASSUME TableInv PROVE GrantedStaysMapped
  OBVIOUS
<1>1. ASSUME NEW v \in AllocatedPages
      PROVE  v \in VArea /\ v \in VirtPages /\ mapped[v] # -1 /\ translate(v) = mapped[v]
  <2>1. PICK a \in allocs : v \in Area(a)
    BY DEF AllocatedPages
  <2>2. v \in VArea /\ v \in VirtPages /\ mapped[v] # -1
    BY <2>1, ClaimFacts
  <2>3. ~ TraversePanics(v)
    BY <2>2, AreaNoTerapage DEF VArea
  <2> QED
    BY <2>2, <2>3, PhysOfIsTranslate DEF TableInv, Exact
<1>2. \A v \in AllocatedPages : translate(v) \in PhysPages \ (free \cup subtables)
  BY <1>1 DEF TableInv, Owned
<1>3. \A u, v \in AllocatedPages : translate(u) = translate(v) => u = v
  BY <1>1 DEF TableInv, Owned
<1>4. ASSUME call.op = "free", NEW v \in call.v .. call.end - 1
      PROVE  translate(v) \notin {UNMAPPED, PANIC}
  <2>1. PICK r \in AllocRequests : InArea(r)
    BY <1>4 DEF TableInv, Freeing
  <2>2. v \in VirtPages /\ mapped[v] # -1
    BY <1>4 DEF TableInv, Freeing
  <2>3. call.v \in VirtPages
    BY <1>4, <2>1 DEF InArea, TableInv, Freeing, CallTyped
  <2>4. r \in UsableRequests /\ Area(r) = call.first .. call.end - 1
        /\ call.first \in Nat /\ call.v \in Nat /\ call.end \in Nat /\ call.first <= call.v
    BY <2>1, <2>3, AllocSpan
  <2>5. v \in Area(r)
    BY <2>4
  <2>6. translate(v) = mapped[v] /\ mapped[v] \in Nat \cup {-1}
    BY <2>2, <2>4, <2>5, AreaNoTerapage, PhysOfIsTranslate DEF TableInv, Exact
  <2> QED
    BY <2>2, <2>6 DEF UNMAPPED, PANIC
<1> QED
  BY <1>2, <1>3, <1>4 DEF GrantedStaysMapped

\* A page granted by map_alloc keeps a physical page of its own until free, and
\* the unwrap of translate in free's loop never meets an unmapped page.
THEOREM GrantsKept == RequestsSeparate => (Spec => []GrantedStaysMapped)
<1> SUFFICES ASSUME RequestsSeparate PROVE Spec => []GrantedStaysMapped
  OBVIOUS
<1>1. Spec => []TableInv
  BY TreeInvariant
<1>2. TableInv => GrantedStaysMapped
  BY GrantsFromInv
<1> QED
  BY <1>1, <1>2, PTL

-----------------------------------------------------------------------------
(* What the TLB holds, when every allocation is one page *)

\* The span of a mapping starts at an aligned page, and so the pages of the
\* span reach all of the mapped block.
LEMMA SpanOfBase ==
    ASSUME NEW v \in Nat, NEW l \in Levels
    PROVE  /\ Base(v, l) \in Nat /\ is_aligned(Base(v, l), l)
           /\ Base(v, l) \in Span(v, l)
           /\ Span(Base(v, l), l) = Span(v, l)
<1> DEFINE s == PageCount(l)
<1>1. l \in 0 .. LEVELS
  BY LevelFacts
<1>2. s \in Nat \ {0}
  BY <1>1, PageCounts
<1>3. PICK q \in Nat, r \in 0 .. s - 1 : v = s * q + r /\ v % s = r
  BY <1>2, DivSplit
<1>4. Base(v, l) = v - r
  BY <1>3 DEF Base, Offset
<1> HIDE DEF s
<1>5. s * q \in Nat /\ v - r = s * q
  BY <1>2, <1>3
<1>6. (s * q) % s = 0
  BY <1>2, NoRest
<1>7. is_aligned(Base(v, l), l) /\ Base(v, l) \in Nat
  BY <1>4, <1>5, <1>6 DEF is_aligned, s
<1>8. Base(v, l) \in Span(v, l)
  BY <1>2, <1>7 DEF Span, s
<1>9. Span(Base(v, l), l) = Base(v, l) .. Base(v, l) + PageCount(l) - 1
  BY <1>1, <1>7, AlignedSpan
<1> QED
  BY <1>7, <1>8, <1>9 DEF Span

LEMMA SpanCovers ==
    ASSUME NEW v \in Nat, NEW l \in Levels, NEW ppn \in Nat, NEW p \in Block(ppn, l)
    PROVE  \E u \in Span(v, l) : ppn + Offset(u, l) = p
<1> DEFINE b == Base(v, l)
           s == PageCount(l)
<1>1. l \in 0 .. LEVELS
  BY LevelFacts
<1>2. b \in Nat /\ is_aligned(b, l) /\ Span(b, l) = Span(v, l)
  BY SpanOfBase
<1>3. s \in Nat \ {0}
  BY <1>1, PageCounts
<1> HIDE DEF b
<1>4. Span(b, l) = b .. b + s - 1 /\ \A u \in Span(b, l) : Offset(u, l) = u - b
  BY <1>1, <1>2, AlignedSpan
<1>5. p \in ppn .. ppn + s - 1
  BY DEF Block
<1> HIDE DEF s
<1>6. b + (p - ppn) \in b .. b + s - 1 /\ ppn + ((b + (p - ppn)) - b) = p
  BY <1>2, <1>3, <1>5
<1>7. Offset(b + (p - ppn), l) = (b + (p - ppn)) - b
  BY <1>4, <1>6
<1> QED
  BY <1>2, <1>4, <1>6, <1>7

\* Two mappings of one size that share a page are the same pages.
LEMMA SpanSame ==
    ASSUME NEW v \in Nat, NEW w \in Nat, NEW u \in Nat, NEW l \in Levels,
           u \in Span(v, l), u \in Span(w, l)
    PROVE  w \in Span(v, l)
<1>1. High(u, l) = High(v, l) /\ High(u, l) = High(w, l)
  BY SpanSymmetric
<1> QED
  BY <1>1, SpanIsHigh, LevelFacts

LEMMA CacheInit == Init => CacheInv
BY PageTableAssumption DEF Init, CacheInv, NoCall, UNMAPPED

LEMMA CacheFrame ==
    ASSUME CacheInv, UNCHANGED <<tlb, mapped>>,
           call'.op = "free" => call'.v = call'.first
    PROVE  CacheInv'
BY DEF CacheInv, Current

LEMMA CacheTlbFill ==
    ASSUME TableInv, CacheInv, NEW v \in VirtPages, TlbFill(v)
    PROVE  CacheInv'
<1>1. v \in Nat /\ LeafLevels(v) # {} /\ UNCHANGED <<call, mapped>>
  BY LevelFacts DEF TlbFill
<1>2. PICK l \in Levels :
          /\ Leaves(tables, v) = {l} /\ Walk(tables, v)[l] # -1
          /\ LeafFound(v).size = l /\ LeafFound(v).table = Walk(tables, v)[l]
          /\ LeafFound(v).index = vpn(v, l)
  BY <1>1, TraverseIs
<1> DEFINE ppn == EntryAt(tables, v, l).ppn
           x == [v |-> Base(v, l), size |-> l, ppn |-> ppn]
<1>3. tlb' = {x}
  BY <1>2 DEF TlbFill, EntryAt
<1>4. ppn \in Nat
  <2>1. Walk(tables, v)[l] \in DOMAIN tables /\ vpn(v, l) \in Index
    BY <1>1, <1>2, WalkIn, VpnIndex DEF TableInv
  <2> QED
    BY <2>1, Kinds DEF TableInv, Forest, EntryAt
<1>5. /\ Base(v, l) \in VirtPages /\ Span(Base(v, l), l) = Span(v, l)
  BY <1>1, SpanOfBase, SpanInVirt
<1>6. \A u \in Span(v, l) :
         u \in VirtPages /\ Leaves(tables, u) = {l} /\ mapped[u] = ppn + Offset(u, l)
  BY <1>2, LeafSpan
<1> HIDE DEF ppn
<1>7. Current(x)
  <2>1. CASE v \in VArea
    <3>1. PICK r \in UsableRequests : v \in Area(r)
      BY <2>1 DEF VArea
    <3>2. Span(v, l) \subseteq Area(r)
      BY <1>2, <3>1, AreaSpan
    <3>3. \A u \in Span(v, l) : u \in VArea
      BY <1>6, <3>2 DEF VArea
    <3>4. \A u \in Span(v, l) : \A s \in UsableRequests : u \in Area(s) => s.size = l
      BY <1>6, AreaSpan
    <3> QED
      BY <1>5, <1>6, <3>3, <3>4 DEF Current
  <2>2. CASE v \notin VArea
    <3> DEFINE b == Base(v, l)
    <3>1. b \in Span(v, l) /\ b \in Nat
      BY <1>1, SpanOfBase
    <3>2. b \in VirtPages /\ b \notin VArea
      BY <1>2, <1>5, <2>2, <3>1, AreaSpan
    <3>3. ppn + Offset(b, l) \in Nat
      <4>1. l \in 0 .. LEVELS
        BY LevelFacts
      <4>2. PageCount(l) \in Nat /\ Offset(b, l) \in 0 .. PageCount(l) - 1
        BY <3>1, <4>1, OffsetBound, PageCounts
      <4> QED
        BY <1>4, <4>2
    <3>4. mapped[b] # -1
      BY <1>6, <3>1, <3>3
    <3>5. b \in Unmappable
      BY <3>2, <3>4 DEF CacheInv
    <3> QED
      BY <3>5 DEF Current
  <2> QED
    BY <2>1, <2>2
<1>8. PICK y : y = x
  OBVIOUS
<1>9. tlb' = {y} /\ y.size \in Levels /\ y.v \in VirtPages /\ y.ppn \in Nat /\ Current(y)
  BY <1>2, <1>3, <1>4, <1>5, <1>7, <1>8
<1>10. Current(y)'
  BY <1>1, <1>9 DEF Current
<1> QED
  BY <1>1, <1>9, <1>10 DEF CacheInv

LEMMA CacheWriteLeaf ==
    ASSUME TableInv, CacheInv, RequestsSeparate, WriteLeaf
    PROVE  CacheInv'
<1> DEFINE span == Span(call.v, call.size)
<1>1. /\ call.op = "map" /\ call.level = call.size /\ kind(Entry) # "leaf"
      /\ tlb' \subseteq tlb
      /\ mapped' = [v \in VirtPages |->
                      IF v \in span THEN call.ppn + Offset(v, call.size) ELSE mapped[v]]
  BY DEF WriteLeaf, sfence
<1>2. call'.op # "free"
  <2>1. \/ call' = [call EXCEPT !.op = "alloc", !.v = @ + PageCount(call.size)]
        \/ call' = NoCall
    BY DEF WriteLeaf, NextPage, Return
  <2>2. CallTyped
    BY DEF TableInv
  <2>3. [call EXCEPT !.op = "alloc", !.v = @ + PageCount(call.size)].op = "alloc"
    BY <2>2 DEF CallTyped
  <2> QED
    BY <2>1, <2>3, IdleCall
<1>3. call.v \in VirtPages /\ call.size \in Levels
  BY <1>1, EntryFacts
<1>4. \A u \in span \cap VArea : mapped[u] = -1
  <2> SUFFICES ASSUME NEW u \in span, u \in VArea PROVE mapped[u] = -1
    OBVIOUS
  <2>1. PICK r \in UsableRequests : u \in Area(r)
    BY DEF VArea
  <2>2. call.alloc
    BY <1>1, <2>1, WriteTarget
  <2> QED
    BY <1>1, <2>2, AllocSpanUnmapped
<1>5. ASSUME NEW x \in tlb' PROVE Current(x)'
  <2>1. x.size \in Levels /\ x.v \in VirtPages /\ x.ppn \in Nat /\ Current(x)
    BY <1>1 DEF CacheInv
  <2>2. CASE x.v \in Unmappable
    BY <2>2 DEF Current
  <2>3. CASE x.v \notin Unmappable
    <3>1. /\ \A u \in Span(x.v, x.size) : u \in VArea /\ mapped[u] = x.ppn + Offset(u, x.size)
          /\ \A u \in Span(x.v, x.size) :
                \A r \in UsableRequests : u \in Area(r) => r.size = x.size
      BY <2>1, <2>3 DEF Current
    <3>2. ASSUME NEW u \in Span(x.v, x.size) PROVE mapped'[u] = mapped[u]
      <4>1. u \in VArea /\ u \in VirtPages /\ u \in Nat
        BY <3>1, LevelFacts DEF VArea
      <4>2. x.ppn + Offset(u, x.size) \in Nat
        <5>1. x.size \in 0 .. LEVELS
          BY <2>1, LevelFacts
        <5>2. PageCount(x.size) \in Nat /\ Offset(u, x.size) \in 0 .. PageCount(x.size) - 1
          BY <4>1, <5>1, OffsetBound, PageCounts
        <5> QED
          BY <2>1, <5>2
      <4>3. mapped[u] # -1
        BY <3>1, <4>2
      <4> QED
        BY <1>1, <1>4, <4>1, <4>3
    <3> QED
      BY <3>1, <3>2 DEF Current
  <2> QED
    BY <2>2, <2>3
<1>6. ASSUME NEW v \in VirtPages, v \notin VArea, mapped'[v] # -1 PROVE v \in Unmappable
  <2>1. CASE v \notin span
    BY <1>1, <1>6, <2>1 DEF CacheInv
  <2>2. CASE v \in span
    <3>1. ~ call.alloc
      <4> SUFFICES ASSUME call.alloc PROVE FALSE
        OBVIOUS
      <4>1. PICK r \in AllocRequests : InArea(r)
        BY <1>1 DEF TableInv, Allocating
      <4>2. r \in UsableRequests /\ span \subseteq Area(r)
        BY <1>3, <4>1, AllocSpan
      <4> QED
        BY <1>6, <2>2, <4>2 DEF VArea
    <3>2. PICK q \in MapRequests : Acceptable(q) /\ call.v = q.v /\ call.size = q.size
      BY <1>1, <3>1 DEF TableInv, Mapping
    <3> QED
      BY <2>2, <3>2 DEF Unmappable
  <2> QED
    BY <2>1, <2>2
<1>7. \A x \in tlb' : x.size \in Levels /\ x.v \in VirtPages /\ x.ppn \in Nat
  BY <1>1 DEF CacheInv
<1> QED
  BY <1>2, <1>5, <1>6, <1>7 DEF CacheInv

\* free flushes the address that it was called with: for one page, the page
\* that it gives back.
LEMMA CacheFreePage ==
    ASSUME TableInv, CacheInv, SinglePages, FreePage
    PROVE  CacheInv'
<1> DEFINE span == Span(call.v, call.size)
<1>1. PICK r \in UsableRequests :
          /\ r \in AllocRequests /\ InArea(r)
          /\ call.v \in VirtPages /\ call.size \in Levels
          /\ mapped' = [v \in VirtPages |-> IF v \in span THEN -1 ELSE mapped[v]]
  BY FreePageFacts
<1>2. call.v = call.first /\ tlb' = {x \in tlb : call.v \notin Span(x.v, x.size)}
  BY DEF FreePage, CacheInv, sfence
<1>3. call.v \in Nat /\ r.size = call.size /\ span \subseteq Area(r) \cap VirtPages
      /\ PageCount(call.size) \in Nat
  BY <1>1, AllocSpan
<1>4. LastPage
  <2>1. r.count = 1
    BY <1>1 DEF SinglePages
  <2>2. call.end = call.v + r.count * PageCount(call.size)
    BY <1>1, <1>2 DEF InArea, Serves
  <2>3. r.count * PageCount(call.size) = PageCount(call.size)
    BY <1>3, <2>1
  <2>4. call.end = call.v + PageCount(call.size)
    BY <2>2, <2>3
  <2> QED
    BY <1>3, <2>4 DEF LastPage
<1>5. call' = NoCall
  BY <1>4 DEF FreePage, Return
<1>6. ASSUME NEW x \in tlb' PROVE Current(x)'
  <2>1. x \in tlb /\ call.v \notin Span(x.v, x.size)
    BY <1>2
  <2>2. x.size \in Levels /\ x.v \in VirtPages /\ x.v \in Nat /\ Current(x)
    BY <2>1, LevelFacts DEF CacheInv
  <2>3. CASE x.v \in Unmappable
    BY <2>3 DEF Current
  <2>4. CASE x.v \notin Unmappable
    <3>1. /\ \A u \in Span(x.v, x.size) : u \in VArea /\ mapped[u] = x.ppn + Offset(u, x.size)
          /\ \A u \in Span(x.v, x.size) :
                \A s \in UsableRequests : u \in Area(s) => s.size = x.size
      BY <2>2, <2>4 DEF Current
    <3>2. ASSUME NEW u \in Span(x.v, x.size) PROVE u \in VirtPages /\ u \notin span
      <4>1. u \in VirtPages /\ u \in Nat
        BY <3>1, LevelFacts DEF VArea
      <4>2. ASSUME u \in span PROVE FALSE
        <5>1. x.size = call.size
          BY <1>3, <3>1, <4>2
        <5>2. call.v \in Span(x.v, x.size)
          BY <1>1, <1>3, <2>2, <4>1, <4>2, <5>1, SpanSame
        <5> QED
          BY <2>1, <5>2
      <4> QED
        BY <4>1, <4>2
    <3>3. \A u \in Span(x.v, x.size) : mapped'[u] = mapped[u]
      BY <1>1, <3>2
    <3> QED
      BY <3>1, <3>3 DEF Current
  <2> QED
    BY <2>3, <2>4
<1>7. \A v \in VirtPages \ VArea : mapped'[v] # -1 => v \in Unmappable
  BY <1>1, PageTableAssumption DEF CacheInv
<1>8. \A x \in tlb' : x.size \in Levels /\ x.v \in VirtPages /\ x.ppn \in Nat
  BY <1>2 DEF CacheInv
<1> QED
  BY <1>5, <1>6, <1>7, <1>8, IdleCall DEF CacheInv

\* unmap does not flush, but what it unmaps is no page of map_alloc.
LEMMA CacheUnmap ==
    ASSUME TableInv, CacheInv, RequestsSeparate, NEW v0 \in Unmappable, Unmap(v0)
    PROVE  CacheInv'
<1>1. PICK q \in MapRequests : Acceptable(q) /\ v0 \in Span(q.v, q.size)
  BY DEF Unmappable
<1>2. q.size \in Levels /\ q.v \in VirtPages
  BY <1>1, AcceptableFacts, PageTableAssumption
<1>3. v0 \in VirtPages /\ v0 \in Nat
  BY <1>1, <1>2, SpanInVirt, LevelFacts
<1>4. v0 \notin VArea
  BY <1>1 DEF RequestsSeparate, VArea
<1>5. LeafLevels(v0) # {} /\ UNCHANGED <<call, tlb>>
  BY DEF Unmap, UNMAPPED
<1>6. PICK l0 \in Levels : Leaves(tables, v0) = {l0} /\ LeafFound(v0).size = l0
  BY <1>3, <1>5, TraverseIs
<1>7. mapped' = [v \in VirtPages |-> IF v \in Span(v0, l0) THEN -1 ELSE mapped[v]]
  BY <1>6 DEF Unmap, UNMAPPED
<1>8. Span(v0, l0) \cap VArea = {}
  BY <1>3, <1>4, <1>6, AreaSpan
<1>9. \A v \in VArea : mapped'[v] = mapped[v]
  BY <1>7, <1>8 DEF VArea
<1>10. \A v \in VirtPages \ VArea : mapped'[v] # -1 => v \in Unmappable
  BY <1>7, PageTableAssumption DEF CacheInv
<1>11. \A x \in tlb : Current(x) => Current(x)'
  BY <1>9 DEF Current
<1> QED
  BY <1>5, <1>10, <1>11 DEF CacheInv

LEMMA CacheNext ==
    ASSUME TableInv, CacheInv, RequestsSeparate, SinglePages, [Next]_vars
    PROVE  CacheInv'
<1>1. ASSUME NEW q \in MapRequests, MapRefused(q) \/ Map(q) PROVE CacheInv'
  BY <1>1, CacheFrame DEF MapRefused, Map, Idle
<1>2. ASSUME NEW q \in AllocRequests, MapAlloc(q) PROVE CacheInv'
  BY <1>2, CacheFrame DEF MapAlloc
<1>3. ASSUME NEW a \in allocs, Free(a) PROVE CacheInv'
  <2>1. UNCHANGED <<tlb, mapped>> /\ call.op = "idle"
    BY <1>3 DEF Free, Idle
  <2>2. PICK size, end :
           \/ call' = call \/ call' = Dead
           \/ call' = [NoCall EXCEPT !.op = "free", !.v = a.v, !.size = size,
                                     !.first = a.v, !.end = end]
    BY <1>3 DEF Free, Panic
  <2>3. call'.op = "free" => call'.v = call'.first
    BY <2>1, <2>2, DeadCall DEF NoCall
  <2> QED
    BY <2>1, <2>3, CacheFrame
<1>4. ASSUME NEW v \in Unmappable, Unmap(v) PROVE CacheInv'
  BY <1>4, CacheUnmap
<1>12. ASSUME NEW v \in Unmappable, TerapagePanics(v) PROVE CacheInv'
  BY <1>12, CacheFrame, DeadCall DEF TerapagePanics, Panic
<1>5. ASSUME NEW v \in VirtPages, TlbFill(v) PROVE CacheInv'
  BY <1>5, CacheTlbFill
<1>6. CASE FollowBranch \/ NewTable
  <2>1. UNCHANGED <<tlb, mapped>> /\ call'.op # "free"
    BY <1>6 DEF FollowBranch, NewTable, Descending, TableInv, CallTyped
  <2> QED
    BY <2>1, CacheFrame
<1>7. CASE NewTableFails \/ AlreadyMapped \/ AllocPageFails
  <2>1. UNCHANGED <<tlb, mapped>> /\ call' = NoCall
    BY <1>7 DEF NewTableFails, AlreadyMapped, AllocPageFails, Return
  <2> QED
    BY <2>1, CacheFrame, IdleCall
<1>8. CASE AllocPage
  <2>1. UNCHANGED <<tlb, mapped>> /\ call'.op # "free"
    <3>1. UNCHANGED <<tlb, mapped>>
      BY <1>8 DEF AllocPage
    <3>2. PICK page :
             \/ call' = [call EXCEPT !.op = "map", !.ppn = page,
                                     !.level = LEVELS - 1, !.table = Root]
             \/ call' = NoCall
      BY <1>8 DEF AllocPage, Return
    <3>3. CallTyped
      BY DEF TableInv
    <3>4. [call EXCEPT !.op = "map", !.ppn = page,
                       !.level = LEVELS - 1, !.table = Root].op = "map"
      BY <3>3 DEF CallTyped
    <3> QED
      BY <3>1, <3>2, <3>4, IdleCall
  <2> QED
    BY <2>1, CacheFrame
<1>9. CASE WriteLeaf
  BY <1>9, CacheWriteLeaf
<1>10. CASE FreePage
  BY <1>10, CacheFreePage
<1>11. CASE UNCHANGED vars
  BY <1>11, CacheFrame DEF vars, CacheInv
<1> QED
  BY <1>1, <1>2, <1>3, <1>4, <1>5, <1>6, <1>7, <1>8, <1>9, <1>10, <1>11, <1>12 DEF Next, Run

LEMMA FreshFromInv == TableInv /\ CacheInv => NoStaleAccess
<1> SUFFICES ASSUME TableInv, CacheInv, NEW x \in tlb, x.v \notin Unmappable,
                    NEW p \in Block(x.ppn, x.size)
             PROVE  p \notin free
  BY DEF NoStaleAccess
<1>1. x.size \in Levels /\ x.v \in Nat /\ x.ppn \in Nat /\ Current(x)
  BY LevelFacts DEF CacheInv
<1>2. PageCount(x.size) \in Nat
  BY <1>1, LevelFacts, PageCounts
<1>3. p \in Nat
  BY <1>1, <1>2 DEF Block
<1>4. PICK u \in Span(x.v, x.size) : x.ppn + Offset(u, x.size) = p
  BY <1>1, SpanCovers
<1>5. u \in VArea /\ mapped[u] = p
  BY <1>1, <1>4 DEF Current
<1> QED
  BY <1>3, <1>5 DEF TableInv, Owned

\* When every allocation is one page, of any size, the single sfence of free is
\* enough: no cached translation of what map_alloc mapped reaches a page that is
\* free, no matter when the page walker fills the TLB.  (For longer allocations it
\* is not enough.)
THEOREM NoStaleTranslation == RequestsSeparate /\ SinglePages => (Spec => []NoStaleAccess)
<1> SUFFICES ASSUME RequestsSeparate, SinglePages PROVE Spec => []NoStaleAccess
  OBVIOUS
<1>1. Spec => []TableInv
  BY TreeInvariant
<1>2. Init => CacheInv
  BY CacheInit
<1>3. TableInv /\ CacheInv /\ [Next]_vars => CacheInv'
  BY CacheNext
<1>4. TableInv /\ CacheInv => NoStaleAccess
  BY FreshFromInv
<1> QED
  BY <1>1, <1>2, <1>3, <1>4, PTL DEF Spec
=============================================================================
