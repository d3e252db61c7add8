------------------------------ MODULE MCBuddy ------------------------------
(***************************************************************************)
(* Model-checking instance of Buddy: orders 0 to 2 and eight pages from    *)
(* page 8 on, in two regions that touch inside a block of the largest      *)
(* order, and a region without a whole page.  Regions start or end inside  *)
(* a page.  Two blocks of the largest order can become each other's buddy. *)
(***************************************************************************)
EXTENDS Buddy

MCRegions == { [start |-> 31, end |-> 56],    \* pages 8 .. 13
               [start |-> 56, end |-> 67],    \* pages 14 and 15
               [start |-> 81, end |-> 87] }   \* no whole page

ASSUME MCAligned == RegionsAligned
=============================================================================
