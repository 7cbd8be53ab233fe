--------------------------- MODULE ScannerProofs ---------------------------
(***************************************************************************)
(* Proofs about the scanner, for any ranges, element size, values and      *)
(* number of calls: its state keeps its types (TypeOK: a kept set is never *)
(* empty, so no filter runs on a null pointer), the sets own their buffers *)
(* (ResultsOwnBuffers: no use after free, no double free), a nextScan      *)
(* without an error leaks none (NextScanLeaksNothing), and a scan lists    *)
(* only what compares as asked (CandidatesMatch), and all of it when the   *)
(* target stood still (QuietScanExact).                                    *)
(*                                                                         *)
(* ResultsOwnBuffers is not inductive alone: the two buffers of a new set  *)
(* must be new, which is HeapBelow, and they must go to newResults only    *)
(* while nextScan runs, which is part of LoopInv.  The rest of LoopInv     *)
(* keeps the cursor of the native loop on elements of its range.           *)
(*                                                                         *)
(* The properties of an answered call say nothing while it runs.  Their    *)
(* invariants speak of every moment of it: Made is all it has found yet,   *)
(* which MadePassed says went through the test, and ExactSoFar that it is  *)
(* what the elements gone over (ScannedTo, FilteredTo) hold; Held is all   *)
(* the buffers it still answers for, and NothingLost says that the others  *)
(* are those of before the call.                                           *)
(***************************************************************************)
EXTENDS Scanner, WellFoundedInduction, NaturalsInduction, TLAPS

\* malloc's side of the bargain: no live buffer has a number yet to come.
HeapBelow == \A b \in heap : b < fresh

OnElement(p, r) == \E k \in Nat : p = Base[r] + k * Step

LoopInv ==
    /\ i >= 1
    /\ rpc = "next" => cursor >= 1
    /\ rpc # "next" => kept = <<>>
    /\ Scanning => OnElement(cursor, Least(todo))

Inv == TypeOK /\ ResultsOwnBuffers /\ HeapBelow /\ LoopInv

-----------------------------------------------------------------------------
(* Lemmas about ranges and elements.                                       *)

\* A non-empty set of naturals has a least element, which Least picks.
LEMMA LeastIsLeast ==
    ASSUME NEW S \in SUBSET Nat, S # {}
    PROVE  Least(S) \in S /\ (\A y \in S : Least(S) <= y)
<1>. DEFINE Below == {ss \in Nat \X Nat : ss[1] < ss[2]}
<1>0. IsWellFoundedOn(Below, Nat)
  BY NatLessThanWellFounded, Zenon DEF OpToRel
<1>1. PICK x \in S : \A y \in S : ~ (<<y, x>> \in Below)
  <2>1. S \subseteq Nat /\ S # {}
    OBVIOUS
  <2>. HIDE DEF Below
  <2>2. \E x \in S : \A y \in S : ~ (<<y, x>> \in Below)
    BY <1>0, <2>1, WFMin
  <2>. QED
    BY <2>2
<1>2. ASSUME NEW y \in S PROVE x <= y
  <2>1. x \in Nat /\ y \in Nat
    OBVIOUS
  <2>2. ~ (<<y, x>> \in Below)
    BY <1>1
  <2>3. ~ (y < x)
    BY <2>1, <2>2
  <2>. QED
    BY <2>1, <2>3
<1>. QED
  BY <1>1, <1>2 DEF Least

\* The native loop starts on the first element of the range it is given.
LEMMA CursorStartsOnElement ==
    ASSUME NEW S \in SUBSET Range
    PROVE  /\ CursorAt(S) \in Nat
           /\ S # {} => OnElement(CursorAt(S), Least(S))
<1>1. CASE S = {}
  BY <1>1 DEF CursorAt
<1>2. CASE S # {}
  <2>1. Least(S) \in Range
    BY <1>2, LeastIsLeast, RangeAssumption
  <2>2. CursorAt(S) = Base[Least(S)] /\ CursorAt(S) \in Nat
    BY <1>2, <2>1, RangeAssumption DEF CursorAt
  <2>3. CursorAt(S) = Base[Least(S)] + 0 * Step
    BY <2>2, ScanAssumption
  <2>. QED
    BY <2>2, <2>3 DEF OnElement
<1>. QED
  BY <1>1, <1>2

\* What the loop's bound admits is an element of the range, though the bound
\* is computed from a truncated size.
LEMMA InRegionIsElement ==
    ASSUME NEW r \in Range, NEW p \in Nat, OnElement(p, r), InRegion(r, p)
    PROVE  p \in Elements(r) /\ p \in Address
<1>1. Base[r] \in Nat /\ Size[r] \in Nat /\ Step \in Nat /\ Step >= 1
  BY RangeAssumption, ScanAssumption
<1>2. UintModulus \in Nat /\ UintModulus >= 1
  BY ScanAssumption
<1>3. Size[r] % UintModulus <= Size[r] /\ Size[r] % UintModulus \in Nat
  BY <1>1, <1>2
<1>4. p + Step <= Base[r] + Size[r]
  BY <1>1, <1>3 DEF InRegion, RegionEnd
<1>5. PICK k \in Nat : p = Base[r] + k * Step
  BY DEF OnElement
<1>6. (k + 1) * Step = k * Step + Step /\ k * Step >= k
  BY <1>1
<1>7. (k + 1) * Step <= Size[r]
  <2>. DEFINE m == k * Step
  <2>1. m \in Nat
    BY <1>1
  <2>2. p = Base[r] + m /\ (k + 1) * Step = m + Step
    BY <1>5, <1>6
  <2>. HIDE DEF m
  <2>. QED
    BY <1>1, <1>4, <2>1, <2>2
<1>8. k <= Size[r]
  <2>. DEFINE m == k * Step
  <2>1. m \in Nat /\ m >= k /\ (k + 1) * Step = m + Step
    BY <1>1, <1>6
  <2>. HIDE DEF m
  <2>. QED
    BY <1>1, <1>7, <2>1
<1>9. p \in Elements(r)
  BY <1>5, <1>7, <1>8, <1>1 DEF Elements
<1>. QED
  BY <1>9 DEF Address

\* One turn of the loop moves to the next element.
LEMMA StepStaysOnElement ==
    ASSUME NEW r \in Range, NEW p \in Nat, OnElement(p, r)
    PROVE  OnElement(p + Step, r) /\ p + Step \in Nat
<1>1. Base[r] \in Nat /\ Step \in Nat
  BY RangeAssumption, ScanAssumption
<1>2. PICK k \in Nat : p = Base[r] + k * Step
  BY DEF OnElement
<1>3. (k + 1) * Step = k * Step + Step /\ k * Step \in Nat
  BY <1>1
<1>4. p + Step = Base[r] + (k + 1) * Step
  BY <1>1, <1>2, <1>3
<1>5. k + 1 \in Nat /\ p + Step \in Nat
  BY <1>1
<1>6. \E l \in Nat : p + Step = Base[r] + l * Step
  BY <1>4, <1>5, Zenon
<1>. QED
  BY <1>5, <1>6 DEF OnElement

-----------------------------------------------------------------------------
(* Lemmas about the sets.                                                  *)

\* Keeping what a loop found appends at most one set, made of new buffers.
LEMMA WithFoundAppends ==
    ASSUME NEW sets \in Seq(ResultSet), fresh \in Nat, found \in Seq(Cell)
    PROVE  /\ WithFound(sets) \in Seq(ResultSet)
           /\ DOMAIN sets \subseteq DOMAIN WithFound(sets)
           /\ \A k \in DOMAIN sets : WithFound(sets)[k] = sets[k]
           /\ \A k \in DOMAIN WithFound(sets) : k \notin DOMAIN sets
                => /\ BuffersOf(WithFound(sets)[k]) = FoundBuffers
                   /\ \A l \in DOMAIN WithFound(sets) : l \notin DOMAIN sets => l = k
<1>1. CASE found = <<>>
  BY <1>1 DEF WithFound
<1>2. CASE found # <<>>
  <2>. DEFINE new == NewSet(found)
  <2>1. new \in ResultSet /\ BuffersOf(new) = FoundBuffers
    BY <1>2 DEF NewSet, ResultSet, BuffersOf, FoundBuffers
  <2>2. WithFound(sets) = Append(sets, new)
    BY <1>2 DEF WithFound
  <2>. HIDE DEF new
  <2>3. /\ Append(sets, new) \in Seq(ResultSet)
        /\ DOMAIN Append(sets, new) = 1..(Len(sets) + 1)
        /\ DOMAIN sets = 1..Len(sets) /\ Len(sets) \in Nat
        /\ Append(sets, new)[Len(sets) + 1] = new
    BY <2>1
  <2>4. \A k \in DOMAIN sets : Append(sets, new)[k] = sets[k]
    BY <2>1
  <2>5. \A k \in DOMAIN Append(sets, new) : k \notin DOMAIN sets => k = Len(sets) + 1
    BY <2>3
  <2>. QED
    BY <2>1, <2>2, <2>3, <2>4, <2>5
<1>. QED
  BY <1>1, <1>2

\* New buffers are live nowhere yet, and numbers stay ahead of the heap.
LEMMA FoundIsNew ==
    ASSUME fresh \in Nat, heap \subseteq Nat, HeapBelow
    PROVE  /\ FoundBuffers \subseteq Nat /\ FoundBuffers \intersect heap = {}
           /\ FreshAfter \in Nat
           /\ \A b \in heap \union FoundBuffers : b < FreshAfter
BY DEF HeapBelow, FoundBuffers, FreshAfter

-----------------------------------------------------------------------------
(* The inductive invariant of types and buffers.                           *)

\* Init establishes it.
LEMMA InitInv == Init => Inv
<1>. SUFFICES ASSUME Init PROVE Inv
  OBVIOUS
<1>1. TypeOK
  BY ScanAssumption DEF Init, TypeOK
<1>. QED
  BY <1>1 DEF Init, Inv, ResultsOwnBuffers, Pending, HeapBelow, LoopInv, Scanning

\* Starting a first scan: all sets are forgotten.
LEMMA FirstScanInv ==
    ASSUME Inv, NEW kind \in FirstKinds, NEW x \in Value, FirstScan(kind, x)
    PROVE  Inv'
<1>. USE DEF Inv
<1>1. todo' \subseteq Range
  BY DEF FirstScan, TypeOK
<1>2. cursor' = CursorAt(todo') /\ cursor' \in Nat
  BY <1>1, CursorStartsOnElement DEF FirstScan
<1>3. rpc' # "next" /\ rpc' \in {"none", "first"} /\ kept' = kept /\ kept = <<>>
  BY DEF FirstScan, LoopInv
<1>4. TypeOK'
  BY <1>1, <1>2, <1>3, ScanAssumption DEF FirstScan, TypeOK, game
<1>5. ResultsOwnBuffers'
  BY <1>3 DEF FirstScan, ResultsOwnBuffers, Pending
<1>6. HeapBelow'
  BY DEF FirstScan, HeapBelow
<1>7. Scanning' => OnElement(cursor', Least(todo'))
  BY <1>1, <1>2, CursorStartsOnElement DEF Scanning
<1>8. LoopInv'
  BY <1>3, <1>7 DEF FirstScan, LoopInv, OnElement
<1>. QED
  BY <1>4, <1>5, <1>6, <1>8

\* What moving to the next range leaves of the loop's invariant.
LEMMA NextRangeKeeps ==
    ASSUME TypeOK, NextRange
    PROVE  /\ todo' \subseteq Range /\ cursor' \in Nat /\ found' = <<>>
           /\ todo' # {} => OnElement(cursor', Least(todo'))
<1>1. todo' \subseteq Range
  BY DEF TypeOK, NextRange
<1>. QED
  BY <1>1, CursorStartsOnElement DEF NextRange

\* One turn of the first native loop: what it appends is an element read.
LEMMA ScanElementInv == ASSUME Inv, ScanElement PROVE Inv'
<1>. USE DEF Inv
<1>1. Least(todo) \in todo /\ todo \subseteq Range
  BY LeastIsLeast, RangeAssumption DEF ScanElement, Scanning, TypeOK
<1>2. cursor \in Nat /\ OnElement(cursor, Least(todo))
  BY DEF ScanElement, LoopInv, TypeOK
<1>3. cursor \in Address
  BY <1>1, <1>2, InRegionIsElement DEF ScanElement
<1>4. [addr |-> cursor, val |-> mem[cursor]] \in Cell
  BY <1>3 DEF TypeOK, Cell
<1>5. found' \in Seq(Cell)
  BY <1>4 DEF ScanElement, TypeOK
<1>6. cursor' \in Nat /\ OnElement(cursor', Least(todo))
  BY <1>1, <1>2, StepStaysOnElement DEF ScanElement
<1>7. TypeOK'
  BY <1>5, <1>6 DEF ScanElement, TypeOK, game
<1>8. ResultsOwnBuffers' /\ HeapBelow'
  BY DEF ScanElement, ResultsOwnBuffers, Pending, HeapBelow
<1>9. LoopInv'
  BY <1>6 DEF ScanElement, LoopInv, Scanning, OnElement
<1>. QED
  BY <1>7, <1>8, <1>9

\* An error in a range: its buffers leak, no set holds them.
LEMMA ScanFaultInv == ASSUME Inv, ScanFault PROVE Inv'
<1>. USE DEF Inv
<1>1. /\ todo' \subseteq Range /\ cursor' \in Nat /\ found' = <<>>
      /\ todo' # {} => OnElement(cursor', Least(todo'))
  BY NextRangeKeeps DEF ScanFault
<1>2. /\ heap \subseteq heap' /\ heap' \subseteq Nat /\ fresh' \in Nat
      /\ \A b \in heap' : b < fresh'
  BY FoundIsNew DEF ScanFault, TypeOK
<1>3. TypeOK'
  BY <1>1, <1>2 DEF ScanFault, TypeOK, game
<1>4. ResultsOwnBuffers'
  BY <1>2 DEF ScanFault, ResultsOwnBuffers, Pending
<1>5. HeapBelow' /\ LoopInv'
  BY <1>1, <1>2 DEF ScanFault, HeapBelow, LoopInv, Scanning, OnElement
<1>. QED
  BY <1>3, <1>4, <1>5

\* A range done: the set it may add owns two new buffers.
LEMMA ScanRangeDoneInv == ASSUME Inv, ScanRangeDone PROVE Inv'
<1>. USE DEF Inv
<1>1. /\ todo' \subseteq Range /\ cursor' \in Nat /\ found' = <<>>
      /\ todo' # {} => OnElement(cursor', Least(todo'))
  BY NextRangeKeeps DEF ScanRangeDone
<1>2. /\ heap' = heap \union FoundBuffers /\ heap' \subseteq Nat /\ fresh' \in Nat
      /\ FoundBuffers \intersect heap = {}
      /\ \A b \in heap' : b < fresh'
  BY FoundIsNew DEF ScanRangeDone, TypeOK
<1>3. /\ results' \in Seq(ResultSet)
      /\ DOMAIN results \subseteq DOMAIN results'
      /\ \A k \in DOMAIN results : results'[k] = results[k]
      /\ \A k \in DOMAIN results' : k \notin DOMAIN results
           => /\ BuffersOf(results'[k]) = FoundBuffers
              /\ \A l \in DOMAIN results' : l \notin DOMAIN results => l = k
  BY WithFoundAppends DEF ScanRangeDone, TypeOK
<1>4. rpc = "first" /\ rpc' = rpc /\ kept' = kept /\ kept = <<>>
  BY DEF ScanRangeDone, Scanning, LoopInv
<1>5. TypeOK'
  BY <1>1, <1>2, <1>3 DEF ScanRangeDone, TypeOK, game
<1>6. ResultsOwnBuffers'
  <2>1. \A k \in DOMAIN results : BuffersOf(results[k]) \subseteq heap
    BY <1>4 DEF ResultsOwnBuffers, Pending
  <2>2. \A k, l \in DOMAIN results : k # l => Apart(results[k], results[l])
    BY <1>4 DEF ResultsOwnBuffers, Pending
  <2>3. \A k \in DOMAIN results' : BuffersOf(results'[k]) \subseteq heap'
    BY <1>2, <1>3, <2>1
  <2>4. ASSUME NEW k \in DOMAIN results', NEW l \in DOMAIN results', k # l
        PROVE  Apart(results'[k], results'[l])
    <3>1. CASE k \in DOMAIN results /\ l \in DOMAIN results
      BY <3>1, <1>3, <2>2, <2>4
    <3>2. CASE k \notin DOMAIN results \/ l \notin DOMAIN results
      BY <3>2, <1>2, <1>3, <2>1, <2>4 DEF Apart
    <3>. QED
      BY <3>1, <3>2
  <2>. QED
    BY <1>4, <2>3, <2>4 DEF ResultsOwnBuffers, Pending, Apart, BuffersOf
<1>7. HeapBelow' /\ LoopInv'
  BY <1>1, <1>2, <1>4 DEF ScanRangeDone, HeapBelow, LoopInv, Scanning, OnElement
<1>. QED
  BY <1>5, <1>6, <1>7

LEMMA FirstScanReturnsInv == ASSUME Inv, FirstScanReturns PROVE Inv'
BY DEF Inv, TypeOK, ResultsOwnBuffers, Pending, HeapBelow, LoopInv, Scanning,
       FirstScanReturns, loop, game

\* Starting a filter: every set waits for it.
LEMMA NextScanInv ==
    ASSUME Inv, NEW kind \in NextKinds, NEW x \in Value, NextScan(kind, x)
    PROVE  Inv'
<1>. USE DEF Inv
<1>1. TypeOK'
  BY ScanAssumption DEF NextScan, TypeOK, game
<1>2. DOMAIN results = 1..Len(results)
  BY DEF TypeOK
<1>3. ResultsOwnBuffers'
  BY <1>2 DEF NextScan, ResultsOwnBuffers, Pending
<1>4. HeapBelow' /\ LoopInv'
  BY DEF NextScan, HeapBelow, LoopInv, Scanning
<1>. QED
  BY <1>1, <1>3, <1>4

\* Sets dropped by an error in the middle of a filter: fewer are pending.
LEMMA SetDroppedKeeps ==
    ASSUME Inv, Filtering, rpc' = rpc, results' = results, kept' = kept, i' = i + 1,
           heap \subseteq heap'
    PROVE  ResultsOwnBuffers'
<1>1. i \in Nat /\ i >= 1 /\ rpc = "next" /\ Len(results) \in Nat
  BY DEF Inv, TypeOK, LoopInv, Filtering
<1>2. Pending' \subseteq Pending
  BY <1>1 DEF Pending
<1>3. /\ \A k \in Pending : BuffersOf(results[k]) \subseteq heap
      /\ \A k \in DOMAIN kept : BuffersOf(kept[k]) \subseteq heap
      /\ \A k, l \in Pending : k # l => Apart(results[k], results[l])
      /\ \A k, l \in DOMAIN kept : k # l => Apart(kept[k], kept[l])
      /\ \A k \in Pending, l \in DOMAIN kept : Apart(results[k], kept[l])
  BY DEF Inv, ResultsOwnBuffers
<1>. HIDE DEF Pending
<1>4. /\ \A k \in Pending' : BuffersOf(results[k]) \subseteq heap'
      /\ \A k \in DOMAIN kept : BuffersOf(kept[k]) \subseteq heap'
      /\ \A k, l \in Pending' : k # l => Apart(results[k], results[l])
      /\ \A k \in Pending', l \in DOMAIN kept : Apart(results[k], kept[l])
  BY <1>2, <1>3
<1>. QED
  BY <1>3, <1>4 DEF ResultsOwnBuffers, BuffersOf, Apart

LEMMA FilterRejectedInv == ASSUME Inv, FilterRejected PROVE Inv'
<1>1. ResultsOwnBuffers'
  BY SetDroppedKeeps DEF FilterRejected, NextSet
<1>2. TypeOK'
  BY DEF Inv, FilterRejected, NextSet, TypeOK, game
<1>3. HeapBelow' /\ LoopInv'
  BY DEF Inv, FilterRejected, NextSet, HeapBelow, LoopInv, TypeOK, Filtering, Scanning
<1>. QED
  BY <1>1, <1>2, <1>3 DEF Inv

LEMMA FilterFaultInv == ASSUME Inv, FilterFault PROVE Inv'
<1>1. /\ heap \subseteq heap' /\ heap' \subseteq Nat /\ fresh' \in Nat
      /\ \A b \in heap' : b < fresh'
  BY FoundIsNew DEF FilterFault, TypeOK, Inv
<1>2. ResultsOwnBuffers'
  BY <1>1, SetDroppedKeeps DEF FilterFault, NextSet
<1>3. TypeOK'
  BY <1>1 DEF Inv, FilterFault, NextSet, TypeOK, game
<1>4. HeapBelow' /\ LoopInv'
  BY <1>1 DEF Inv, FilterFault, NextSet, HeapBelow, LoopInv, TypeOK, Filtering, Scanning
<1>. QED
  BY <1>2, <1>3, <1>4 DEF Inv

\* One turn of the second native loop.
LEMMA FilterElementInv == ASSUME Inv, FilterElement PROVE Inv'
<1>. USE DEF Inv
<1>1. rpc = "next" /\ i \in 1..Len(results) /\ cursor >= 1 /\ cursor \in Nat
  BY DEF FilterElement, Filtering, LoopInv, TypeOK
<1>2. results[i] \in ResultSet /\ cursor \in 1..Len(results[i].cells)
  <2>1. results[i] \in ResultSet
    BY <1>1 DEF TypeOK
  <2>2. results[i].cells \in Seq(Cell)
    BY <2>1 DEF ResultSet
  <2>3. cursor <= Len(results[i].cells) /\ Len(results[i].cells) \in Nat
    BY <2>2 DEF FilterElement
  <2>. QED
    BY <1>1, <2>1, <2>3
<1>3. Old \in Cell
  BY <1>2 DEF Old, ResultSet
<1>4. [addr |-> Old.addr, val |-> mem[Old.addr]] \in Cell
  BY <1>3 DEF TypeOK, Cell
<1>5. found' \in Seq(Cell)
  BY <1>4 DEF FilterElement, TypeOK
<1>6. TypeOK'
  BY <1>1, <1>5 DEF FilterElement, TypeOK, game
<1>7. ResultsOwnBuffers'
  BY DEF FilterElement, ResultsOwnBuffers, Pending, BuffersOf, Apart
<1>8. HeapBelow' /\ LoopInv'
  BY <1>1 DEF FilterElement, HeapBelow, LoopInv, Scanning
<1>. QED
  BY <1>6, <1>7, <1>8

\* A set filtered: its buffers are freed, and no other set had them.
LEMMA FilterSetDoneInv == ASSUME Inv, FilterSetDone PROVE Inv'
<1>. USE DEF Inv
<1>1. rpc = "next" /\ rpc' = rpc /\ results' = results /\ i' = i + 1 /\ i \in 1..Len(results)
  BY DEF FilterSetDone, NextSet, Filtering, LoopInv, TypeOK
<1>2. /\ heap' = (heap \union FoundBuffers) \ BuffersOf(results[i])
      /\ heap' \subseteq Nat /\ fresh' \in Nat
      /\ FoundBuffers \intersect heap = {}
      /\ \A b \in heap' : b < fresh'
  BY FoundIsNew DEF FilterSetDone, Freed, TypeOK
<1>3. /\ kept' \in Seq(ResultSet)
      /\ DOMAIN kept \subseteq DOMAIN kept'
      /\ \A k \in DOMAIN kept : kept'[k] = kept[k]
      /\ \A k \in DOMAIN kept' : k \notin DOMAIN kept
           => /\ BuffersOf(kept'[k]) = FoundBuffers
              /\ \A l \in DOMAIN kept' : l \notin DOMAIN kept => l = k
  BY WithFoundAppends DEF FilterSetDone, TypeOK
<1>4. i \in Pending /\ Pending' \subseteq Pending /\ i \notin Pending'
  BY <1>1 DEF Pending, TypeOK
<1>5. /\ \A k \in Pending : BuffersOf(results[k]) \subseteq heap
      /\ \A k \in DOMAIN kept : BuffersOf(kept[k]) \subseteq heap
      /\ \A k, l \in Pending : k # l => Apart(results[k], results[l])
      /\ \A k, l \in DOMAIN kept : k # l => Apart(kept[k], kept[l])
      /\ \A k \in Pending, l \in DOMAIN kept : Apart(results[k], kept[l])
  BY DEF ResultsOwnBuffers
<1>. HIDE DEF Pending
<1>6. \A k \in Pending' : BuffersOf(results[k]) \subseteq heap'
  BY <1>2, <1>4, <1>5 DEF Apart
<1>7. ASSUME NEW k \in DOMAIN kept' PROVE BuffersOf(kept'[k]) \subseteq heap'
  <2>1. CASE k \in DOMAIN kept
    BY <2>1, <1>2, <1>3, <1>4, <1>5 DEF Apart
  <2>2. CASE k \notin DOMAIN kept
    BY <2>2, <1>2, <1>3, <1>4, <1>5
  <2>. QED
    BY <2>1, <2>2
<1>8. \A k, l \in Pending' : k # l => Apart(results[k], results[l])
  BY <1>4, <1>5
<1>9. ASSUME NEW k \in DOMAIN kept', NEW l \in DOMAIN kept', k # l
      PROVE  Apart(kept'[k], kept'[l])
  <2>1. CASE k \in DOMAIN kept /\ l \in DOMAIN kept
    BY <2>1, <1>3, <1>5, <1>9
  <2>2. CASE k \notin DOMAIN kept \/ l \notin DOMAIN kept
    BY <2>2, <1>2, <1>3, <1>5, <1>9 DEF Apart
  <2>. QED
    BY <2>1, <2>2
<1>10. ASSUME NEW k \in Pending', NEW l \in DOMAIN kept'
       PROVE  Apart(results[k], kept'[l])
  <2>1. CASE l \in DOMAIN kept
    BY <2>1, <1>3, <1>4, <1>5
  <2>2. CASE l \notin DOMAIN kept
    BY <2>2, <1>2, <1>3, <1>4, <1>5 DEF Apart
  <2>. QED
    BY <2>1, <2>2
<1>11. ResultsOwnBuffers'
  BY <1>1, <1>6, <1>7, <1>8, <1>9, <1>10 DEF ResultsOwnBuffers, BuffersOf, Apart
<1>12. TypeOK'
  BY <1>1, <1>2, <1>3 DEF FilterSetDone, NextSet, TypeOK, game
<1>13. HeapBelow' /\ LoopInv'
  BY <1>1, <1>2 DEF FilterSetDone, NextSet, HeapBelow, LoopInv, TypeOK, Scanning
<1>. QED
  BY <1>11, <1>12, <1>13

LEMMA NextScanReturnsInv == ASSUME Inv, NextScanReturns PROVE Inv'
<1>. USE DEF Inv
<1>1. TypeOK'
  BY DEF NextScanReturns, TypeOK, game
<1>2. ResultsOwnBuffers'
  BY DEF NextScanReturns, ResultsOwnBuffers, Pending
<1>3. HeapBelow' /\ LoopInv'
  BY DEF NextScanReturns, HeapBelow, LoopInv, Scanning
<1>. QED
  BY <1>1, <1>2, <1>3

LEMMA UndoScanInv == ASSUME Inv, UndoScan PROVE Inv'
<1>. USE DEF Inv
<1>1. TypeOK'
  BY ScanAssumption DEF UndoScan, TypeOK, game, loop
<1>2. ResultsOwnBuffers'
  BY DEF UndoScan, ResultsOwnBuffers, Pending, LoopInv, loop
<1>3. HeapBelow' /\ LoopInv'
  BY DEF UndoScan, HeapBelow, LoopInv, Scanning, loop
<1>. QED
  BY <1>1, <1>2, <1>3

\* The target's steps touch nothing of the scanner.
LEMMA GameStepInv == ASSUME Inv, GameStep PROVE Inv'
<1>. USE DEF Inv
<1>1. mem' \in [Address -> Value] /\ mapped' \subseteq Range
  BY DEF GameStep, TypeOK
<1>2. TypeOK'
  BY <1>1, ScanAssumption DEF GameStep, TypeOK, loop
<1>3. ResultsOwnBuffers' /\ HeapBelow' /\ LoopInv'
  BY DEF GameStep, ResultsOwnBuffers, Pending, BuffersOf, Apart, HeapBelow, LoopInv,
         Scanning, OnElement, loop
<1>. QED
  BY <1>2, <1>3

\* Every step keeps it.
LEMMA StepInv == Inv /\ [Next]_vars => Inv'
<1>. SUFFICES ASSUME Inv, [Next]_vars PROVE Inv'
  OBVIOUS
<1>1. CASE User
  BY <1>1, FirstScanInv, NextScanInv, UndoScanInv DEF User
<1>2. CASE Agent
  BY <1>2, ScanElementInv, ScanFaultInv, ScanRangeDoneInv, FirstScanReturnsInv,
     FilterRejectedInv, FilterElementInv, FilterFaultInv, FilterSetDoneInv,
     NextScanReturnsInv DEF Agent
<1>3. CASE GameStep
  BY <1>3, GameStepInv
<1>4. CASE UNCHANGED vars
  BY <1>4 DEF Inv, TypeOK, ResultsOwnBuffers, Pending, BuffersOf, Apart, HeapBelow,
              LoopInv, Scanning, OnElement, vars, game, loop
<1>. QED
  BY <1>1, <1>2, <1>3, <1>4 DEF Next

-----------------------------------------------------------------------------
(* The theorems about types and buffers.                                   *)

\* The inductive invariant holds of every behaviour.
THEOREM Invariance == Spec => []Inv
BY InitInv, StepInv, PTL DEF Spec

\* The scanner's state keeps its types; no set it keeps is empty.
THEOREM TypesHold == Spec => []TypeOK
<1>1. Inv => TypeOK
  BY DEF Inv
<1>. QED
  BY <1>1, Invariance, PTL

\* nextScan and free_results never touch a freed buffer, nor free one twice.
THEOREM BuffersOwned == Spec => []ResultsOwnBuffers
<1>1. Inv => ResultsOwnBuffers
  BY DEF Inv
<1>. QED
  BY <1>1, Invariance, PTL

-----------------------------------------------------------------------------
(* What a scan answers: the inductive invariant.                           *)

\* The sets the call that runs has made so far, or the last call has left, and
\* the elements in them and in the arrays of the loop.
Answer == IF rpc = "next" THEN kept ELSE results
Elems(s) == {s[n] : n \in DOMAIN s}
Made == CellsOf(Answer) \union Elems(found)

\* Where the call stands: found is empty between two loops, past speaks of the
\* call that runs, and only a first scan has ranges to do.
Stage ==
    /\ past \in [op : {"none", "first", "next", "undo"}, before : SUBSET Cell,
                 unowned : SUBSET Nat, quiet : BOOLEAN, clean : BOOLEAN]
    /\ rpc # "none" => past.op = rpc
    /\ past.op = "first" => ask.kind \in FirstKinds
    /\ rpc = "next" => past.before = CellsOf(results)
    /\ rpc # "first" => todo = {}
    /\ \/ rpc = "none"
       \/ rpc = "first" /\ todo = {}
       \/ rpc = "next" /\ i > Len(results)
       => found = <<>>

\* The test of the native loop the element went through.
PassedTest(c) ==
    \/ past.op = "first" /\ ScanMatches(ask.kind, c.val, ask.value)
    \/ /\ past.op = "next"
       /\ \E b \in past.before :
            b.addr = c.addr /\ FilterMatches(ask.kind, c.val, ask.value, b.val)

MadePassed == \A c \in Made : PassedTest(c)

\* Every live buffer is one of before the call, or one a set owns.
BuffersAt(K, sets) == UNION {BuffersOf(sets[k]) : k \in K}
Held == BuffersAt(Pending, results) \union OwnedBy(kept)
NothingLost == past.op = "next" /\ past.clean => heap \ Held = past.unowned

\* The elements the loops have been over.
ScannedTo == {a \in Address : /\ RangeOf(a) \in mapped
                              /\ RangeOf(a) \in todo => RangeOf(a) = Least(todo) /\ a < cursor}
Visited(k, n) == k < i \/ (k = i /\ n < cursor)
VisitedOf(k) == {results[k].cells[n] : n \in {n \in DOMAIN results[k].cells : Visited(k, n)}}
FilteredTo == IF rpc = "next" THEN UNION {VisitedOf(k) : k \in DOMAIN results} ELSE past.before

SmallRanges == \A r \in Range : Size[r] < UintModulus

ScannedExact == {[addr |-> a, val |-> mem[a]] :
    a \in {a \in ScannedTo : ScanMatches(ask.kind, mem[a], ask.value)}}
FilteredExact == {[addr |-> b.addr, val |-> mem[b.addr]] :
    b \in {b \in FilteredTo : FilterMatches(ask.kind, mem[b.addr], ask.value, b.val)}}

\* With the target still and no error, the elements found so far are exactly
\* those of the elements gone over that pass the test.
ExactSoFar ==
    past.quiet /\ past.clean =>
        /\ past.op = "first" /\ SmallRanges => Made = ScannedExact
        /\ past.op = "next" => Made = FilteredExact

-----------------------------------------------------------------------------
(* Lemmas about the sets a loop adds to.                                   *)

LEMMA ElemsOfAppend ==
    ASSUME NEW S, NEW s \in Seq(S), NEW e \in S
    PROVE  Elems(Append(s, e)) = Elems(s) \union {e}
<1>1. /\ DOMAIN Append(s, e) = 1..(Len(s) + 1) /\ DOMAIN s = 1..Len(s) /\ Len(s) \in Nat
      /\ Append(s, e)[Len(s) + 1] = e
      /\ \A n \in 1..Len(s) : Append(s, e)[n] = s[n]
  OBVIOUS
<1>2. DOMAIN Append(s, e) = DOMAIN s \union {Len(s) + 1}
  BY <1>1
<1>. QED
  BY <1>1, <1>2 DEF Elems

LEMMA ElemsOfEmpty == Elems(<<>>) = {} /\ CellsOf(<<>>) = {} /\ OwnedBy(<<>>) = {}
BY DEF Elems, CellsOf, OwnedBy

\* Keeping what the loop found moves its elements and its buffers to the sets.
LEMMA WithFoundHolds ==
    ASSUME NEW sets \in Seq(ResultSet), found \in Seq(Cell), fresh \in Nat
    PROVE  /\ CellsOf(WithFound(sets)) = CellsOf(sets) \union Elems(found)
           /\ OwnedBy(WithFound(sets)) = OwnedBy(sets) \union FoundBuffers
<1>1. CASE found = <<>>
  BY <1>1, ElemsOfEmpty DEF WithFound, FoundBuffers
<1>2. CASE found # <<>>
  <2>. DEFINE new == NewSet(found)
  <2>1. new \in ResultSet /\ BuffersOf(new) = FoundBuffers /\ Elems(new.cells) = Elems(found)
    BY <1>2 DEF NewSet, ResultSet, BuffersOf, FoundBuffers
  <2>2. WithFound(sets) = Append(sets, new)
    BY <1>2 DEF WithFound
  <2>. HIDE DEF new
  <2>3. /\ DOMAIN Append(sets, new) = DOMAIN sets \union {Len(sets) + 1}
        /\ Append(sets, new)[Len(sets) + 1] = new
        /\ \A k \in DOMAIN sets : Append(sets, new)[k] = sets[k]
    <3>1. /\ DOMAIN Append(sets, new) = 1..(Len(sets) + 1) /\ DOMAIN sets = 1..Len(sets)
          /\ Len(sets) \in Nat /\ Append(sets, new)[Len(sets) + 1] = new
          /\ \A n \in 1..Len(sets) : Append(sets, new)[n] = sets[n]
      BY <2>1
    <3>. QED
      BY <3>1
  <2>. DEFINE longer == Append(sets, new)
              last == Len(sets) + 1
  <2>4. /\ DOMAIN longer = DOMAIN sets \union {last} /\ longer[last] = new
        /\ \A k \in DOMAIN sets : longer[k] = sets[k]
    BY <2>3
  <2>. HIDE DEF longer, last
  <2>5. CellsOf(longer) = CellsOf(sets) \union Elems(new.cells)
    BY <2>4 DEF CellsOf, Elems
  <2>6. OwnedBy(longer) = OwnedBy(sets) \union BuffersOf(new)
    BY <2>4 DEF OwnedBy
  <2>. QED
    BY <2>1, <2>2, <2>5, <2>6 DEF longer
<1>. QED
  BY <1>1, <1>2

\* The elements of sets of cells are cells.
LEMMA CellsAreCells ==
    ASSUME NEW sets \in Seq(ResultSet)
    PROVE  CellsOf(sets) \subseteq Cell
<1>1. ASSUME NEW k \in DOMAIN sets, NEW n \in DOMAIN sets[k].cells
      PROVE  sets[k].cells[n] \in Cell
  <2>1. sets[k] \in ResultSet
    OBVIOUS
  <2>2. sets[k].cells \in Seq(Cell)
    BY <2>1 DEF ResultSet
  <2>. QED
    BY <2>2
<1>. QED
  BY <1>1 DEF CellsOf

-----------------------------------------------------------------------------
(* Where the call stands.                                                  *)

\* What a call notes when it starts.
LEMMA AskedIsPast ==
    ASSUME TypeOK, NEW op \in {"first", "next", "undo"}
    PROVE  Asked(op) \in [op : {"none", "first", "next", "undo"}, before : SUBSET Cell,
                          unowned : SUBSET Nat, quiet : BOOLEAN, clean : BOOLEAN]
<1>1. CellsOf(results) \subseteq Cell
  BY CellsAreCells DEF TypeOK
<1>2. heap \ OwnedBy(results) \subseteq Nat
  BY DEF TypeOK
<1>. QED
  BY <1>1, <1>2 DEF Asked

LEMMA StageHolds == ASSUME Inv, Stage, [Next]_vars PROVE Stage'
<1>. DEFINE Past == [op : {"none", "first", "next", "undo"}, before : SUBSET Cell,
                     unowned : SUBSET Nat, quiet : BOOLEAN, clean : BOOLEAN]
<1>0. TypeOK /\ past \in Past
  BY DEF Inv, Stage
<1>1. ASSUME NEW kind \in FirstKinds, NEW x \in Value, FirstScan(kind, x) PROVE Stage'
  <2>1. /\ past' = [Asked("first") EXCEPT !.clean = x \notin Rejected]
        /\ Asked("first") \in Past /\ (x \notin Rejected) \in BOOLEAN
    BY <1>0, <1>1, AskedIsPast DEF FirstScan
  <2>2. past' \in Past /\ past'.op = "first"
    <3>1. \A p \in Past, b \in BOOLEAN :
            [p EXCEPT !.clean = b] \in Past /\ [p EXCEPT !.clean = b].op = p.op
      OBVIOUS
    <3>2. Asked("first").op = "first"
      BY DEF Asked
    <3>. QED
      BY <2>1, <3>1, <3>2
  <2>3. /\ rpc = "none" /\ found' = found /\ ask'.kind = kind
        /\ (rpc' = "none" /\ todo' = {}) \/ rpc' = "first"
    BY <1>1 DEF FirstScan
  <2>4. found' = <<>>
    BY <2>3 DEF Stage
  <2>. QED
    BY <2>2, <2>3, <2>4 DEF Stage
<1>2. ASSUME NEW kind \in NextKinds, NEW x \in Value, NextScan(kind, x) PROVE Stage'
  <2>1. past' \in Past /\ past'.op = "next" /\ past'.before = CellsOf(results)
    BY <1>0, <1>2, AskedIsPast DEF NextScan, Asked
  <2>. QED
    BY <1>2, <2>1 DEF NextScan, Stage, CellsOf
<1>3. CASE UndoScan
  <2>1. past' \in Past /\ past'.op = "undo"
    BY <1>0, <1>3, AskedIsPast DEF UndoScan, Asked
  <2>. QED
    BY <1>3, <2>1 DEF UndoScan, Stage, loop
<1>4. CASE Agent
  <2>1. /\ past' \in Past /\ past'.op = past.op /\ past'.before = past.before
        /\ ask' = ask
    BY <1>0, <1>4 DEF Agent, ScanElement, ScanFault, ScanRangeDone, FirstScanReturns,
       FilterRejected, FilterElement, FilterFault, FilterSetDone, NextScanReturns
  <2>2. CASE ScanElement
    BY <2>1, <2>2 DEF Stage, ScanElement, Scanning
  <2>3. CASE ScanFault \/ ScanRangeDone
    BY <2>1, <2>3 DEF Stage, ScanFault, ScanRangeDone, Scanning, NextRange
  <2>4. CASE FirstScanReturns
    BY <2>1, <2>4 DEF Stage, FirstScanReturns, loop
  <2>5. CASE FilterRejected \/ FilterFault \/ FilterSetDone
    BY <2>1, <2>5 DEF Stage, FilterRejected, FilterFault, FilterSetDone, Filtering, NextSet,
                      CellsOf
  <2>6. CASE FilterElement
    <3>1. /\ rpc = "next" /\ rpc' = rpc /\ results' = results /\ i' = i /\ todo' = todo
          /\ i <= Len(results)
      BY <2>6 DEF FilterElement, Filtering
    <3>2. ~ (i > Len(results))
      BY <1>0, <3>1 DEF TypeOK
    <3>. QED
      BY <2>1, <3>1, <3>2 DEF Stage, CellsOf
  <2>7. CASE NextScanReturns
    BY <2>1, <2>7 DEF Stage, NextScanReturns
  <2>. QED
    BY <1>4, <2>2, <2>3, <2>4, <2>5, <2>6, <2>7 DEF Agent
<1>5. CASE GameStep
  <2>1. past' \in Past /\ past'.op = past.op /\ past'.before = past.before
    BY <1>0, <1>5 DEF GameStep
  <2>. QED
    BY <1>5, <2>1 DEF GameStep, Stage, loop, CellsOf
<1>6. CASE UNCHANGED vars
  BY <1>6 DEF Stage, vars, loop, CellsOf
<1>. QED
  BY <1>1, <1>2, <1>3, <1>4, <1>5, <1>6 DEF Next, User

-----------------------------------------------------------------------------
(* Lemmas about one step of a call.                                        *)

\* The scan's cursor is an element of the range it is in.
LEMMA CursorInRange ==
    ASSUME Inv, ScanElement
    PROVE  /\ Least(todo) \in todo /\ Least(todo) \in Range
           /\ OnElement(cursor, Least(todo))
           /\ cursor \in Elements(Least(todo)) /\ cursor \in Address
<1>1. Least(todo) \in todo /\ todo \subseteq Range
  BY LeastIsLeast, RangeAssumption DEF ScanElement, Scanning, TypeOK, Inv
<1>2. cursor \in Nat /\ OnElement(cursor, Least(todo))
  BY DEF ScanElement, LoopInv, TypeOK, Inv
<1>. QED
  BY <1>1, <1>2, InRegionIsElement DEF ScanElement

\* The filter's cursor is an element of the set it is in.
LEMMA OldIsCell ==
    ASSUME Inv, FilterElement
    PROVE  /\ i \in DOMAIN results /\ cursor \in DOMAIN results[i].cells
           /\ Old \in Cell /\ Old \in CellsOf(results)
<1>1. rpc = "next" /\ i \in 1..Len(results) /\ cursor >= 1 /\ cursor \in Nat
  BY DEF FilterElement, Filtering, LoopInv, TypeOK, Inv
<1>2. i \in DOMAIN results /\ results[i] \in ResultSet
  BY <1>1 DEF TypeOK, Inv
<1>3. results[i].cells \in Seq(Cell)
  BY <1>2 DEF ResultSet
<1>4. cursor \in DOMAIN results[i].cells
  <2>1. cursor <= Len(results[i].cells) /\ Len(results[i].cells) \in Nat
    BY <1>3 DEF FilterElement
  <2>. QED
    BY <1>1, <1>3, <2>1
<1>5. Old \in Cell
  BY <1>3, <1>4 DEF Old
<1>. QED
  BY <1>2, <1>4, <1>5 DEF CellsOf, Old

LEMMA EmptyMade == ASSUME Answer' = <<>>, found' = <<>> PROVE Made' = {}
BY ElemsOfEmpty DEF Made, CellsOf, Elems

\* At the end of a range, of a set and of a call nothing found is lost.
LEMMA MadeKept ==
    ASSUME Inv, Stage, ScanRangeDone \/ FilterSetDone \/ FirstScanReturns \/ NextScanReturns
    PROVE  Made' = Made
<1>0. TypeOK
  BY DEF Inv
<1>1. CASE ScanRangeDone
  <2>1. Answer = results /\ Answer' = WithFound(results) /\ found' = <<>>
    BY <1>1 DEF ScanRangeDone, NextRange, Scanning, Answer
  <2>2. CellsOf(WithFound(results)) = CellsOf(results) \union Elems(found)
    BY <1>0, WithFoundHolds DEF TypeOK
  <2>3. CellsOf(Answer') = CellsOf(results) \union Elems(found) /\ Elems(found') = {}
    BY <2>1, <2>2, ElemsOfEmpty
  <2>. QED
    BY <2>1, <2>3 DEF Made, CellsOf, Elems
<1>2. CASE FilterSetDone
  <2>1. Answer = kept /\ Answer' = WithFound(kept) /\ found' = <<>>
    BY <1>2 DEF FilterSetDone, NextSet, Filtering, Answer
  <2>2. CellsOf(WithFound(kept)) = CellsOf(kept) \union Elems(found)
    BY <1>0, WithFoundHolds DEF TypeOK
  <2>3. CellsOf(Answer') = CellsOf(kept) \union Elems(found) /\ Elems(found') = {}
    BY <2>1, <2>2, ElemsOfEmpty
  <2>. QED
    BY <2>1, <2>3 DEF Made, CellsOf, Elems
<1>3. CASE FirstScanReturns
  <2>1. Answer' = Answer /\ found' = found
    BY <1>3 DEF FirstScanReturns, loop, Answer
  <2>. QED
    BY <2>1 DEF Made, CellsOf, Elems
<1>4. CASE NextScanReturns
  <2>1. Answer' = Answer /\ found' = found
    BY <1>4 DEF NextScanReturns, Answer
  <2>. QED
    BY <2>1 DEF Made, CellsOf, Elems
<1>. QED
  BY <1>1, <1>2, <1>3, <1>4

-----------------------------------------------------------------------------
(* Every element a loop keeps passed its test.                             *)

\* One turn of the first loop adds the element it reads if that passes the test.
LEMMA ScanElementAdds ==
    ASSUME Inv, ScanElement
    PROVE  Made' = IF ScanMatches(ask.kind, mem[cursor], ask.value)
                     THEN Made \union {[addr |-> cursor, val |-> mem[cursor]]} ELSE Made
<1>. DEFINE e == [addr |-> cursor, val |-> mem[cursor]]
<1>1. cursor \in Address
  BY CursorInRange
<1>2. e \in Cell /\ found \in Seq(Cell)
  BY <1>1 DEF TypeOK, Inv, Cell
<1>3. Answer' = Answer
  BY DEF ScanElement, Answer
<1>4. CASE ScanMatches(ask.kind, mem[cursor], ask.value)
  <2>1. found' = Append(found, e)
    BY <1>4 DEF ScanElement
  <2>2. Elems(found') = Elems(found) \union {e}
    BY <1>2, <2>1, ElemsOfAppend
  <2>. QED
    BY <1>3, <1>4, <2>2 DEF Made, CellsOf, Elems
<1>5. CASE ~ ScanMatches(ask.kind, mem[cursor], ask.value)
  <2>1. found' = found
    BY <1>5 DEF ScanElement
  <2>. QED
    BY <1>3, <1>5, <2>1 DEF Made, CellsOf, Elems
<1>. QED
  BY <1>4, <1>5

\* The same of the second loop.
LEMMA FilterElementAdds ==
    ASSUME Inv, FilterElement
    PROVE  Made' = IF FilterMatches(ask.kind, mem[Old.addr], ask.value, Old.val)
                     THEN Made \union {[addr |-> Old.addr, val |-> mem[Old.addr]]} ELSE Made
<1>. DEFINE e == [addr |-> Old.addr, val |-> mem[Old.addr]]
<1>1. Old \in Cell
  BY OldIsCell
<1>2. e \in Cell /\ found \in Seq(Cell)
  BY <1>1 DEF TypeOK, Inv, Cell
<1>3. Answer' = Answer
  BY DEF FilterElement, Answer
<1>4. CASE FilterMatches(ask.kind, mem[Old.addr], ask.value, Old.val)
  <2>1. found' = Append(found, e)
    BY <1>4 DEF FilterElement
  <2>2. Elems(found') = Elems(found) \union {e}
    BY <1>2, <2>1, ElemsOfAppend
  <2>. QED
    BY <1>3, <1>4, <2>2 DEF Made, CellsOf, Elems
<1>5. CASE ~ FilterMatches(ask.kind, mem[Old.addr], ask.value, Old.val)
  <2>1. found' = found
    BY <1>5 DEF FilterElement
  <2>. QED
    BY <1>3, <1>5, <2>1 DEF Made, CellsOf, Elems
<1>. QED
  BY <1>4, <1>5

\* A step of a call adds to what it has made at most the element it reads.
LEMMA LoopAdds ==
    ASSUME Inv, Stage, Agent
    PROVE  /\ past'.op = past.op /\ past'.before = past.before /\ ask' = ask /\ game' = game
           /\ \/ Made' \subseteq Made
              \/ /\ ScanElement /\ ScanMatches(ask.kind, mem[cursor], ask.value)
                 /\ Made' = Made \union {[addr |-> cursor, val |-> mem[cursor]]}
              \/ /\ FilterElement
                 /\ FilterMatches(ask.kind, mem[Old.addr], ask.value, Old.val)
                 /\ Made' = Made \union {[addr |-> Old.addr, val |-> mem[Old.addr]]}
<1>1. /\ past'.op = past.op /\ past'.before = past.before /\ ask' = ask /\ game' = game
  BY DEF Agent, ScanElement, ScanFault, ScanRangeDone, FirstScanReturns, FilterRejected,
         FilterElement, FilterFault, FilterSetDone, NextScanReturns, Stage
<1>2. CASE ScanElement
  BY <1>1, <1>2, ScanElementAdds
<1>3. CASE FilterElement
  BY <1>1, <1>3, FilterElementAdds
<1>4. CASE ScanRangeDone \/ FilterSetDone \/ FirstScanReturns \/ NextScanReturns
  BY <1>1, <1>4, MadeKept
<1>5. CASE ScanFault \/ FilterRejected \/ FilterFault
  <2>1. Answer' = Answer /\ found' = <<>>
    BY <1>5 DEF ScanFault, NextRange, FilterRejected, FilterFault, NextSet, Answer
  <2>2. Elems(found') = {}
    BY <2>1, ElemsOfEmpty
  <2>3. Made' \subseteq Made
    BY <2>1, <2>2 DEF Made, CellsOf, Elems
  <2>. QED
    BY <1>1, <2>3
<1>. QED
  BY <1>2, <1>3, <1>4, <1>5 DEF Agent

LEMMA MadePassedHolds == ASSUME Inv, Stage, MadePassed, [Next]_vars PROVE MadePassed'
<1>0. TypeOK
  BY DEF Inv
<1>1. ASSUME NEW kind \in FirstKinds, NEW x \in Value, FirstScan(kind, x) PROVE MadePassed'
  <2>1. Answer' = <<>> /\ found' = <<>>
    BY <1>1 DEF FirstScan, Answer, Stage
  <2>. QED
    BY <2>1, EmptyMade DEF MadePassed
<1>2. ASSUME NEW kind \in NextKinds, NEW x \in Value, NextScan(kind, x) PROVE MadePassed'
  <2>1. Answer' = <<>> /\ found' = <<>>
    BY <1>2 DEF NextScan, Answer, Stage
  <2>. QED
    BY <2>1, EmptyMade DEF MadePassed
<1>3. CASE UndoScan
  <2>1. Answer' = <<>> /\ found' = <<>>
    BY <1>3 DEF UndoScan, Answer, Stage, loop
  <2>. QED
    BY <2>1, EmptyMade DEF MadePassed
<1>4. CASE Agent
  <2>1. /\ past'.op = past.op /\ past'.before = past.before /\ ask' = ask
    BY <1>4, LoopAdds
  <2>2. \A c : PassedTest(c) => PassedTest(c)'
    BY <2>1 DEF PassedTest, ScanMatches, FilterMatches
  <2>3. CASE Made' \subseteq Made
    BY <2>2, <2>3 DEF MadePassed
  <2>4. CASE /\ ScanElement /\ ScanMatches(ask.kind, mem[cursor], ask.value)
             /\ Made' = Made \union {[addr |-> cursor, val |-> mem[cursor]]}
    <3>. DEFINE e == [addr |-> cursor, val |-> mem[cursor]]
    <3>1. past.op = "first"
      BY <2>4 DEF ScanElement, Scanning, Stage
    <3>2. e.val = mem[cursor]
      OBVIOUS
    <3>3. PassedTest(e)
      BY <2>4, <3>1, <3>2 DEF PassedTest
    <3>. QED
      BY <2>2, <2>4, <3>3 DEF MadePassed
  <2>5. CASE /\ FilterElement
             /\ FilterMatches(ask.kind, mem[Old.addr], ask.value, Old.val)
             /\ Made' = Made \union {[addr |-> Old.addr, val |-> mem[Old.addr]]}
    <3>. DEFINE e == [addr |-> Old.addr, val |-> mem[Old.addr]]
    <3>1. past.op = "next" /\ past.before = CellsOf(results)
      BY <2>5 DEF FilterElement, Filtering, Stage
    <3>2. e.val = mem[Old.addr] /\ e.addr = Old.addr
      OBVIOUS
    <3>3. Old \in past.before
      BY <2>5, <3>1, OldIsCell
    <3>4. PassedTest(e)
      BY <2>5, <3>1, <3>2, <3>3 DEF PassedTest
    <3>. QED
      BY <2>2, <2>5, <3>4 DEF MadePassed
  <2>. QED
    BY <1>4, <2>3, <2>4, <2>5, LoopAdds
<1>5. CASE GameStep
  <2>1. /\ past'.op = past.op /\ past'.before = past.before /\ ask' = ask
        /\ Answer' = Answer /\ found' = found
    BY <1>5 DEF GameStep, loop, Answer, Stage
  <2>. QED
    BY <2>1 DEF MadePassed, Made, CellsOf, Elems, PassedTest, ScanMatches, FilterMatches
<1>6. CASE UNCHANGED vars
  <2>1. past' = past /\ ask' = ask /\ Answer' = Answer /\ found' = found
    BY <1>6 DEF vars, loop, Answer
  <2>. QED
    BY <2>1 DEF MadePassed, Made, CellsOf, Elems, PassedTest, ScanMatches, FilterMatches
<1>. QED
  BY <1>1, <1>2, <1>3, <1>4, <1>5, <1>6 DEF Next, User

-----------------------------------------------------------------------------
(* The buffers a nextScan makes and frees.                                 *)

LEMMA OwnedByAll == \A sets : OwnedBy(sets) = BuffersAt(DOMAIN sets, sets)
BY DEF OwnedBy, BuffersAt

LEMMA BuffersAtParts ==
    ASSUME NEW sets, NEW K, NEW k, k \notin K
    PROVE  /\ BuffersAt({}, sets) = {}
           /\ BuffersAt(K \union {k}, sets) = BuffersAt(K, sets) \union BuffersOf(sets[k])
BY DEF BuffersAt

LEMMA NothingLostHolds == ASSUME Inv, Stage, NothingLost, [Next]_vars PROVE NothingLost'
<1>0. TypeOK
  BY DEF Inv
<1>1. ASSUME NEW kind \in FirstKinds, NEW x \in Value, FirstScan(kind, x) PROVE NothingLost'
  <2>1. past'.op = "first"
    BY <1>1 DEF FirstScan, Asked
  <2>. QED
    BY <2>1 DEF NothingLost
<1>2. ASSUME NEW kind \in NextKinds, NEW x \in Value, NextScan(kind, x) PROVE NothingLost'
  <2>1. /\ results' = results /\ kept' = <<>> /\ heap' = heap /\ rpc' = "next" /\ i' = 1
        /\ past'.unowned = heap \ OwnedBy(results)
    BY <1>2 DEF NextScan, Asked
  <2>2. Pending' = DOMAIN results
    BY <1>0, <2>1 DEF TypeOK, Pending
  <2>3. Held' = BuffersAt(Pending', results') \union OwnedBy(kept')
    BY DEF Held, BuffersAt, OwnedBy, BuffersOf
  <2>4. Held' = OwnedBy(results)
    BY <2>1, <2>2, <2>3, OwnedByAll, ElemsOfEmpty
  <2>. QED
    BY <2>1, <2>4 DEF NothingLost
<1>3. CASE UndoScan
  BY <1>3 DEF UndoScan, NothingLost, Asked
<1>4. CASE ScanElement \/ ScanFault \/ ScanRangeDone \/ FirstScanReturns
  <2>1. past.op = "first" /\ past'.op = past.op
    BY <1>4 DEF ScanElement, ScanFault, ScanRangeDone, FirstScanReturns, Scanning, Stage
  <2>. QED
    BY <2>1 DEF NothingLost
<1>5. CASE FilterRejected \/ FilterFault
  <2>1. past'.clean = FALSE
    BY <1>5 DEF FilterRejected, FilterFault, Stage
  <2>. QED
    BY <2>1 DEF NothingLost
<1>6. CASE FilterElement
  <2>1. Held' = Held /\ heap' = heap /\ past' = past
    BY <1>6 DEF FilterElement, Held, BuffersAt, Pending, BuffersOf, OwnedBy
  <2>. QED
    BY <2>1 DEF NothingLost
<1>7. CASE FilterSetDone
  <2>1. /\ rpc = "next" /\ rpc' = rpc /\ results' = results /\ i' = i + 1 /\ past' = past
        /\ kept' = WithFound(kept)
        /\ heap' = (heap \union FoundBuffers) \ BuffersOf(results[i])
        /\ i \in 1..Len(results) /\ Len(results) \in Nat /\ i \in Nat
    BY <1>0, <1>7 DEF FilterSetDone, NextSet, Filtering, Freed, Inv, LoopInv, TypeOK
  <2>2. FoundBuffers \intersect heap = {}
    BY FoundIsNew DEF Inv, TypeOK
  <2>3. Pending = Pending' \union {i} /\ i \notin Pending'
    BY <2>1 DEF Pending
  <2>4. OwnedBy(kept') = OwnedBy(kept) \union FoundBuffers
    BY <1>0, <2>1, WithFoundHolds DEF TypeOK
  <2>5. /\ \A k \in Pending : BuffersOf(results[k]) \subseteq heap
        /\ \A k \in DOMAIN kept : BuffersOf(kept[k]) \subseteq heap
        /\ \A k, l \in Pending : k # l => Apart(results[k], results[l])
        /\ \A k \in Pending, l \in DOMAIN kept : Apart(results[k], kept[l])
    BY DEF Inv, ResultsOwnBuffers
  <2>. DEFINE rest == BuffersAt(Pending', results)
              own == BuffersOf(results[i])
              old == OwnedBy(kept)
  <2>6. Held = rest \union own \union old
    BY <2>3, BuffersAtParts DEF Held
  <2>7. Held' = rest \union old \union FoundBuffers
    <3>1. Held' = BuffersAt(Pending', results') \union OwnedBy(kept')
      BY DEF Held, BuffersAt, OwnedBy, BuffersOf
    <3>. QED
      BY <2>1, <2>4, <3>1
  <2>8. own \subseteq heap /\ own \intersect rest = {} /\ own \intersect old = {}
    BY <2>3, <2>5 DEF Apart, OwnedBy, BuffersAt
  <2>. HIDE DEF rest, own, old
  <2>9. heap' = (heap \union FoundBuffers) \ own
    BY <2>1 DEF own
  <2>10. heap' \ Held' = heap \ Held
    BY <2>2, <2>6, <2>7, <2>8, <2>9
  <2>. QED
    BY <2>1, <2>10 DEF NothingLost
<1>8. CASE NextScanReturns
  <2>1. /\ rpc = "next" /\ i > Len(results) /\ rpc' = "none" /\ results' = kept
        /\ kept' = <<>> /\ heap' = heap /\ past' = past
    BY <1>8 DEF NextScanReturns
  <2>2. Pending = {}
    BY <1>0, <2>1 DEF TypeOK, Pending
  <2>3. Pending' = DOMAIN kept
    BY <2>1 DEF Pending
  <2>4. Held = OwnedBy(kept)
    BY <2>2, BuffersAtParts DEF Held
  <2>5. Held' = OwnedBy(kept)
    <3>1. Held' = BuffersAt(Pending', results') \union OwnedBy(kept')
      BY DEF Held, BuffersAt, OwnedBy, BuffersOf
    <3>. QED
      BY <2>1, <2>3, <3>1, OwnedByAll, ElemsOfEmpty
  <2>. QED
    BY <2>1, <2>4, <2>5 DEF NothingLost
<1>9. CASE GameStep \/ UNCHANGED vars
  <2>1. Held' = Held /\ heap' = heap
    BY <1>9 DEF GameStep, vars, loop, Held, BuffersAt, Pending, BuffersOf, OwnedBy
  <2>2. /\ past'.op = past.op /\ past'.clean = past.clean /\ past'.unowned = past.unowned
    BY <1>9 DEF GameStep, vars, Stage
  <2>. QED
    BY <2>1, <2>2 DEF NothingLost
<1>. QED
  BY <1>1, <1>2, <1>3, <1>4, <1>5, <1>6, <1>7, <1>8, <1>9 DEF Next, User, Agent

-----------------------------------------------------------------------------
(* Lemmas about elements: which range they lie in, how far apart.          *)

LEMMA ElementInBounds ==
    ASSUME NEW r \in Range, NEW a \in Elements(r)
    PROVE  /\ a \in Nat /\ Base[r] <= a /\ a + Step <= Base[r] + Size[r]
           /\ OnElement(a, r)
<1>1. Base[r] \in Nat /\ Size[r] \in Nat /\ Step \in Nat
  BY RangeAssumption, ScanAssumption
<1>2. PICK k \in 0..Size[r] : (k + 1) * Step <= Size[r] /\ a = Base[r] + k * Step
  BY DEF Elements
<1>3. k \in Nat
  BY <1>1, <1>2
<1>4. (k + 1) * Step = k * Step + Step /\ k * Step \in Nat
  BY <1>1, <1>3
<1>. DEFINE m == k * Step
<1>5. m \in Nat /\ a = Base[r] + m /\ m + Step <= Size[r]
  BY <1>2, <1>4
<1>. HIDE DEF m
<1>6. a \in Nat /\ Base[r] <= a /\ a + Step <= Base[r] + Size[r]
  BY <1>1, <1>5
<1>. QED
  BY <1>2, <1>3, <1>6 DEF OnElement

\* Ranges do not overlap, so an element has one.
LEMMA RangeOfElement ==
    ASSUME NEW r \in Range, NEW a \in Elements(r)
    PROVE  RangeOf(a) = r
<1>1. ASSUME NEW s \in Range, a \in Elements(s) PROVE s = r
  <2>1. /\ a \in Nat /\ Base[r] <= a /\ a + Step <= Base[r] + Size[r]
        /\ Base[s] <= a /\ a + Step <= Base[s] + Size[s]
    BY <1>1, ElementInBounds
  <2>2. /\ r < s => Base[r] + Size[r] <= Base[s]
        /\ s < r => Base[s] + Size[s] <= Base[r]
    BY RangeAssumption
  <2>3. /\ r \in Nat /\ s \in Nat /\ Base[r] \in Nat /\ Base[s] \in Nat
        /\ Size[r] \in Nat /\ Size[s] \in Nat /\ Step \in Nat /\ Step >= 1
    BY RangeAssumption, ScanAssumption
  <2>. QED
    BY <2>1, <2>2, <2>3
<1>. QED
  BY <1>1 DEF RangeOf

LEMMA AddressHasRange ==
    ASSUME NEW a \in Address
    PROVE  RangeOf(a) \in Range /\ a \in Elements(RangeOf(a))
<1>1. PICK r \in Range : a \in Elements(r)
  BY DEF Address
<1>. QED
  BY <1>1, RangeOfElement

\* No element lies strictly inside another.
LEMMA ElementsSpaced ==
    ASSUME NEW r \in Range, NEW a \in Nat, NEW p \in Nat, OnElement(a, r), OnElement(p, r),
           p <= a, a < p + Step
    PROVE  a = p
<1>1. Base[r] \in Nat /\ Step \in Nat
  BY RangeAssumption, ScanAssumption
<1>2. PICK k \in Nat : a = Base[r] + k * Step
  BY DEF OnElement
<1>3. PICK l \in Nat : p = Base[r] + l * Step
  BY DEF OnElement
<1>4. ASSUME NEW m \in Nat, NEW n \in Nat, m < n PROVE m * Step + Step <= n * Step
  <2>1. PICK d \in Nat : n = m + 1 + d
    BY <1>4
  <2>2. n * Step = m * Step + Step + d * Step
    BY <1>1, <2>1
  <2>3. m * Step \in Nat /\ d * Step \in Nat
    BY <1>1
  <2>. QED
    BY <1>1, <2>2, <2>3
<1>5. k * Step \in Nat /\ l * Step \in Nat
  BY <1>1
<1>6. CASE k < l
  <2>1. k * Step + Step <= l * Step
    BY <1>4, <1>6
  <2>. DEFINE x == k * Step
              y == l * Step
  <2>2. x \in Nat /\ y \in Nat /\ x + Step <= y /\ a = Base[r] + x /\ p = Base[r] + y
    BY <1>2, <1>3, <1>5, <2>1
  <2>. HIDE DEF x, y
  <2>. QED
    BY <1>1, <2>2
<1>7. CASE l < k
  <2>1. l * Step + Step <= k * Step
    BY <1>4, <1>7
  <2>. DEFINE x == k * Step
              y == l * Step
  <2>2. x \in Nat /\ y \in Nat /\ y + Step <= x /\ a = Base[r] + x /\ p = Base[r] + y
    BY <1>2, <1>3, <1>5, <2>1
  <2>. HIDE DEF x, y
  <2>. QED
    BY <1>1, <2>2
<1>8. CASE k = l
  BY <1>2, <1>3, <1>8
<1>. QED
  BY <1>6, <1>7, <1>8

-----------------------------------------------------------------------------
(* A scan of a target that stands still.                                   *)

\* No element of a range lies before the first one.
LEMMA NothingBeforeStart ==
    ASSUME NEW S \in SUBSET Range, NEW a \in Address, RangeOf(a) \in S, RangeOf(a) = Least(S)
    PROVE  ~ (a < CursorAt(S))
<1>1. CursorAt(S) = Base[RangeOf(a)] /\ RangeOf(a) \in Range
  BY DEF CursorAt
<1>2. a \in Nat /\ Base[RangeOf(a)] <= a /\ Base[RangeOf(a)] \in Nat
  BY <1>1, AddressHasRange, ElementInBounds, RangeAssumption
<1>. QED
  BY <1>1, <1>2

\* One turn of the first loop goes over one element more.
LEMMA ScannedOneMore ==
    ASSUME Inv, ScanElement
    PROVE  ScannedTo' = ScannedTo \union {cursor}
<1>. DEFINE r == Least(todo)
<1>1. /\ r \in todo /\ r \in Range /\ r \in mapped /\ OnElement(cursor, r)
      /\ cursor \in Elements(r) /\ cursor \in Address /\ RangeOf(cursor) = r
  BY CursorInRange, RangeOfElement DEF ScanElement
<1>2. mapped' = mapped /\ todo' = todo /\ cursor' = cursor + Step
  BY DEF ScanElement, game
<1>3. cursor \in Nat /\ Step \in Nat /\ Step >= 1
  BY ScanAssumption DEF Inv, TypeOK
<1>4. ASSUME NEW a \in Address, RangeOf(a) = r
      PROVE  a < cursor' <=> a < cursor \/ a = cursor
  <2>1. a \in Nat /\ OnElement(a, r)
    BY <1>1, <1>4, AddressHasRange, ElementInBounds
  <2>2. cursor <= a /\ a < cursor + Step => a = cursor
    BY <1>1, <1>3, <2>1, ElementsSpaced
  <2>. QED
    BY <1>2, <1>3, <2>1, <2>2
<1>. HIDE DEF r
<1>5. ScannedTo' = {a \in Address : /\ RangeOf(a) \in mapped
                                    /\ RangeOf(a) \in todo => RangeOf(a) = r /\ a < cursor'}
  BY <1>2 DEF ScannedTo, r
<1>6. ScannedTo = {a \in Address : /\ RangeOf(a) \in mapped
                                   /\ RangeOf(a) \in todo => RangeOf(a) = r /\ a < cursor}
  BY DEF ScannedTo, r
<1>. QED
  BY <1>1, <1>4, <1>5, <1>6

\* The loop leaves a range below 2^32 with every element of it gone over.
LEMMA ScannedToTheEnd ==
    ASSUME Inv, ScanRangeDone, SmallRanges
    PROVE  ScannedTo' = ScannedTo
<1>. DEFINE r == Least(todo)
<1>1. r \in todo /\ todo \subseteq Range /\ r \in Range /\ cursor \in Nat
  BY LeastIsLeast, RangeAssumption DEF ScanRangeDone, Scanning, Inv, TypeOK
<1>2. mapped' = mapped /\ todo' = todo \ {r} /\ cursor' = CursorAt(todo')
  BY DEF ScanRangeDone, NextRange, game
<1>3. /\ Base[r] \in Nat /\ Size[r] \in Nat /\ Step \in Nat /\ UintModulus \in Nat
      /\ Size[r] < UintModulus
  BY <1>1, RangeAssumption, ScanAssumption DEF SmallRanges
<1>4. RegionEnd(r) = Base[r] + Size[r]
  BY <1>3 DEF RegionEnd
<1>5. cursor + Step > Base[r] + Size[r]
  BY <1>1, <1>3, <1>4 DEF ScanRangeDone, InRegion
<1>6. ASSUME NEW a \in Address, RangeOf(a) = r PROVE a < cursor
  <2>1. a \in Nat /\ a + Step <= Base[r] + Size[r]
    BY <1>1, <1>6, AddressHasRange, ElementInBounds
  <2>. QED
    BY <1>1, <1>3, <1>5, <2>1
<1>7. ASSUME NEW a \in Address, RangeOf(a) \in todo', RangeOf(a) = Least(todo')
      PROVE  ~ (a < cursor')
  BY <1>1, <1>2, <1>7, NothingBeforeStart
<1>. HIDE DEF r
<1>8. ScannedTo' = {a \in Address : /\ RangeOf(a) \in mapped
                                    /\ RangeOf(a) \in todo' => RangeOf(a) = Least(todo') /\ a < cursor'}
  BY <1>2 DEF ScannedTo
<1>9. ScannedTo = {a \in Address : /\ RangeOf(a) \in mapped
                                   /\ RangeOf(a) \in todo => RangeOf(a) = r /\ a < cursor}
  BY DEF ScannedTo, r
<1>. QED
  BY <1>1, <1>2, <1>6, <1>7, <1>8, <1>9

\* One turn of the second loop goes over one element more.
LEMMA FilteredOneMore ==
    ASSUME Inv, FilterElement
    PROVE  FilteredTo' = FilteredTo \union {Old}
<1>1. /\ i \in DOMAIN results /\ cursor \in DOMAIN results[i].cells
      /\ i \in Nat /\ cursor \in Nat
  BY OldIsCell DEF Inv, TypeOK
<1>2. /\ rpc = "next" /\ rpc' = rpc /\ results' = results /\ i' = i /\ cursor' = cursor + 1
  BY DEF FilterElement, Filtering
<1>3. \A k \in DOMAIN results : DOMAIN results[k].cells \subseteq Nat
  <2>1. ASSUME NEW k \in DOMAIN results PROVE DOMAIN results[k].cells \subseteq Nat
    <3>1. results[k] \in ResultSet
      BY DEF Inv, TypeOK
    <3>2. results[k].cells \in Seq(Cell)
      BY <3>1 DEF ResultSet
    <3>. QED
      BY <3>2
  <2>. QED
    BY <2>1
<1>4. ASSUME NEW k \in DOMAIN results, NEW n \in DOMAIN results[k].cells
      PROVE  Visited(k, n)' <=> Visited(k, n) \/ (k = i /\ n = cursor)
  BY <1>1, <1>2, <1>3 DEF Visited
<1>5. FilteredTo' = UNION {{results[k].cells[n] :
                       n \in {n \in DOMAIN results[k].cells : Visited(k, n)'}} :
                    k \in DOMAIN results}
  BY <1>2 DEF FilteredTo, VisitedOf, Visited
<1>6. FilteredTo = UNION {{results[k].cells[n] :
                       n \in {n \in DOMAIN results[k].cells : Visited(k, n)}} :
                    k \in DOMAIN results}
  BY <1>2 DEF FilteredTo, VisitedOf
<1>. QED
  BY <1>1, <1>4, <1>5, <1>6 DEF Old

\* The second loop leaves a set with every element of it gone over.
LEMMA FilteredToTheEnd ==
    ASSUME Inv, FilterSetDone
    PROVE  FilteredTo' = FilteredTo
<1>1. /\ rpc = "next" /\ rpc' = rpc /\ results' = results /\ i' = i + 1 /\ cursor' = 1
      /\ i \in Nat /\ cursor \in Nat /\ i \in DOMAIN results
      /\ cursor > Len(results[i].cells)
  BY DEF FilterSetDone, NextSet, Filtering, Inv, LoopInv, TypeOK
<1>2. ASSUME NEW k \in DOMAIN results, NEW n \in DOMAIN results[k].cells
      PROVE  Visited(k, n)' <=> Visited(k, n)
  <2>1. k \in Nat /\ results[k] \in ResultSet
    BY DEF Inv, TypeOK
  <2>2. results[k].cells \in Seq(Cell)
    BY <2>1 DEF ResultSet
  <2>3. n \in Nat /\ n >= 1 /\ n <= Len(results[k].cells) /\ Len(results[k].cells) \in Nat
    BY <2>2
  <2>4. k = i => n < cursor
    BY <1>1, <2>3
  <2>. QED
    BY <1>1, <2>1, <2>3, <2>4 DEF Visited
<1>3. FilteredTo' = UNION {{results[k].cells[n] :
                       n \in {n \in DOMAIN results[k].cells : Visited(k, n)'}} :
                    k \in DOMAIN results}
  BY <1>1 DEF FilteredTo, VisitedOf, Visited
<1>4. FilteredTo = UNION {{results[k].cells[n] :
                       n \in {n \in DOMAIN results[k].cells : Visited(k, n)}} :
                    k \in DOMAIN results}
  BY <1>1 DEF FilteredTo, VisitedOf
<1>. QED
  BY <1>2, <1>3, <1>4

\* After the last set it has gone over what the call started from.
LEMMA FilteredAll ==
    ASSUME Inv, Stage, NextScanReturns
    PROVE  FilteredTo = past.before /\ FilteredTo' = past'.before /\ past' = past
<1>1. /\ rpc = "next" /\ rpc' = "none" /\ past' = past /\ i \in Nat
      /\ i > Len(results) /\ results \in Seq(ResultSet)
  BY DEF NextScanReturns, Inv, TypeOK
<1>2. \A k \in DOMAIN results : k < i
  BY <1>1
<1>3. \A k \in DOMAIN results : VisitedOf(k) = {results[k].cells[n] : n \in DOMAIN results[k].cells}
  BY <1>2 DEF VisitedOf, Visited
<1>4. FilteredTo = CellsOf(results)
  BY <1>1, <1>3 DEF FilteredTo, CellsOf
<1>. QED
  BY <1>1, <1>4 DEF FilteredTo, Stage

\* The elements gone over that pass the test, after one more.
LEMMA ScannedExactGrows ==
    ASSUME ScannedTo' = ScannedTo \union {cursor}, cursor \in Address,
           mem' = mem, ask' = ask
    PROVE  ScannedExact' = IF ScanMatches(ask.kind, mem[cursor], ask.value)
             THEN ScannedExact \union {[addr |-> cursor, val |-> mem[cursor]]} ELSE ScannedExact
<1>1. ScannedExact' = {[addr |-> a, val |-> mem[a]] :
        a \in {a \in ScannedTo \union {cursor} : ScanMatches(ask.kind, mem[a], ask.value)}}
  BY DEF ScannedExact, ScanMatches
<1>2. CASE ScanMatches(ask.kind, mem[cursor], ask.value)
  <2>1. {a \in ScannedTo \union {cursor} : ScanMatches(ask.kind, mem[a], ask.value)}
          = {a \in ScannedTo : ScanMatches(ask.kind, mem[a], ask.value)} \union {cursor}
    BY <1>2
  <2>. QED
    BY <1>1, <1>2, <2>1 DEF ScannedExact
<1>3. CASE ~ ScanMatches(ask.kind, mem[cursor], ask.value)
  <2>1. {a \in ScannedTo \union {cursor} : ScanMatches(ask.kind, mem[a], ask.value)}
          = {a \in ScannedTo : ScanMatches(ask.kind, mem[a], ask.value)}
    BY <1>3
  <2>. QED
    BY <1>1, <1>3, <2>1 DEF ScannedExact
<1>. QED
  BY <1>2, <1>3

LEMMA FilteredExactGrows ==
    ASSUME NEW o, FilteredTo' = FilteredTo \union {o}, mem' = mem, ask' = ask
    PROVE  FilteredExact' = IF FilterMatches(ask.kind, mem[o.addr], ask.value, o.val)
             THEN FilteredExact \union {[addr |-> o.addr, val |-> mem[o.addr]]}
             ELSE FilteredExact
<1>1. FilteredExact' = {[addr |-> b.addr, val |-> mem[b.addr]] :
        b \in {b \in FilteredTo \union {o} :
                 FilterMatches(ask.kind, mem[b.addr], ask.value, b.val)}}
  BY DEF FilteredExact, FilterMatches
<1>2. CASE FilterMatches(ask.kind, mem[o.addr], ask.value, o.val)
  <2>1. {b \in FilteredTo \union {o} : FilterMatches(ask.kind, mem[b.addr], ask.value, b.val)}
          = {b \in FilteredTo : FilterMatches(ask.kind, mem[b.addr], ask.value, b.val)}
              \union {o}
    BY <1>2
  <2>. QED
    BY <1>1, <1>2, <2>1 DEF FilteredExact
<1>3. CASE ~ FilterMatches(ask.kind, mem[o.addr], ask.value, o.val)
  <2>1. {b \in FilteredTo \union {o} : FilterMatches(ask.kind, mem[b.addr], ask.value, b.val)}
          = {b \in FilteredTo : FilterMatches(ask.kind, mem[b.addr], ask.value, b.val)}
    BY <1>3
  <2>. QED
    BY <1>1, <1>3, <2>1 DEF FilteredExact
<1>. QED
  BY <1>2, <1>3

LEMMA ExactHolds == ASSUME Inv, Stage, ExactSoFar, [Next]_vars PROVE ExactSoFar'
<1>0. SmallRanges' <=> SmallRanges
  BY DEF SmallRanges
<1>1. ASSUME NEW kind \in FirstKinds, NEW x \in Value, FirstScan(kind, x) PROVE ExactSoFar'
  <2>1. past' = [Asked("first") EXCEPT !.clean = x \notin Rejected]
    BY <1>1 DEF FirstScan
  <2>2. past'.op = "first" /\ (past'.clean <=> x \notin Rejected)
    BY <2>1 DEF Asked
  <2>3. CASE x \in Rejected
    BY <2>2, <2>3 DEF ExactSoFar
  <2>4. CASE x \notin Rejected
    <3>1. /\ todo' = mapped /\ mapped' = mapped /\ cursor' = CursorAt(todo')
          /\ mapped \subseteq Range
      BY <1>1, <2>4 DEF FirstScan, game, Inv, TypeOK
    <3>2. Made' = {}
      <4>1. Answer' = <<>> /\ found' = <<>>
        BY <1>1 DEF FirstScan, Answer, Stage
      <4>. QED
        BY <4>1, EmptyMade
    <3>3. ScannedTo' = {}
      <4>1. ASSUME NEW a \in Address, RangeOf(a) \in todo', RangeOf(a) = Least(todo')
            PROVE  ~ (a < cursor')
        BY <3>1, <4>1, NothingBeforeStart
      <4>2. ScannedTo' = {a \in Address :
              /\ RangeOf(a) \in mapped
              /\ RangeOf(a) \in todo' => RangeOf(a) = Least(todo') /\ a < cursor'}
        BY <3>1 DEF ScannedTo
      <4>. QED
        BY <3>1, <4>1, <4>2
    <3>4. ScannedExact' = {}
      BY <3>3 DEF ScannedExact
    <3>. QED
      BY <2>2, <3>2, <3>4 DEF ExactSoFar
  <2>. QED
    BY <2>3, <2>4
<1>2. ASSUME NEW kind \in NextKinds, NEW x \in Value, NextScan(kind, x) PROVE ExactSoFar'
  <2>1. /\ past'.op = "next" /\ rpc' = "next" /\ i' = 1 /\ cursor' = 1
        /\ results' = results
    BY <1>2 DEF NextScan, Asked
  <2>2. Made' = {}
    <3>1. Answer' = <<>> /\ found' = <<>>
      BY <1>2 DEF NextScan, Answer, Stage
    <3>. QED
      BY <3>1, EmptyMade
  <2>3. ASSUME NEW k \in DOMAIN results, NEW n \in DOMAIN results[k].cells
        PROVE  ~ Visited(k, n)'
    <3>1. k \in Nat /\ k >= 1 /\ results[k] \in ResultSet
      BY DEF Inv, TypeOK
    <3>2. results[k].cells \in Seq(Cell)
      BY <3>1 DEF ResultSet
    <3>3. n \in Nat /\ n >= 1
      BY <3>2
    <3>. QED
      BY <2>1, <3>1, <3>3 DEF Visited
  <2>4. FilteredTo' = UNION {{results[k].cells[n] :
                         n \in {n \in DOMAIN results[k].cells : Visited(k, n)'}} :
                      k \in DOMAIN results}
    BY <2>1 DEF FilteredTo, VisitedOf, Visited
  <2>5. FilteredTo' = {}
    BY <2>3, <2>4
  <2>6. FilteredExact' = {}
    BY <2>5 DEF FilteredExact
  <2>. QED
    BY <2>1, <2>2, <2>6 DEF ExactSoFar
<1>3. CASE UndoScan
  <2>1. past'.op = "undo"
    BY <1>3 DEF UndoScan, Asked
  <2>. QED
    BY <2>1 DEF ExactSoFar
<1>4. CASE ScanFault \/ FilterRejected \/ FilterFault
  <2>1. past'.clean = FALSE
    BY <1>4 DEF ScanFault, FilterRejected, FilterFault, Stage
  <2>. QED
    BY <2>1 DEF ExactSoFar
<1>5. CASE ScanElement
  <2>1. /\ past.op = "first" /\ past' = past /\ ask' = ask /\ mem' = mem
    BY <1>5 DEF ScanElement, Scanning, Stage, game
  <2>2. ScannedExact' = IF ScanMatches(ask.kind, mem[cursor], ask.value)
             THEN ScannedExact \union {[addr |-> cursor, val |-> mem[cursor]]} ELSE ScannedExact
    BY <1>5, <2>1, ScannedOneMore, CursorInRange, ScannedExactGrows
  <2>. QED
    BY <1>0, <1>5, <2>1, <2>2, ScanElementAdds DEF ExactSoFar
<1>6. CASE ScanRangeDone
  <2>1. /\ past.op = "first" /\ past' = past /\ ask' = ask /\ mem' = mem /\ Made' = Made
    BY <1>6, MadeKept DEF ScanRangeDone, Scanning, Stage, game
  <2>2. SmallRanges => ScannedExact' = ScannedExact
    BY <1>6, <2>1, ScannedToTheEnd DEF ScannedExact, ScanMatches
  <2>. QED
    BY <1>0, <2>1, <2>2 DEF ExactSoFar
<1>7. CASE FirstScanReturns
  <2>1. /\ past.op = "first" /\ past' = past /\ Made' = Made
        /\ ask' = ask /\ mem' = mem /\ mapped' = mapped /\ todo' = todo /\ cursor' = cursor
    BY <1>7, MadeKept DEF FirstScanReturns, Stage, game, loop
  <2>2. ScannedTo' = ScannedTo
    BY <2>1 DEF ScannedTo
  <2>3. ScannedExact' = ScannedExact
    BY <2>1, <2>2 DEF ScannedExact, ScanMatches
  <2>. QED
    BY <1>0, <2>1, <2>3 DEF ExactSoFar
<1>8. CASE FilterElement
  <2>1. /\ past.op = "next" /\ past' = past /\ ask' = ask /\ mem' = mem
    BY <1>8 DEF FilterElement, Filtering, Stage, game
  <2>2. FilteredExact' = IF FilterMatches(ask.kind, mem[Old.addr], ask.value, Old.val)
             THEN FilteredExact \union {[addr |-> Old.addr, val |-> mem[Old.addr]]}
             ELSE FilteredExact
    BY <1>8, <2>1, FilteredOneMore, FilteredExactGrows
  <2>. QED
    BY <1>8, <2>1, <2>2, FilterElementAdds DEF ExactSoFar
<1>9. CASE FilterSetDone
  <2>1. /\ past.op = "next" /\ past' = past /\ ask' = ask /\ mem' = mem /\ Made' = Made
    BY <1>9, MadeKept DEF FilterSetDone, NextSet, Filtering, Stage, game
  <2>2. FilteredExact' = FilteredExact
    BY <1>9, <2>1, FilteredToTheEnd DEF FilteredExact, FilterMatches
  <2>. QED
    BY <2>1, <2>2 DEF ExactSoFar
<1>10. CASE NextScanReturns
  <2>1. /\ past.op = "next" /\ past' = past /\ ask' = ask /\ mem' = mem /\ Made' = Made
    BY <1>10, MadeKept DEF NextScanReturns, Stage, game
  <2>2. FilteredTo' = FilteredTo
    BY <1>10, FilteredAll
  <2>3. FilteredExact' = FilteredExact
    BY <2>1, <2>2 DEF FilteredExact, FilterMatches
  <2>. QED
    BY <2>1, <2>3 DEF ExactSoFar
<1>11. CASE GameStep
  <2>1. past'.quiet = FALSE
    BY <1>11 DEF GameStep, Stage
  <2>. QED
    BY <2>1 DEF ExactSoFar
<1>12. CASE UNCHANGED vars
  <2>1. /\ past' = past /\ ask' = ask /\ mem' = mem /\ mapped' = mapped /\ todo' = todo
        /\ cursor' = cursor /\ i' = i /\ rpc' = rpc /\ results' = results /\ kept' = kept
        /\ found' = found
    BY <1>12 DEF vars, game, loop
  <2>2. Made' = Made
    BY <2>1 DEF Made, Answer, CellsOf, Elems
  <2>3. ScannedTo' = ScannedTo /\ FilteredTo' = FilteredTo
    BY <2>1 DEF ScannedTo, FilteredTo, VisitedOf, Visited
  <2>4. ScannedExact' = ScannedExact /\ FilteredExact' = FilteredExact
    BY <2>1, <2>3 DEF ScannedExact, FilteredExact, ScanMatches, FilterMatches
  <2>. QED
    BY <1>0, <2>1, <2>2, <2>4 DEF ExactSoFar
<1>. QED
  BY <1>1, <1>2, <1>3, <1>4, <1>5, <1>6, <1>7, <1>8, <1>9, <1>10, <1>11, <1>12
  DEF Next, User, Agent

-----------------------------------------------------------------------------
(* The tests of the loops and what the scan types promise.                 *)

\* The case of scanner.c a kind of the agent reaches.  A first scan knows
\* nothing of UNCHANGED, a filter nothing of UNKNOWN.
LEMMA ScanTest ==
    ASSUME NEW kind \in 0..6, NEW v, NEW x
    PROVE  /\ ScanMatches(kind, v, x) => Promised(AgentKind[kind + 1], v, x, v)
           /\ kind # 6 /\ v \in Nat
                => (ScanMatches(kind, v, x) <=> Promised(AgentKind[kind + 1], v, x, v))
<1>1. CASE kind = 0
  BY <1>1 DEF ScanMatches, Promised, AgentKind
<1>2. CASE kind = 1
  BY <1>2 DEF ScanMatches, Promised, AgentKind
<1>3. CASE kind = 2
  BY <1>3 DEF ScanMatches, Promised, AgentKind
<1>4. CASE kind = 3
  BY <1>4 DEF ScanMatches, Promised, AgentKind
<1>5. CASE kind = 4
  BY <1>5 DEF ScanMatches, Promised, AgentKind
<1>6. CASE kind = 5
  BY <1>6 DEF ScanMatches, Promised, AgentKind
<1>7. CASE kind = 6
  BY <1>7 DEF ScanMatches, Promised, AgentKind
<1>. QED
  BY <1>1, <1>2, <1>3, <1>4, <1>5, <1>6, <1>7

LEMMA FilterTest ==
    ASSUME NEW kind \in 0..6, NEW v, NEW x, NEW w
    PROVE  /\ FilterMatches(kind, v, x, w) => Promised(AgentKind[kind + 1], v, x, w)
           /\ kind # 5
                => (FilterMatches(kind, v, x, w) <=> Promised(AgentKind[kind + 1], v, x, w))
           /\ AgentKind[kind + 1] # "UNKNOWN" => kind # 5
<1>1. CASE kind = 0
  BY <1>1 DEF FilterMatches, Promised, AgentKind
<1>2. CASE kind = 1
  BY <1>2 DEF FilterMatches, Promised, AgentKind
<1>3. CASE kind = 2
  BY <1>3 DEF FilterMatches, Promised, AgentKind
<1>4. CASE kind = 3
  BY <1>4 DEF FilterMatches, Promised, AgentKind
<1>5. CASE kind = 4
  BY <1>5 DEF FilterMatches, Promised, AgentKind
<1>6. CASE kind = 5
  BY <1>6 DEF FilterMatches, Promised, AgentKind
<1>7. CASE kind = 6
  BY <1>7 DEF FilterMatches, Promised, AgentKind
<1>. QED
  BY <1>1, <1>2, <1>3, <1>4, <1>5, <1>6, <1>7

-----------------------------------------------------------------------------
(* The theorems about what scans answer.                                   *)

AnswerInv == Inv /\ Stage /\ MadePassed /\ NothingLost /\ ExactSoFar

LEMMA InitAnswer == Init => AnswerInv
<1>. SUFFICES ASSUME Init PROVE AnswerInv
  OBVIOUS
<1>1. Inv
  BY InitInv
<1>2. past.op = "none" /\ rpc = "none" /\ found = <<>> /\ results = <<>> /\ todo = {}
  BY DEF Init
<1>3. Stage
  <2>1. past \in [op : {"none", "first", "next", "undo"}, before : SUBSET Cell,
                  unowned : SUBSET Nat, quiet : BOOLEAN, clean : BOOLEAN]
    BY DEF Init
  <2>. QED
    BY <1>2, <2>1 DEF Stage
<1>4. Made = {}
  BY <1>2, ElemsOfEmpty DEF Made, Answer
<1>. QED
  BY <1>1, <1>2, <1>3, <1>4 DEF AnswerInv, MadePassed, NothingLost, ExactSoFar

LEMMA AnswerInvariance == Spec => []AnswerInv
<1>1. AnswerInv /\ [Next]_vars => AnswerInv'
  BY StepInv, StageHolds, MadePassedHolds, NothingLostHolds, ExactHolds DEF AnswerInv
<1>. QED
  BY <1>1, InitAnswer, PTL DEF Spec

\* What the scan call left is what it made.
LEMMA CandidatesAreMade == AnswerInv /\ rpc = "none" => Candidates = Made
BY ElemsOfEmpty DEF AnswerInv, Stage, Candidates, Made, Answer

\* Whatever the target writes and unmaps while a scan runs, every value kept
\* compares as asked, a nextScan's with the value kept for its address before.
THEOREM CandidatesAsAsked == Spec => []CandidatesMatch
<1>1. ASSUME AnswerInv, rpc = "none", NEW c \in Candidates, past.op = "first"
      PROVE  Promised(Kind, c.val, ask.value, c.val)
  <2>1. PassedTest(c)
    BY <1>1, CandidatesAreMade DEF AnswerInv, MadePassed
  <2>2. ScanMatches(ask.kind, c.val, ask.value)
    BY <1>1, <2>1 DEF PassedTest
  <2>3. ask.kind \in 0..6
    BY <1>1 DEF AnswerInv, Inv, TypeOK
  <2>. QED
    BY <2>2, <2>3, ScanTest DEF Kind
<1>2. ASSUME AnswerInv, rpc = "none", NEW c \in Candidates, past.op = "next"
      PROVE  \E b \in past.before :
               b.addr = c.addr /\ Promised(Kind, c.val, ask.value, b.val)
  <2>1. PassedTest(c)
    BY <1>2, CandidatesAreMade DEF AnswerInv, MadePassed
  <2>2. PICK b \in past.before :
          b.addr = c.addr /\ FilterMatches(ask.kind, c.val, ask.value, b.val)
    BY <1>2, <2>1 DEF PassedTest
  <2>3. ask.kind \in 0..6
    BY <1>2 DEF AnswerInv, Inv, TypeOK
  <2>4. Promised(Kind, c.val, ask.value, b.val)
    BY <2>2, <2>3, FilterTest DEF Kind
  <2>. QED
    BY <2>2, <2>4
<1>3. AnswerInv => CandidatesMatch
  BY <1>1, <1>2 DEF CandidatesMatch, Answered
<1>. QED
  BY <1>3, AnswerInvariance, PTL

\* A nextScan that met no error leaves live what was live outside the sets
\* before it, and nothing else: every buffer it replaced is freed.
THEOREM NothingLeaks == Spec => []NextScanLeaksNothing
<1>1. ASSUME AnswerInv, rpc = "none" PROVE Held = OwnedBy(results)
  <2>1. kept = <<>> /\ Pending = DOMAIN results
    BY <1>1 DEF AnswerInv, Inv, LoopInv, Pending
  <2>. QED
    BY <2>1, OwnedByAll, ElemsOfEmpty DEF Held
<1>2. AnswerInv => NextScanLeaksNothing
  BY <1>1 DEF AnswerInv, NothingLost, NextScanLeaksNothing
<1>. QED
  BY <1>2, AnswerInvariance, PTL

\* main.gd:289 sends no first scan of type UNCHANGED (nor INCREASED, nor
\* DECREASED): the first loop's switch has no case for it.
NoFirstUnchanged == 6 \notin FirstKinds

\* A scan of a target that stood still, without an error, finds exactly the
\* elements asked for, however many ranges and elements there are.
THEOREM ScansAreExact == ASSUME NoFirstUnchanged PROVE Spec => []QuietScanExact
<1>1. ASSUME AnswerInv, past.quiet, past.clean, rpc = "none", past.op = "first", SmallRanges
      PROVE  Candidates = {[addr |-> a, val |-> mem[a]] :
                a \in {a \in Address : RangeOf(a) \in mapped
                                       /\ Promised(Kind, mem[a], ask.value, mem[a])}}
  <2>1. Candidates = ScannedExact
    BY <1>1, CandidatesAreMade DEF AnswerInv, ExactSoFar
  <2>2. ScannedTo = {a \in Address : RangeOf(a) \in mapped}
    BY <1>1 DEF AnswerInv, Stage, ScannedTo
  <2>3. ask.kind \in 0..6 /\ ask.kind # 6
    BY <1>1 DEF AnswerInv, Stage, Inv, TypeOK, NoFirstUnchanged
  <2>4. ASSUME NEW a \in Address
        PROVE  ScanMatches(ask.kind, mem[a], ask.value)
                 <=> Promised(Kind, mem[a], ask.value, mem[a])
    <3>1. mem[a] \in Nat
      BY <1>1, ScanAssumption DEF AnswerInv, Inv, TypeOK
    <3>. QED
      BY <2>3, <3>1, ScanTest DEF Kind
  <2>5. {a \in ScannedTo : ScanMatches(ask.kind, mem[a], ask.value)}
          = {a \in Address : RangeOf(a) \in mapped
                             /\ Promised(Kind, mem[a], ask.value, mem[a])}
    BY <2>2, <2>4
  <2>. QED
    BY <2>1, <2>5 DEF ScannedExact
<1>2. ASSUME AnswerInv, past.quiet, past.clean, rpc = "none", past.op = "next",
             Kind # "UNKNOWN"
      PROVE  Candidates = {[addr |-> b.addr, val |-> mem[b.addr]] :
                b \in {b \in past.before : Promised(Kind, mem[b.addr], ask.value, b.val)}}
  <2>1. Candidates = FilteredExact
    BY <1>2, CandidatesAreMade DEF AnswerInv, ExactSoFar
  <2>2. FilteredTo = past.before
    BY <1>2 DEF FilteredTo
  <2>3. ask.kind \in 0..6 /\ ask.kind # 5
    BY <1>2, FilterTest DEF AnswerInv, Inv, TypeOK, Kind
  <2>4. ASSUME NEW b
        PROVE  FilterMatches(ask.kind, mem[b.addr], ask.value, b.val)
                 <=> Promised(Kind, mem[b.addr], ask.value, b.val)
    BY <2>3, FilterTest DEF Kind
  <2>5. {b \in FilteredTo : FilterMatches(ask.kind, mem[b.addr], ask.value, b.val)}
          = {b \in past.before : Promised(Kind, mem[b.addr], ask.value, b.val)}
    BY <2>2, <2>4
  <2>. QED
    BY <2>1, <2>5 DEF FilteredExact
<1>3. AnswerInv => QuietScanExact
  BY <1>1, <1>2 DEF QuietScanExact, Answered, SmallRanges
<1>. QED
  BY <1>3, AnswerInvariance, PTL

=============================================================================
