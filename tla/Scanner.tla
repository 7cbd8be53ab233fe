------------------------------ MODULE Scanner ------------------------------
(***************************************************************************)
(* The memory scanner: firstScan, nextScan and undoScan of agent/scan.ts   *)
(* with the native loops they call in native/scanner.c, run on the memory  *)
(* of a target that keeps running.                                         *)
(*                                                                         *)
(* The agent's JavaScript runs one call at a time, but a native loop reads *)
(* the target's memory one element after another while the target writes,  *)
(* unmaps and maps it, so every element read is a step.  A result set is   *)
(* the record scan.ts keeps: two native buffers (addresses and the values  *)
(* read there) and what they hold.  The buffers are numbered, and a number *)
(* is never used twice, so that a buffer used after it was freed shows.    *)
(* The value scanned for is compared as a number; the size and kind of the *)
(* element (u8 .. double) is the constant Step.                            *)
(***************************************************************************)
EXTENDS Integers, Sequences, FiniteSets

CONSTANTS
    Range,          \* ids of the target's "rw-" ranges, ascending like their addresses
    Base,           \* first address of a range
    Size,           \* size of a range in bytes
    Step,           \* size of the scanned data type
    UintModulus,    \* 2^32: region_size crosses the native boundary as a "uint"
    Value,          \* values of an element, and the values a user asks for
    Rejected,       \* values asked for that writeValue throws on
    FirstKinds,     \* scan type numbers the user interface sends with first-scan
    NextKinds,      \* ... and with next-scan
    MaxCalls,       \* bound: scan calls of a behaviour
    MaxEvents       \* bound: steps of the target

ASSUME RangeAssumption ==
    /\ Range \subseteq Nat /\ IsFiniteSet(Range)
    /\ Base \in [Range -> Nat] /\ Size \in [Range -> Nat]
    /\ \A r, s \in Range : r < s => Base[r] + Size[r] <= Base[s]
    /\ \A r \in Range : Base[r] >= Step
ASSUME ScanAssumption ==
    /\ Step \in Nat \ {0} /\ UintModulus \in Nat \ {0}
    /\ Value \subseteq Nat /\ 0 \in Value
    /\ FirstKinds \subseteq 0..6 /\ NextKinds \subseteq 0..6
    /\ MaxCalls \in Nat /\ MaxEvents \in Nat

\* Addresses of a range at which an element of the data type lies.
Elements(r) == {Base[r] + k * Step : k \in {k \in 0..Size[r] : (k + 1) * Step <= Size[r]}}
Address == UNION {Elements(r) : r \in Range}
RangeOf(a) == CHOOSE r \in Range : a \in Elements(r)

VARIABLES
    mem, mapped,    \* the target: what its elements hold, the ranges it has mapped
    results,        \* currentScanResults
    heap, fresh,    \* live buffers of the native heap; the next buffer number
    rpc,            \* the scan call that runs: "none", "first" or "next"
    ask,            \* its scan type number and value
    todo,           \* firstScan: ranges left of the enumeration
    i, kept,        \* nextScan: index of the set it filters, newResults
    cursor, found,  \* the native loop: p (or its index), and the two arrays it fills
    calls, events,  \* counters of the bounds
    past            \* what the last call started from, for the properties

game == <<mem, mapped>>
loop == <<todo, i, kept, cursor, found>>
vars == <<game, results, heap, fresh, rpc, ask, loop, calls, events, past>>

Cell == [addr : Address, val : Value]
BuffersOf(s) == {s.ptr, s.valuesPtr}
CellsOf(sets) == UNION {{sets[k].cells[n] : n \in DOMAIN sets[k].cells} : k \in DOMAIN sets}
OwnedBy(sets) == UNION {BuffersOf(sets[k]) : k \in DOMAIN sets}

Least(S) == CHOOSE x \in S : \A y \in S : x <= y

Init ==
    /\ mem \in [Address -> Value]
    /\ mapped = Range
    /\ results = <<>>
    /\ heap = {} /\ fresh = 0
    /\ rpc = "none" /\ ask = [kind |-> 0, value |-> 0]
    /\ todo = {} /\ i = 1 /\ kept = <<>> /\ cursor = 0 /\ found = <<>>
    /\ calls = 0 /\ events = 0
    /\ past = [op |-> "none", before |-> {}, unowned |-> {}, quiet |-> FALSE, clean |-> FALSE]

-----------------------------------------------------------------------------
(* The tests of the two native loops.                                      *)

\* ScanType of types.ts and scanner.c.
AgentKind == <<"EXACT", "LESS_THAN", "GREATER_THAN", "INCREASED", "DECREASED",
               "UNKNOWN", "UNCHANGED">>

\* The switch of DEFINE_SCAN_HELPER: v was read, x is asked for.
ScanMatches(kind, v, x) ==
    \/ kind = 0 /\ v = x
    \/ kind = 1 /\ v < x
    \/ kind = 2 /\ v > x
    \/ kind = 5

\* Seeded fault: INCREASED also keeps what did not change.
FilterMatchesLoose(kind, v, x, w) ==
    \/ kind = 0 /\ v = x
    \/ kind = 1 /\ v < x
    \/ kind = 2 /\ v > x
    \/ kind = 3 /\ v >= w
    \/ kind = 4 /\ v < w
    \/ kind = 6 /\ v = w

\* The switch of DEFINE_FILTER_HELPER; w was read by the scan before.  It has
\* no case UNKNOWN.
FilterMatches(kind, v, x, w) ==
    \/ kind = 0 /\ v = x
    \/ kind = 1 /\ v < x
    \/ kind = 2 /\ v > x
    \/ kind = 3 /\ v > w
    \/ kind = 4 /\ v < w
    \/ kind = 6 /\ v = w

\* end_addr of the loop: the size is cut to 32 bits by the "uint" of scan.ts.
RegionEnd(r) == Base[r] + (Size[r] % UintModulus)

\* Seeded fault: the loop stops one element early.
InRegionShort(r, p) == p < RegionEnd(r) - Step

\* p <= end_addr - step.
InRegion(r, p) == p <= RegionEnd(r) - Step

-----------------------------------------------------------------------------
(* Where a native call leaves its arrays.  An array that got no element    *)
(* has no buffer: count is 0 and both pointers are null.                   *)

NewSet(cells) == [ptr |-> fresh, valuesPtr |-> fresh + 1, cells |-> cells]

\* count > 0 && !resultsPtr.isNull(): the set is pushed.
WithFound(sets) == IF found = <<>> THEN sets ELSE Append(sets, NewSet(found))

FoundBuffers == IF found = <<>> THEN {} ELSE {fresh, fresh + 1}
FreshAfter == IF found = <<>> THEN fresh ELSE fresh + 2

Asked(op) == [op |-> op, before |-> CellsOf(results),
              unowned |-> heap \ OwnedBy(results), quiet |-> TRUE, clean |-> TRUE]

-----------------------------------------------------------------------------
(* firstScan                                                               *)

CursorAt(ranges) == IF ranges = {} THEN 0 ELSE Base[Least(ranges)]

\* The old sets are forgotten, not freed.  writeValue runs outside the try:
\* when it throws, the call ends with no results.
FirstScan(kind, x) ==
    /\ rpc = "none" /\ calls < MaxCalls
    /\ calls' = calls + 1
    /\ ask' = [kind |-> kind, value |-> x]
    /\ results' = <<>>
    /\ past' = [Asked("first") EXCEPT !.clean = x \notin Rejected]
    /\ rpc' = IF x \in Rejected THEN "none" ELSE "first"
    /\ todo' = IF x \in Rejected THEN {} ELSE mapped
    /\ cursor' = CursorAt(todo')
    /\ UNCHANGED <<game, heap, fresh, i, kept, found, events>>

NextRange ==
    /\ todo' = todo \ {Least(todo)}
    /\ cursor' = CursorAt(todo')
    /\ found' = <<>>

Scanning == rpc = "first" /\ todo # {}

\* One turn of the loop of scan_helper_*.
ScanElement ==
    /\ Scanning /\ InRegion(Least(todo), cursor) /\ Least(todo) \in mapped
    /\ found' = IF ScanMatches(ask.kind, mem[cursor], ask.value)
                  THEN Append(found, [addr |-> cursor, val |-> mem[cursor]]) ELSE found
    /\ cursor' = cursor + Step
    /\ UNCHANGED <<game, results, heap, fresh, rpc, ask, todo, i, kept, calls, events, past>>

\* Seeded fault: the error ends the call's work but not the range.
ScanFaultStays ==
    /\ Scanning /\ InRegion(Least(todo), cursor) /\ Least(todo) \notin mapped
    /\ found' = <<>>
    /\ past' = [past EXCEPT !.clean = FALSE]
    /\ UNCHANGED <<game, results, heap, fresh, rpc, ask, todo, cursor, i, kept, calls, events>>

\* The range was unmapped since the enumeration: the access violation becomes
\* an exception, caught per range; what the loop had found leaks.
ScanFault ==
    /\ Scanning /\ InRegion(Least(todo), cursor) /\ Least(todo) \notin mapped
    /\ heap' = heap \union FoundBuffers
    /\ fresh' = FreshAfter
    /\ past' = [past EXCEPT !.clean = FALSE]
    /\ NextRange
    /\ UNCHANGED <<game, results, rpc, ask, i, kept, calls, events>>

ScanRangeDone ==
    /\ Scanning /\ ~InRegion(Least(todo), cursor)
    /\ results' = WithFound(results)
    /\ heap' = heap \union FoundBuffers
    /\ fresh' = FreshAfter
    /\ NextRange
    /\ UNCHANGED <<game, rpc, ask, i, kept, calls, events, past>>

FirstScanReturns ==
    /\ rpc = "first" /\ todo = {}
    /\ rpc' = "none"
    /\ UNCHANGED <<game, results, heap, fresh, ask, loop, calls, events, past>>

-----------------------------------------------------------------------------
(* nextScan and undoScan                                                   *)

\* With no results nextScan returns at once and changes nothing.
NextScan(kind, x) ==
    /\ rpc = "none" /\ calls < MaxCalls /\ results # <<>>
    /\ calls' = calls + 1
    /\ ask' = [kind |-> kind, value |-> x]
    /\ past' = Asked("next")
    /\ rpc' = "next"
    /\ i' = 1 /\ kept' = <<>> /\ cursor' = 1
    /\ UNCHANGED <<game, results, heap, fresh, todo, found, events>>

NextSet ==
    /\ i' = i + 1
    /\ cursor' = 1
    /\ found' = <<>>

Filtering == rpc = "next" /\ i <= Len(results)
Old == results[i].cells[cursor]

\* writeValue throws inside the try: the set is dropped and its buffers leak.
FilterRejected ==
    /\ Filtering /\ ask.value \in Rejected
    /\ past' = [past EXCEPT !.clean = FALSE]
    /\ NextSet
    /\ UNCHANGED <<game, results, heap, fresh, rpc, ask, todo, kept, calls, events>>

\* One turn of the loop of filter_helper_*.
FilterElement ==
    /\ Filtering /\ ask.value \notin Rejected
    /\ cursor <= Len(results[i].cells) /\ RangeOf(Old.addr) \in mapped
    /\ LET v == mem[Old.addr] IN
         found' = IF FilterMatches(ask.kind, v, ask.value, Old.val)
                    THEN Append(found, [addr |-> Old.addr, val |-> v]) ELSE found
    /\ cursor' = cursor + 1
    /\ UNCHANGED <<game, results, heap, fresh, rpc, ask, todo, i, kept, calls, events, past>>

\* A page of the set is gone: the exception leaves the old buffers unfreed,
\* and the set, with its elements of other ranges too, out of newResults.
FilterFault ==
    /\ Filtering /\ ask.value \notin Rejected
    /\ cursor <= Len(results[i].cells) /\ RangeOf(Old.addr) \notin mapped
    /\ heap' = heap \union FoundBuffers
    /\ fresh' = FreshAfter
    /\ past' = [past EXCEPT !.clean = FALSE]
    /\ NextSet
    /\ UNCHANGED <<game, results, rpc, ask, todo, kept, calls, events>>

\* Seeded fault: the values of the old set are not freed.
FreedAddressesOnly(s) == {s.ptr}

\* Seeded fault: the new values are freed in place of the old ones.
FreedNewValues(s) == {s.ptr, fresh + 1}

\* free_results(ptr), free_results(valuesPtr).
Freed(s) == BuffersOf(s)

FilterSetDone ==
    /\ Filtering /\ ask.value \notin Rejected /\ cursor > Len(results[i].cells)
    /\ kept' = WithFound(kept)
    /\ heap' = (heap \union FoundBuffers) \ Freed(results[i])
    /\ fresh' = FreshAfter
    /\ NextSet
    /\ UNCHANGED <<game, results, rpc, ask, todo, calls, events, past>>

NextScanReturns ==
    /\ rpc = "next" /\ i > Len(results)
    /\ results' = kept
    /\ kept' = <<>> /\ i' = 1 /\ cursor' = 0
    /\ rpc' = "none"
    /\ UNCHANGED <<game, heap, fresh, ask, todo, found, calls, events, past>>

UndoScan ==
    /\ rpc = "none" /\ calls < MaxCalls
    /\ calls' = calls + 1
    /\ results' = <<>>
    /\ past' = Asked("undo")
    /\ UNCHANGED <<game, heap, fresh, rpc, ask, loop, events>>

-----------------------------------------------------------------------------
(* The target, which neither knows nor waits for the agent.                *)

GameStep ==
    /\ events < MaxEvents
    /\ events' = events + 1
    /\ past' = [past EXCEPT !.quiet = FALSE]
    /\ \/ \E a \in Address, v \in Value :
            /\ v # mem[a] /\ RangeOf(a) \in mapped
            /\ mem' = [mem EXCEPT ![a] = v]
            /\ UNCHANGED mapped
       \/ \E r \in Range :
            /\ mapped' = IF r \in mapped THEN mapped \ {r} ELSE mapped \union {r}
            /\ UNCHANGED mem
    /\ UNCHANGED <<results, heap, fresh, rpc, ask, loop, calls>>

\* A valueless scan type is sent with the value 0.
Valueless == 3..6

User ==
    \/ \E kind \in FirstKinds, x \in Value :
         (kind \in Valueless => x = 0) /\ FirstScan(kind, x)
    \/ \E kind \in NextKinds, x \in Value :
         (kind \in Valueless => x = 0) /\ NextScan(kind, x)
    \/ UndoScan

Agent ==
    \/ ScanElement \/ ScanFault \/ ScanRangeDone \/ FirstScanReturns
    \/ FilterRejected \/ FilterElement \/ FilterFault \/ FilterSetDone
    \/ NextScanReturns

Next == User \/ Agent \/ GameStep

Spec == Init /\ [][Next]_vars

\* A call that runs has the JavaScript thread and a processor.
FairSpec == Spec /\ WF_vars(Agent)

-----------------------------------------------------------------------------
(* Properties.                                                             *)

ResultSet == [ptr : Nat, valuesPtr : Nat, cells : Seq(Cell) \ {<<>>}]

\* Types of the scanner's state; a set scan.ts keeps is never empty, so a
\* filter never runs on a null pointer.
TypeOK ==
    /\ mem \in [Address -> Value] /\ mapped \subseteq Range
    /\ results \in Seq(ResultSet) /\ kept \in Seq(ResultSet)
    /\ heap \subseteq Nat /\ fresh \in Nat
    /\ rpc \in {"none", "first", "next"}
    /\ ask \in [kind : 0..6, value : Value]
    /\ todo \subseteq Range /\ i \in Nat /\ cursor \in Nat
    /\ found \in Seq(Cell)
    /\ calls \in 0..MaxCalls /\ events \in 0..MaxEvents

\* The sets whose buffers will still be read or freed: those nextScan has not
\* filtered yet (free_results runs set by set while currentScanResults still
\* lists them all).
Pending == IF rpc = "next" THEN i..Len(results) ELSE DOMAIN results

Apart(s, t) == BuffersOf(s) \intersect BuffersOf(t) = {}

\* Every buffer a later read or free_results will touch is live and belongs to
\* one set: whatever errors cut filters short, nextScan neither reads a freed
\* buffer nor frees one twice.
ResultsOwnBuffers ==
    /\ \A k \in Pending : BuffersOf(results[k]) \subseteq heap
    /\ \A k \in DOMAIN kept : BuffersOf(kept[k]) \subseteq heap
    /\ \A k, l \in Pending : k # l => Apart(results[k], results[l])
    /\ \A k, l \in DOMAIN kept : k # l => Apart(kept[k], kept[l])
    /\ \A k \in Pending, l \in DOMAIN kept : Apart(results[k], kept[l])

\* A nextScan that met no error leaves no buffer behind: all it replaced are
\* freed, all it made are in the new results.
NextScanLeaksNothing ==
    rpc = "none" /\ past.op = "next" /\ past.clean
        => heap \ OwnedBy(results) = past.unowned

\* What a scan type promises of an element that held w at the scan before and
\* v at this one, with x asked for.
Promised(name, v, x, w) ==
    CASE name = "EXACT" -> v = x
      [] name = "LESS_THAN" -> v < x
      [] name = "GREATER_THAN" -> v > x
      [] name = "INCREASED" -> v > w
      [] name = "DECREASED" -> v < w
      [] name = "UNCHANGED" -> v = w
      [] name = "UNKNOWN" -> TRUE

Answered(op) == rpc = "none" /\ past.op = op
Candidates == CellsOf(results)
Kind == AgentKind[ask.kind + 1]

\* However the target writes and unmaps while the loops run, a nextScan only
\* narrows, and every value it keeps compares as asked with the value kept for
\* the same address before.
CandidatesMatch ==
    /\ Answered("first") => \A c \in Candidates : Promised(Kind, c.val, ask.value, c.val)
    /\ Answered("next") =>
         \A c \in Candidates : \E b \in past.before :
             b.addr = c.addr /\ Promised(Kind, c.val, ask.value, b.val)

\* When the target stood still and nothing threw, a scan finds exactly what it
\* is asked for: no element of a mapped range is skipped, none is invented.
\* (Ranges below 4 GiB, and a first scan or a filter its switch knows.)
QuietScanExact ==
    past.quiet /\ past.clean =>
      /\ Answered("first") /\ (\A r \in Range : Size[r] < UintModulus) =>
           Candidates = {[addr |-> a, val |-> mem[a]] :
              a \in {a \in Address : RangeOf(a) \in mapped
                                     /\ Promised(Kind, mem[a], ask.value, mem[a])}}
      /\ Answered("next") /\ Kind # "UNKNOWN" =>
           Candidates = {[addr |-> b.addr, val |-> mem[b.addr]] :
              b \in {b \in past.before : Promised(Kind, mem[b.addr], ask.value, b.val)}}

\* A scan call ends, however often ranges vanish under it.
ScanReturns == (rpc # "none") ~> (rpc = "none")

-----------------------------------------------------------------------------
(* What the project says of its scans, and the code does not do.           *)

\* ScanType of hub.py, the numbers the user interface sends.
HubKind == <<"EXACT", "GREATER_THAN", "LESS_THAN", "INCREASED", "DECREASED",
             "UNKNOWN", "UNCHANGED">>

\* A first scan lists values that compare as the hub's scan type says.
HubKindsHeld ==
    Answered("first") => \A c \in Candidates :
        Promised(HubKind[ask.kind + 1], c.val, ask.value, c.val)

=============================================================================
