------------------------- MODULE NativeBytesProofs -------------------------
(***************************************************************************)
(* What holds of the bytes for every memory, number of values of a byte,   *)
(* table size, set of orders and set of types: every buffer keeps its      *)
(* bytes; a result's previous value is what the last scan read; each order *)
(* in force has one entry with the width and the bytes last given; a sweep *)
(* changes no byte outside the elements of the orders in force, and leaves *)
(* the frozen ones at a value somebody froze; a scan for a frozen value    *)
(* finds it; and the C state fits in what memory.ts allocates.             *)
(***************************************************************************)
EXTENDS NativeBytes, TLAPS, WellFoundedInduction, NaturalsInduction

(* e is a FreezeEntry, whatever its fields hold. *)
IsEntry(e) ==
  e = [address |-> e.address, value |-> e.value, size |-> e.size, mode |-> e.mode,
       dataType |-> e.dataType, lastWritten |-> e.lastWritten]

(* Entry e carries out order o. *)
CarriesOut(e, o) ==
  /\ e.mode = o.mode
  /\ e.dataType = o.dataType
  /\ e.size = DataTypeByteSize(o.dataType)
  /\ \A k \in 0..(ScanSizeBytes(o.dataType) - 1) : e.value[k] = ByteOf(o.value, k)

TableTyped ==
  /\ entries = [i \in Slot |-> entries[i]]
  /\ \A i \in Slot : IsEntry(entries[i])
  /\ entryCount \in 0..MaxEntries
  /\ idx \in -1..entryCount
  /\ asked \in [Address -> Orders \cup {NoOrder}]

(* An order in force is filed under its own address, and a live entry      *)
(* belongs to one.                                                         *)
OrdersFiled ==
  /\ \A a \in Address : asked[a] # NoOrder => asked[a].address = a
  /\ \A i \in Live : entries[i].address \in Address

TableInv == TableTyped /\ OrdersFiled /\ OrderAsGiven

-----------------------------------------------------------------------------

(* The C variables of freezer.c, and what scanner.c reads and writes       *)
(* through the pointers it is given, fit in what memory.ts and scan.ts     *)
(* allocate for them, whatever the number of entries and the data type:    *)
(* FREEZE_ENTRY_SIZE, 48, is not sizeof FreezeEntry, 40, but on the safe   *)
(* side of it.                                                             *)
THEOREM LayoutFits ==
  /\ \A variable \in DOMAIN Needed : Needed[variable] <= Allocated[variable]
  /\ \A t \in U8..String : \A pointer \in DOMAIN ScanNeeded(t) :
       ScanNeeded(t)[pointer] <= ScanAllocated[pointer]
<1>1. MaxEntries \in Nat
  BY MemoryAssumption
<1>2. SizeOfEntry = 40 /\ SizeOfMutex = 8
  BY DEF SizeOfEntry, SizeOfMutex, SizeOf
<1>3. MaxEntries * 40 <= 48 * MaxEntries
  BY <1>1
<1>4. /\ Needed.entries <= Allocated.entries
      /\ Needed.entry_count <= Allocated.entry_count
      /\ Needed.running <= Allocated.running
      /\ Needed.freeze_thread <= Allocated.freeze_thread
      /\ Needed.freeze_mutex <= Allocated.freeze_mutex
  BY <1>2, <1>3 DEF Needed, Allocated, SizeOf
<1>5. DOMAIN Needed = {"entries", "entry_count", "running", "freeze_thread", "freeze_mutex"}
  BY DEF Needed
<1>6. ASSUME NEW t \in U8..String
      PROVE  \A pointer \in DOMAIN ScanNeeded(t) :
               ScanNeeded(t)[pointer] <= ScanAllocated[pointer]
  <2>1. ScanSizeBytes(t) \in 0..8
    BY DEF ScanSizeBytes, ScanSize, ElementSize, SizeOf, U8, DOUBLE, String
  <2>2. DOMAIN ScanNeeded(t) = {"out_count", "out_values_ptr", "value_ptr"}
    BY DEF ScanNeeded
  <2> QED
    BY <2>1, <2>2 DEF ScanNeeded, ScanAllocated, SizeOf
<1> QED
  BY <1>4, <1>5, <1>6

(* The widths of the two languages: no element is scanned or scaled at     *)
(* more bytes than its freeze copies, and those fit the eight bytes of     *)
(* FreezeEntry's value, so freeze_add's test of the size never fails.      *)
LEMMA Widths ==
  ASSUME NEW t \in U8..String
  PROVE  /\ DataTypeByteSize(t) \in 1..8
         /\ ScanSizeBytes(t) \in 0..DataTypeByteSize(t)
<1>1. t \in {0, 1, 2, 3, 4, 5, 6}
  BY DEF U8, String
<1>2. DataTypeByteSize(t) \in {1, 2, 4, 8}
  BY <1>1 DEF DataTypeByteSize
<1>3. CASE t = 6
  BY <1>3, <1>2 DEF ScanSizeBytes, ScanSize, U8, DOUBLE
<1>4. CASE t \in 0..5
  <2>1. ScanSizeBytes(t) = DataTypeByteSize(t)
    BY <1>4 DEF ScanSizeBytes, ScanSize, ElementSize, SizeOf, DataTypeByteSize, U8, DOUBLE
  <2> QED
    BY <2>1, <1>2
<1> QED
  BY <1>1, <1>3, <1>4

(* The entry freeze_add writes carries its order out. *)
LEMMA EntryOfCarriesOut ==
  ASSUME NEW o \in Orders, NEW old
  PROVE  /\ CarriesOut(EntryOf(old, o), o)
         /\ EntryOf(old, o).address = o.address
         /\ IsEntry(EntryOf(old, o))
<1>1. o.dataType \in U8..String
  <2>1. o.dataType \in Types
    BY OrdersAssumption
  <2>2. Types \subseteq U8..String
    BY MemoryAssumption DEF U8, U16, U32, U64, String
  <2> QED
    BY <2>1, <2>2
<1>2. /\ DataTypeByteSize(o.dataType) \in 1..8
      /\ ScanSizeBytes(o.dataType) \in 0..DataTypeByteSize(o.dataType)
  BY <1>1, Widths
<1>3. ASSUME NEW k \in 0..(ScanSizeBytes(o.dataType) - 1)
      PROVE  EntryOf(old, o).value[k] = ByteOf(o.value, k)
  <2>1. k \in 0..7 /\ k < ScanSizeBytes(o.dataType) /\ k < DataTypeByteSize(o.dataType)
    BY <1>2
  <2>2. BufferWith(o)[k] = ByteOf(o.value, k)
    BY <2>1 DEF BufferWith, Copied
  <2>3. EntryOf(old, o).value[k] = BufferWith(o)[k]
    BY <2>1 DEF EntryOf, Copied
  <2> QED
    BY <2>2, <2>3
<1> QED
  BY <1>3 DEF CarriesOut, EntryOf, IsEntry

(* OrderAsGiven in terms of CarriesOut. *)
LEMMA OrderAsGivenUnfolded ==
  OrderAsGiven <=>
    /\ \A i, j \in Live : entries[i].address = entries[j].address => i = j
    /\ \A a \in Address : asked[a] = NoOrder => SlotsOf(a) = {}
    /\ \A a \in Address : asked[a] # NoOrder =>
         \E i \in SlotsOf(a) : CarriesOut(entries[i], asked[a])
  BY DEF OrderAsGiven, CarriesOut

(* Steps that leave the table alone. *)
LEMMA TableKept ==
  ASSUME TableInv, UNCHANGED <<entries, entryCount, asked>>, idx' \in -1..entryCount
  PROVE  TableInv'
<1>1. UNCHANGED <<entries, entryCount, asked>>
  OBVIOUS
<1>2. Live' = Live /\ \A a \in Address : SlotsOf(a)' = SlotsOf(a)
  BY <1>1 DEF Live, SlotsOf
<1>3. TableTyped'
  BY <1>1 DEF TableInv, TableTyped
<1>4. OrdersFiled'
  BY <1>1, <1>2 DEF TableInv, OrdersFiled
<1>5. OrderAsGiven'
  BY <1>1, <1>2 DEF TableInv, OrderAsGiven
<1> QED
  BY <1>3, <1>4, <1>5 DEF TableInv

(* NoOrder is no order anybody adds. *)
LEMMA NoOrderIsNone == NoOrder \notin Orders
<1>1. NoOrder.mode = 2
  BY DEF NoOrder
<1>2. \A o \in Orders : o.mode \in {0, 1}
  BY OrdersAssumption DEF MODE_FREEZE, MODE_SCALE
<1> QED
  BY <1>1, <1>2

LEMMA OrderAddress ==
  ASSUME NEW o \in Orders
  PROVE  o.address \in Address
  BY OrdersAssumption

(* Every live entry carries out the order in force at its address. *)
LEMMA LiveCarriesOut ==
  ASSUME TableInv, NEW i \in Live
  PROVE  /\ entries[i].address \in Address
         /\ asked[entries[i].address] \in Orders
         /\ asked[entries[i].address].address = entries[i].address
         /\ CarriesOut(entries[i], asked[entries[i].address])
<1> DEFINE a == entries[i].address
<1>1. a \in Address /\ i \in SlotsOf(a)
  BY DEF TableInv, OrdersFiled, SlotsOf
<1>2. asked[a] # NoOrder
  BY <1>1, OrderAsGivenUnfolded DEF TableInv
<1>3. PICK j \in SlotsOf(a) : CarriesOut(entries[j], asked[a])
  BY <1>1, <1>2, OrderAsGivenUnfolded DEF TableInv
<1>4. j = i
  BY <1>1, <1>3, OrderAsGivenUnfolded DEF TableInv, SlotsOf
<1>5. asked[a] \in Orders /\ asked[a].address = a
  BY <1>1, <1>2 DEF TableInv, TableTyped, OrdersFiled
<1> QED
  BY <1>1, <1>3, <1>4, <1>5

(* A new table in which every order in force has its entry, told by the    *)
(* entries: each is filed, carries its order out, and no address is twice. *)
LEMMA TableFrom ==
  ASSUME TableTyped',
         \A i \in Live' : /\ entries'[i].address \in Address
                          /\ asked'[entries'[i].address] # NoOrder
                          /\ CarriesOut(entries'[i], asked'[entries'[i].address]),
         \A i, j \in Live' : entries'[i].address = entries'[j].address => i = j,
         \A a \in Address : asked'[a] # NoOrder =>
           asked'[a].address = a /\ \E i \in Live' : entries'[i].address = a
  PROVE  TableInv'
<1>1. OrdersFiled'
  BY DEF OrdersFiled
<1>2. \A a \in Address : asked'[a] = NoOrder => SlotsOf(a)' = {}
  BY DEF SlotsOf
<1>3. ASSUME NEW a \in Address, asked'[a] # NoOrder
      PROVE  \E i \in SlotsOf(a)' : CarriesOut(entries'[i], asked'[a])
  BY <1>3 DEF SlotsOf
<1>4. OrderAsGiven'
  BY <1>2, <1>3 DEF OrderAsGiven, CarriesOut
<1> QED
  BY <1>1, <1>4 DEF TableInv

LEMMA AddFreezeKeeps ==
  ASSUME TableInv, NEW o \in Orders, AddFreeze(o)
  PROVE  TableInv'
<1> DEFINE a == o.address
<1>1. a \in Address /\ o # NoOrder
  BY OrderAddress, NoOrderIsNone
<1>2. idx' = -1 /\ TableTyped
  BY DEF AddFreeze, TableInv
<1>3. MaxEntries \in Nat \ {0}
  BY MemoryAssumption
<1>4. ASSUME NEW n \in Slot,
             \/ n \in SlotsOf(a) /\ entryCount' = entryCount
             \/ SlotsOf(a) = {} /\ n = entryCount /\ entryCount' = entryCount + 1,
             entryCount' \in 0..MaxEntries,
             entries' = [entries EXCEPT ![n] = EntryOf(@, o)],
             asked' = [asked EXCEPT ![a] = o]
      PROVE  TableInv'
  <2>1. entries' = [i \in Slot |-> IF i = n THEN EntryOf(entries[n], o) ELSE entries[i]]
    BY <1>2, <1>4 DEF TableTyped
  <2>2. \A b \in Address : asked'[b] = IF b = a THEN o ELSE asked[b]
    BY <1>1, <1>2, <1>4 DEF TableTyped
  <2>3. /\ CarriesOut(entries'[n], o) /\ entries'[n].address = a /\ IsEntry(entries'[n])
        /\ \A i \in Slot \ {n} : entries'[i] = entries[i]
    BY <2>1, EntryOfCarriesOut
  <2>4. TableTyped'
    <3>1. \A i \in Slot : IsEntry(entries'[i])
      BY <2>3, <1>2 DEF TableTyped
    <3>2. idx' \in -1..entryCount'
      BY <1>2, <1>4
    <3>3. asked' \in [Address -> Orders \cup {NoOrder}]
      BY <1>2, <1>4 DEF TableTyped
    <3> QED
      BY <3>1, <3>2, <3>3, <2>1, <1>4 DEF TableTyped
  <2>5. Live' = Live \cup {n}
    <3>1. entryCount \in Nat
      BY <1>2, <1>3 DEF TableTyped
    <3> QED
      BY <1>4, <1>3, <3>1 DEF Live, SlotsOf, Slot
  <2>6. \A i \in Live : i # n => entries[i].address # a
    <3>1. CASE n \in SlotsOf(a)
      BY <3>1, OrderAsGivenUnfolded DEF TableInv, SlotsOf
    <3>2. CASE SlotsOf(a) = {}
      BY <3>2 DEF SlotsOf
    <3> QED
      BY <3>1, <3>2, <1>4
  <2>7. \A i \in Live \ {n} : /\ i \in Slot /\ entries'[i] = entries[i]
                            /\ entries[i].address # a
    BY <2>3, <2>6 DEF Live
  <2>8. ASSUME NEW i \in Live'
        PROVE  /\ entries'[i].address \in Address
               /\ asked'[entries'[i].address] # NoOrder
               /\ CarriesOut(entries'[i], asked'[entries'[i].address])
    <3>1. CASE i = n
      BY <3>1, <2>2, <2>3, <1>1
    <3>2. CASE i # n
      <4>1. i \in Live
        BY <3>2, <2>5, <2>8
      <4>2. entries'[i] = entries[i] /\ asked'[entries[i].address] = asked[entries[i].address]
        BY <4>1, <3>2, <2>7, <2>2, LiveCarriesOut
      <4> QED
        BY <4>1, <4>2, LiveCarriesOut, NoOrderIsNone
    <3> QED
      BY <3>1, <3>2
  <2>9. \A i, j \in Live' : entries'[i].address = entries'[j].address => i = j
    <3>1. \A i, j \in Live : entries[i].address = entries[j].address => i = j
      BY OrderAsGivenUnfolded DEF TableInv
    <3> QED
      BY <3>1, <2>3, <2>5, <2>7
  <2>10. ASSUME NEW b \in Address, asked'[b] # NoOrder
         PROVE  asked'[b].address = b /\ \E i \in Live' : entries'[i].address = b
    <3>1. CASE b = a
      BY <3>1, <2>2, <2>3, <2>5
    <3>2. CASE b # a
      <4>1. asked'[b] = asked[b] /\ asked[b].address = b
        BY <3>2, <2>2, <2>10 DEF TableInv, OrdersFiled
      <4>2. PICK i \in SlotsOf(b) : CarriesOut(entries[i], asked[b])
        BY <4>1, <2>10, OrderAsGivenUnfolded DEF TableInv
      <4>3. i \in Live /\ entries[i].address = b
        BY DEF SlotsOf
      <4>4. i # n
        <5>1. CASE n \in SlotsOf(a)
          BY <5>1, <4>3, <3>2 DEF SlotsOf
        <5>2. CASE n = entryCount
          <6>1. i < entryCount /\ entryCount \in Nat /\ i \in Slot
            BY <4>3, <1>2, <1>3 DEF Live, TableTyped
          <6> QED
            BY <6>1, <5>2
        <5> QED
          BY <5>1, <5>2, <1>4
      <4>5. i \in Live' /\ entries'[i].address = b
        BY <4>3, <4>4, <2>5, <2>7
      <4> QED
        BY <4>1, <4>5
    <3> QED
      BY <3>1, <3>2
  <2> QED
    BY <2>4, <2>8, <2>9, <2>10, TableFrom
<1>5. entryCount \in 0..MaxEntries /\ Live \subseteq Slot
  BY <1>2 DEF TableTyped, Live
<1>6. CASE SlotsOf(a) # {}
  <2>1. PICK n \in SlotsOf(a) : /\ entries' = [entries EXCEPT ![n] = EntryOf(@, o)]
                               /\ UNCHANGED entryCount
                               /\ asked' = [asked EXCEPT ![a] = o]
    BY <1>6 DEF AddFreeze
  <2>2. n \in Slot
    BY <1>5 DEF SlotsOf
  <2>3. n \in SlotsOf(a) /\ entryCount' = entryCount /\ entryCount' \in 0..MaxEntries
    BY <2>1, <1>5
  <2>4. entries' = [entries EXCEPT ![n] = EntryOf(@, o)] /\ asked' = [asked EXCEPT ![a] = o]
    BY <2>1
  <2> HIDE DEF a
  <2> QED
    BY <2>2, <2>3, <2>4, <1>4
<1>7. CASE SlotsOf(a) = {} /\ entryCount < MaxEntries
  <2>1. /\ entries' = [entries EXCEPT ![entryCount] = EntryOf(@, o)]
        /\ entryCount' = entryCount + 1
        /\ asked' = [asked EXCEPT ![a] = o]
    BY <1>7, <1>5, <1>3 DEF AddFreeze
  <2>2. entryCount \in Slot /\ entryCount' \in 0..MaxEntries
    BY <2>1, <1>7, <1>5, <1>3 DEF Slot
  <2>3. PICK n \in Slot : n = entryCount
    BY <2>2
  <2>4. SlotsOf(a) = {} /\ n = entryCount /\ entryCount' = entryCount + 1
    BY <1>7, <2>1, <2>3
  <2>5. entries' = [entries EXCEPT ![n] = EntryOf(@, o)] /\ asked' = [asked EXCEPT ![a] = o]
    BY <2>1, <2>3
  <2> HIDE DEF a
  <2> QED
    BY <2>2, <2>4, <2>5, <1>4
<1>8. CASE SlotsOf(a) = {} /\ entryCount >= MaxEntries
  <2>1. UNCHANGED <<entries, entryCount, asked>>
    BY <1>8, <1>5, <1>3 DEF AddFreeze
  <2>2. idx' \in -1..entryCount
    BY <1>2, <1>5
  <2> QED
    BY <2>1, <2>2, TableKept
<1> QED
  BY <1>6, <1>7, <1>8, <1>5, <1>3

LEMMA RemoveFreezeKeeps ==
  ASSUME TableInv, NEW a \in Address, RemoveFreeze(a)
  PROVE  TableInv'
<1> DEFINE last == entryCount - 1
<1>1. TableTyped /\ idx' = -1
  BY DEF TableInv, RemoveFreeze
<1>2. MaxEntries \in Nat \ {0} /\ entryCount \in 0..MaxEntries
  BY <1>1, MemoryAssumption DEF TableTyped
<1>3. PICK n \in SlotsOf(a) : entries' = [entries EXCEPT ![n] = entries[entryCount - 1]]
  BY DEF RemoveFreeze
<1>4. entryCount' = last /\ asked' = [asked EXCEPT ![a] = NoOrder]
  BY DEF RemoveFreeze
<1>5. /\ n \in Live /\ n \in Slot /\ entries[n].address = a
      /\ last \in Slot /\ last \in Live /\ n <= last
  BY <1>2 DEF SlotsOf, Live, Slot
<1> DEFINE from(i) == IF i = n THEN last ELSE i
<1>6. \A i \in Slot : entries'[i] = entries[from(i)]
  BY <1>1, <1>3, <1>5 DEF TableTyped
<1>7. Live' = Live \ {last}
  BY <1>2, <1>4 DEF Live, Slot
<1>8. \A i \in Live' : i \in Slot /\ from(i) \in Live /\ from(i) # n
  BY <1>5, <1>7 DEF Live
<1>9. \A i, j \in Live' : from(i) = from(j) => i = j
  BY <1>7
<1>10. \A i, j \in Live : entries[i].address = entries[j].address => i = j
  BY OrderAsGivenUnfolded DEF TableInv
<1>11. \A b \in Address : asked'[b] = IF b = a THEN NoOrder ELSE asked[b]
  BY <1>1, <1>4 DEF TableTyped
<1> HIDE DEF from
<1>12. TableTyped'
  <2>1. entries' = [i \in Slot |-> entries'[i]]
    BY <1>1, <1>3, <1>5 DEF TableTyped
  <2>2. \A i \in Slot : IsEntry(entries'[i])
    <3>1. \A i \in Slot : from(i) \in Slot
      BY <1>5 DEF from
    <3> QED
      BY <3>1, <1>1, <1>6 DEF TableTyped
  <2>3. entryCount' \in 0..MaxEntries /\ idx' \in -1..entryCount'
    BY <1>1, <1>2, <1>4, <1>5 DEF Slot
  <2>4. asked' \in [Address -> Orders \cup {NoOrder}]
    BY <1>1, <1>4 DEF TableTyped
  <2> QED
    BY <2>1, <2>2, <2>3, <2>4 DEF TableTyped
<1>13. ASSUME NEW i \in Live'
       PROVE  /\ entries'[i].address \in Address
              /\ entries'[i].address # a
              /\ asked'[entries'[i].address] # NoOrder
              /\ CarriesOut(entries'[i], asked'[entries'[i].address])
  <2>1. from(i) \in Live /\ from(i) # n /\ entries'[i] = entries[from(i)]
    BY <1>6, <1>8
  <2>2. entries[from(i)].address # a
    BY <2>1, <1>5, <1>10
  <2>3. /\ entries[from(i)].address \in Address
        /\ asked[entries[from(i)].address] \in Orders
        /\ CarriesOut(entries[from(i)], asked[entries[from(i)].address])
    BY <2>1, LiveCarriesOut
  <2> QED
    BY <2>1, <2>2, <2>3, <1>11, NoOrderIsNone
<1>14. \A i, j \in Live' : entries'[i].address = entries'[j].address => i = j
  BY <1>6, <1>8, <1>9, <1>10
<1>15. ASSUME NEW b \in Address, asked'[b] # NoOrder
       PROVE  asked'[b].address = b /\ \E i \in Live' : entries'[i].address = b
  <2>1. b # a /\ asked'[b] = asked[b] /\ asked[b].address = b
    BY <1>11, <1>15 DEF TableInv, OrdersFiled
  <2>2. PICK s \in SlotsOf(b) : CarriesOut(entries[s], asked[b])
    BY <2>1, <1>15, OrderAsGivenUnfolded DEF TableInv
  <2>3. s \in Live /\ s \in Slot /\ entries[s].address = b /\ s # n
    BY <2>1, <1>5 DEF SlotsOf, Live
  <2>4. CASE s = last
    <3>1. n \in Live' /\ entries'[n] = entries[last]
      BY <2>3, <2>4, <1>5, <1>6, <1>7 DEF from
    <3> QED
      BY <3>1, <2>1, <2>3, <2>4
  <2>5. CASE s # last
    <3>1. s \in Live' /\ entries'[s] = entries[s]
      BY <2>3, <2>5, <1>6, <1>7 DEF from
    <3> QED
      BY <3>1, <2>1, <2>3
  <2> QED
    BY <2>4, <2>5
<1> QED
  BY <1>12, <1>13, <1>14, <1>15, TableFrom

LEMMA ClearKeeps ==
  ASSUME TableInv, ClearFreezeList
  PROVE  TableInv'
<1>1. /\ TableTyped /\ idx' = -1 /\ entryCount' = 0 /\ entries' = entries
      /\ asked' = [a \in Address |-> NoOrder]
  BY DEF TableInv, ClearFreezeList
<1>2. Live' = {}
  BY <1>1 DEF Live, Slot
<1>3. \A a \in Address : asked'[a] = NoOrder
  BY <1>1
<1>4. TableTyped'
  BY <1>1, MemoryAssumption DEF TableTyped
<1> QED
  BY <1>2, <1>3, <1>4, TableFrom

(* A scale order's step changes nothing of its entry but last_written. *)
LEMMA SweepScaleKeeps ==
  ASSUME TableInv, SweepScale
  PROVE  TableInv'
<1>1. /\ TableTyped /\ idx \in Live /\ idx' = idx + 1
      /\ UNCHANGED <<entryCount, asked>>
  BY DEF TableInv, SweepScale, Sweeping, tableVars
<1>2. entryCount \in Nat /\ idx' \in -1..entryCount
  BY <1>1, MemoryAssumption DEF TableTyped, Live, Slot
<1>3. entries' = entries \/
      \E bytes : entries' = [entries EXCEPT ![idx].lastWritten = bytes]
  BY DEF SweepScale
<1>4. CASE entries' = entries
  BY <1>1, <1>2, <1>4, TableKept
<1>5. ASSUME NEW bytes, entries' = [entries EXCEPT ![idx].lastWritten = bytes]
      PROVE  TableInv'
  <2> DEFINE written(e) == [e EXCEPT !.lastWritten = bytes]
  <2>1. \A i \in Slot : entries'[i] = IF i = idx THEN written(entries[idx]) ELSE entries[i]
    BY <1>1, <1>5 DEF TableTyped
  <2>2. ASSUME NEW e, IsEntry(e)
        PROVE  /\ IsEntry(written(e))
               /\ written(e).address = e.address /\ written(e).value = e.value
               /\ written(e).size = e.size /\ written(e).mode = e.mode
               /\ written(e).dataType = e.dataType
    BY <2>2 DEF IsEntry
  <2> HIDE DEF written
  <2>3. \A i \in Slot : /\ IsEntry(entries'[i])
                        /\ entries'[i].address = entries[i].address
                        /\ entries'[i].value = entries[i].value
                        /\ entries'[i].size = entries[i].size
                        /\ entries'[i].mode = entries[i].mode
                        /\ entries'[i].dataType = entries[i].dataType
    BY <1>1, <2>1, <2>2 DEF TableTyped
  <2>4. TableTyped'
    BY <1>1, <1>2, <1>5, <2>3 DEF TableTyped
  <2>5. Live' = Live /\ Live \subseteq Slot
    BY <1>1 DEF Live
  <2>6. \A i \in Live : /\ entries[i].address \in Address
                        /\ asked[entries[i].address] # NoOrder
                        /\ CarriesOut(entries[i], asked[entries[i].address])
    BY LiveCarriesOut, NoOrderIsNone
  <2>7. \A i \in Live' : /\ entries'[i].address \in Address
                         /\ asked'[entries'[i].address] # NoOrder
                         /\ CarriesOut(entries'[i], asked'[entries'[i].address])
    BY <1>1, <2>3, <2>5, <2>6 DEF CarriesOut
  <2>8. \A i, j \in Live' : entries'[i].address = entries'[j].address => i = j
    BY <2>3, <2>5, OrderAsGivenUnfolded DEF TableInv
  <2>9. ASSUME NEW a \in Address, asked'[a] # NoOrder
        PROVE  asked'[a].address = a /\ \E i \in Live' : entries'[i].address = a
    <3>1. asked'[a] = asked[a] /\ asked[a].address = a
      BY <1>1, <2>9 DEF TableInv, OrdersFiled
    <3>2. PICK i \in SlotsOf(a) : CarriesOut(entries[i], asked[a])
      BY <3>1, <2>9, OrderAsGivenUnfolded DEF TableInv
    <3> QED
      BY <3>1, <3>2, <2>3, <2>5 DEF SlotsOf
  <2> QED
    BY <2>4, <2>7, <2>8, <2>9, TableFrom
<1> QED
  BY <1>3, <1>4, <1>5

-----------------------------------------------------------------------------

LEMMA InitEstablishes == Init => TableInv
<1> SUFFICES ASSUME Init PROVE TableInv
  OBVIOUS
<1>1. entryCount = 0 /\ Live = {} /\ \A a \in Address : asked[a] = NoOrder /\ SlotsOf(a) = {}
  BY DEF Init, Live, Slot, SlotsOf
<1>2. \A i \in Slot : IsEntry(entries[i])
  BY DEF Init, IsEntry
<1>3. TableTyped
  BY <1>1, <1>2, MemoryAssumption DEF Init, TableTyped
<1> QED
  BY <1>1, <1>3 DEF TableInv, OrdersFiled, OrderAsGiven

LEMMA NextKeeps == TableInv /\ [Next]_vars => TableInv'
<1> SUFFICES ASSUME TableInv, [Next]_vars PROVE TableInv'
  OBVIOUS
<1>1. idx \in -1..entryCount /\ entryCount \in Nat
  BY MemoryAssumption DEF TableInv, TableTyped
<1>2. CASE Scan
  BY <1>1, <1>2, TableKept DEF Scan, FirstScan, NextScan, UndoScan, tableVars
<1>3. CASE Freeze
  BY <1>3, AddFreezeKeeps, RemoveFreezeKeeps, ClearKeeps DEF Freeze
<1>4. CASE BeginSweep
  BY <1>1, <1>4, TableKept DEF BeginSweep, tableVars
<1>5. CASE SweepFreeze
  BY <1>1, <1>5, TableKept DEF SweepFreeze, Sweeping, Live, tableVars
<1>6. CASE SweepScale
  BY <1>6, SweepScaleKeeps
<1>7. CASE EndSweep
  BY <1>1, <1>7, TableKept DEF EndSweep, tableVars
<1>8. CASE \E a \in Address, v \in Byte : Store(a, v)
  BY <1>1, <1>8, TableKept DEF Store, tableVars
<1>9. CASE UNCHANGED vars
  BY <1>1, <1>9, TableKept DEF vars, tableVars
<1> QED
  BY <1>2, <1>3, <1>4, <1>5, <1>6, <1>7, <1>8, <1>9 DEF Next, Sweep

(* The inductive invariant, for every memory size, table size and set of   *)
(* orders.                                                                 *)
THEOREM Invariance == Spec => []TableInv
  BY InitEstablishes, NextKeeps, PTL DEF Spec

(* Each order in force has one entry, with its type, mode, width and       *)
(* bytes, after any sequence of adds, replacements, removals and sweeps.   *)
THEOREM OrdersAreKept == Spec => []OrderAsGiven
<1>1. TableInv => OrderAsGiven
  BY DEF TableInv
<1> QED
  BY <1>1, Invariance, PTL

(* A step of the sweep changes bytes of elements in force only. *)
LEMMA SweepStepConfined ==
  ASSUME TableInv, [Next]_vars, idx # -1, idx' # idx,
         NEW b \in Address, mem'[b] # mem[b]
  PROVE  \E o \in InForce : b \in Extent(o)
<1>1. Sweep
  BY DEF Next, Scan, Freeze, FirstScan, NextScan, UndoScan, AddFreeze, RemoveFreeze,
         ClearFreezeList, Store, vars
<1>2. SweepFreeze \/ SweepScale
  BY <1>1 DEF Sweep, BeginSweep, EndSweep
<1>3. idx \in Live
  BY <1>2 DEF SweepFreeze, SweepScale, Sweeping
<1> DEFINE e == entries[idx]
           o == asked[entries[idx].address]
<1>4. /\ e.address \in Address /\ o \in Orders /\ o.address = e.address
      /\ CarriesOut(e, o)
  BY <1>3, LiveCarriesOut
<1>5. o.dataType \in U8..String
  <2>1. o.dataType \in Types
    BY <1>4, OrdersAssumption
  <2>2. Types \subseteq U8..String
    BY MemoryAssumption DEF U8, U16, U32, U64, String
  <2> QED
    BY <2>1, <2>2
<1>6. o \in InForce
  BY <1>4, NoOrderIsNone DEF InForce
<1>7. b \in e.address..(e.address + DataTypeByteSize(o.dataType) - 1)
  <2>1. \A n, from : Overwrite(e.address, from, n) => b \in e.address..(e.address + n - 1)
    BY DEF Overwrite
  <2>2. CASE SweepFreeze
    BY <2>1, <2>2, <1>4 DEF SweepFreeze, CarriesOut
  <2>3. CASE SweepScale
    <3>1. \E from : Overwrite(e.address, from, ScanSizeBytes(o.dataType))
      BY <2>3, <1>4 DEF SweepScale, CarriesOut
    <3>2. b \in e.address..(e.address + ScanSizeBytes(o.dataType) - 1)
      BY <2>1, <3>1
    <3>3. /\ ScanSizeBytes(o.dataType) \in 0..DataTypeByteSize(o.dataType)
          /\ DataTypeByteSize(o.dataType) \in 1..8 /\ e.address \in Int
      BY <1>4, <1>5, Widths, MemoryAssumption DEF Address
    <3> QED
      BY <3>2, <3>3
  <2> QED
    BY <2>2, <2>3, <1>2
<1> QED
  BY <1>4, <1>6, <1>7 DEF Extent

(* The freezer never writes outside the elements it was asked to hold. *)
THEOREM NeighboursAreSafe == Spec => SweepConfined
<1>1. TableInv /\ [Next]_vars =>
        (idx # -1 /\ idx' # idx =>
           \A b \in Address : mem'[b] # mem[b] => \E o \in InForce : b \in Extent(o))
  BY SweepStepConfined
<1>2. TableInv /\ [Next]_vars =>
        [idx # -1 /\ idx' # idx =>
           \A b \in Address : mem'[b] # mem[b] => \E o \in InForce : b \in Extent(o)]_vars
  BY <1>1
<1> QED
  BY <1>2, Invariance, PTL DEF Spec, SweepConfined

-----------------------------------------------------------------------------
(* What a sweep leaves in memory.                                          *)

(* Of a type both languages know, the widths they give are the same.       *)
LEMMA KnownWidths ==
  ASSUME NEW o \in Orders
  PROVE  /\ o.dataType \in U8..String /\ DataTypeByteSize(o.dataType) \in 1..8
         /\ o.dataType # String => ScanSizeBytes(o.dataType) = DataTypeByteSize(o.dataType)
<1>1. o.dataType \in Types
  BY OrdersAssumption
<1>2. o.dataType \in {0, 1, 2, 3, 6}
  BY <1>1, MemoryAssumption DEF U8, U16, U32, U64, String
<1> QED
  BY <1>2, Widths DEF ScanSizeBytes, ScanSize, ElementSize, SizeOf, DataTypeByteSize, U8,
                      DOUBLE, String

(* Entry j writes byte b. *)
Covers(j, b) == b \in entries[j].address..(entries[j].address + entries[j].size - 1)

(* Every entry that covers b copies a value it was given. *)
OnlyFrozen(b) ==
  \A j \in Live : Covers(j, b) => entries[j].mode = MODE_FREEZE /\ entries[j].dataType # String

(* A byte that an entry gone over covers, and the game has not stored to   *)
(* since, is one an entry gives it: a later entry overwrites an earlier.   *)
SweepSoFar ==
  idx # -1 =>
    \A b \in Address \ stored :
      OnlyFrozen(b) /\ (\E j \in Live : j < idx /\ Covers(j, b))
        => \E j \in Live : Covers(j, b) /\ mem[b] = entries[j].value[b - entries[j].address]

(* A step of the sweep over a freeze order. *)
LEMMA SweepFreezeCopies ==
  ASSUME TableInv, SweepSoFar, SweepFreeze
  PROVE  SweepSoFar'
<1> DEFINE e == entries[idx]
           written == e.address..(e.address + e.size - 1)
<1>1. /\ idx \in Live /\ idx' = idx + 1 /\ entries' = entries /\ entryCount' = entryCount
      /\ stored' = stored \ written
      /\ mem' = [b \in Address |-> IF b \in written THEN e.value[b - e.address] ELSE mem[b]]
  BY DEF SweepFreeze, Sweeping, Overwrite, tableVars
<1>2. Live' = Live /\ \A j, b : Covers(j, b)' <=> Covers(j, b)
  BY <1>1 DEF Live, Covers
<1>3. \A b : OnlyFrozen(b)' <=> OnlyFrozen(b)
  BY <1>1, <1>2 DEF OnlyFrozen
<1>4. idx \in Int /\ idx # -1 /\ \A j \in Live : j \in Int
  BY <1>1 DEF Live, Slot
<1>5. ASSUME NEW b \in Address \ stored', OnlyFrozen(b), NEW k \in Live, k < idx', Covers(k, b)
      PROVE  \E j \in Live : Covers(j, b) /\ mem'[b] = entries[j].value[b - entries[j].address]
  <2>1. CASE b \in written
    <3>1. Covers(idx, b) /\ mem'[b] = e.value[b - e.address]
      BY <1>1, <1>5, <2>1 DEF Covers
    <3> QED
      BY <1>1, <3>1
  <2>2. CASE b \notin written
    <3>1. mem'[b] = mem[b] /\ b \in Address \ stored
      BY <1>1, <1>5, <2>2
    <3>2. k # idx
      BY <1>5, <2>2 DEF Covers
    <3>3. k < idx
      <4>1. k \in Int /\ idx \in Int /\ idx' = idx + 1 /\ k < idx'
        BY <1>1, <1>4, <1>5
      <4> QED
        BY <3>2, <4>1
    <3> QED
      BY <1>1, <1>4, <1>5, <3>1, <3>3 DEF SweepSoFar
  <2> QED
    BY <2>1, <2>2
<1> QED
  BY <1>1, <1>2, <1>3, <1>5 DEF SweepSoFar

(* A scale order's step changes no field of an entry but last_written.     *)
LEMMA SweepScaleFields ==
  ASSUME TableInv, SweepScale
  PROVE  \A i \in Live : /\ entries'[i].address = entries[i].address
                         /\ entries'[i].value = entries[i].value
                         /\ entries'[i].size = entries[i].size
                         /\ entries'[i].mode = entries[i].mode
                         /\ entries'[i].dataType = entries[i].dataType
<1>1. TableTyped /\ idx \in Live /\ Live \subseteq Slot
  BY DEF TableInv, SweepScale, Sweeping, Live
<1>2. entries' = entries \/
      \E bytes : entries' = [entries EXCEPT ![idx].lastWritten = bytes]
  BY DEF SweepScale
<1>3. ASSUME NEW bytes, entries' = [entries EXCEPT ![idx].lastWritten = bytes],
             NEW i \in Slot
      PROVE  /\ entries'[i].address = entries[i].address
             /\ entries'[i].value = entries[i].value
             /\ entries'[i].size = entries[i].size
             /\ entries'[i].mode = entries[i].mode
             /\ entries'[i].dataType = entries[i].dataType
  <2>1. IsEntry(entries[i])
    BY <1>1 DEF TableTyped
  <2>2. entries'[i] = IF i = idx THEN [entries[i] EXCEPT !.lastWritten = bytes] ELSE entries[i]
    BY <1>1, <1>3 DEF TableTyped
  <2> QED
    BY <2>1, <2>2 DEF IsEntry
<1> QED
  BY <1>1, <1>2, <1>3

(* It writes no byte that only frozen entries cover.                       *)
LEMMA SweepScaleSpares ==
  ASSUME TableInv, SweepSoFar, SweepScale
  PROVE  SweepSoFar'
<1> DEFINE e == entries[idx]
           written == e.address..(e.address + ScanSizeBytes(e.dataType) - 1)
<1>1. /\ idx \in Live /\ e.mode = MODE_SCALE /\ idx' = idx + 1 /\ entryCount' = entryCount
  BY DEF SweepScale, Sweeping
<1>2. idx \in Int /\ idx # -1 /\ \A j \in Live : j \in Int
  BY <1>1 DEF Live, Slot
<1>3. \A b \in Address \ written : mem'[b] = mem[b] /\ (b \in stored <=> b \in stored')
  BY DEF SweepScale, Overwrite
<1>4. Live' = Live /\ \A i \in Live : /\ entries'[i].address = entries[i].address
                                      /\ entries'[i].value = entries[i].value
                                      /\ entries'[i].size = entries[i].size
                                      /\ entries'[i].mode = entries[i].mode
                                      /\ entries'[i].dataType = entries[i].dataType
  BY <1>1, SweepScaleFields DEF Live
<1>5. /\ \A j \in Live : \A b : Covers(j, b)' <=> Covers(j, b)
      /\ \A b : OnlyFrozen(b)' <=> OnlyFrozen(b)
  BY <1>4 DEF Covers, OnlyFrozen
<1>6. ASSUME NEW b \in written PROVE Covers(idx, b)
  <2>1. e.size = DataTypeByteSize(e.dataType) /\ e.dataType \in U8..String
        /\ e.address \in Int
    <3>1. /\ asked[e.address] \in Orders /\ CarriesOut(e, asked[e.address])
          /\ e.address \in Address
      BY <1>1, LiveCarriesOut
    <3>2. asked[e.address].dataType \in U8..String
      BY <3>1, KnownWidths
    <3> QED
      BY <3>1, <3>2, MemoryAssumption DEF CarriesOut, Address
  <2>2. /\ ScanSizeBytes(e.dataType) \in 0..DataTypeByteSize(e.dataType)
        /\ DataTypeByteSize(e.dataType) \in 1..8
    BY <2>1, Widths
  <2> QED
    BY <2>1, <2>2 DEF Covers
<1>7. ASSUME NEW b \in Address \ stored', OnlyFrozen(b), NEW k \in Live, k < idx', Covers(k, b)
      PROVE  \E j \in Live : Covers(j, b) /\ mem'[b] = entries[j].value[b - entries[j].address]
  <2>1. ~ Covers(idx, b)
    BY <1>1, <1>7 DEF OnlyFrozen, MODE_FREEZE, MODE_SCALE
  <2>2. b \notin written /\ k # idx
    BY <1>6, <1>7, <2>1
  <2>3. mem'[b] = mem[b] /\ b \in Address \ stored
    BY <1>3, <1>7, <2>2
  <2>4. k < idx
    BY <1>1, <1>2, <1>7, <2>2
  <2> QED
    BY <1>2, <1>7, <2>3, <2>4 DEF SweepSoFar
<1> QED
  BY <1>4, <1>5, <1>7 DEF SweepSoFar

(* No step undoes what the sweep has done. *)
LEMMA SweepSoFarKept == TableInv /\ SweepSoFar /\ [Next]_vars => SweepSoFar'
<1> SUFFICES ASSUME TableInv, SweepSoFar, [Next]_vars PROVE SweepSoFar'
  OBVIOUS
<1>0. \A j \in Live : j \in Int /\ j >= 0
  BY DEF Live, Slot
<1>1. CASE Scan \/ UNCHANGED vars
  BY <1>1 DEF Scan, FirstScan, NextScan, UndoScan, tableVars, vars, SweepSoFar, OnlyFrozen,
              Covers, Live
<1>2. CASE Freeze
  BY <1>2 DEF Freeze, AddFreeze, RemoveFreeze, ClearFreezeList, SweepSoFar
<1>3. CASE BeginSweep
  <2>1. idx' = 0 /\ Live' = Live
    BY <1>3 DEF BeginSweep, tableVars, Live
  <2> QED
    BY <1>0, <2>1 DEF SweepSoFar
<1>4. CASE SweepFreeze
  BY <1>4, SweepFreezeCopies
<1>5. CASE SweepScale
  BY <1>5, SweepScaleSpares
<1>6. CASE EndSweep
  BY <1>6 DEF EndSweep, SweepSoFar
<1>7. ASSUME NEW a \in Address, NEW v \in Byte, Store(a, v) PROVE SweepSoFar'
  <2>1. /\ mem' = [mem EXCEPT ![a] = v] /\ idx' = idx /\ entries' = entries
        /\ entryCount' = entryCount /\ stored' = IF idx = -1 THEN stored ELSE stored \cup {a}
    BY <1>7 DEF Store, tableVars
  <2>2. Live' = Live /\ \A b : OnlyFrozen(b)' <=> OnlyFrozen(b)
    BY <2>1 DEF Live, OnlyFrozen, Covers
  <2>3. \A b \in Address \ stored' : idx # -1 => mem'[b] = mem[b] /\ b \in Address \ stored
    BY <2>1
  <2> QED
    BY <2>1, <2>2, <2>3 DEF SweepSoFar, Covers
<1> QED
  BY <1>1, <1>2, <1>3, <1>4, <1>5, <1>6, <1>7 DEF Next, Sweep

(* The end of a sweep, in terms of the orders. *)
LEMMA SweptHolds == TableInv /\ SweepSoFar => SweepHolds
<1> SUFFICES ASSUME TableInv, SweepSoFar, idx = entryCount,
                    NEW b \in Address \ stored,
                    \E o \in InForce : b \in Extent(o),
                    \A o \in InForce : b \in Extent(o) => o.mode = MODE_FREEZE /\ o.dataType # String
             PROVE  \E o \in InForce : b \in Extent(o) /\ mem[b] = ByteOf(o.value, b - o.address)
  BY DEF SweepHolds
<1>1. entryCount \in Nat /\ idx # -1
  BY MemoryAssumption DEF TableInv, TableTyped
<1>2. ASSUME NEW j \in Live, Covers(j, b)
      PROVE  LET o == asked[entries[j].address] IN
             /\ o \in InForce /\ b \in Extent(o) /\ o.address = entries[j].address
             /\ CarriesOut(entries[j], o)
  <2>1. /\ entries[j].address \in Address
        /\ asked[entries[j].address] \in Orders
        /\ asked[entries[j].address].address = entries[j].address
        /\ CarriesOut(entries[j], asked[entries[j].address])
    BY LiveCarriesOut
  <2> QED
    BY <1>2, <2>1, NoOrderIsNone DEF Covers, CarriesOut, Extent, InForce
<1>3. OnlyFrozen(b)
  BY <1>2 DEF OnlyFrozen, CarriesOut
<1>4. \E j \in Live : j < idx /\ Covers(j, b)
  <2>1. PICK a \in Address : asked[a] # NoOrder /\ b \in Extent(asked[a])
    BY DEF InForce
  <2>2. PICK j \in SlotsOf(a) : CarriesOut(entries[j], asked[a])
    BY <2>1, OrderAsGivenUnfolded DEF TableInv
  <2>3. j \in Live /\ entries[j].address = a /\ asked[a].address = a
    BY <2>1 DEF SlotsOf, TableInv, OrdersFiled
  <2> QED
    BY <2>1, <2>2, <2>3 DEF Covers, CarriesOut, Extent, Live
<1>5. PICK j \in Live : Covers(j, b) /\ mem[b] = entries[j].value[b - entries[j].address]
  BY <1>1, <1>3, <1>4 DEF SweepSoFar
<1> DEFINE o == asked[entries[j].address]
<1>6. /\ o \in InForce /\ b \in Extent(o) /\ o.address = entries[j].address
      /\ CarriesOut(entries[j], o) /\ o.dataType # String
  BY <1>2, <1>5
<1>7. o \in Orders /\ o.address \in Int /\ b \in Int
  BY <1>6, LiveCarriesOut, MemoryAssumption, OrdersAssumption DEF Address
<1>8. ScanSizeBytes(o.dataType) = DataTypeByteSize(o.dataType)
  BY <1>6, <1>7, KnownWidths
<1>9. b - o.address \in 0..(ScanSizeBytes(o.dataType) - 1)
  <2>1. DataTypeByteSize(o.dataType) \in Int
    BY <1>7, KnownWidths
  <2> QED
    BY <1>6, <1>7, <1>8, <2>1 DEF Extent
<1>10. mem[b] = ByteOf(o.value, b - o.address)
  BY <1>5, <1>6, <1>9 DEF CarriesOut
<1> QED
  BY <1>6, <1>10

(* Whatever the orders, their number and their overlaps, a sweep leaves    *)
(* every byte that is frozen at a value somebody froze it at.              *)
THEOREM SweepsHold == Spec => []SweepHolds
<1>1. Init => SweepSoFar
  BY DEF Init, SweepSoFar
<1>2. Init => TableInv
  BY InitEstablishes
<1>3. TableInv /\ [Next]_vars => TableInv'
  BY NextKeeps
<1> QED
  BY <1>1, <1>2, <1>3, SweepSoFarKept, SweptHolds, PTL DEF Spec

-----------------------------------------------------------------------------
(* Values of bytes.  tlapm has no induction over an operator, but over a    *)
(* set of naturals it has: a loop is a function of its turns, that exists  *)
(* (StepwiseFunction) and has what each turn keeps (AllNaturals).          *)

(* Induction, over a set of naturals. *)
LEMMA AllNaturals ==
  ASSUME NEW P \in SUBSET Nat, 0 \in P, \A n \in P : n + 1 \in P
  PROVE  P = Nat
<1> DEFINE Below == {ss \in Nat \X Nat : ss[1] < ss[2]}
           rest == Nat \ P
<1>0. IsWellFoundedOn(Below, Nat)
  BY NatLessThanWellFounded, Zenon DEF OpToRel
<1>1. ASSUME rest # {} PROVE FALSE
  <2>1. rest \subseteq Nat /\ rest # {}
    BY <1>1
  <2> HIDE DEF Below, rest
  <2>2. PICK x \in rest : \A y \in rest : ~ (<<y, x>> \in Below)
    BY <1>0, <2>1, WFMin
  <2> USE DEF Below, rest
  <2>3. x \in Nat /\ x \notin P /\ x # 0
    BY <2>2
  <2>4. x - 1 \in Nat /\ x - 1 < x /\ <<x - 1, x>> \in Nat \X Nat
    BY <2>3
  <2>5. x - 1 \in P
    BY <2>2, <2>4
  <2>6. (x - 1) + 1 \in P
    BY <2>5
  <2> QED
    BY <2>3, <2>6
<1> QED
  BY <1>1

(* A function defined by what it is at 0 and how each value gives the next *)
(* exists up to any bound. *)
Stepwise(V) ==
  \A v0 \in V, G \in [Nat -> [V -> V]], N \in Nat :
    \E f \in [0..N -> V] : f[0] = v0 /\ \A n \in 1..N : f[n] = G[n][f[n - 1]]

LEMMA StepwiseFunction ==
  ASSUME NEW V
  PROVE  Stepwise(V)
<1> SUFFICES ASSUME NEW v0 \in V, NEW G \in [Nat -> [V -> V]], NEW N \in Nat
             PROVE  \E f \in [0..N -> V] : f[0] = v0 /\ \A n \in 1..N : f[n] = G[n][f[n - 1]]
  BY DEF Stepwise
<1> DEFINE Good(m) == \E f \in [0..m -> V] : f[0] = v0 /\ \A n \in 1..m : f[n] = G[n][f[n - 1]]
           P == {m \in Nat : Good(m)}
<1>1. 0 \in P
  <2> DEFINE g == [n \in 0..0 |-> v0]
  <2>1. g \in [0..0 -> V] /\ g[0] = v0
    OBVIOUS
  <2>2. \A n \in 1..0 : g[n] = G[n][g[n - 1]]
    OBVIOUS
  <2> HIDE DEF g
  <2>3. Good(0)
    BY <2>1, <2>2
  <2> QED
    BY <2>3
<1>2. ASSUME NEW m \in P PROVE m + 1 \in P
  <2>1. m \in Nat /\ m + 1 \in Nat
    OBVIOUS
  <2>2. PICK f \in [0..m -> V] : f[0] = v0 /\ \A n \in 1..m : f[n] = G[n][f[n - 1]]
    OBVIOUS
  <2> DEFINE g == [n \in 0..(m + 1) |-> IF n = m + 1 THEN G[m + 1][f[m]] ELSE f[n]]
  <2>3. g \in [0..(m + 1) -> V]
    <3>1. G[m + 1] \in [V -> V] /\ f[m] \in V
      BY <2>1, <2>2
    <3>2. \A n \in 0..(m + 1) : n # m + 1 => n \in 0..m
      BY <2>1
    <3> QED
      BY <3>1, <3>2, <2>2
  <2>4. g[0] = v0
    BY <2>1, <2>2
  <2>5. ASSUME NEW n \in 1..(m + 1) PROVE g[n] = G[n][g[n - 1]]
    <3>1. n - 1 \in 0..m /\ n - 1 # m + 1 /\ g[n - 1] = f[n - 1]
      BY <2>1
    <3>2. CASE n = m + 1
      <4>1. n - 1 = m /\ g[n] = G[m + 1][f[m]]
        BY <2>1, <3>2
      <4> QED
        BY <3>1, <3>2, <4>1
    <3>3. CASE n # m + 1
      <4>1. n \in 1..m /\ g[n] = f[n]
        BY <2>1, <3>3
      <4> QED
        BY <2>2, <3>1, <4>1
    <3> QED
      BY <3>2, <3>3
  <2> HIDE DEF g
  <2> QED
    BY <2>1, <2>3, <2>4, <2>5
<1>3. P \in SUBSET Nat
  OBVIOUS
<1> HIDE DEF P
<1>4. P = Nat
  BY <1>1, <1>2, <1>3, AllNaturals
<1> USE DEF P
<1> QED
  BY <1>4

(* The places of the bytes. *)
LEMMA PlaceUnfolded ==
  /\ Place[0] = 1 /\ \A k \in 1..8 : Place[k] = Place[k - 1] * Radix
  /\ \A k \in 0..8 : Place[k] \in Nat \ {0}
<1> DEFINE G == [n \in Nat |-> [v \in Nat |-> v * Radix]]
<1>1. Radix \in Nat \ {0}
  BY MemoryAssumption
<1>2. G \in [Nat -> [Nat -> Nat]]
  <2>1. ASSUME NEW v \in Nat PROVE v * Radix \in Nat
    BY <1>1
  <2> QED
    BY <2>1
<1>3. PICK f \in [0..8 -> Nat] : f[0] = 1 /\ \A n \in 1..8 : f[n] = G[n][f[n - 1]]
  <2>1. 8 \in Nat /\ 1 \in Nat
    OBVIOUS
  <2> HIDE DEF G
  <2>2. Stepwise(Nat)
    BY StepwiseFunction
  <2> QED
    BY <1>2, <2>1, <2>2 DEF Stepwise
<1>4. \A n \in 1..8 : f[n] = f[n - 1] * Radix
  <2>1. ASSUME NEW n \in 1..8 PROVE f[n] = f[n - 1] * Radix
    <3>1. n \in Nat /\ n - 1 \in 0..8 /\ f[n - 1] \in Nat
      OBVIOUS
    <3> QED
      BY <1>3, <3>1
  <2> QED
    BY <2>1
<1>5. f = [k \in 0..8 |-> IF k = 0 THEN 1 ELSE f[k - 1] * Radix]
  BY <1>3, <1>4
<1>6. Place = [k \in 0..8 |-> IF k = 0 THEN 1 ELSE Place[k - 1] * Radix]
  <2>1. Place = CHOOSE u : u = [k \in 0..8 |-> IF k = 0 THEN 1 ELSE u[k - 1] * Radix]
    BY DEF Place
  <2> QED
    BY <1>5, <2>1
<1>7. Place[0] = 1 /\ \A k \in 1..8 : Place[k] = Place[k - 1] * Radix
  BY <1>6
<1>8. \A k \in 0..8 : Place[k] \in Nat \ {0}
  <2>1. \A v \in Nat \ {0} : v * Radix \in Nat \ {0}
    BY <1>1
  <2>2. Place[0] \in Nat \ {0} /\ Place[1] \in Nat \ {0} /\ Place[2] \in Nat \ {0}
    BY <1>7, <2>1
  <2>3. Place[3] \in Nat \ {0} /\ Place[4] \in Nat \ {0} /\ Place[5] \in Nat \ {0}
    BY <1>7, <2>1, <2>2
  <2>4. Place[6] \in Nat \ {0} /\ Place[7] \in Nat \ {0} /\ Place[8] \in Nat \ {0}
    BY <1>7, <2>1, <2>3
  <2> QED
    BY <2>2, <2>3, <2>4
<1> QED
  BY <1>7, <1>8

(* Each byte of a value is one of the Radix values. *)
LEMMA ByteOfIsByte ==
  ASSUME NEW v \in Nat, NEW k \in 0..7
  PROVE  ByteOf(v, k) \in Byte
<1> DEFINE p == Place[k]
<1>1. p \in Nat \ {0}
  BY PlaceUnfolded
<1> HIDE DEF p
<1>2. v \div p \in Nat
  BY <1>1
<1>3. (v \div p) % Radix \in 0..(Radix - 1)
  BY <1>2, MemoryAssumption
<1> QED
  BY <1>3 DEF ByteOf, Byte, p

(* The value of some bytes, up to the width, byte by byte. *)
LEMMA ValueUnfolded ==
  ASSUME NEW w \in 0..8, NEW bytes, \A k \in 0..(w - 1) : bytes[k] \in Nat
  PROVE  \E upTo \in [0..w -> Nat] :
           /\ upTo[0] = 0
           /\ \A k \in 1..w : upTo[k] = upTo[k - 1] + bytes[k - 1] * Place[k - 1]
           /\ ValueOf(bytes, w) = upTo[w]
<1> DEFINE G == [n \in Nat |-> [v \in Nat |->
                    v + (IF n \in 1..w THEN bytes[n - 1] * Place[n - 1] ELSE 0)]]
           Sum(u) == [k \in 0..w |-> IF k = 0 THEN 0
                                     ELSE u[k - 1] + bytes[k - 1] * Place[k - 1]]
<1>1. ASSUME NEW n \in 1..w PROVE bytes[n - 1] * Place[n - 1] \in Nat
  <2>1. n - 1 \in 0..(w - 1) /\ n - 1 \in 0..8
    OBVIOUS
  <2>2. bytes[n - 1] \in Nat /\ Place[n - 1] \in Nat
    BY <2>1, PlaceUnfolded
  <2> QED
    BY <2>2
<1>2. G \in [Nat -> [Nat -> Nat]]
  BY <1>1
<1>3. PICK f \in [0..w -> Nat] : f[0] = 0 /\ \A n \in 1..w : f[n] = G[n][f[n - 1]]
  <2>1. w \in Nat /\ 0 \in Nat
    OBVIOUS
  <2> HIDE DEF G
  <2>2. Stepwise(Nat)
    BY StepwiseFunction
  <2> QED
    BY <1>2, <2>1, <2>2 DEF Stepwise
<1>4. ASSUME NEW n \in 1..w PROVE f[n] = f[n - 1] + bytes[n - 1] * Place[n - 1]
  <2>1. n \in Nat /\ n - 1 \in 0..w /\ f[n - 1] \in Nat
    OBVIOUS
  <2> QED
    BY <1>3, <2>1
<1>5. f = Sum(f)
  BY <1>3, <1>4
<1> DEFINE upTo == CHOOSE u : u = Sum(u)
<1>6. ValueOf(bytes, w) = upTo[w]
  BY DEF ValueOf
<1>7. upTo = Sum(upTo)
  BY <1>5
<1> HIDE DEF upTo
<1>8. DOMAIN upTo = 0..w /\ upTo[0] = 0
  BY <1>7
<1>9. ASSUME NEW n \in 1..w PROVE upTo[n] = upTo[n - 1] + bytes[n - 1] * Place[n - 1]
  BY <1>7
<1> DEFINE P == {n \in Nat : n <= w => upTo[n] = f[n]}
<1>10. P = Nat
  <2>1. 0 \in P
    BY <1>3, <1>8
  <2>2. ASSUME NEW n \in P PROVE n + 1 \in P
    <3>1. CASE n + 1 <= w
      <4>1. n + 1 \in 1..w /\ (n + 1) - 1 = n /\ upTo[n] = f[n]
        BY <3>1
      <4>2. upTo[n + 1] = upTo[n] + bytes[n] * Place[n]
        BY <1>9, <4>1
      <4>3. f[n + 1] = f[n] + bytes[n] * Place[n]
        BY <1>4, <4>1
      <4> QED
        BY <4>1, <4>2, <4>3
    <3> QED
      BY <3>1
  <2>3. P \in SUBSET Nat
    OBVIOUS
  <2> HIDE DEF P
  <2> QED
    BY <2>1, <2>2, <2>3, AllNaturals
<1>11. \A n \in 0..w : upTo[n] = f[n]
  BY <1>10
<1>12. ValueOf(bytes, w) = f[w]
  BY <1>6, <1>11
<1> QED
  BY <1>3, <1>4, <1>12

(* So it is a natural number. *)
LEMMA ValueIsNatural ==
  ASSUME NEW w \in 0..8, NEW bytes, \A k \in 0..(w - 1) : bytes[k] \in Nat
  PROVE  ValueOf(bytes, w) \in Nat
<1>1. PICK upTo \in [0..w -> Nat] : ValueOf(bytes, w) = upTo[w]
  BY ValueUnfolded
<1> QED
  BY <1>1

-----------------------------------------------------------------------------
(* The loop that appends.                                                  *)

(* What a loop that appends some of the elements of s leaves. *)
LEMMA AppendedElements ==
  ASSUME NEW S, NEW s \in Seq(S), NEW kept
  PROVE  /\ Appended(s, kept) \in Seq(S)
         /\ \A j \in 1..Len(Appended(s, kept)) : \E n \in kept \cap DOMAIN s : Appended(s, kept)[j] = s[n]
         /\ \A n \in kept \cap DOMAIN s : \E j \in 1..Len(Appended(s, kept)) : Appended(s, kept)[j] = s[n]
<1> DEFINE N == Len(s)
           none == <<>>
           Turn(v, n) == IF n \in kept THEN Append(v, s[n]) ELSE v
           Loop(u) == [n \in 0..N |-> IF n = 0 THEN none ELSE Turn(u[n - 1], n)]
           G == [n \in Nat |-> [v \in Seq(S) |-> IF n \in 1..N THEN Turn(v, n) ELSE v]]
<1>1. N \in Nat /\ DOMAIN s = 1..N /\ \A n \in 1..N : s[n] \in S
  OBVIOUS
<1>2. none \in Seq(S) /\ \A n \in 1..N, v \in Seq(S) : Turn(v, n) \in Seq(S)
  BY <1>1
<1> DEFINE upTo == CHOOSE u : u = Loop(u)
<1>3. Appended(s, kept) = upTo[N]
  BY DEF Appended
<1> HIDE DEF N, none, Turn
<1>4. G \in [Nat -> [Seq(S) -> Seq(S)]]
  BY <1>2
<1>5. PICK f \in [0..N -> Seq(S)] : f[0] = none /\ \A n \in 1..N : f[n] = G[n][f[n - 1]]
  <2>1. Stepwise(Seq(S))
    BY StepwiseFunction
  <2> HIDE DEF G
  <2> QED
    BY <1>1, <1>2, <1>4, <2>1 DEF Stepwise
<1>6. ASSUME NEW n \in 1..N PROVE f[n] = Turn(f[n - 1], n)
  <2>1. n \in Nat /\ n - 1 \in 0..N
    BY <1>1
  <2>2. f[n - 1] \in Seq(S)
    BY <2>1
  <2> QED
    BY <1>5, <2>1, <2>2
<1>7. upTo = Loop(upTo)
  <2>1. f = Loop(f)
    BY <1>5, <1>6
  <2> QED
    BY <2>1
<1> HIDE DEF upTo
<1>8. upTo[0] = <<>>
  <2>1. upTo[0] = none
    BY <1>1, <1>7
  <2> QED
    BY <2>1 DEF none
<1>9. ASSUME NEW n \in 1..N
      PROVE  upTo[n] = IF n \in kept THEN Append(upTo[n - 1], s[n]) ELSE upTo[n - 1]
  <2>1. upTo[n] = Turn(upTo[n - 1], n)
    BY <1>1, <1>7
  <2> QED
    BY <2>1 DEF Turn
<1> DEFINE Built(r, n) ==
             /\ r \in Seq(S)
             /\ \A j \in 1..Len(r) : \E k \in kept \cap 1..n : r[j] = s[k]
             /\ \A k \in kept \cap 1..n : \E j \in 1..Len(r) : r[j] = s[k]
           P == {n \in Nat : n <= N => Built(upTo[n], n)}
<1>10. P = Nat
  <2>1. 0 \in P
    <3>1. Built(<<>>, 0)
      OBVIOUS
    <3> HIDE DEF Built
    <3> QED
      BY <1>8, <3>1
  <2>2. ASSUME NEW n \in P, n + 1 <= N PROVE Built(upTo[n + 1], n + 1)
    <3>1. n \in Nat /\ n + 1 \in 1..N /\ (n + 1) - 1 = n /\ Built(upTo[n], n)
      BY <1>1, <2>2
    <3> DEFINE r == upTo[n]
    <3>2. upTo[n + 1] = IF n + 1 \in kept THEN Append(r, s[n + 1]) ELSE r
      BY <1>9, <3>1
    <3>3. Built(r, n)
      BY <3>1
    <3> HIDE DEF r
    <3>4. CASE n + 1 \notin kept
      <4>1. kept \cap 1..(n + 1) = kept \cap 1..n
        BY <3>1, <3>4
      <4> QED
        BY <3>2, <3>3, <3>4, <4>1
    <3>5. CASE n + 1 \in kept
      <4> DEFINE q == Append(r, s[n + 1])
      <4>1. /\ r \in Seq(S) /\ s[n + 1] \in S /\ Len(r) \in Nat
            /\ q \in Seq(S) /\ Len(q) = Len(r) + 1 /\ q[Len(q)] = s[n + 1]
            /\ \A j \in 1..Len(r) : q[j] = r[j]
        BY <1>1, <3>1, <3>3
      <4> HIDE DEF q
      <4>2. \A k \in kept \cap 1..(n + 1) : k = n + 1 \/ k \in kept \cap 1..n
        BY <3>1
      <4>3. \A j \in 1..Len(q) : j = Len(q) \/ j \in 1..Len(r)
        BY <4>1
      <4>4. kept \cap 1..n \subseteq kept \cap 1..(n + 1) /\ n + 1 \in kept \cap 1..(n + 1)
        BY <3>1, <3>5
      <4>5. 1..Len(r) \subseteq 1..Len(q) /\ Len(q) \in 1..Len(q)
        BY <4>1
      <4>6. ASSUME NEW j \in 1..Len(q) PROVE \E k \in kept \cap 1..(n + 1) : q[j] = s[k]
        <5>1. CASE j = Len(q)
          BY <4>1, <4>4, <5>1
        <5>2. CASE j \in 1..Len(r)
          BY <3>3, <4>1, <4>4, <5>2
        <5> QED
          BY <4>3, <5>1, <5>2
      <4>7. ASSUME NEW k \in kept \cap 1..(n + 1) PROVE \E j \in 1..Len(q) : q[j] = s[k]
        <5>1. CASE k = n + 1
          BY <4>1, <4>5, <5>1
        <5>2. CASE k \in kept \cap 1..n
          BY <3>3, <4>1, <4>5, <5>2
        <5> QED
          BY <4>2, <5>1, <5>2
      <4>8. Built(q, n + 1)
        BY <4>1, <4>6, <4>7
      <4>9. upTo[n + 1] = q
        BY <3>2, <3>5 DEF q
      <4> QED
        BY <4>8, <4>9
    <3> QED
      BY <3>4, <3>5
  <2> HIDE DEF Built
  <2>3. ASSUME NEW n \in P PROVE n + 1 \in P
    BY <2>2
  <2>4. P \in SUBSET Nat
    OBVIOUS
  <2> HIDE DEF P
  <2> QED
    BY <2>1, <2>3, <2>4, AllNaturals
<1>11. Built(upTo[N], N)
  <2> HIDE DEF Built
  <2>1. N \in P
    BY <1>1, <1>10
  <2> QED
    BY <1>1, <2>1
<1> QED
  BY <1>1, <1>3, <1>11

-----------------------------------------------------------------------------
(* What a scan keeps.                                                      *)

(* Of the types a call may have, an unknown one is not read at all. *)
LEMMA ScanWidths ==
  ASSUME NEW t \in Types \cup {U32}
  PROVE  /\ t \in 0..6 /\ DataTypeByteSize(t) \in {1, 2, 4, 8}
         /\ t = String => ScanSizeBytes(t) = 0
         /\ t # String => ScanSizeBytes(t) = DataTypeByteSize(t)
<1>1. t \in {0, 1, 2, 3, 6}
  BY MemoryAssumption DEF U8, U16, U32, U64, String
<1> QED
  BY <1>1 DEF ScanSizeBytes, ScanSize, ElementSize, SizeOf, DataTypeByteSize, U8, DOUBLE, String

(* What a sequence is made of. *)
LEMMA SeqElements ==
  ASSUME NEW S, NEW s \in Seq(S)
  PROVE  Len(s) \in Nat /\ DOMAIN s = 1..Len(s) /\ \A i \in 1..Len(s) : s[i] \in S
  OBVIOUS

(* The value array holds, element by element, what was read at the         *)
(* addresses of the address array.                                         *)
LEMMA AppendedBytes ==
  ASSUME NEW w \in {1, 2, 4, 8}, NEW m \in [Address -> Byte], NEW as \in Seq(Address),
         \A i \in 1..Len(as) : as[i] + w <= Size
  PROVE  /\ AppendedFrom(m, as, w) \in Seq(Byte)
         /\ Len(AppendedFrom(m, as, w)) = Len(as) * w
         /\ \A i \in 1..Len(as) : ElementAt(AppendedFrom(m, as, w), i, w) = ValueAt(m, as[i], w)
<1> DEFINE L == Len(as)
           byte(j) == m[as[((j - 1) \div w) + 1] + ((j - 1) % w)]
           bytes == AppendedFrom(m, as, w)
<1>0. L \in Nat /\ (\A i \in 1..L : as[i] \in Address) /\ \A i \in 1..L : as[i] + w <= Size
  <2>1. L \in Nat /\ \A i \in 1..L : as[i] \in Address
    BY SeqElements
  <2>2. \A i \in 1..L : as[i] + w <= Size
    OBVIOUS
  <2> QED
    BY <2>1, <2>2
<1>3. bytes = [j \in 1..(L * w) |-> byte(j)]
  BY DEF AppendedFrom
<1> HIDE DEF L, bytes
<1>1. L \in Nat /\ Size \in Nat /\ w \in Nat /\ \A i \in 1..L : as[i] \in Nat
  BY <1>0, MemoryAssumption DEF Address
<1>2. ASSUME NEW i \in 1..L, NEW k \in 0..(w - 1) PROVE as[i] + k \in Address
  <2> DEFINE a == as[i]
  <2>1. a \in Nat /\ a + w <= Size
    BY <1>0, <1>1
  <2> HIDE DEF a
  <2>2. a + k \in 0..(Size - 1)
    BY <1>1, <2>1
  <2> QED
    BY <2>2 DEF Address, a
<1>4. ASSUME NEW j \in 1..(L * w)
      PROVE  ((j - 1) \div w) + 1 \in 1..L /\ (j - 1) % w \in 0..(w - 1)
  <2>1. CASE w = 1
    BY <1>1, <2>1
  <2>2. CASE w = 2
    BY <1>1, <2>2
  <2>3. CASE w = 4
    BY <1>1, <2>3
  <2>4. CASE w = 8
    BY <1>1, <2>4
  <2> QED
    BY <2>1, <2>2, <2>3, <2>4
<1>5. \A j \in 1..(L * w) : byte(j) \in Byte
  BY <1>2, <1>4
<1>6. ASSUME NEW i \in 1..L, NEW k \in 0..(w - 1)
      PROVE  /\ (i - 1) * w + k + 1 \in 1..(L * w)
             /\ bytes[(i - 1) * w + k + 1] = m[as[i] + k]
  <2> DEFINE j == (i - 1) * w + k + 1
  <2>1. j \in 1..(L * w) /\ ((j - 1) \div w) + 1 = i /\ (j - 1) % w = k
    <3>1. CASE w = 1
      BY <1>1, <3>1
    <3>2. CASE w = 2
      BY <1>1, <3>2
    <3>3. CASE w = 4
      BY <1>1, <3>3
    <3>4. CASE w = 8
      BY <1>1, <3>4
    <3> QED
      BY <3>1, <3>2, <3>3, <3>4
  <2> HIDE DEF j
  <2>2. bytes[j] = m[as[i] + k]
    BY <1>3, <2>1
  <2> QED
    BY <2>1, <2>2 DEF j
<1>7. bytes \in Seq(Byte) /\ Len(bytes) = L * w
  <2>1. L * w \in Nat
    BY <1>1
  <2> HIDE DEF byte
  <2> QED
    BY <1>3, <1>5, <2>1
<1>8. ASSUME NEW i \in 1..L PROVE ElementAt(bytes, i, w) = ValueAt(m, as[i], w)
  <2>1. [k \in 0..(w - 1) |-> bytes[(i - 1) * w + k + 1]] = [k \in 0..(w - 1) |-> m[as[i] + k]]
    BY <1>6
  <2> QED
    BY <2>1 DEF ElementAt, ValueAt
<1> QED
  BY <1>7, <1>8 DEF L, bytes

(* The results of a scan are elements of the range, with the values the    *)
(* scan read.                                                              *)
ScanInv ==
  /\ mem \in [Address -> Byte] /\ seen \in [Address -> Byte]
  /\ currentDataType \in Types \cup {U32}
  /\ addrs \in Seq(Address) /\ vals \in Seq(Byte)
  /\ currentDataType = String => addrs = <<>>
  /\ PreviousAsScanned

(* What scan_region and filter_scans leave is consistent if the addresses  *)
(* they kept fit the range.                                                *)
LEMMA Keeps ==
  ASSUME mem \in [Address -> Byte], mem' \in [Address -> Byte],
         NEW t \in Types \cup {U32}, NEW as \in Seq(Address),
         t = String => as = <<>>,
         \A i \in 1..Len(as) : as[i] + DataTypeByteSize(t) <= Size,
         Keep(as, t), currentDataType' = t
  PROVE  ScanInv'
<1> DEFINE w == DataTypeByteSize(t)
<1>1. w \in {1, 2, 4, 8} /\ (t # String => ScanSizeBytes(t) = w) /\ ScanSizeBytes(t) \in Nat
  BY ScanWidths
<1>2. /\ addrs' = as /\ vals' = AppendedFrom(mem, as, ScanSizeBytes(t))
      /\ seen' = IF as = <<>> THEN [a \in Address |-> 0] ELSE mem
  BY DEF Keep
<1>3. seen' \in [Address -> Byte]
  <2>1. 0 \in Byte
    BY MemoryAssumption DEF Byte
  <2>2. [a \in Address |-> 0] \in [Address -> Byte]
    BY <2>1
  <2> QED
    BY <1>2, <2>2
<1> HIDE DEF w
<1>4. CASE as = <<>>
  <2>1. Len(as) = 0
    BY <1>4
  <2>2. vals' \in Seq(Byte) /\ Len(vals') = 0
    <3> DEFINE n == Len(as) * ScanSizeBytes(t)
               byte(j) == mem[as[((j - 1) \div ScanSizeBytes(t)) + 1] + ((j - 1) % ScanSizeBytes(t))]
    <3>1. n = 0
      BY <1>1, <2>1
    <3>2. vals' = [j \in 1..n |-> byte(j)]
      BY <1>2 DEF AppendedFrom
    <3> HIDE DEF n, byte
    <3>3. vals' \in [1..0 -> Byte]
      BY <3>1, <3>2
    <3> QED
      BY <3>3
  <2>3. 0 * w = 0
    BY <1>1
  <2>4. PreviousAsScanned'
    BY <1>2, <2>1, <2>2, <2>3 DEF PreviousAsScanned, w
  <2> QED
    BY <1>2, <1>3, <1>4, <2>2, <2>4 DEF ScanInv
<1>5. CASE as # <<>>
  <2>1. t # String /\ vals' = AppendedFrom(mem, as, w) /\ seen' = mem
    BY <1>1, <1>2, <1>5
  <2>2. \A i \in 1..Len(as) : as[i] + w <= Size
    BY DEF w
  <2>3. /\ vals' \in Seq(Byte) /\ Len(vals') = Len(as) * w
        /\ \A i \in 1..Len(as) : ElementAt(vals', i, w) = ValueAt(mem, as[i], w)
    BY <1>1, <2>1, <2>2, AppendedBytes
  <2>4. PreviousAsScanned'
    BY <1>2, <2>1, <2>2, <2>3 DEF PreviousAsScanned, w
  <2> QED
    BY <1>2, <1>3, <2>1, <2>3, <2>4 DEF ScanInv
<1> QED
  BY <1>4, <1>5

(* A scan is given no more than the range. *)
LEMMA ScannedInside == ScannedSize \in Nat /\ ScannedSize <= Size
<1>1. Size \in Nat /\ UintModulus \in Nat /\ UintModulus >= 1
  BY MemoryAssumption
<1>2. Size % UintModulus <= Size /\ Size % UintModulus \in Nat
  BY <1>1
<1> QED
  BY <1>2 DEF ScannedSize

(* The loop of a scan passes elements of the range only. *)
LEMMA PositionsInside ==
  ASSUME NEW w \in {1, 2, 4, 8}
  PROVE  /\ Positions(w) \in Seq(Address)
         /\ \A n \in DOMAIN Positions(w) : Positions(w)[n] + w <= Size
<1> DEFINE L == ScannedSize \div w
<1>1. L \in Nat /\ \A n \in 1..L : (n - 1) * w \in Address /\ (n - 1) * w + w <= Size
  <2>1. ScannedSize \in Nat /\ Size \in Nat /\ ScannedSize <= Size
    BY ScannedInside, MemoryAssumption
  <2>2. CASE w = 1
    BY <2>1, <2>2 DEF Address
  <2>3. CASE w = 2
    BY <2>1, <2>3 DEF Address
  <2>4. CASE w = 4
    BY <2>1, <2>4 DEF Address
  <2>5. CASE w = 8
    BY <2>1, <2>5 DEF Address
  <2> QED
    BY <2>2, <2>3, <2>4, <2>5
<1>2. Positions(w) = [n \in 1..L |-> (n - 1) * w]
  BY DEF Positions
<1> HIDE DEF L
<1>3. Positions(w) \in Seq(Address)
  BY <1>1, <1>2
<1>4. DOMAIN Positions(w) = 1..L
  BY <1>1, <1>2
<1> QED
  BY <1>1, <1>2, <1>3, <1>4

(* So do a first scan's results lie in it, *)
LEMMA RegionInside ==
  ASSUME NEW t \in Types \cup {U32}, NEW kind, NEW x
  PROVE  /\ ScanRegion(t, kind, x) \in Seq(Address)
         /\ t = String => ScanRegion(t, kind, x) = <<>>
         /\ \A i \in 1..Len(ScanRegion(t, kind, x)) :
              ScanRegion(t, kind, x)[i] + DataTypeByteSize(t) <= Size
<1> DEFINE w == ScanSizeBytes(t)
           kept == {n \in DOMAIN Positions(w) :
                      ScanMatches(kind, ValueAt(mem, Positions(w)[n], w), Cut(x, w))}
<1>1. CASE t = String
  <2>1. ScanRegion(t, kind, x) = <<>>
    BY <1>1, ScanWidths DEF ScanRegion
  <2> QED
    BY <2>1
<1>2. CASE t # String
  <2>1. w = DataTypeByteSize(t) /\ w \in {1, 2, 4, 8}
    BY <1>2, ScanWidths
  <2>2. ScanRegion(t, kind, x) = Appended(Positions(w), kept)
    BY <2>1 DEF ScanRegion
  <2> HIDE DEF kept, w
  <2>3. /\ Positions(w) \in Seq(Address)
        /\ \A n \in DOMAIN Positions(w) : Positions(w)[n] + w <= Size
    BY <2>1, PositionsInside
  <2> QED
    BY <1>2, <2>1, <2>2, <2>3, AppendedElements
<1> QED
  BY <1>1, <1>2

(* and a next scan's, which are some of the results before. *)
LEMMA FilteredInside ==
  ASSUME ScanInv, NEW kind, NEW x
  PROVE  /\ FilterScans(kind, x) \in Seq(Address)
         /\ \A i \in 1..Len(FilterScans(kind, x)) :
              FilterScans(kind, x)[i] + DataTypeByteSize(currentDataType) <= Size
<1> DEFINE w == ScanSizeBytes(currentDataType)
           kept == {n \in DOMAIN addrs :
                      FilterMatches(kind, ValueAt(mem, addrs[n], w), Cut(x, w),
                                    ElementAt(vals, n, w))}
<1>1. FilterScans(kind, x) = Appended(addrs, kept)
  BY DEF FilterScans
<1> HIDE DEF kept
<1>2. addrs \in Seq(Address)
      /\ \A n \in DOMAIN addrs : addrs[n] + DataTypeByteSize(currentDataType) <= Size
  BY DEF ScanInv, PreviousAsScanned
<1> QED
  BY <1>1, <1>2, AppendedElements

(* The calls of the scanner. *)
LEMMA ScanKeepsScanned ==
  ASSUME ScanInv, Scan
  PROVE  ScanInv'
<1>1. mem' = mem /\ mem \in [Address -> Byte] /\ currentDataType \in Types \cup {U32}
  BY DEF ScanInv, Scan, FirstScan, NextScan, UndoScan
<1>2. <<>> \in Seq(Address) /\ Len(<<>>) = 0
  OBVIOUS
<1>3. ASSUME NEW t \in Types, NEW k, NEW x, FirstScan(t, k, x) PROVE ScanInv'
  <2> DEFINE as == IF x = Null THEN <<>> ELSE ScanRegion(t, k, x)
  <2>1. t \in Types \cup {U32} /\ currentDataType' = t /\ Keep(as, t)
    BY <1>3 DEF FirstScan
  <2>2. /\ as \in Seq(Address) /\ (t = String => as = <<>>)
        /\ \A i \in 1..Len(as) : as[i] + DataTypeByteSize(t) <= Size
    BY <1>2, <2>1, RegionInside
  <2> HIDE DEF as
  <2> QED
    BY <1>1, <2>1, <2>2, Keeps
<1>4. ASSUME NEW k, NEW x, NextScan(k, x) PROVE ScanInv'
  <2> DEFINE as == IF x = Null THEN <<>> ELSE FilterScans(k, x)
  <2>1. currentDataType' = currentDataType /\ Keep(as, currentDataType) /\ addrs # <<>>
    BY <1>4 DEF NextScan
  <2>2. /\ as \in Seq(Address)
        /\ \A i \in 1..Len(as) : as[i] + DataTypeByteSize(currentDataType) <= Size
    BY <1>2, FilteredInside
  <2>3. currentDataType # String
    BY <2>1 DEF ScanInv
  <2> HIDE DEF as
  <2> QED
    BY <1>1, <2>1, <2>2, <2>3, Keeps
<1>5. CASE UndoScan
  <2> DEFINE as == <<>>
  <2>1. currentDataType' = currentDataType /\ Keep(as, currentDataType)
    BY <1>5 DEF UndoScan
  <2>2. as \in Seq(Address) /\ as = <<>> /\ \A i \in 1..Len(as) : FALSE
    BY <1>2
  <2> HIDE DEF as
  <2> QED
    BY <1>1, <2>1, <2>2, Keeps
<1> QED
  BY <1>3, <1>4, <1>5 DEF Scan

-----------------------------------------------------------------------------
(* The types of the freezer's bytes.                                       *)

Entry == [address : Address, value : Buffer, size : 0..8, mode : {MODE_FREEZE, MODE_SCALE},
          dataType : U8..String, lastWritten : Buffer]

(* The freezer's state is of its types. *)
FreezeTyped ==
  /\ mem \in [Address -> Byte]
  /\ entries \in [Slot -> Entry]
  /\ freezeValueBuf \in Buffer
  /\ stored \subseteq Address

(* memcpy within a buffer, the bytes of a value, and a cleared buffer. *)
LEMMA CopiedIsBuffer ==
  ASSUME NEW to \in Buffer, NEW from \in Buffer, NEW n
  PROVE  Copied(to, from, n) \in Buffer
  BY DEF Copied, Buffer

LEMMA BytesAreBuffer ==
  ASSUME NEW v \in Nat
  PROVE  [k \in 0..7 |-> ByteOf(v, k)] \in Buffer
<1>1. \A k \in 0..7 : ByteOf(v, k) \in Byte
  BY ByteOfIsByte
<1> QED
  BY <1>1 DEF Buffer

LEMMA ZerosAreBuffer == [k \in 0..7 |-> 0] \in Buffer
<1>1. 0 \in Byte
  BY MemoryAssumption DEF Byte
<1> QED
  BY <1>1 DEF Buffer

(* freeze_add makes an entry of an entry. *)
LEMMA EntryOfTyped ==
  ASSUME freezeValueBuf \in Buffer, NEW o \in Orders, NEW old \in Entry
  PROVE  BufferWith(o) \in Buffer /\ EntryOf(old, o) \in Entry
<1>1. /\ o.value \in Nat /\ o.address \in Address /\ o.mode \in {MODE_FREEZE, MODE_SCALE}
      /\ o.dataType \in U8..String /\ DataTypeByteSize(o.dataType) \in 0..8
  BY OrdersAssumption, KnownWidths
<1>2. BufferWith(o) \in Buffer
  BY <1>1, BytesAreBuffer, CopiedIsBuffer DEF BufferWith
<1>3. old.value \in Buffer
  BY DEF Entry
<1>4. Copied(old.value, BufferWith(o), DataTypeByteSize(o.dataType)) \in Buffer
  BY <1>2, <1>3, CopiedIsBuffer
<1> QED
  BY <1>1, <1>2, <1>4, ZerosAreBuffer DEF EntryOf, Entry

(* A write of up to eight bytes from a buffer. *)
LEMMA OverwriteTyped ==
  ASSUME mem \in [Address -> Byte], NEW a \in Address, NEW from \in Buffer, NEW n \in 0..8,
         Overwrite(a, from, n)
  PROVE  mem' \in [Address -> Byte] /\ stored' \subseteq stored
<1>1. ASSUME NEW b \in Address, b \in a..(a + n - 1) PROVE from[b - a] \in Byte
  <2>1. a \in Int /\ b \in Int
    BY MemoryAssumption DEF Address
  <2>2. b - a \in 0..7
    BY <1>1, <2>1
  <2> QED
    BY <2>2 DEF Buffer
<1> QED
  BY <1>1 DEF Overwrite

(* The calls on the table, and the two kinds of step of a sweep. *)
LEMMA TablesTyped ==
  ASSUME TableInv, FreezeTyped, Freeze
  PROVE  FreezeTyped'
<1>0. Live \subseteq Slot /\ mem' = mem /\ stored' = stored
  BY DEF Live, Freeze, AddFreeze, RemoveFreeze, ClearFreezeList
<1>1. ASSUME NEW o \in Orders, AddFreeze(o) PROVE FreezeTyped'
  <2>1. freezeValueBuf' \in Buffer
    <3>1. BufferWith(o) \in Buffer
      BY OrdersAssumption, BytesAreBuffer, CopiedIsBuffer DEF BufferWith, FreezeTyped
    <3> QED
      BY <1>1, <3>1 DEF AddFreeze
  <2>2. entries' = entries \/ \E i \in Slot : entries' = [entries EXCEPT ![i] = EntryOf(@, o)]
    <3>1. entryCount < MaxEntries => entryCount \in Slot
      BY MemoryAssumption DEF TableInv, TableTyped, Slot
    <3> QED
      BY <1>0, <1>1, <3>1 DEF AddFreeze, SlotsOf
  <2>3. ASSUME NEW i \in Slot, entries' = [entries EXCEPT ![i] = EntryOf(@, o)]
        PROVE  entries' \in [Slot -> Entry]
    <3>1. EntryOf(entries[i], o) \in Entry
      BY EntryOfTyped DEF FreezeTyped
    <3> QED
      BY <2>3, <3>1 DEF FreezeTyped
  <2> QED
    BY <1>0, <2>1, <2>2, <2>3 DEF FreezeTyped
<1>2. ASSUME NEW a \in Address, RemoveFreeze(a) PROVE FreezeTyped'
  <2>1. PICK n \in SlotsOf(a) : entries' = [entries EXCEPT ![n] = entries[entryCount - 1]]
    BY <1>2 DEF RemoveFreeze
  <2>2. n \in Slot /\ entryCount - 1 \in Slot
    BY MemoryAssumption DEF SlotsOf, Live, Slot, TableInv, TableTyped
  <2> QED
    BY <1>0, <1>2, <2>1, <2>2 DEF FreezeTyped, RemoveFreeze
<1>3. CASE ClearFreezeList
  BY <1>0, <1>3 DEF FreezeTyped, ClearFreezeList
<1> QED
  BY <1>1, <1>2, <1>3 DEF Freeze

LEMMA FreezeSweepTyped ==
  ASSUME FreezeTyped, SweepFreeze
  PROVE  FreezeTyped'
<1>1. idx \in Slot /\ UNCHANGED <<entries, freezeValueBuf>>
      /\ Overwrite(entries[idx].address, entries[idx].value, entries[idx].size)
  BY DEF SweepFreeze, Sweeping, Live, tableVars
<1>2. entries[idx].address \in Address /\ entries[idx].value \in Buffer /\ entries[idx].size \in 0..8
  BY <1>1 DEF FreezeTyped, Entry
<1>3. mem' \in [Address -> Byte] /\ stored' \subseteq stored
  BY <1>1, <1>2, OverwriteTyped DEF FreezeTyped
<1> QED
  BY <1>1, <1>3 DEF FreezeTyped

(* The element of a live entry lies in the range, as wide as the scale     *)
(* order reads it.                                                         *)
LEMMA LiveElement ==
  ASSUME TableInv, NEW i \in Live
  PROVE  /\ ScanSizeBytes(entries[i].dataType) \in 0..8
         /\ \A k \in 0..(ScanSizeBytes(entries[i].dataType) - 1) :
              entries[i].address + k \in Address
<1> DEFINE o == asked[entries[i].address]
<1>1. o \in Orders /\ o.address = entries[i].address /\ entries[i].dataType = o.dataType
  BY LiveCarriesOut DEF CarriesOut
<1>2. /\ DataTypeByteSize(o.dataType) \in 1..8
      /\ ScanSizeBytes(o.dataType) \in 0..DataTypeByteSize(o.dataType)
  BY <1>1, KnownWidths, Widths
<1>3. Extent(o) \subseteq Address /\ o.address \in Nat
  BY <1>1, OrdersAssumption, MemoryAssumption DEF Address
<1> HIDE DEF o
<1>4. ASSUME NEW k \in 0..(ScanSizeBytes(o.dataType) - 1)
      PROVE  o.address + k \in Address
  <2>1. o.address + k \in o.address..(o.address + DataTypeByteSize(o.dataType) - 1)
    BY <1>2, <1>3
  <2> QED
    BY <1>3, <2>1 DEF Extent
<1> QED
  BY <1>1, <1>2, <1>4

LEMMA ScaleSweepTyped ==
  ASSUME TableInv, FreezeTyped, SweepScale
  PROVE  FreezeTyped'
<1> DEFINE e == entries[idx]
           w == ScanSizeBytes(e.dataType)
           cur == ValueAt(mem, e.address, w)
           result == cur * ValueOf(e.value, w)
           bytes == [k \in 0..7 |-> ByteOf(result, k)]
<1>1. idx \in Live /\ idx \in Slot /\ e \in Entry
  BY DEF SweepScale, Sweeping, Live, FreezeTyped
<1>2. w \in 0..8 /\ \A k \in 0..(w - 1) : e.address + k \in Address
  BY <1>1, LiveElement
<1>3. freezeValueBuf' = freezeValueBuf
      /\ \/ UNCHANGED <<mem, entries, stored>>
         \/ /\ Overwrite(e.address, bytes, w)
            /\ entries' = [entries EXCEPT ![idx].lastWritten = Copied(@, bytes, w)]
  BY DEF SweepScale
<1>4. e.address \in Address /\ e.value \in Buffer /\ e.lastWritten \in Buffer
  BY <1>1 DEF Entry
<1>5. bytes \in Buffer
  <2>0. Byte \subseteq Nat
    BY MemoryAssumption DEF Byte
  <2> HIDE DEF e, w
  <2>1. cur \in Nat
    <3> DEFINE read == [k \in 0..(w - 1) |-> mem[e.address + k]]
    <3>1. \A k \in 0..(w - 1) : read[k] \in Nat
      BY <1>2, <2>0 DEF FreezeTyped
    <3> HIDE DEF read
    <3>2. ValueOf(read, w) \in Nat
      BY <1>2, <3>1, ValueIsNatural
    <3> QED
      BY <3>2 DEF ValueAt, read
  <2>2. ValueOf(e.value, w) \in Nat
    <3>0. \A k \in 0..7 : e.value[k] \in Nat
      BY <1>4, <2>0 DEF Buffer
    <3>1. \A k \in 0..(w - 1) : e.value[k] \in Nat
      BY <1>2, <3>0
    <3> QED
      BY <1>2, <3>1, ValueIsNatural
  <2> HIDE DEF cur
  <2>3. result \in Nat
    BY <2>1, <2>2
  <2> HIDE DEF result
  <2> QED
    BY <2>3, BytesAreBuffer
<1> HIDE DEF bytes, w
<1>6. CASE UNCHANGED <<mem, entries, stored>>
  BY <1>3, <1>6 DEF FreezeTyped
<1>7. CASE /\ Overwrite(e.address, bytes, w)
           /\ entries' = [entries EXCEPT ![idx].lastWritten = Copied(@, bytes, w)]
  <2>1. mem' \in [Address -> Byte] /\ stored' \subseteq stored
    BY <1>2, <1>4, <1>5, <1>7, OverwriteTyped DEF FreezeTyped
  <2>2. Copied(e.lastWritten, bytes, w) \in Buffer
    BY <1>4, <1>5, CopiedIsBuffer
  <2>3. [e EXCEPT !.lastWritten = Copied(e.lastWritten, bytes, w)] \in Entry
    BY <1>1, <2>2 DEF Entry
  <2>4. entries' \in [Slot -> Entry]
    BY <1>1, <1>7, <2>3 DEF FreezeTyped
  <2> QED
    BY <1>3, <2>1, <2>4 DEF FreezeTyped
<1> QED
  BY <1>3, <1>6, <1>7

(* The inductive invariant of bytes and values: the types, the table, the  *)
(* results.                                                                *)
ValueInv == TableInv /\ FreezeTyped /\ ScanInv

LEMMA InitValues == Init => ValueInv
<1> SUFFICES ASSUME Init PROVE ValueInv
  OBVIOUS
<1>1. 0 \in Byte
  BY MemoryAssumption DEF Byte
<1>2. FreezeTyped
  <2> DEFINE e == [address |-> 0, value |-> [k \in 0..7 |-> 0], size |-> 0,
                   mode |-> 0, dataType |-> 0, lastWritten |-> [k \in 0..7 |-> 0]]
  <2>1. e \in Entry
    <3>1. 0 \in Address
      BY MemoryAssumption DEF Address
    <3> QED
      BY <3>1, ZerosAreBuffer DEF Entry, MODE_FREEZE, U8, String
  <2>2. entries \in [Slot -> Entry]
    <3>1. entries = [i \in Slot |-> e]
      BY DEF Init
    <3> QED
      BY <2>1, <3>1
  <2> QED
    BY <2>2, ZerosAreBuffer DEF FreezeTyped, Init
<1>3. ScanInv
  <2>1. Len(addrs) = 0 /\ Len(vals) = 0 /\ addrs \in Seq(Address) /\ vals \in Seq(Byte)
    BY DEF Init
  <2>2. DataTypeByteSize(currentDataType) \in Nat /\ currentDataType \in Types \cup {U32}
        /\ addrs = <<>>
    BY ScanWidths DEF Init
  <2>3. PreviousAsScanned
    BY <2>1, <2>2 DEF PreviousAsScanned
  <2>4. mem \in [Address -> Byte] /\ seen \in [Address -> Byte]
    BY <1>1 DEF Init
  <2> QED
    BY <2>1, <2>2, <2>3, <2>4 DEF ScanInv
<1> QED
  BY <1>2, <1>3, InitEstablishes DEF ValueInv

LEMMA NextKeepsValues == ValueInv /\ [Next]_vars => ValueInv'
<1> SUFFICES ASSUME ValueInv, [Next]_vars PROVE ValueInv'
  OBVIOUS
<1>1. TableInv /\ FreezeTyped /\ ScanInv /\ TableInv'
  BY NextKeeps DEF ValueInv
<1>2. FreezeTyped'
  <2>1. CASE Scan \/ BeginSweep \/ EndSweep \/ UNCHANGED vars
    BY <1>1, <2>1 DEF FreezeTyped, Scan, FirstScan, NextScan, UndoScan, BeginSweep, EndSweep,
                      tableVars, vars
  <2>2. CASE Freeze
    BY <1>1, <2>2, TablesTyped
  <2>3. CASE SweepFreeze \/ SweepScale
    BY <1>1, <2>3, FreezeSweepTyped, ScaleSweepTyped
  <2>4. CASE \E a \in Address, v \in Byte : Store(a, v)
    BY <1>1, <2>4 DEF FreezeTyped, Store, tableVars
  <2> QED
    BY <2>1, <2>2, <2>3, <2>4 DEF Next, Sweep
<1>3. ScanInv'
  <2>1. CASE Scan
    BY <1>1, <2>1, ScanKeepsScanned
  <2>2. CASE UNCHANGED scanVars
    BY <1>1, <1>2, <2>2 DEF ScanInv, PreviousAsScanned, scanVars, FreezeTyped
  <2>3. Scan \/ UNCHANGED scanVars
    BY DEF Next, Freeze, AddFreeze, RemoveFreeze, ClearFreezeList, Sweep, BeginSweep,
           SweepFreeze, SweepScale, EndSweep, Store, vars
  <2> QED
    BY <2>1, <2>2, <2>3
<1> QED
  BY <1>1, <1>2, <1>3 DEF ValueInv

LEMMA ValuesHold == Spec => []ValueInv
  BY InitValues, NextKeepsValues, PTL DEF Spec

(* No sequence of calls, sweeps and stores leaves anything but bytes in a  *)
(* buffer, or addresses outside the range in the results.                  *)
THEOREM TypesHold == Spec => []TypeOK
<1>1. ValueInv => TypeOK
  BY DEF ValueInv, ScanInv, FreezeTyped, TableInv, TableTyped, TypeOK, Entry
<1> QED
  BY <1>1, ValuesHold, PTL

(* The value get_scan_results compares with is the one the last scan read  *)
(* at the same address, whatever types the scans before had.               *)
THEOREM PreviousValuesHold == Spec => []PreviousAsScanned
<1>1. ValueInv => PreviousAsScanned
  BY DEF ValueInv, ScanInv
<1> QED
  BY <1>1, ValuesHold, PTL

-----------------------------------------------------------------------------
(* A frozen value, scanned for.                                            *)

(* Arithmetic that the SMT solver does not do by itself: div and mod by a  *)
(* divisor that is not a numeral.                                          *)
LEMMA ProductGrows ==
  ASSUME NEW a \in Int, NEW b \in Int, NEW d \in Nat, a + 1 <= b
  PROVE  d * a + d <= d * b
<1>1. PICK c \in Nat : b = (a + 1) + c
  <2>1. b - (a + 1) \in Nat /\ b = (a + 1) + (b - (a + 1))
    OBVIOUS
  <2> QED
    BY <2>1
<1>2. d * b = d * a + d + d * c
  BY <1>1
<1>3. d * c \in Nat /\ d * a \in Int /\ d * b \in Int
  OBVIOUS
<1> QED
  BY <1>2, <1>3

LEMMA Division ==
  ASSUME NEW v \in Nat, NEW d \in Nat \ {0}
  PROVE  /\ v \div d \in Nat /\ v % d \in 0..(d - 1)
         /\ v = d * (v \div d) + (v % d)
  OBVIOUS

(* A remainder is the only one of its size. *)
LEMMA RemainderIs ==
  ASSUME NEW v \in Nat, NEW d \in Nat \ {0}, NEW q \in Nat, NEW r \in 0..(d - 1), v = d * q + r
  PROVE  v % d = r
<1> DEFINE q0 == v \div d
           r0 == v % d
           x == d * q
           y == d * q0
<1>1. q0 \in Nat /\ r0 \in 0..(d - 1) /\ v = y + r0
  BY Division
<1>2. x \in Int /\ y \in Int
  BY <1>1
<1> HIDE DEF q0, r0
<1>3. q + 1 <= q0 => x + d <= y
  BY <1>1, ProductGrows
<1>4. q0 + 1 <= q => y + d <= x
  BY <1>1, ProductGrows
<1>5. q = q0 => x = y
  OBVIOUS
<1> HIDE DEF x, y
<1>6. v = x + r
  BY DEF x
<1>7. q = q0
  BY <1>1, <1>2, <1>3, <1>4, <1>6
<1>8. r = r0
  BY <1>1, <1>2, <1>5, <1>6, <1>7
<1> QED
  BY <1>8 DEF r0

(* One more byte of a value. *)
LEMMA RemainderOfProduct ==
  ASSUME NEW v \in Nat, NEW p \in Nat \ {0}, NEW d \in Nat \ {0}
  PROVE  v % (p * d) = (v % p) + ((v \div p) % d) * p
<1> DEFINE q == v \div p
           r == v % p
           q2 == q \div d
           r2 == q % d
           rest == r + r2 * p
<1>1. q \in Nat /\ r \in 0..(p - 1) /\ v = p * q + r
  BY Division
<1> HIDE DEF q, r
<1>2. q2 \in Nat /\ r2 \in 0..(d - 1) /\ q = d * q2 + r2
  BY <1>1, Division
<1> HIDE DEF q2, r2
<1>3. v = (p * d) * q2 + rest
  <2>1. p * q = p * (d * q2) + p * r2
    BY <1>1, <1>2
  <2>2. p * (d * q2) = (p * d) * q2
    BY <1>2
  <2>3. p * r2 = r2 * p
    BY <1>2
  <2> QED
    BY <1>1, <1>2, <2>1, <2>2, <2>3
<1>4. rest \in 0..(p * d - 1)
  <2>1. p * r2 + p <= p * d
    BY <1>2, ProductGrows
  <2>2. p * r2 \in Nat /\ p * d \in Nat /\ p * r2 = r2 * p
    BY <1>2
  <2> QED
    BY <1>1, <2>1, <2>2
<1>5. p * d \in Nat \ {0}
  OBVIOUS
<1> HIDE DEF rest
<1>6. v % (p * d) = rest
  BY <1>2, <1>3, <1>4, <1>5, RemainderIs
<1> QED
  BY <1>6 DEF rest, r, r2, q

(* The bytes of a value, read back, are what is left of it at the width. *)
LEMMA ValueOfBytes ==
  ASSUME NEW v \in Nat, NEW w \in 0..8, NEW bytes,
         \A k \in 0..(w - 1) : bytes[k] = ByteOf(v, k)
  PROVE  ValueOf(bytes, w) = Cut(v, w)
<1>1. ASSUME NEW k \in 0..(w - 1) PROVE bytes[k] = ByteOf(v, k) /\ bytes[k] \in Nat
  <2>1. k \in 0..7
    OBVIOUS
  <2>2. bytes[k] = ByteOf(v, k) /\ ByteOf(v, k) \in Byte
    BY <2>1, ByteOfIsByte
  <2>3. Byte \subseteq Nat
    BY MemoryAssumption DEF Byte
  <2> QED
    BY <2>2, <2>3
<1>2. PICK upTo \in [0..w -> Nat] :
        /\ upTo[0] = 0
        /\ \A k \in 1..w : upTo[k] = upTo[k - 1] + bytes[k - 1] * Place[k - 1]
        /\ ValueOf(bytes, w) = upTo[w]
  BY <1>1, ValueUnfolded
<1> DEFINE P == {n \in Nat : n <= w => upTo[n] = v % Place[n]}
<1>3. 0 \in P
  <2>1. v % 1 = 0
    OBVIOUS
  <2> QED
    BY <1>2, <2>1, PlaceUnfolded
<1>4. ASSUME NEW n \in P, n + 1 <= w PROVE upTo[n + 1] = v % Place[n + 1]
  <2>1. n \in 0..(w - 1) /\ n \in 0..7 /\ n \in Nat /\ upTo[n] = v % Place[n]
    BY <1>4
  <2>2. n + 1 \in 1..w /\ n + 1 \in 1..8 /\ (n + 1) - 1 = n /\ n \in 0..8
    BY <1>4, <2>1
  <2>3. Place[n] \in Nat \ {0} /\ Place[n + 1] = Place[n] * Radix /\ Radix \in Nat \ {0}
    BY <2>2, PlaceUnfolded, MemoryAssumption
  <2>4. upTo[n + 1] = upTo[n] + bytes[n] * Place[n]
    BY <1>2, <2>2
  <2>5. bytes[n] = (v \div Place[n]) % Radix
    BY <1>1, <2>1 DEF ByteOf
  <2>6. v % (Place[n] * Radix) = (v % Place[n]) + ((v \div Place[n]) % Radix) * Place[n]
    BY <2>3, RemainderOfProduct
  <2> QED
    BY <2>1, <2>3, <2>4, <2>5, <2>6
<1>5. P = Nat
  <2>1. \A n \in P : n + 1 \in P
    BY <1>4
  <2>2. P \in SUBSET Nat
    OBVIOUS
  <2> HIDE DEF P
  <2> QED
    BY <1>3, <2>1, <2>2, AllNaturals
<1>6. upTo[w] = v % Place[w]
  BY <1>5
<1> QED
  BY <1>2, <1>6 DEF Cut

(* The scan's loop comes past every multiple of the width an element fits at. *)
LEMMA PositionOf ==
  ASSUME NEW w \in {1, 2, 4, 8}, NEW a \in Nat, a % w = 0, a + w <= ScannedSize
  PROVE  \E n \in DOMAIN Positions(w) : Positions(w)[n] = a
<1> DEFINE L == ScannedSize \div w
           n == (a \div w) + 1
<1>1. n \in 1..L /\ (n - 1) * w = a
  <2>1. ScannedSize \in Nat
    BY ScannedInside
  <2>2. CASE w = 1
    BY <2>1, <2>2
  <2>3. CASE w = 2
    BY <2>1, <2>3
  <2>4. CASE w = 4
    BY <2>1, <2>4
  <2>5. CASE w = 8
    BY <2>1, <2>5
  <2> QED
    BY <2>2, <2>3, <2>4, <2>5
<1>2. Positions(w) = [m \in 1..L |-> (m - 1) * w]
  BY DEF Positions
<1> HIDE DEF L, n
<1>3. n \in DOMAIN Positions(w) /\ Positions(w)[n] = a
  BY <1>1, <1>2
<1> QED
  BY <1>3

(* A first scan for the value an element holds returns its address. *)
LEMMA ScanReturns ==
  ASSUME NEW t \in Types \cup {U32}, t # String, NEW x,
         NEW a \in Nat, a % ScanSizeBytes(t) = 0, a + ScanSizeBytes(t) <= ScannedSize,
         ValueAt(mem, a, ScanSizeBytes(t)) = Cut(x, ScanSizeBytes(t))
  PROVE  Found(ScanRegion(t, "EXACT", x), a)
<1> DEFINE w == ScanSizeBytes(t)
           kept == {n \in DOMAIN Positions(w) :
                      ScanMatches("EXACT", ValueAt(mem, Positions(w)[n], w), Cut(x, w))}
<1>1. w \in {1, 2, 4, 8}
  BY ScanWidths
<1>2. ScanRegion(t, "EXACT", x) = Appended(Positions(w), kept)
  BY <1>1 DEF ScanRegion
<1>3. PICK n \in DOMAIN Positions(w) : Positions(w)[n] = a
  BY <1>1, PositionOf
<1>4. n \in kept
  BY <1>3 DEF ScanMatches
<1> HIDE DEF kept, w
<1>5. Positions(w) \in Seq(Address)
  BY <1>1, PositionsInside
<1>6. \E j \in 1..Len(Appended(Positions(w), kept)) : Appended(Positions(w), kept)[j] = a
  BY <1>3, <1>4, <1>5, AppendedElements
<1> QED
  BY <1>2, <1>6 DEF Found

(* The element of a freeze order that no other touches holds its value at  *)
(* the end of a sweep, and the scan reads it there.                        *)
LEMMA FrozenHolds == TableInv /\ SweepHolds => FrozenIsFound
<1> SUFFICES ASSUME TableInv, SweepHolds, idx = entryCount, NEW o \in InForce,
                    o.mode = MODE_FREEZE, o.dataType \in ScanSize,
                    o.address % ScanSizeBytes(o.dataType) = 0,
                    o.address + ScanSizeBytes(o.dataType) <= ScannedSize,
                    \A p \in InForce \ {o} : Extent(p) \cap Extent(o) = {},
                    Extent(o) \cap stored = {}
             PROVE  Found(ScanRegion(o.dataType, "EXACT", o.value), o.address)
  BY DEF FrozenIsFound
<1> DEFINE a == o.address
           t == o.dataType
           w == ScanSizeBytes(t)
<1>1. o \in Orders
  BY DEF InForce, TableInv, TableTyped
<1>2. t \in Types \cup {U32} /\ o.value \in Nat /\ a \in Address /\ Extent(o) \subseteq Address
  BY <1>1, OrdersAssumption
<1>3. t # String
  BY DEF ScanSize, U8, DOUBLE, String
<1>4. w = DataTypeByteSize(t) /\ w \in {1, 2, 4, 8}
  BY <1>2, <1>3, ScanWidths
<1>5. a \in Nat /\ a + w <= ScannedSize
  BY <1>2, MemoryAssumption DEF Address
<1>6. Extent(o) = a..(a + w - 1)
  BY <1>4 DEF Extent
<1> HIDE DEF a, w
<1>7. ASSUME NEW k \in 0..(w - 1) PROVE mem[a + k] = ByteOf(o.value, k)
  <2> DEFINE b == a + k
  <2>1. b \in Extent(o) /\ b - a = k
    BY <1>4, <1>5, <1>6
  <2> HIDE DEF b
  <2>2. b \in Address \ stored
    BY <1>2, <2>1
  <2>3. \A p \in InForce : b \in Extent(p) => p = o
    BY <2>1
  <2> DEFINE covering == {p \in InForce : b \in Extent(p)}
  <2>4. covering = {o}
    BY <2>1, <2>3
  <2>5. (covering # {} /\ \A p \in covering : p.mode = MODE_FREEZE /\ p.dataType # String)
          => \E p \in covering : mem[b] = ByteOf(p.value, b - p.address)
    BY <2>2 DEF SweepHolds
  <2> HIDE DEF covering
  <2>6. mem[b] = ByteOf(o.value, b - o.address)
    BY <1>3, <2>4, <2>5
  <2> QED
    BY <2>1, <2>6 DEF a, b
<1>8. ValueAt(mem, a, w) = Cut(o.value, w)
  <2> DEFINE bytes == [k \in 0..(w - 1) |-> mem[a + k]]
  <2>1. \A k \in 0..(w - 1) : bytes[k] = ByteOf(o.value, k)
    BY <1>7
  <2> HIDE DEF bytes
  <2>2. ValueOf(bytes, w) = Cut(o.value, w)
    BY <1>2, <1>4, <2>1, ValueOfBytes
  <2> QED
    BY <2>2 DEF ValueAt, bytes
<1> QED
  BY <1>2, <1>3, <1>5, <1>8, ScanReturns DEF a, w

(* What one frozen value goes through, from writeValue to the comparison   *)
(* of a later scan, gives it back, at every width, wherever the "uint" of  *)
(* scan.ts lets the scan come.                                             *)
THEOREM FrozenAreFound == Spec => []FrozenIsFound
  BY FrozenHolds, Invariance, SweepsHold, PTL

=============================================================================
