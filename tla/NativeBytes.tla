---------------------------- MODULE NativeBytes ----------------------------
(***************************************************************************)
(* The bytes under the agent's data types: the memory of the target as     *)
(* native/scanner.c and native/freezer.c see it, little-endian, read and   *)
(* written at the width of the data type that came with a call.  Scanner   *)
(* and Freezer treat an address as a cell with one value; here elements of *)
(* different widths overlap, a buffer keeps the bytes a narrower value     *)
(* left in it, and the width is computed in two languages.                 *)
(*                                                                         *)
(* A call of the agent is one step, a sweep of the freezer one step per    *)
(* entry (Scanner and Freezer have the smaller steps), and the game stores *)
(* between any two steps.  The integer types compute; for FLOAT and DOUBLE *)
(* only the widths are given here, no caller passes them.                  *)
(***************************************************************************)
EXTENDS Integers, Sequences

CONSTANTS
  Size,         \* bytes of the one rw- range, which begins at address 0
  UintModulus,  \* 2^32: region_size crosses the native boundary as a "uint"
  Radix,        \* values of a byte: 256
  Types,        \* data types (DataType of types.ts) that callers pass
  ScanValues,   \* values scanned for
  Null,         \* a value writeValue throws on
  ScanKinds,    \* scan types (ScanType of types.ts) that callers pass
  Orders,       \* freezes that callers add
  MaxEntries    \* MAX_FREEZE_ENTRIES: 64

(* The data types, by the numbers that types.ts and the two C files share. *)
U8 == 0
U16 == 1
U32 == 2
U64 == 3
FLOAT == 4
DOUBLE == 5
(* Only types.ts has this one. *)
String == 6

ScanSize == U8..DOUBLE

ScanType == <<"EXACT", "LESS_THAN", "GREATER_THAN", "INCREASED", "DECREASED",
              "UNKNOWN", "UNCHANGED">>

MODE_FREEZE == 0
MODE_SCALE == 1

(* sizeof on the 64-bit targets. *)
SizeOf == [gint |-> 4, guint |-> 4, gpointer |-> 8, guint8 |-> 1, guint16 |-> 2,
           guint32 |-> 4, guint64 |-> 8, gfloat |-> 4, gdouble |-> 8, gsize |-> 8]

(* The C type an element of each data type is read and written as. *)
ElementSize ==
  <<SizeOf.guint8, SizeOf.guint16, SizeOf.guint32, SizeOf.guint64,
    SizeOf.gfloat, SizeOf.gdouble>>

(* scan_size_bytes of scanner.c. *)
ScanSizeBytes(t) == IF t \in ScanSize THEN ElementSize[t + 1] ELSE 0

(* dataTypeByteSize of types.ts. *)
DataTypeByteSize(t) == <<1, 2, 4, 8, 4, 8, 4>>[t + 1]

Address == 0..Size-1
Byte == 0..Radix-1
Slot == 0..MaxEntries-1
Buffer == [0..7 -> Byte]

(* The bytes of an order's element. *)
Extent(o) == o.address..(o.address + DataTypeByteSize(o.dataType) - 1)

ASSUME MemoryAssumption ==
  /\ Size \in Nat \ {0} /\ UintModulus \in Nat \ {0}
  /\ Radix \in Nat \ {0} /\ MaxEntries \in Nat \ {0}
  /\ Types \subseteq {U8, U16, U32, U64, String}
  /\ ScanValues \subseteq Nat /\ Null \notin Nat
  /\ ScanKinds \subseteq {ScanType[k] : k \in 1..7}
ASSUME OrdersAssumption ==
  /\ Orders \subseteq [address : Address, dataType : Types, mode : {MODE_FREEZE, MODE_SCALE}, value : Nat]
  /\ \A o \in Orders : Extent(o) \subseteq Address

VARIABLES
  mem,              \* the bytes of the range
  currentDataType,  \* of scan.ts
  addrs, vals,      \* the one set of currentScanResults: addresses; raw values
  entries,          \* entries[MAX_FREEZE_ENTRIES]; slots from entryCount on are stale
  entryCount,       \* entry_count
  freezeValueBuf,   \* of memory.ts
  idx,              \* i of freeze_loop, or -1 while it sleeps without the mutex
  seen,             \* history: the memory when the last scan ran
  asked,            \* history: at each address, the order that should be in force
  stored            \* history: bytes the game stored since the sweep began

scanVars == <<currentDataType, addrs, vals, seen>>
tableVars == <<entries, entryCount, freezeValueBuf, asked>>
vars == <<mem, scanVars, tableVars, idx, stored>>

-----------------------------------------------------------------------------
(* The native code's state is allocated by memory.ts and scan.ts, by their *)
(* own idea of the C types, and passed to it.                              *)

(* typedef union _GMutex. *)
SizeOfMutex == LET words == 2 * SizeOf.guint IN
               IF words > SizeOf.gpointer THEN words ELSE SizeOf.gpointer

(* An address, two buffers of eight bytes, four words. *)
SizeOfEntry == SizeOf.gpointer + 2 * (8 * SizeOf.guint8) + 4 * SizeOf.guint32

(* The extern variables of freezer.c. *)
Needed ==
  [entries |-> MaxEntries * SizeOfEntry, entry_count |-> SizeOf.gint,
   running |-> SizeOf.gint, freeze_thread |-> SizeOf.gpointer,
   freeze_mutex |-> SizeOfMutex]

(* Memory.alloc of memory.ts; FREEZE_ENTRY_SIZE is 48. *)
Allocated ==
  [entries |-> 48 * MaxEntries, entry_count |-> 4, running |-> 4,
   freeze_thread |-> 8, freeze_mutex |-> 16]

(* What scan_region and filter_scans write through out_count and           *)
(* out_values_ptr, and read at value_ptr for an element of type t; and     *)
(* what scan.ts allocates for these.                                       *)
ScanNeeded(t) ==
  [out_count |-> SizeOf.gsize, out_values_ptr |-> SizeOf.gpointer,
   value_ptr |-> ScanSizeBytes(t)]

ScanAllocated == [out_count |-> 8, out_values_ptr |-> 8, value_ptr |-> 8]

-----------------------------------------------------------------------------
(* Values and bytes.                                                       *)

(* What the k-th byte of a value counts for: Radix^k. *)
Place[k \in 0..8] == IF k = 0 THEN 1 ELSE Place[k-1] * Radix

(* The k-th byte of v. *)
ByteOf(v, k) == (v \div Place[k]) % Radix

(* The value of w bytes, from bytes[0] up. *)
ValueOf(bytes, w) ==
  LET upTo[k \in 0..w] == IF k = 0 THEN 0 ELSE upTo[k-1] + bytes[k-1] * Place[k-1]
  IN  upTo[w]

ValueAt(m, a, w) == ValueOf([k \in 0..w-1 |-> m[a + k]], w)

(* A GArray of elements of w bytes: element i (from 1) is w bytes of it. *)
ElementAt(array, i, w) == ValueOf([k \in 0..w-1 |-> array[(i - 1) * w + k + 1]], w)

(* A loop over s that calls g_array_append_val in the turns in kept. *)
Appended(s, kept) ==
  LET upTo[n \in 0..Len(s)] ==
        IF n = 0 THEN <<>> ELSE IF n \in kept THEN Append(upTo[n-1], s[n]) ELSE upTo[n-1]
  IN  upTo[Len(s)]

(* g_array_append_val of the element at each address of as, in turn. *)
AppendedFrom(m, as, w) ==
  [j \in 1..(Len(as) * w) |-> m[as[((j - 1) \div w) + 1] + ((j - 1) % w)]]

-----------------------------------------------------------------------------
(* The scanner.                                                            *)

(* The switch of DEFINE_SCAN_HELPER: v was read, x is asked for. *)
ScanMatches(kind, v, x) ==
  \/ kind = "EXACT" /\ v = x
  \/ kind = "LESS_THAN" /\ v < x
  \/ kind = "GREATER_THAN" /\ v > x
  \/ kind = "UNKNOWN"

(* The switch of DEFINE_FILTER_HELPER: old was read by the scan before. *)
FilterMatches(kind, v, x, old) ==
  \/ kind = "EXACT" /\ v = x
  \/ kind = "LESS_THAN" /\ v < x
  \/ kind = "GREATER_THAN" /\ v > x
  \/ kind = "INCREASED" /\ v > old
  \/ kind = "DECREASED" /\ v < old
  \/ kind = "UNCHANGED" /\ v = old

(* region_size: a scan passes over what lies past it in a longer range. *)
ScannedSize == Size % UintModulus

(* Seeded fault: the loop stops before the last element. *)
PositionsShort(w) == [n \in 1..((ScannedSize \div w) - 1) |-> (n - 1) * w]

(* p of the loop of DEFINE_SCAN_HELPER: the alignment is the width. *)
Positions(w) == [n \in 1..(ScannedSize \div w) |-> (n - 1) * w]

(* The value scanned for passes through valuePtr, at the width. *)
Cut(x, w) == x % Place[w]

(* scan_region. *)
ScanRegion(t, kind, x) ==
  LET w == ScanSizeBytes(t)
      p == Positions(w)
  IN  IF w = 0 THEN <<>>
      ELSE Appended(p, {n \in DOMAIN p : ScanMatches(kind, ValueAt(mem, p[n], w), Cut(x, w))})

(* filter_scans: the addresses and the previous values share an index. *)
FilterScans(kind, x) ==
  LET w == ScanSizeBytes(currentDataType) IN
  Appended(addrs, {n \in DOMAIN addrs :
                     FilterMatches(kind, ValueAt(mem, addrs[n], w), Cut(x, w),
                                   ElementAt(vals, n, w))})

(* find_address_in_results. *)
Found(results, a) == \E i \in 1..Len(results) : results[i] = a

(* What a scan leaves: its addresses and, read with them, their values. *)
Keep(as, t) ==
  /\ addrs' = as
  /\ vals' = AppendedFrom(mem, as, ScanSizeBytes(t))
  /\ seen' = IF as = <<>> THEN [a \in Address |-> 0] ELSE mem

(* Seeded fault: the old results are dropped after writeValue, which may   *)
(* throw, not before.                                                      *)
FirstScanDropsLate(t, kind, x) ==
  /\ currentDataType' = t
  /\ IF x = Null /\ t # String
       THEN UNCHANGED <<addrs, vals, seen>>
       ELSE Keep(ScanRegion(t, kind, x), t)
  /\ UNCHANGED <<mem, tableVars, idx, stored>>

(* firstScan drops the old results and takes the new type before writeValue *)
(* may throw, which it does not do for a type it does not know.             *)
FirstScan(t, kind, x) ==
  /\ currentDataType' = t
  /\ Keep(IF x = Null THEN <<>> ELSE ScanRegion(t, kind, x), t)
  /\ UNCHANGED <<mem, tableVars, idx, stored>>

(* nextScan returns at once without results; when writeValue throws, the   *)
(* set is left out of the new results.                                     *)
NextScan(kind, x) ==
  /\ addrs # <<>>
  /\ Keep(IF x = Null THEN <<>> ELSE FilterScans(kind, x), currentDataType)
  /\ UNCHANGED <<mem, currentDataType, tableVars, idx, stored>>

UndoScan ==
  /\ Keep(<<>>, currentDataType)
  /\ UNCHANGED <<mem, currentDataType, tableVars, idx, stored>>

-----------------------------------------------------------------------------
(* The freezer.  A call waits in g_mutex_lock while freeze_loop sweeps.    *)

NoOrder == [address |-> 0, dataType |-> U8, mode |-> 2, value |-> 0]

Live == {i \in Slot : i < entryCount}
SlotsOf(a) == {i \in Live : entries[i].address = a}

(* memcpy(to, from, n) *)
Copied(to, from, n) == [k \in 0..7 |-> IF k < n THEN from[k] ELSE to[k]]

(* writeValue(freezeValueBuf, value, dataType): nothing for an unknown type. *)
BufferWith(o) ==
  Copied(freezeValueBuf, [k \in 0..7 |-> ByteOf(o.value, k)], ScanSizeBytes(o.dataType))

(* Seeded fault: an order's new width is not stored with its new value. *)
EntryOfKeepingSize(old, o) ==
  [old EXCEPT !.address = o.address,
              !.value = Copied(@, BufferWith(o), DataTypeByteSize(o.dataType)),
              !.size = IF old.size = 0 THEN DataTypeByteSize(o.dataType) ELSE old.size,
              !.mode = o.mode,
              !.dataType = o.dataType,
              !.lastWritten = [k \in 0..7 |-> 0]]

(* The assignments of freeze_add to an entry, which keeps the bytes of its *)
(* value past the size.                                                    *)
EntryOf(old, o) ==
  [address     |-> o.address,
   value       |-> Copied(old.value, BufferWith(o), DataTypeByteSize(o.dataType)),
   size        |-> DataTypeByteSize(o.dataType),
   mode        |-> o.mode,
   dataType    |-> o.dataType,
   lastWritten |-> [k \in 0..7 |-> 0]]

(* Seeded fault: the table takes one entry more than it has room for. *)
AddFreezeOver(o) ==
  /\ idx = -1
  /\ freezeValueBuf' = BufferWith(o)
  /\ \/ \E i \in SlotsOf(o.address) :
          /\ entries' = [entries EXCEPT ![i] = EntryOf(@, o)]
          /\ UNCHANGED entryCount
          /\ asked' = [asked EXCEPT ![o.address] = o]
     \/ /\ SlotsOf(o.address) = {} /\ entryCount <= MaxEntries
        /\ entries' = [entries EXCEPT ![entryCount] = EntryOf(@, o)]
        /\ entryCount' = entryCount + 1
        /\ asked' = [asked EXCEPT ![o.address] = o]
  /\ UNCHANGED <<mem, scanVars, idx, stored>>

(* addFreeze: the entry of the address, or a new one, or none in a full    *)
(* table, which nobody is told.                                            *)
AddFreeze(o) ==
  /\ idx = -1
  /\ freezeValueBuf' = BufferWith(o)
  /\ \/ \E i \in SlotsOf(o.address) :
          /\ \A j \in SlotsOf(o.address) : i <= j
          /\ entries' = [entries EXCEPT ![i] = EntryOf(@, o)]
          /\ UNCHANGED entryCount
          /\ asked' = [asked EXCEPT ![o.address] = o]
     \/ /\ SlotsOf(o.address) = {} /\ entryCount < MaxEntries
        /\ entries' = [entries EXCEPT ![entryCount] = EntryOf(@, o)]
        /\ entryCount' = entryCount + 1
        /\ asked' = [asked EXCEPT ![o.address] = o]
     \/ /\ SlotsOf(o.address) = {} /\ entryCount >= MaxEntries
        /\ UNCHANGED <<entries, entryCount, asked>>
  /\ UNCHANGED <<mem, scanVars, idx, stored>>

(* Seeded fault: the last entry is not moved into the slot removed. *)
RemoveFreezeUnmoved(a) ==
  /\ idx = -1
  /\ SlotsOf(a) # {}
  /\ entryCount' = entryCount - 1
  /\ asked' = [asked EXCEPT ![a] = NoOrder]
  /\ UNCHANGED <<mem, scanVars, entries, freezeValueBuf, idx, stored>>

(* freeze_remove moves the last entry into the slot, so overlapping orders *)
(* may change places.                                                      *)
RemoveFreeze(a) ==
  /\ idx = -1
  /\ \E i \in SlotsOf(a) :
       /\ \A j \in SlotsOf(a) : i <= j
       /\ entries' = [entries EXCEPT ![i] = entries[entryCount - 1]]
  /\ entryCount' = entryCount - 1
  /\ asked' = [asked EXCEPT ![a] = NoOrder]
  /\ UNCHANGED <<mem, scanVars, freezeValueBuf, idx, stored>>

ClearFreezeList ==
  /\ idx = -1
  /\ entryCount' = 0
  /\ asked' = [a \in Address |-> NoOrder]
  /\ UNCHANGED <<mem, scanVars, entries, freezeValueBuf, idx, stored>>

BeginSweep ==
  /\ idx = -1
  /\ idx' = 0
  /\ UNCHANGED <<mem, scanVars, tableVars, stored>>

Sweeping(mode) == idx \in Live /\ entries[idx].mode = mode

(* n bytes from address a on become those of from; the game's stores to    *)
(* them are forgotten.                                                     *)
Overwrite(a, from, n) ==
  /\ mem' = [b \in Address |-> IF b \in a..(a + n - 1) THEN from[b - a] ELSE mem[b]]
  /\ stored' = stored \ (a..(a + n - 1))

(* Seeded fault: all of the entry's value is copied. *)
SweepFreezeAll ==
  /\ Sweeping(MODE_FREEZE)
  /\ Overwrite(entries[idx].address, entries[idx].value, 8)
  /\ idx' = idx + 1
  /\ UNCHANGED <<scanVars, tableVars>>

(* MODE_FREEZE *)
SweepFreeze ==
  /\ Sweeping(MODE_FREEZE)
  /\ Overwrite(entries[idx].address, entries[idx].value, entries[idx].size)
  /\ idx' = idx + 1
  /\ UNCHANGED <<scanVars, tableVars>>

(* MODE_SCALE: the width is the data type's, an unknown type does nothing, *)
(* and the product is cut to the width.                                    *)
SweepScale ==
  LET e == entries[idx]
      w == ScanSizeBytes(e.dataType)
      cur == ValueAt(mem, e.address, w)
      last == ValueOf(e.lastWritten, w)
      result == cur * ValueOf(e.value, w)
      bytes == [k \in 0..7 |-> ByteOf(result, k)]
  IN
  /\ Sweeping(MODE_SCALE)
  /\ IF cur = last
       THEN UNCHANGED <<mem, entries, stored>>
       ELSE /\ Overwrite(e.address, bytes, w)
            /\ entries' = [entries EXCEPT ![idx].lastWritten = Copied(@, bytes, w)]
  /\ idx' = idx + 1
  /\ UNCHANGED <<scanVars, entryCount, freezeValueBuf, asked>>

EndSweep ==
  /\ idx = entryCount
  /\ idx' = -1
  /\ stored' = {}
  /\ UNCHANGED <<mem, scanVars, tableVars>>

-----------------------------------------------------------------------------

(* The game, and write-value, store a byte; the same byte again is no step. *)
Store(a, v) ==
  /\ v # mem[a]
  /\ mem' = [mem EXCEPT ![a] = v]
  /\ stored' = IF idx = -1 THEN stored ELSE stored \cup {a}
  /\ UNCHANGED <<scanVars, tableVars, idx>>

Init ==
  /\ mem \in [Address -> Byte]
  /\ currentDataType = U32
  /\ addrs = <<>> /\ vals = <<>>
  /\ entries = [i \in Slot |-> [address |-> 0, value |-> [k \in 0..7 |-> 0], size |-> 0,
                                mode |-> 0, dataType |-> 0,
                                lastWritten |-> [k \in 0..7 |-> 0]]]
  /\ entryCount = 0
  /\ freezeValueBuf = [k \in 0..7 |-> 0]
  /\ idx = -1
  /\ seen = [a \in Address |-> 0]
  /\ asked = [a \in Address |-> NoOrder]
  /\ stored = {}

Scan ==
  \/ \E k \in ScanKinds, x \in ScanValues \cup {Null} :
       (\E t \in Types : FirstScan(t, k, x)) \/ NextScan(k, x)
  \/ UndoScan

Freeze ==
  \/ \E o \in Orders : AddFreeze(o)
  \/ \E a \in Address : RemoveFreeze(a)
  \/ ClearFreezeList

Sweep == BeginSweep \/ SweepFreeze \/ SweepScale \/ EndSweep

Next ==
  \/ Scan \/ Freeze \/ Sweep
  \/ \E a \in Address, v \in Byte : Store(a, v)

Spec == Init /\ [][Next]_vars

-----------------------------------------------------------------------------
(* Type correctness: every buffer keeps its bytes, and the table its       *)
(* entries, whatever the widths of the calls were.                         *)
TypeOK ==
  /\ mem \in [Address -> Byte] /\ seen \in [Address -> Byte]
  /\ currentDataType \in Types \cup {U32}
  /\ addrs \in Seq(Address) /\ vals \in Seq(Byte)
  /\ entries \in [Slot -> [address : Address, value : Buffer, size : 0..8,
                           mode : {MODE_FREEZE, MODE_SCALE}, dataType : U8..String, lastWritten : Buffer]]
  /\ entryCount \in 0..MaxEntries
  /\ freezeValueBuf \in Buffer
  /\ idx \in -1..entryCount
  /\ asked \in [Address -> Orders \cup {NoOrder}]
  /\ stored \subseteq Address

(* The previous value get_scan_results reads for a result, at the width    *)
(* dataTypeByteSize gives the current data type, is what the last scan     *)
(* read at that address: no call, one that throws included, leaves results *)
(* of another type or width behind, and the two buffers of a set and the   *)
(* widths of the two languages stay in step.                               *)
PreviousAsScanned ==
  LET w == DataTypeByteSize(currentDataType) IN
  /\ Len(vals) = Len(addrs) * w
  /\ \A i \in 1..Len(addrs) :
       /\ addrs[i] + w <= Size
       /\ ElementAt(vals, i, w) = ValueAt(seen, addrs[i], w)

(* Each order in force has one entry, and that entry the type, mode, width *)
(* and bytes that were last given for the address, whatever wider or       *)
(* narrower orders the slot, its value bytes and the buffer they come      *)
(* through held before.  An order of a type writeValue does not know has   *)
(* no bytes of its own.                                                    *)
OrderAsGiven ==
  /\ \A i, j \in Live : entries[i].address = entries[j].address => i = j
  /\ \A a \in Address : asked[a] = NoOrder => SlotsOf(a) = {}
  /\ \A a \in Address : asked[a] # NoOrder =>
       \E i \in SlotsOf(a) :
         /\ entries[i].mode = asked[a].mode
         /\ entries[i].dataType = asked[a].dataType
         /\ entries[i].size = DataTypeByteSize(asked[a].dataType)
         /\ \A k \in 0..(ScanSizeBytes(asked[a].dataType) - 1) :
              entries[i].value[k] = ByteOf(asked[a].value, k)

InForce == {asked[a] : a \in Address} \ {NoOrder}

(* When a sweep has visited every entry, each byte that only freeze orders *)
(* cover, and the game has not stored to since, holds the byte one of them *)
(* gives it: no order in force is passed over, none is applied at another  *)
(* width or address.                                                       *)
SweepHolds ==
  idx = entryCount =>
    \A b \in Address \ stored :
      LET covering == {o \in InForce : b \in Extent(o)} IN
      (covering # {} /\ \A o \in covering : o.mode = MODE_FREEZE /\ o.dataType # String)
        => \E o \in covering : mem[b] = ByteOf(o.value, b - o.address)

(* A first scan for the value and type of a freeze order finds its         *)
(* address, at the end of a sweep, when the address is one of the scan's   *)
(* and neither another order nor the game has since stored in the element: *)
(* what writeValue, freeze_add and memcpy carry to memory is what a scan   *)
(* reads there and compares.  In a range of 4 GiB or more the scan is not  *)
(* given the whole of it, and the element has to lie in what it is given.  *)
FrozenIsFound ==
  idx = entryCount =>
    \A o \in InForce :
      /\ o.mode = MODE_FREEZE /\ o.dataType \in ScanSize
      /\ o.address % ScanSizeBytes(o.dataType) = 0
      /\ o.address + ScanSizeBytes(o.dataType) <= ScannedSize
      /\ \A p \in InForce \ {o} : Extent(p) \cap Extent(o) = {}
      /\ Extent(o) \cap stored = {}
      => Found(ScanRegion(o.dataType, "EXACT", o.value), o.address)

(* The freezer thread changes no byte outside the elements somebody asked  *)
(* it to freeze or scale: a width too large would corrupt the neighbours   *)
(* of a frozen value in the running game.                                  *)
SweepConfined ==
  [][idx # -1 /\ idx' # idx =>
       \A b \in Address : mem'[b] # mem[b] => \E o \in InForce : b \in Extent(o)]_vars

=============================================================================
