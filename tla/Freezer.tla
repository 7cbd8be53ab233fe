------------------------------ MODULE Freezer ------------------------------
(***************************************************************************)
(* The agent's freezer: the native table of native/freezer.c, swept by its *)
(* own thread, and the functions of agent/memory.ts that drive it from the *)
(* agent's JavaScript thread.  The two threads share the table under       *)
(* freeze_mutex; the target's memory they share with the game, under       *)
(* nothing at all.                                                         *)
(*                                                                         *)
(* A cell is an address with one data type: Word = 2^w values for a w-bit  *)
(* integer type, products taken modulo Word as the C types take them.      *)
(* Overlapping cells and floating-point types are not modelled.            *)
(***************************************************************************)
EXTENDS Integers, FiniteSets

CONSTANTS
  Addr,         \* addresses the agent may be asked to freeze
  NullAddr,     \* the address field of a FreezeEntry never written
  Word,         \* 2^w, the number of values of a cell
  MaxEntries,   \* MAX_FREEZE_ENTRIES (64 in the code)
  Operands,     \* freeze values and scale factors callers pass
  GameValues,   \* values the game stores
  StopCalled    \* whether somebody calls freeze_stop; memory.ts binds it
                \* (native_freeze_stop) and calls it nowhere

Val == 0..Word-1

ASSUME ConstantsAssumption ==
  /\ NullAddr \notin Addr
  /\ Word \in Nat \ {0}
  /\ MaxEntries \in Nat \ {0}
  /\ Operands \subseteq Val
  /\ GameValues \subseteq Val
  /\ StopCalled \in BOOLEAN

VARIABLES
  mem,          \* the target's memory
  entries,      \* entries[MAX_FREEZE_ENTRIES]; slots from entryCount on are stale
  entryCount,   \* entry_count
  mutex,        \* owner of freeze_mutex
  running,      \* running
  started,      \* freezeThreadStarted of memory.ts
  jsPc,         \* where the JavaScript thread is in its call
  call,         \* the call it is serving
  loopPc,       \* where the freat-freezer thread is in freeze_loop
  count,        \* freeze_loop's local copy of entry_count
  idx,          \* its i
  cur           \* the value scale_entry read

jsVars   == <<started, jsPc, call>>
loopVars == <<loopPc, count, idx, cur>>
tableVars == <<entries, entryCount>>
vars == <<mem, tableVars, mutex, running, jsVars, loopVars>>

Slot == 0..MaxEntries-1

Live == {i \in Slot : i < entryCount}

(* Seeded fault: the search for an address stops one entry early. *)
SlotsOfShort(a) == {i \in Live : i < entryCount - 1 /\ entries[i].address = a}

SlotsOf(a) == {i \in Live : entries[i].address = a}

NoCall == [op |-> "none", address |-> NullAddr, value |-> 0, mode |-> "freeze"]

(* One slot: value is the freeze value or the scale factor. *)
Entry(a, v, m) == [address |-> a, value |-> v, mode |-> m, lastWritten |-> 0]

Init ==
  /\ mem \in [Addr -> GameValues]
  /\ entries = [i \in Slot |-> Entry(NullAddr, 0, "freeze")]
  /\ entryCount = 0
  /\ mutex = "none"
  /\ running = FALSE
  /\ started = FALSE
  /\ jsPc = "idle"
  /\ call = NoCall
  /\ loopPc = "absent"
  /\ count = 0
  /\ idx = 0
  /\ cur = 0

-----------------------------------------------------------------------------
(* The game's own threads. *)

GameStore(a, v) ==
  /\ mem' = [mem EXCEPT ![a] = v]
  /\ UNCHANGED <<tableVars, mutex, running, jsVars, loopVars>>

-----------------------------------------------------------------------------
(* The JavaScript thread.  It serves one call at a time and blocks in      *)
(* g_mutex_lock while the sweep holds freeze_mutex.                        *)

(* addFreeze starts the thread on its first call, freeze_start once only. *)
FreezeStart ==
  /\ started' = TRUE
  /\ IF started \/ running
       THEN UNCHANGED <<running, loopPc>>
       ELSE running' = TRUE /\ loopPc' = "top"

AddFreeze(a, v, m) ==
  /\ jsPc = "idle"
  /\ FreezeStart
  /\ call' = [op |-> "add", address |-> a, value |-> v, mode |-> m]
  /\ jsPc' = "lock"
  /\ UNCHANGED <<mem, tableVars, mutex, count, idx, cur>>

(* A value writeValue cannot convert (null, from a row never read) throws  *)
(* between the two native calls: the thread runs, nothing is added.        *)
AddFreezeThrows ==
  /\ jsPc = "idle"
  /\ FreezeStart
  /\ UNCHANGED <<mem, tableVars, mutex, jsPc, call, count, idx, cur>>

(* write-value and its batch form store from the same thread, outside the *)
(* table and its mutex.                                                    *)
WriteValue(a, v) ==
  /\ jsPc = "idle"
  /\ mem' = [mem EXCEPT ![a] = v]
  /\ UNCHANGED <<tableVars, mutex, running, jsVars, loopVars>>

RemoveFreeze(a) ==
  /\ jsPc = "idle"
  /\ call' = [NoCall EXCEPT !.op = "remove", !.address = a]
  /\ jsPc' = "lock"
  /\ UNCHANGED <<mem, tableVars, mutex, running, started, loopVars>>

ClearFreezeList ==
  /\ jsPc = "idle"
  /\ call' = [NoCall EXCEPT !.op = "clear"]
  /\ jsPc' = "lock"
  /\ UNCHANGED <<mem, tableVars, mutex, running, started, loopVars>>

(* Seeded fault: a call enters its section while the sweep is in its own. *)
JsLockAnyway ==
  /\ jsPc = "lock"
  /\ mutex' = "js"
  /\ jsPc' = "held"
  /\ UNCHANGED <<mem, tableVars, running, started, call, loopVars>>

JsLock ==
  /\ jsPc = "lock"
  /\ mutex = "none"
  /\ mutex' = "js"
  /\ jsPc' = "held"
  /\ UNCHANGED <<mem, tableVars, running, started, call, loopVars>>

(* The end of every critical section of the calls below. *)
JsUnlock ==
  /\ mutex' = "none"
  /\ jsPc' = "idle"
  /\ call' = NoCall

(* freeze_add, an entry has the address: replace all of it but the address. *)
FreezeAddUpdate ==
  /\ jsPc = "held" /\ call.op = "add"
  /\ \E i \in SlotsOf(call.address) :
       /\ \A j \in SlotsOf(call.address) : i <= j
       /\ entries' = [entries EXCEPT ![i] = Entry(call.address, call.value, call.mode)]
  /\ JsUnlock
  /\ UNCHANGED <<mem, entryCount, running, started, loopVars>>

(* Seeded fault: the capacity test is off by one. *)
FreezeAddAppendOver ==
  /\ jsPc = "held" /\ call.op = "add"
  /\ SlotsOf(call.address) = {}
  /\ entryCount <= MaxEntries
  /\ entries' = [entries EXCEPT ![entryCount] = Entry(call.address, call.value, call.mode)]
  /\ entryCount' = entryCount + 1
  /\ JsUnlock
  /\ UNCHANGED <<mem, running, started, loopVars>>

FreezeAddAppend ==
  /\ jsPc = "held" /\ call.op = "add"
  /\ SlotsOf(call.address) = {}
  /\ entryCount < MaxEntries
  /\ entries' = [entries EXCEPT ![entryCount] = Entry(call.address, call.value, call.mode)]
  /\ entryCount' = entryCount + 1
  /\ JsUnlock
  /\ UNCHANGED <<mem, running, started, loopVars>>

(* The table is full: the call returns as if it had added. *)
FreezeAddFull ==
  /\ jsPc = "held" /\ call.op = "add"
  /\ SlotsOf(call.address) = {}
  /\ entryCount >= MaxEntries
  /\ JsUnlock
  /\ UNCHANGED <<mem, tableVars, running, started, loopVars>>

(* Seeded fault: the last entry is not moved into the slot removed. *)
FreezeRemoveUnmoved ==
  /\ jsPc = "held" /\ call.op = "remove"
  /\ SlotsOf(call.address) # {}
  /\ entryCount' = entryCount - 1
  /\ JsUnlock
  /\ UNCHANGED <<mem, entries, running, started, loopVars>>

(* freeze_remove moves the last entry into the slot it empties. *)
FreezeRemove ==
  /\ jsPc = "held" /\ call.op = "remove"
  /\ \E i \in SlotsOf(call.address) :
       /\ \A j \in SlotsOf(call.address) : i <= j
       /\ entries' = IF i < entryCount - 1
                       THEN [entries EXCEPT ![i] = entries[entryCount - 1]]
                       ELSE entries
  /\ entryCount' = entryCount - 1
  /\ JsUnlock
  /\ UNCHANGED <<mem, running, started, loopVars>>

FreezeRemoveAbsent ==
  /\ jsPc = "held" /\ call.op = "remove"
  /\ SlotsOf(call.address) = {}
  /\ JsUnlock
  /\ UNCHANGED <<mem, tableVars, running, started, loopVars>>

FreezeClear ==
  /\ jsPc = "held" /\ call.op = "clear"
  /\ entryCount' = 0
  /\ JsUnlock
  /\ UNCHANGED <<mem, entries, running, started, loopVars>>

(* Seeded fault: the join is made with freeze_mutex held. *)
FreezeStopLocked ==
  /\ StopCalled
  /\ jsPc = "idle"
  /\ running
  /\ mutex = "none"
  /\ running' = FALSE
  /\ mutex' = "js"
  /\ jsPc' = "join"
  /\ UNCHANGED <<mem, tableVars, started, call, loopVars>>

(* freeze_stop clears running and joins the thread without the mutex. *)
FreezeStop ==
  /\ StopCalled
  /\ jsPc = "idle"
  /\ running
  /\ running' = FALSE
  /\ jsPc' = "join"
  /\ UNCHANGED <<mem, tableVars, mutex, started, call, loopVars>>

FreezeJoin ==
  /\ jsPc = "join"
  /\ loopPc = "done"
  /\ jsPc' = "idle"
  /\ UNCHANGED <<mem, tableVars, mutex, running, started, call, loopVars>>

-----------------------------------------------------------------------------
(* The freat-freezer thread. *)

(* while (running), read without the mutex. *)
LoopTop ==
  /\ loopPc = "top"
  /\ loopPc' = IF running THEN "lock" ELSE "done"
  /\ UNCHANGED <<mem, tableVars, mutex, running, jsVars, count, idx, cur>>

(* Seeded fault: the sweep starts at its second entry. *)
LoopLockSkipFirst ==
  /\ loopPc = "lock"
  /\ mutex = "none"
  /\ mutex' = "freezer"
  /\ loopPc' = "sweep"
  /\ count' = entryCount
  /\ idx' = IF entryCount = 0 THEN 0 ELSE 1
  /\ UNCHANGED <<mem, tableVars, running, jsVars, cur>>

LoopLock ==
  /\ loopPc = "lock"
  /\ mutex = "none"
  /\ mutex' = "freezer"
  /\ loopPc' = "sweep"
  /\ count' = entryCount
  /\ idx' = 0
  /\ UNCHANGED <<mem, tableVars, running, jsVars, cur>>

SweepFreeze ==
  /\ loopPc = "sweep" /\ idx < count
  /\ entries[idx].mode = "freeze"
  /\ mem' = [mem EXCEPT ![entries[idx].address] = entries[idx].value]
  /\ idx' = idx + 1
  /\ UNCHANGED <<tableVars, mutex, running, jsVars, loopPc, count, cur>>

(* scale_entry reads the cell, and leaves it alone when it still holds     *)
(* what this entry wrote last.                                             *)
SweepScaleRead ==
  /\ loopPc = "sweep" /\ idx < count
  /\ entries[idx].mode = "scale"
  /\ LET read == mem[entries[idx].address] IN
       IF read = entries[idx].lastWritten
         THEN /\ idx' = idx + 1
              /\ UNCHANGED <<loopPc, cur>>
         ELSE /\ cur' = read
              /\ loopPc' = "scaling"
              /\ UNCHANGED idx
  /\ UNCHANGED <<mem, tableVars, mutex, running, jsVars, count>>

(* Seeded fault: the result is not remembered in last_written. *)
SweepScaleForget ==
  LET result == (cur * entries[idx].value) % Word IN
  /\ loopPc = "scaling"
  /\ mem' = [mem EXCEPT ![entries[idx].address] = result]
  /\ idx' = idx + 1
  /\ loopPc' = "sweep"
  /\ cur' = 0
  /\ UNCHANGED <<tableVars, mutex, running, jsVars, count>>

(* The game may have stored since the read: its value is overwritten. *)
SweepScaleWrite ==
  LET result == (cur * entries[idx].value) % Word IN
  /\ loopPc = "scaling"
  /\ mem' = [mem EXCEPT ![entries[idx].address] = result]
  /\ entries' = [entries EXCEPT ![idx].lastWritten = result]
  /\ idx' = idx + 1
  /\ loopPc' = "sweep"
  /\ cur' = 0
  /\ UNCHANGED <<entryCount, mutex, running, jsVars, count>>

LoopUnlock ==
  /\ loopPc = "sweep" /\ idx >= count
  /\ mutex' = "none"
  /\ loopPc' = "top"
  /\ count' = 0
  /\ idx' = 0
  /\ UNCHANGED <<mem, tableVars, running, jsVars, cur>>

-----------------------------------------------------------------------------

JsCall ==
  \/ \E a \in Addr :
       \/ \E v \in Operands, m \in {"freeze", "scale"} : AddFreeze(a, v, m)
       \/ \E v \in Operands : WriteValue(a, v)
       \/ RemoveFreeze(a)
  \/ AddFreezeThrows
  \/ ClearFreezeList
  \/ FreezeStop

JsCritical ==
  \/ FreezeAddUpdate \/ FreezeAddAppend \/ FreezeAddFull
  \/ FreezeRemove \/ FreezeRemoveAbsent
  \/ FreezeClear

Sweep == SweepFreeze \/ SweepScaleRead \/ SweepScaleWrite \/ LoopUnlock

GameStep == \E a \in Addr, v \in GameValues : GameStore(a, v)

Next ==
  \/ GameStep
  \/ JsCall \/ JsLock \/ JsCritical \/ FreezeJoin
  \/ LoopTop \/ LoopLock \/ Sweep

(* Both threads are scheduled; a thread waiting in g_mutex_lock gets the   *)
(* mutex in the end, because every holder leaves its section and the sweep *)
(* sleeps (g_usleep) with the mutex free.  Nobody has to make a call and   *)
(* the game has to do nothing.                                             *)
Fairness ==
  /\ WF_vars(LoopTop)
  /\ SF_vars(LoopLock)
  /\ WF_vars(Sweep)
  /\ SF_vars(JsLock)
  /\ WF_vars(JsCritical)
  /\ WF_vars(FreezeJoin)

Spec == Init /\ [][Next]_vars

FairSpec == Spec /\ Fairness

-----------------------------------------------------------------------------
(* Type correctness: every variable of the freezer keeps its range. *)
TypeOK ==
  /\ mem \in [Addr -> Val]
  /\ entries \in [Slot -> [address : Addr \cup {NullAddr}, value : Val,
                           mode : {"freeze", "scale"}, lastWritten : Val]]
  /\ entryCount \in 0..MaxEntries
  /\ mutex \in {"none", "js", "freezer"}
  /\ running \in BOOLEAN
  /\ started \in BOOLEAN
  /\ jsPc \in {"idle", "lock", "held", "join"}
  /\ call \in [op : {"none", "add", "remove", "clear"},
               address : Addr \cup {NullAddr}, value : Val, mode : {"freeze", "scale"}]
  /\ call.op \in {"add", "remove"} => call.address \in Addr
  /\ loopPc \in {"absent", "top", "lock", "sweep", "scaling", "done"}
  /\ count \in 0..MaxEntries
  /\ idx \in 0..MaxEntries
  /\ cur \in Val

(* freeze_mutex has the owner the two threads' positions say: a call is in *)
(* its critical section, or freeze_loop is among the entries, never both;  *)
(* and freeze_start, which initialises the mutex, cannot be reached while  *)
(* there is a freezer thread that could own it.                            *)
MutualExclusion ==
  /\ jsPc = "held" <=> mutex = "js"
  /\ loopPc \in {"sweep", "scaling"} <=> mutex = "freezer"
  /\ ~started => ~running /\ loopPc = "absent"

(* No address is in two live entries: otherwise freeze_remove, which       *)
(* removes the first, would leave the sweep writing at a removed address.  *)
(* It depends on update-in-place, on swap-remove and on the stale slots    *)
(* past entry_count being out of every search.                             *)
UniqueAddresses ==
  \A i, j \in Live : entries[i].address = entries[j].address => i = j

(* While freeze_loop is among the entries, its copy of entry_count is the  *)
(* table's and the entry under its index is one somebody asked for: no     *)
(* call shrinks or reorders the table under a sweep, and a scale result is *)
(* stored through the entry it was computed from.                          *)
SweepSeesTable ==
  /\ loopPc \in {"sweep", "scaling"} => count = entryCount /\ idx <= count
  /\ loopPc = "scaling" =>
       /\ idx < count
       /\ entries[idx].mode = "scale"
       /\ entries[idx].lastWritten # cur
  /\ \A i \in Live : entries[i].address \in Addr

(* The table the caller sees through freeze_add, freeze_remove and         *)
(* freeze_clear, whatever slots its orders are in.                         *)
TableOf ==
  [a \in Addr |->
     IF SlotsOf(a) = {} THEN [mode |-> "none", value |-> 0, lastWritten |-> 0]
     ELSE LET e == entries[CHOOSE i \in SlotsOf(a) : TRUE] IN
          [mode |-> e.mode, value |-> e.value, lastWritten |-> e.lastWritten]]

Abstract == INSTANCE FreezeTable WITH table <- TableOf, request <- call

(* The array, the mutex and the sweep implement the table of orders: a     *)
(* call changes the order at its own address only and is refused only when *)
(* the table is full, and the freezer writes only where an order is in     *)
(* force and only what it orders.                                          *)
ImplementsTable == Abstract!Spec

(* "last written value to prevent no-stop multiplications when scaling"    *)
(* (freezer.c): unless calls or game stores go on for ever, the freezer    *)
(* stops changing memory, so a scale order is not applied to its own       *)
(* results again and again.                                                *)
NoEndlessScaling ==
  \/ []<><<GameStep \/ JsCall>>_vars
  \/ <>[][UNCHANGED mem]_vars

(* A frozen cell is brought to its value however often the game stores     *)
(* there, unless the order is changed, removed or the thread stopped.      *)
FrozenValueHeld ==
  \A a \in Addr, v \in Operands :
    (TableOf[a].mode = "freeze" /\ TableOf[a].value = v)
      ~> (mem[a] = v \/ TableOf[a].mode # "freeze" \/ TableOf[a].value # v \/ ~running)

(* Every call into the freezer returns: the sweep always gives the mutex   *)
(* back, and joining the thread cannot wait for a thread that waits for    *)
(* the joiner.                                                             *)
CallsReturn == (jsPc # "idle") ~> (jsPc = "idle")

=============================================================================
