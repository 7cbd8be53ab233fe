--------------------------- MODULE FreezerProofs ---------------------------
(***************************************************************************)
(* The freezer's safety, for every set of addresses, word size and table   *)
(* size, and that it implements the table of orders of FreezeTable.        *)
(***************************************************************************)
EXTENDS Freezer, FiniteSetTheorems, TLAPS

(* Unique addresses alone are not inductive: an append keeps them because  *)
(* the sweep cannot be between two entries then, and a sweep keeps its     *)
(* place because no call runs, which is what the mutex is for.             *)
IInv == TypeOK /\ MutualExclusion /\ UniqueAddresses /\ SweepSeesTable

-----------------------------------------------------------------------------

(* A product taken modulo the word is a value of a cell. *)
LEMMA ProductIsVal ==
  ASSUME NEW m \in Val, NEW n \in Val
  PROVE  (m * n) % Word \in Val
<1>1. m \in Nat /\ n \in Nat
  BY ConstantsAssumption DEF Val
<1>2. m * n \in Nat
  BY <1>1
<1> DEFINE p == m * n
<1>3. p % Word \in 0..Word-1
  <2> HIDE DEF p
  <2> QED BY <1>2, ConstantsAssumption DEF p
<1> QED BY <1>3 DEF Val

(* The initial state satisfies the invariant. *)
LEMMA InitIInv == Init => IInv
<1> SUFFICES ASSUME Init PROVE IInv
  OBVIOUS
<1> USE ConstantsAssumption
<1>1. 0 \in Val
  BY DEF Val
<1>2. entries \in [Slot -> [address : Addr \cup {NullAddr}, value : Val,
                            mode : {"freeze", "scale"}, lastWritten : Val]]
  BY <1>1 DEF Init, Entry
<1>3. NoCall \in [op : {"none", "add", "remove", "clear"},
                  address : Addr \cup {NullAddr}, value : Val, mode : {"freeze", "scale"}]
  BY <1>1 DEF NoCall
<1>4. mem \in [Addr -> Val]
  <2>1. mem \in [Addr -> GameValues] /\ GameValues \subseteq Val
    BY DEF Init
  <2> QED BY <2>1
<1>5. TypeOK
  <2>1. call = NoCall /\ call.op = "none"
    BY DEF Init, NoCall
  <2>2. 0 \in 0..MaxEntries
    OBVIOUS
  <2>3. /\ entryCount \in 0..MaxEntries /\ count \in 0..MaxEntries
        /\ idx \in 0..MaxEntries /\ cur \in Val
    BY <1>1, <2>2 DEF Init
  <2>4. /\ mutex \in {"none", "js", "freezer"} /\ running \in BOOLEAN /\ started \in BOOLEAN
        /\ jsPc \in {"idle", "lock", "held", "join"}
        /\ loopPc \in {"absent", "top", "lock", "sweep", "scaling", "done"}
    BY DEF Init
  <2> QED BY <1>2, <1>3, <1>4, <2>1, <2>3, <2>4 DEF TypeOK
<1>6. MutualExclusion
  BY DEF Init, MutualExclusion
<1>7. UniqueAddresses /\ SweepSeesTable
  BY DEF Init, UniqueAddresses, SweepSeesTable, Live, Slot
<1> QED BY <1>5, <1>6, <1>7 DEF IInv

-----------------------------------------------------------------------------
(* Each kind of step preserves the invariant. *)

LEMMA GameIInv ==
  ASSUME IInv, GameStep
  PROVE  IInv'
<1> PICK a \in Addr, v \in GameValues : GameStore(a, v)
  BY DEF GameStep
<1>1. mem' \in [Addr -> Val]
  BY ConstantsAssumption DEF GameStore, IInv, TypeOK
<1> QED
  BY <1>1 DEF GameStore, IInv, TypeOK, MutualExclusion, UniqueAddresses,
              SweepSeesTable, Live, Slot, tableVars, jsVars, loopVars

(* Outside its critical section a call touches neither the table nor the  *)
(* sweep's place in it; it may start the thread.                           *)
LEMMA OutsideIInv ==
  ASSUME IInv,
         UNCHANGED <<tableVars, count, idx, cur>>,
         mem' \in [Addr -> Val],
         started' \in BOOLEAN, running' \in BOOLEAN,
         ~started' => ~running' /\ loopPc' = "absent",
         jsPc' \in {"idle", "lock", "held", "join"},
         call' \in [op : {"none", "add", "remove", "clear"},
                    address : Addr \cup {NullAddr}, value : Val, mode : {"freeze", "scale"}],
         call'.op \in {"add", "remove"} => call'.address \in Addr,
         loopPc' = loopPc \/ (loopPc \notin {"sweep", "scaling"} /\ loopPc' = "top"),
         \/ mutex' = mutex /\ (jsPc' = "held" <=> jsPc = "held")
         \/ mutex = "none" /\ mutex' = "js" /\ jsPc' = "held"
  PROVE  IInv'
<1>1. TypeOK'
  BY DEF IInv, TypeOK, tableVars
<1>2. MutualExclusion'
  BY DEF IInv, MutualExclusion
<1>3. UniqueAddresses' /\ SweepSeesTable'
  BY DEF IInv, UniqueAddresses, SweepSeesTable, Live, Slot, tableVars
<1> QED BY <1>1, <1>2, <1>3 DEF IInv

(* FreezeStart starts a thread that is not running, or changes nothing. *)
LEMMA StartIInv ==
  ASSUME IInv, FreezeStart
  PROVE  /\ started' = TRUE /\ running' \in BOOLEAN
         /\ \/ loopPc' = loopPc
            \/ loopPc \notin {"sweep", "scaling"} /\ loopPc' = "top"
<1>1. CASE started \/ running
  BY <1>1 DEF IInv, TypeOK, FreezeStart
<1>2. CASE ~(started \/ running)
  BY <1>2 DEF IInv, TypeOK, MutualExclusion, FreezeStart
<1> QED BY <1>1, <1>2

LEMMA CallIInv ==
  ASSUME IInv, JsCall \/ JsLock \/ FreezeJoin
  PROVE  IInv'
<1> USE ConstantsAssumption
<1> DEFINE Calls == [op : {"none", "add", "remove", "clear"}, address : Addr \cup {NullAddr},
                     value : Val, mode : {"freeze", "scale"}]
<1>0. /\ call \in Calls /\ (call.op \in {"add", "remove"} => call.address \in Addr)
      /\ mem \in [Addr -> Val] /\ started \in BOOLEAN /\ running \in BOOLEAN
      /\ jsPc \in {"idle", "lock", "held", "join"}
      /\ loopPc \in {"sweep", "scaling"} <=> mutex = "freezer"
      /\ jsPc = "held" <=> mutex = "js"
      /\ ~started => ~running /\ loopPc = "absent"
      /\ 0 \in Val
  BY DEF IInv, TypeOK, MutualExclusion, Val
<1>1. ASSUME NEW a \in Addr, NEW v \in Operands, NEW m \in {"freeze", "scale"},
             AddFreeze(a, v, m)
      PROVE  IInv'
  BY <1>0, <1>1, StartIInv, OutsideIInv DEF AddFreeze, loopVars
<1>2. ASSUME NEW a \in Addr, NEW v \in Operands, WriteValue(a, v)
      PROVE  IInv'
  BY <1>0, <1>2, OutsideIInv DEF WriteValue, jsVars, loopVars
<1>3. ASSUME NEW a \in Addr, RemoveFreeze(a)
      PROVE  IInv'
  <2>1. call' = [op |-> "remove", address |-> a, value |-> 0, mode |-> "freeze"]
    BY <1>3 DEF RemoveFreeze, NoCall
  <2> QED BY <1>0, <1>3, <2>1, OutsideIInv DEF RemoveFreeze, loopVars
<1>4. CASE AddFreezeThrows
  BY <1>0, <1>4, StartIInv, OutsideIInv DEF AddFreezeThrows
<1>5. CASE ClearFreezeList
  <2>1. call' = [op |-> "clear", address |-> NullAddr, value |-> 0, mode |-> "freeze"]
    BY <1>5 DEF ClearFreezeList, NoCall
  <2>2. call' \in Calls /\ call'.op \notin {"add", "remove"}
    BY <1>0, <2>1
  <2>3. /\ UNCHANGED <<mem, tableVars, mutex, running, started, loopPc, count, idx, cur>>
        /\ jsPc = "idle" /\ jsPc' = "lock"
    BY <1>5 DEF ClearFreezeList, loopVars
  <2> QED BY <1>0, <2>2, <2>3, OutsideIInv
<1>6. CASE FreezeStop
  BY <1>0, <1>6, OutsideIInv DEF FreezeStop, loopVars
<1>7. CASE JsLock
  BY <1>0, <1>7, OutsideIInv DEF JsLock, loopVars
<1>8. CASE FreezeJoin
  BY <1>0, <1>8, OutsideIInv DEF FreezeJoin, loopVars
<1>9. CASE \E a \in Addr :
              \/ \E v \in Operands, m \in {"freeze", "scale"} : AddFreeze(a, v, m)
              \/ \E v \in Operands : WriteValue(a, v)
              \/ RemoveFreeze(a)
  BY <1>1, <1>2, <1>3, <1>9
<1> QED BY <1>4, <1>5, <1>6, <1>7, <1>8, <1>9 DEF JsCall

(* A call inside its section finds the sweep outside its own. *)
LEMMA CriticalIInv ==
  ASSUME IInv, JsCritical
  PROVE  IInv'
<1> USE ConstantsAssumption
<1>1. /\ jsPc = "held" /\ mutex = "js" /\ loopPc \notin {"sweep", "scaling"}
      /\ mutex' = "none" /\ jsPc' = "idle" /\ call' = NoCall
      /\ UNCHANGED <<mem, running, started, loopVars>>
  BY DEF IInv, MutualExclusion, TypeOK, JsCritical, JsUnlock, FreezeAddUpdate,
         FreezeAddAppend, FreezeAddFull, FreezeRemove, FreezeRemoveAbsent,
         FreezeClear, tableVars
<1>2. MutualExclusion'
  BY <1>1 DEF IInv, MutualExclusion, loopVars
<1>3. /\ entries' \in [Slot -> [address : Addr \cup {NullAddr}, value : Val,
                                mode : {"freeze", "scale"}, lastWritten : Val]]
      /\ entryCount' \in 0..MaxEntries
      /\ UniqueAddresses'
      /\ \A i \in Live' : entries'[i].address \in Addr
  <2> USE DEF IInv, TypeOK, UniqueAddresses, SweepSeesTable, Live, Slot, SlotsOf, Entry, Val
  <2>1. CASE FreezeAddUpdate
    BY <2>1 DEF FreezeAddUpdate
  <2>2. CASE FreezeAddAppend
    <3> DEFINE new == Entry(call.address, call.value, call.mode)
    <3>1. entryCount \in Slot /\ call.address \in Addr
      BY <2>2 DEF FreezeAddAppend
    <3>2. \A i \in Live : entries[i].address # call.address
      BY <2>2 DEF FreezeAddAppend
    <3>3. entries' = [entries EXCEPT ![entryCount] = new] /\ entryCount' = entryCount + 1
      BY <2>2 DEF FreezeAddAppend
    <3>4. /\ new \in [address : Addr \cup {NullAddr}, value : Val,
                     mode : {"freeze", "scale"}, lastWritten : Val]
          /\ new.address = call.address
      OBVIOUS
    <3>5. Live' = Live \cup {entryCount} /\ entryCount \notin Live
      BY <3>1, <3>3
    <3> HIDE DEF new
    <3> QED BY <3>1, <3>2, <3>3, <3>4, <3>5
  <2>3. CASE FreezeAddFull \/ FreezeRemoveAbsent
    <3>1. UNCHANGED <<entries, entryCount>>
      BY <2>3 DEF FreezeAddFull, FreezeRemoveAbsent, tableVars
    <3> QED BY <3>1
  <2>4. CASE FreezeRemove
    BY <2>4 DEF FreezeRemove
  <2>5. CASE FreezeClear
    BY <2>5 DEF FreezeClear
  <2> QED BY <2>1, <2>2, <2>3, <2>4, <2>5 DEF JsCritical
<1>4. TypeOK'
  BY <1>1, <1>3 DEF IInv, TypeOK, NoCall, Val, loopVars
<1>5. SweepSeesTable'
  BY <1>1, <1>3 DEF SweepSeesTable, loopVars
<1> QED BY <1>2, <1>3, <1>4, <1>5 DEF IInv

(* The freezer thread writes only cells and the last_written of the entry  *)
(* it is at, and only while it owns the mutex.                             *)
LEMMA LoopIInv ==
  ASSUME IInv, LoopTop \/ LoopLock \/ Sweep
  PROVE  IInv'
<1> USE ConstantsAssumption DEF IInv, TypeOK, MutualExclusion, UniqueAddresses,
      SweepSeesTable, Live, Slot, tableVars, jsVars, loopVars
<1>1. CASE LoopTop
  BY <1>1 DEF LoopTop
<1>2. CASE LoopLock
  BY <1>2 DEF LoopLock
<1>3. CASE SweepFreeze
  BY <1>3 DEF SweepFreeze
<1>4. CASE SweepScaleRead
  BY <1>4 DEF SweepScaleRead
<1>5. CASE SweepScaleWrite
  <2> DEFINE result == (cur * entries[idx].value) % Word
  <2>1. result \in Val
    BY <1>5, ProductIsVal DEF SweepScaleWrite
  <2> HIDE DEF result
  <2>2. /\ mem' = [mem EXCEPT ![entries[idx].address] = result]
        /\ entries' = [entries EXCEPT ![idx].lastWritten = result]
        /\ idx' = idx + 1 /\ loopPc' = "sweep" /\ cur' = 0
        /\ loopPc = "scaling" /\ idx < count
        /\ UNCHANGED <<entryCount, mutex, running, started, jsPc, call, count>>
    BY <1>5 DEF SweepScaleWrite, result
  <2>3. entries[idx] \in [address : Addr \cup {NullAddr}, value : Val,
                          mode : {"freeze", "scale"}, lastWritten : Val]
    BY <2>2
  <2>4. entries' \in [Slot -> [address : Addr \cup {NullAddr}, value : Val,
                              mode : {"freeze", "scale"}, lastWritten : Val]]
    BY <2>1, <2>2, <2>3
  <2>5. \A i \in Slot : entries'[i].address = entries[i].address
    BY <2>2
  <2>6. TypeOK'
    BY <2>1, <2>2, <2>4 DEF Val
  <2>7. MutualExclusion'
    BY <2>2
  <2>8. UniqueAddresses'
    BY <2>2, <2>5
  <2>9. SweepSeesTable'
    BY <2>2, <2>5
  <2> QED BY <2>6, <2>7, <2>8, <2>9
<1>6. CASE LoopUnlock
  BY <1>6 DEF LoopUnlock
<1> QED BY <1>1, <1>2, <1>3, <1>4, <1>5, <1>6 DEF Sweep

LEMMA StepIInv == IInv /\ [Next]_vars => IInv'
<1> SUFFICES ASSUME IInv, [Next]_vars PROVE IInv'
  OBVIOUS
<1>1. CASE UNCHANGED vars
  BY <1>1 DEF vars, IInv, TypeOK, MutualExclusion, UniqueAddresses,
              SweepSeesTable, Live, Slot, tableVars, jsVars, loopVars
<1>2. CASE Next
  BY <1>2, GameIInv, CallIInv, CriticalIInv, LoopIInv DEF Next
<1> QED BY <1>1, <1>2

THEOREM Invariance == Spec => []IInv
<1> QED BY InitIInv, StepIInv, PTL DEF Spec

(* A call is being served from its start to the end of its section. *)
NoCallOutside == jsPc \in {"idle", "join"} => call = NoCall

LEMMA CallsServed == Spec => []NoCallOutside
<1>1. Init => NoCallOutside
  BY DEF Init, NoCallOutside
<1>2. NoCallOutside /\ [Next]_vars => NoCallOutside'
  <2> SUFFICES ASSUME NoCallOutside, [Next]_vars PROVE NoCallOutside'
    OBVIOUS
  <2> USE DEF NoCallOutside
  <2>1. CASE JsCall
    BY <2>1 DEF JsCall, AddFreeze, AddFreezeThrows, WriteValue, RemoveFreeze,
                ClearFreezeList, FreezeStop, jsVars
  <2>2. CASE JsLock \/ FreezeJoin
    BY <2>2 DEF JsLock, FreezeJoin
  <2>3. CASE JsCritical
    BY <2>3 DEF JsCritical, JsUnlock, FreezeAddUpdate, FreezeAddAppend, FreezeAddFull,
                FreezeRemove, FreezeRemoveAbsent, FreezeClear
  <2>4. CASE GameStep \/ LoopTop \/ LoopLock \/ Sweep
    BY <2>4 DEF GameStep, GameStore, LoopTop, LoopLock, Sweep, SweepFreeze, SweepScaleRead,
                SweepScaleWrite, LoopUnlock, jsVars
  <2>5. CASE UNCHANGED vars
    BY <2>5 DEF vars, jsVars
  <2> QED BY <2>1, <2>2, <2>3, <2>4, <2>5 DEF Next
<1> QED BY <1>1, <1>2, PTL DEF Spec

(* freeze_mutex is held by the thread that is in its critical section, and *)
(* by nobody else.                                                         *)
THEOREM MutexIsExclusive == Spec => []MutualExclusion
<1>1. IInv => MutualExclusion
  BY DEF IInv
<1> QED BY Invariance, <1>1, PTL

(* Every variable keeps its range, whatever the sizes. *)
THEOREM TypesHold == Spec => []TypeOK
<1>1. IInv => TypeOK
  BY DEF IInv
<1> QED BY Invariance, <1>1, PTL

(* No sequence of freeze_add, freeze_remove and freeze_clear puts one      *)
(* address in two live entries.                                            *)
THEOREM AddressesUnique == Spec => []UniqueAddresses
<1>1. IInv => UniqueAddresses
  BY DEF IInv
<1> QED BY Invariance, <1>1, PTL

(* The sweep's copy of entry_count, and the entry it is at, are the        *)
(* table's as long as it is among the entries.                             *)
THEOREM SweepConsistent == Spec => []SweepSeesTable
<1>1. IInv => SweepSeesTable
  BY DEF IInv
<1> QED BY Invariance, <1>1, PTL

-----------------------------------------------------------------------------
(* The refinement. *)

OrderIn(i) == [mode |-> entries[i].mode, value |-> entries[i].value,
               lastWritten |-> entries[i].lastWritten]

(* An address's order is the one of the only live entry that has it. *)
LEMMA TableAtSlot ==
  ASSUME UniqueAddresses, NEW i \in Live, entries[i].address \in Addr
  PROVE  TableOf[entries[i].address] = OrderIn(i)
<1>1. SlotsOf(entries[i].address) = {i}
  BY DEF UniqueAddresses, SlotsOf
<1> QED BY <1>1 DEF TableOf, OrderIn

LEMMA TableAtNone ==
  ASSUME NEW a \in Addr, SlotsOf(a) = {}
  PROVE  TableOf[a] = Abstract!NotFrozen
<1> QED BY DEF TableOf, Abstract!NotFrozen

(* Each order is in one slot, so there are as many orders as entries. *)
LEMMA FrozenCount ==
  ASSUME IInv
  PROVE  Cardinality(Abstract!Frozen) = entryCount
<1> DEFINE S == 0..entryCount-1
           f == [i \in S |-> entries[i].address]
<1> USE ConstantsAssumption
<1>1. entryCount \in Nat /\ Live = S
  BY DEF IInv, TypeOK, Live, Slot
<1>2. f \in Bijection(S, Abstract!Frozen)
  <2>1. ASSUME NEW i \in S PROVE f[i] \in Abstract!Frozen
    <3>1. entries[i].address \in Addr /\ entries[i].mode \in {"freeze", "scale"}
      BY <1>1 DEF IInv, TypeOK, SweepSeesTable, Live, Slot
    <3>2. TableOf[entries[i].address] = OrderIn(i)
      BY <1>1, <3>1, TableAtSlot DEF IInv
    <3>3. TableOf[entries[i].address] # Abstract!NotFrozen
      BY <3>1, <3>2 DEF OrderIn, Abstract!NotFrozen
    <3>4. f[i] = entries[i].address
      OBVIOUS
    <3> QED BY <3>1, <3>3, <3>4 DEF Abstract!Frozen
  <2>2. ASSUME NEW a \in Abstract!Frozen PROVE \E i \in S : f[i] = a
    <3>1. a \in Addr /\ TableOf[a] # Abstract!NotFrozen
      BY DEF Abstract!Frozen
    <3>2. SlotsOf(a) # {}
      BY <3>1, TableAtNone
    <3> QED BY <1>1, <3>2 DEF SlotsOf
  <2>3. \A i, j \in S : f[i] = f[j] => i = j
    BY <1>1 DEF IInv, UniqueAddresses
  <2> QED BY <2>1, <2>2, <2>3 DEF Bijection, Injection, Surjection, IsInjective
<1>3. IsFiniteSet(S) /\ Cardinality(S) = entryCount
  BY <1>1, FS_Interval
<1> HIDE DEF S, f
<1>4. Cardinality(Abstract!Frozen) = Cardinality(S)
  BY <1>2, <1>3, FS_Bijection DEF ExistsBijection
<1> QED BY <1>3, <1>4

(* No order is in force before the first call. *)
LEMMA InitRefines == Init => Abstract!Init
<1> SUFFICES ASSUME Init PROVE Abstract!Init
  OBVIOUS
<1>1. mem \in [Addr -> Abstract!Val]
  <2>1. mem \in [Addr -> GameValues] /\ GameValues \subseteq Val
    BY ConstantsAssumption DEF Init
  <2> QED BY <2>1 DEF Val, Abstract!Val
<1>2. \A a \in Addr : SlotsOf(a) = {}
  BY ConstantsAssumption DEF Init, SlotsOf, Live, Slot
<1>3. TableOf = [a \in Addr |-> Abstract!NotFrozen]
  BY <1>2, TableAtNone DEF TableOf
<1>4. call = Abstract!NoRequest
  BY DEF Init, NoCall, Abstract!NoRequest
<1> QED BY <1>1, <1>3, <1>4 DEF Abstract!Init

(* A step that touches no entry gives and takes no order. *)
LEMMA SameTable ==
  ASSUME UNCHANGED tableVars
  PROVE  TableOf' = TableOf
<1> QED BY DEF tableVars, TableOf, SlotsOf, Live

(* A live entry is typed, and it is the order in force at its address. *)
LEMMA SlotFacts ==
  ASSUME IInv, NEW i \in Live
  PROVE  /\ i \in Slot /\ entries[i].address \in Addr
         /\ entries[i].mode \in {"freeze", "scale"}
         /\ entries[i].value \in Val /\ entries[i].lastWritten \in Val
         /\ TableOf[entries[i].address] = OrderIn(i)
<1> QED BY TableAtSlot DEF IInv, TypeOK, SweepSeesTable, Live

(* The new order of freeze_add is the abstract Freeze, in whatever slot.  *)
LEMMA AddRefines ==
  ASSUME IInv, IInv', FreezeAddUpdate \/ FreezeAddAppend
  PROVE  Abstract!Freeze
<1> DEFINE new == Entry(call.address, call.value, call.mode)
<1>1. /\ call.op = "add" /\ call.address \in Addr /\ call.value \in Val
      /\ call.mode \in {"freeze", "scale"} /\ mem' = mem /\ call' = Abstract!NoRequest
  BY DEF IInv, TypeOK, FreezeAddUpdate, FreezeAddAppend, JsUnlock, NoCall, Abstract!NoRequest
<1>2. PICK k \in Slot :
        /\ entries' = [entries EXCEPT ![k] = new]
        /\ Live' = Live \cup {k}
        /\ k \in Live => entries[k].address = call.address
        /\ k \notin Live => SlotsOf(call.address) = {}
  <2>1. CASE FreezeAddUpdate
    BY <2>1 DEF FreezeAddUpdate, SlotsOf, Live
  <2>2. CASE FreezeAddAppend
    <3>1. entryCount \in Slot
      BY <2>2, ConstantsAssumption DEF FreezeAddAppend, IInv, TypeOK, Slot
    <3>2. entries' = [entries EXCEPT ![entryCount] = new] /\ entryCount' = entryCount + 1
      BY <2>2 DEF FreezeAddAppend
    <3>3. Live' = Live \cup {entryCount} /\ entryCount \notin Live
      BY <3>1, <3>2, ConstantsAssumption DEF Live, Slot
    <3> QED BY <2>2, <3>1, <3>2, <3>3 DEF FreezeAddAppend
  <2> QED BY <2>1, <2>2
<1>3. /\ entries'[k] = new /\ new.address = call.address
      /\ \A i \in Live' : i # k => i \in Live /\ entries'[i] = entries[i]
  BY <1>2 DEF IInv, TypeOK, Live, Entry
<1>4. \A a \in Addr :
        TableOf'[a] = [TableOf EXCEPT ![call.address] = Abstract!Order(call.value, call.mode)][a]
  <2> TAKE a \in Addr
  <2>1. CASE a = call.address
    <3>1. SlotsOf(a)' = {k}
      BY <1>2, <1>3, <2>1 DEF IInv, UniqueAddresses, SlotsOf
    <3> QED BY <1>1, <1>3, <2>1, <3>1 DEF TableOf, Entry, Abstract!Order
  <2>2. CASE a # call.address
    <3>1. SlotsOf(a)' = SlotsOf(a) /\ k \notin SlotsOf(a)
      BY <1>2, <1>3, <2>2 DEF SlotsOf
    <3>2. \A i \in SlotsOf(a) : entries'[i] = entries[i]
      BY <1>2, <1>3, <3>1 DEF SlotsOf
    <3>3. TableOf'[a] = TableOf[a]
      BY <3>1, <3>2 DEF TableOf
    <3> QED BY <2>2, <3>3 DEF TableOf
  <2> QED BY <2>1, <2>2
<1>5. TableOf' = [TableOf EXCEPT ![call.address] = Abstract!Order(call.value, call.mode)]
  BY <1>4 DEF TableOf
<1>6. call.address \in Abstract!Frozen \/ Cardinality(Abstract!Frozen) < MaxEntries
  <2>1. CASE FreezeAddUpdate
    <3>1. PICK i \in Live : entries[i].address = call.address
      BY <2>1 DEF FreezeAddUpdate, SlotsOf
    <3>2. TableOf[call.address] = OrderIn(i) /\ entries[i].mode \in {"freeze", "scale"}
      BY <3>1, SlotFacts
    <3>3. TableOf[call.address] # Abstract!NotFrozen
      BY <3>2 DEF OrderIn, Abstract!NotFrozen
    <3> QED BY <1>1, <3>3 DEF Abstract!Frozen
  <2>2. CASE FreezeAddAppend
    <3>1. entryCount < MaxEntries /\ entryCount \in Nat /\ MaxEntries \in Nat
      BY <2>2, ConstantsAssumption DEF FreezeAddAppend, IInv, TypeOK
    <3> QED BY <3>1, FrozenCount
  <2> QED BY <2>1, <2>2
<1>7. Abstract!Cardinality(Abstract!Frozen) = Cardinality(Abstract!Frozen)
  BY DEF Abstract!Cardinality, Cardinality
<1> QED BY <1>1, <1>5, <1>6, <1>7 DEF Abstract!Freeze, Abstract!Answer

(* An order is dropped only when every slot holds another address's. *)
LEMMA FullRefines ==
  ASSUME IInv, FreezeAddFull
  PROVE  Abstract!Refuse
<1>1. /\ call.op = "add" /\ mem' = mem /\ call' = Abstract!NoRequest
      /\ TableOf' = TableOf
  BY SameTable DEF FreezeAddFull, JsUnlock, NoCall, Abstract!NoRequest
<1>2. call.address \notin Abstract!Frozen
  BY TableAtNone DEF FreezeAddFull, Abstract!Frozen
<1>3. Cardinality(Abstract!Frozen) >= MaxEntries
  BY FrozenCount DEF FreezeAddFull
<1>4. Abstract!Cardinality(Abstract!Frozen) = Cardinality(Abstract!Frozen)
  BY DEF Abstract!Cardinality, Cardinality
<1> QED BY <1>1, <1>2, <1>3, <1>4 DEF Abstract!Refuse, Abstract!Answer

(* The order at a removed address goes; the entry moved into its slot      *)
(* keeps its own, and so do the others.                                    *)
LEMMA RemoveRefines ==
  ASSUME IInv, IInv', FreezeRemove
  PROVE  Abstract!Unfreeze
<1> DEFINE last == entryCount - 1
<1>1. /\ call.op = "remove" /\ call.address \in Addr
      /\ mem' = mem /\ call' = Abstract!NoRequest
      /\ entryCount \in Nat /\ entryCount <= MaxEntries /\ MaxEntries \in Nat
  BY ConstantsAssumption DEF IInv, TypeOK, FreezeRemove, JsUnlock, NoCall, Abstract!NoRequest
<1>2. PICK k \in Live :
        /\ entries[k].address = call.address
        /\ entries' = IF k < last THEN [entries EXCEPT ![k] = entries[last]] ELSE entries
        /\ entryCount' = last
  BY DEF FreezeRemove, SlotsOf
<1>3. /\ k \in Slot /\ k < entryCount /\ k \in Nat
      /\ last \in Live /\ Live' = Live \ {last}
  BY <1>1, <1>2 DEF Live, Slot
<1>4. /\ \A i \in Live' : i # k => entries'[i] = entries[i]
      /\ k # last => entries'[k] = entries[last] /\ k \in Live'
  BY <1>1, <1>2, <1>3 DEF IInv, TypeOK, Live
<1>5. \A a \in Addr :
        TableOf'[a] = [TableOf EXCEPT ![call.address] = Abstract!NotFrozen][a]
  <2> TAKE a \in Addr
  <2>1. CASE a = call.address
    <3>1. SlotsOf(a)' = {}
      BY <1>2, <1>3, <1>4, <2>1 DEF IInv, UniqueAddresses, SlotsOf
    <3> QED BY <1>1, <2>1, <3>1 DEF TableOf, Abstract!NotFrozen
  <2>2. CASE a # call.address /\ SlotsOf(a) = {}
    <3>1. SlotsOf(a)' = {}
      BY <1>2, <1>3, <1>4, <2>2 DEF SlotsOf
    <3> QED BY <2>2, <3>1 DEF TableOf
  <2>3. CASE a # call.address /\ SlotsOf(a) # {}
    <3>1. PICK i \in Live : entries[i].address = a
      BY <2>3 DEF SlotsOf
    <3>2. PICK j \in Live' : entries'[j] = entries[i]
      BY <1>2, <1>3, <1>4, <2>3, <3>1
    <3>3. TableOf[a] = OrderIn(i)
      BY <3>1, SlotFacts
    <3>4. SlotsOf(a)' = {j}
      BY <3>1, <3>2 DEF IInv, UniqueAddresses, SlotsOf
    <3>5. TableOf'[a] = OrderIn(j)'
      BY <3>4 DEF TableOf, OrderIn
    <3>6. OrderIn(j)' = OrderIn(i)
      BY <3>2 DEF OrderIn
    <3> QED BY <2>3, <3>3, <3>5, <3>6 DEF TableOf
  <2> QED BY <2>1, <2>2, <2>3
<1>6. TableOf' = [TableOf EXCEPT ![call.address] = Abstract!NotFrozen]
  BY <1>5 DEF TableOf
<1> QED BY <1>1, <1>6 DEF Abstract!Unfreeze, Abstract!Answer

(* An address without an order keeps none. *)
LEMMA AbsentRefines ==
  ASSUME IInv, FreezeRemoveAbsent
  PROVE  Abstract!Unfreeze
<1>1. /\ call.op = "remove" /\ call.address \in Addr
      /\ mem' = mem /\ call' = Abstract!NoRequest /\ TableOf' = TableOf
  BY SameTable DEF IInv, TypeOK, FreezeRemoveAbsent, JsUnlock, NoCall, Abstract!NoRequest
<1>2. TableOf[call.address] = Abstract!NotFrozen
  BY <1>1, TableAtNone DEF FreezeRemoveAbsent
<1>3. TableOf = [TableOf EXCEPT ![call.address] = Abstract!NotFrozen]
  BY <1>1, <1>2 DEF TableOf
<1> QED BY <1>1, <1>3 DEF Abstract!Unfreeze, Abstract!Answer

LEMMA ClearRefines ==
  ASSUME IInv, FreezeClear
  PROVE  Abstract!UnfreezeAll
<1>1. \A a \in Addr : SlotsOf(a)' = {}
  BY DEF FreezeClear, SlotsOf, Live, Slot
<1>2. TableOf' = [a \in Addr |-> Abstract!NotFrozen]
  BY <1>1 DEF TableOf, Abstract!NotFrozen
<1>3. call.op = "clear" /\ mem' = mem /\ call' = Abstract!NoRequest
  BY DEF FreezeClear, JsUnlock, NoCall, Abstract!NoRequest
<1> QED BY <1>2, <1>3 DEF Abstract!UnfreezeAll, Abstract!Answer

(* A call of the agent is a request for what its section will do. *)
LEMMA CallRefines ==
  ASSUME IInv, NoCallOutside,
         \/ \E a \in Addr, v \in Operands, m \in {"freeze", "scale"} : AddFreeze(a, v, m)
         \/ \E a \in Addr : RemoveFreeze(a)
         \/ ClearFreezeList
  PROVE  Abstract!Ask
<1>1. /\ call = Abstract!NoRequest /\ mem' = mem /\ TableOf' = TableOf
  BY SameTable DEF AddFreeze, RemoveFreeze, ClearFreezeList, NoCallOutside, NoCall,
                   Abstract!NoRequest
<1>2. call' \in Abstract!Request
  <2> USE ConstantsAssumption DEF Abstract!Request, Abstract!Val, Abstract!Mode, Val
  <2>1. 0 \in Abstract!Val
    OBVIOUS
  <2>2. CASE \E a \in Addr, v \in Operands, m \in {"freeze", "scale"} : AddFreeze(a, v, m)
    <3>1. PICK a \in Addr, v \in Operands, m \in {"freeze", "scale"} :
            call' = [op |-> "add", address |-> a, value |-> v, mode |-> m]
      BY <2>2 DEF AddFreeze
    <3> QED BY <3>1
  <2>3. CASE \E a \in Addr : RemoveFreeze(a)
    <3>1. PICK a \in Addr :
            call' = [op |-> "remove", address |-> a, value |-> 0, mode |-> "freeze"]
      BY <2>3 DEF RemoveFreeze, NoCall
    <3> QED BY <2>1, <3>1
  <2>4. CASE ClearFreezeList
    <3>1. call' = [op |-> "clear", address |-> NullAddr, value |-> 0, mode |-> "freeze"]
      BY <2>4 DEF ClearFreezeList, NoCall
    <3> QED BY <2>1, <3>1
  <2> QED BY <2>2, <2>3, <2>4
<1> QED BY <1>1, <1>2 DEF Abstract!Ask

LEMMA HoldRefines ==
  ASSUME IInv, SweepFreeze
  PROVE  Abstract!Hold(entries[idx].address)
<1>1. idx \in Live /\ entries[idx].mode = "freeze"
  BY ConstantsAssumption DEF IInv, TypeOK, MutualExclusion, SweepSeesTable, SweepFreeze, Live, Slot
<1>2. TableOf[entries[idx].address] = OrderIn(idx) /\ TableOf' = TableOf
  BY <1>1, SlotFacts, SameTable DEF SweepFreeze
<1> QED BY <1>1, <1>2 DEF SweepFreeze, jsVars, OrderIn, Abstract!Hold

(* The product is stored through the entry whose operand and last_written  *)
(* were read, because no call runs while the sweep is at it.               *)
LEMMA ScaleRefines ==
  ASSUME IInv, IInv', SweepScaleWrite
  PROVE  Abstract!Scale(entries[idx].address)
<1> DEFINE result == (cur * entries[idx].value) % Word
           addr == entries[idx].address
<1>1. /\ idx \in Live /\ entries[idx].mode = "scale" /\ entries[idx].lastWritten # cur
      /\ cur \in Val
  BY ConstantsAssumption DEF IInv, TypeOK, SweepSeesTable, SweepScaleWrite, Live, Slot
<1>2. /\ TableOf[addr] = OrderIn(idx) /\ addr \in Addr /\ idx \in Slot
      /\ entries[idx] \in [address : Addr \cup {NullAddr}, value : Val,
                           mode : {"freeze", "scale"}, lastWritten : Val]
  BY <1>1, SlotFacts DEF IInv, TypeOK
<1>3. /\ mem' = [mem EXCEPT ![addr] = result]
      /\ entries' = [entries EXCEPT ![idx].lastWritten = result]
      /\ entryCount' = entryCount
  BY DEF SweepScaleWrite
<1>4. /\ entries'[idx] = [entries[idx] EXCEPT !.lastWritten = result]
      /\ \A i \in Slot : i # idx => entries'[i] = entries[i]
      /\ \A i \in Slot : entries'[i].address = entries[i].address
      /\ Live' = Live
  BY <1>2, <1>3 DEF IInv, TypeOK, Live
<1> HIDE DEF result
<1>5. \A a \in Addr : TableOf'[a] = [TableOf EXCEPT ![addr].lastWritten = result][a]
  <2> TAKE a \in Addr
  <2>1. SlotsOf(a)' = SlotsOf(a)
    BY <1>4 DEF SlotsOf, Live
  <2>2. CASE a = addr
    <3>1. SlotsOf(a) = {idx}
      BY <1>1, <2>2 DEF IInv, UniqueAddresses, SlotsOf
    <3>2. TableOf'[a] = [mode |-> entries'[idx].mode, value |-> entries'[idx].value,
                         lastWritten |-> entries'[idx].lastWritten]
      BY <2>1, <3>1 DEF TableOf
    <3>3. TableOf'[a] = [OrderIn(idx) EXCEPT !.lastWritten = result]
      BY <1>2, <1>4, <3>2 DEF OrderIn
    <3> QED BY <1>2, <2>2, <3>3 DEF TableOf
  <2>3. CASE a # addr
    <3>1. \A i \in SlotsOf(a) : entries'[i] = entries[i]
      BY <1>4, <2>3 DEF SlotsOf, Live
    <3>2. TableOf'[a] = TableOf[a]
      BY <2>1, <3>1 DEF TableOf
    <3> QED BY <2>3, <3>2 DEF TableOf
  <2> QED BY <2>2, <2>3
<1>6. TableOf' = [TableOf EXCEPT ![addr].lastWritten = result]
  BY <1>5 DEF TableOf
<1>7. /\ cur \in Abstract!Val \ {TableOf[addr].lastWritten}
      /\ TableOf[addr].mode = "scale" /\ TableOf[addr].value = entries[idx].value
  BY <1>1, <1>2 DEF OrderIn, Abstract!Val, Val
<1>8. call' = call
  BY DEF SweepScaleWrite, jsVars
<1> QED BY <1>3, <1>6, <1>7, <1>8 DEF Abstract!Scale, result

(* Every step of the freezer is one of the table's or leaves it alone. *)
LEMMA StepRefines ==
  IInv /\ IInv' /\ NoCallOutside /\ [Next]_vars => [Abstract!Next]_(Abstract!vars)
<1> SUFFICES ASSUME IInv, IInv', NoCallOutside, [Next]_vars
             PROVE [Abstract!Next]_(Abstract!vars)
  OBVIOUS
<1> DEFINE Stutter == UNCHANGED <<mem, tableVars, call>>
<1>1. CASE Stutter
  BY <1>1, SameTable DEF Abstract!vars
<1>2. ASSUME NEW a \in Addr, NEW v \in Val, mem' = [mem EXCEPT ![a] = v],
             UNCHANGED <<tableVars, call>>
      PROVE  Abstract!Next
  BY <1>2, SameTable DEF Abstract!Next, Abstract!Store, Abstract!Val, Val
<1>3. CASE GameStep
  BY <1>2, <1>3, ConstantsAssumption DEF GameStep, GameStore, jsVars
<1>4. CASE JsCall \/ JsLock \/ FreezeJoin \/ LoopTop \/ LoopLock
  <2>1. ASSUME NEW a \in Addr, NEW v \in Operands, WriteValue(a, v) PROVE Abstract!Next
    BY <1>2, <2>1, ConstantsAssumption DEF WriteValue, jsVars
  <2>2. CASE \/ \E a \in Addr, v \in Operands, m \in {"freeze", "scale"} : AddFreeze(a, v, m)
             \/ \E a \in Addr : RemoveFreeze(a)
             \/ ClearFreezeList
    BY <2>2, CallRefines DEF Abstract!Next
  <2>3. CASE AddFreezeThrows \/ FreezeStop \/ JsLock \/ FreezeJoin \/ LoopTop \/ LoopLock
    BY <1>1, <2>3 DEF AddFreezeThrows, FreezeStop, JsLock, FreezeJoin, LoopTop, LoopLock, jsVars
  <2> QED BY <1>4, <2>1, <2>2, <2>3 DEF JsCall
<1>5. CASE JsCritical
  BY <1>5, AddRefines, FullRefines, RemoveRefines, AbsentRefines, ClearRefines
     DEF JsCritical, Abstract!Next
<1>6. CASE Sweep
  <2>1. CASE SweepFreeze
    <3>1. entries[idx].address \in Addr
      BY <2>1, ConstantsAssumption DEF SweepFreeze, IInv, TypeOK, SweepSeesTable, Live, Slot
    <3> QED BY <2>1, <3>1, HoldRefines DEF Abstract!Next
  <2>2. CASE SweepScaleWrite
    <3>1. entries[idx].address \in Addr
      BY <2>2, ConstantsAssumption DEF SweepScaleWrite, IInv, TypeOK, SweepSeesTable, Live, Slot
    <3> QED BY <2>2, <3>1, ScaleRefines DEF Abstract!Next
  <2>3. CASE SweepScaleRead \/ LoopUnlock
    BY <1>1, <2>3 DEF SweepScaleRead, LoopUnlock, jsVars
  <2> QED BY <1>6, <2>1, <2>2, <2>3 DEF Sweep
<1>7. CASE UNCHANGED vars
  BY <1>1, <1>7 DEF vars, jsVars
<1> QED BY <1>3, <1>4, <1>5, <1>6, <1>7 DEF Next

(* The array with its mutex and its sweep implements the table of orders:  *)
(* a call of memory.ts changes the order at its own address only and is    *)
(* refused only by a full table, and the freezer writes only where an      *)
(* order is in force and only what that order says.                        *)
THEOREM FreezerImplementsTable == Spec => ImplementsTable
<1>1. Spec => Abstract!Init /\ [][Abstract!Next]_(Abstract!vars)
  BY InitRefines, StepRefines, Invariance, CallsServed, PTL DEF Spec
<1> QED BY <1>1 DEF ImplementsTable, Abstract!Spec

=============================================================================
