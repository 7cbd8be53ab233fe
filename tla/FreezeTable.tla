---------------------------- MODULE FreezeTable ----------------------------
(***************************************************************************)
(* What the freezer promises, without its array, its mutex or its sweep:   *)
(* a table from addresses to freeze or scale orders, and one caller.  A    *)
(* request is carried out at once and once, at its own address only, and   *)
(* is refused only by a full table.  An order is obeyed at some time, but  *)
(* nothing is ever written at an address without an order, and nothing but *)
(* the ordered value or the scaled one at an address with one.             *)
(***************************************************************************)
EXTENDS Integers, FiniteSets

CONSTANTS
  Addr,        \* addresses of the target's memory
  NullAddr,    \* the address of a request that has none
  Word,        \* number of values of a cell, 2^w for a w-bit cell
  MaxEntries   \* orders the table has room for

VARIABLES
  mem,         \* the target's memory
  table,       \* the order in force at each address
  request      \* what the caller waits for

vars == <<mem, table, request>>

Val == 0..Word-1
Mode == {"freeze", "scale"}

NotFrozen == [mode |-> "none", value |-> 0, lastWritten |-> 0]

Order(v, m) == [mode |-> m, value |-> v, lastWritten |-> 0]

Frozen == {a \in Addr : table[a] # NotFrozen}

NoRequest == [op |-> "none", address |-> NullAddr, value |-> 0, mode |-> "freeze"]

Request ==
  {r \in [op : {"add", "remove", "clear"}, address : Addr \cup {NullAddr},
          value : Val, mode : Mode] : r.op = "clear" \/ r.address \in Addr}

Init ==
  /\ mem \in [Addr -> Val]
  /\ table = [a \in Addr |-> NotFrozen]
  /\ request = NoRequest

(* The game, and the caller by write-value, store what they like. *)
Store(a) ==
  /\ \E v \in Val : mem' = [mem EXCEPT ![a] = v]
  /\ UNCHANGED <<table, request>>

Ask ==
  /\ request = NoRequest
  /\ request' \in Request
  /\ UNCHANGED <<mem, table>>

Answer ==
  /\ request' = NoRequest
  /\ UNCHANGED mem

(* A new order, or a new value or mode for the order in force. *)
Freeze ==
  /\ request.op = "add"
  /\ request.address \in Frozen \/ Cardinality(Frozen) < MaxEntries
  /\ table' = [table EXCEPT ![request.address] = Order(request.value, request.mode)]
  /\ Answer

Refuse ==
  /\ request.op = "add"
  /\ request.address \notin Frozen /\ Cardinality(Frozen) >= MaxEntries
  /\ UNCHANGED table
  /\ Answer

Unfreeze ==
  /\ request.op = "remove"
  /\ table' = [table EXCEPT ![request.address] = NotFrozen]
  /\ Answer

UnfreezeAll ==
  /\ request.op = "clear"
  /\ table' = [a \in Addr |-> NotFrozen]
  /\ Answer

Hold(a) ==
  /\ table[a].mode = "freeze"
  /\ mem' = [mem EXCEPT ![a] = table[a].value]
  /\ UNCHANGED <<table, request>>

(* The cell may have changed since cur was read from it; the value last    *)
(* written by this order is never the operand.                             *)
Scale(a) ==
  \E cur \in Val \ {table[a].lastWritten} :
    LET result == (cur * table[a].value) % Word IN
    /\ table[a].mode = "scale"
    /\ mem' = [mem EXCEPT ![a] = result]
    /\ table' = [table EXCEPT ![a].lastWritten = result]
    /\ UNCHANGED request

Next ==
  \/ \E a \in Addr : Store(a) \/ Hold(a) \/ Scale(a)
  \/ Ask \/ Freeze \/ Refuse \/ Unfreeze \/ UnfreezeAll

Spec == Init /\ [][Next]_vars

=============================================================================
