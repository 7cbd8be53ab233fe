----------------------------- MODULE CheatTable -----------------------------
(***************************************************************************)
(* What the user asked for against what is done: the rows of the cheat     *)
(* table (main.gd), the hub's watch list (hub.py) and the agent's freezer, *)
(* taken as FreezeTable.                                                   *)
(*                                                                         *)
(* The GUI changes its rows at once and only then tells the hub; nothing   *)
(* is acknowledged.  Messages of one connection arrive in order.  After a  *)
(* connection is lost, the hub may still work through what it had received *)
(* while the handler of the next connection is at work.  How the hub       *)
(* attaches and detaches step by step is in Hub; here each is one step.    *)
(* What the rows show of the target's memory is in LiveView.               *)
(***************************************************************************)
EXTENDS Integers, Sequences, FiniteSets, Functions, FiniteSetsExt

CONSTANTS
  Addr,        \* addresses of the target
  Others,      \* those that other UIs freeze, and this GUI has no row for
  NullAddr,    \* the address of a request that has none
  Word,        \* number of values of a cell
  MaxEntries,  \* orders the freezer has room for
  Type,        \* data types
  NoType,      \* the type of a row that is not there
  MaxConn,     \* bound: connections the GUI makes; the last one stays
  MaxUp        \* bound: messages the hub has not dealt with

VARIABLES
  table,       \* the freezer's orders
  request,     \* the freezer call the agent has not answered
  rows,        \* the cheat table: the row of each address
  conn,        \* the GUI's latest connection
  linked,      \* RPCManager._is_connected
  up,          \* what each connection brings the hub
  caller,      \* the handler that waits for the freezer call
  attached,    \* Hub.agent is not None
  watchList,   \* Hub.watch_list
  unwatched,   \* ghost: addresses some watch message of which was lost
  unheld       \* ghost: addresses some freeze message or order of which was lost

freezer == <<table, request>>
gui == <<rows, conn, linked>>
hub == <<caller, attached, watchList>>
ghosts == <<unwatched, unheld>>
vars == <<freezer, gui, up, hub, ghosts>>

(* The freezer, as far as its callers see it: what the orders do to the    *)
(* memory of the target changes neither rows nor orders.                   *)
F == INSTANCE FreezeTable WITH mem <- [a \in Addr |-> 0]

RowAddr == Addr \ Others

Conn == 1..MaxConn
NoConn == 0
OtherConn == MaxConn + 1

ASSUME CheatTableAssumption ==
  /\ MaxConn \in Nat \ {0} /\ MaxUp \in Nat
  /\ Word \in Nat \ {0} /\ MaxEntries \in Nat
  /\ Others \subseteq Addr /\ NullAddr \notin Addr /\ NoType \notin Type

(* A row's order is its freeze_mode if it is frozen.  What the mode of a    *)
(* row is that is not frozen shows nowhere.                                *)
NoRow == [type |-> NoType, order |-> "none"]
Row == [type : Type, order : F!Mode \cup {"none"}]
Rows == {a \in RowAddr : rows[a] # NoRow}

WatchMessage == [op : {"watch", "unwatch"}, address : RowAddr, type : Type]
FreezeMessage == [op : {"freeze"}, address : RowAddr, value : F!Val, mode : F!Mode]
                   \cup [op : {"unfreeze"}, address : RowAddr]
Message == WatchMessage \cup FreezeMessage

(* Addresses that watch messages, or freeze messages, of q are about. *)
Watching(q) == {q[i].address : i \in {j \in 1..Len(q) : q[j] \in WatchMessage}}
Freezing(q) == {q[i].address : i \in {j \in 1..Len(q) : q[j] \in FreezeMessage}}

Init ==
  /\ F!Init
  /\ rows = [a \in RowAddr |-> NoRow]
  /\ conn = 1 /\ linked = TRUE
  /\ up = [c \in Conn |-> <<>>]
  /\ caller = NoConn /\ attached = TRUE /\ watchList = {}
  /\ unwatched = {} /\ unheld = {}

-----------------------------------------------------------------------------
(* The GUI.                                                                *)

Backlog == SumFunctionOnSet([c \in Conn |-> Len(up[c])], Conn)

(* RPCManager.send_message, for the messages of one callback: without a    *)
(* connection they are dropped, and the caller is not told.                *)
Send(messages) ==
  IF linked
    THEN /\ Backlog + Len(messages) <= MaxUp
         /\ up' = [up EXCEPT ![conn] = @ \o messages]
         /\ UNCHANGED ghosts
    ELSE /\ unwatched' = unwatched \cup Watching(messages)
         /\ unheld' = unheld \cup Freezing(messages)
         /\ UNCHANGED up

WatchOf(op, a, row) == [op |-> op, address |-> a, type |-> row.type]
FreezeOf(a, row, bits) ==
  [op |-> "freeze", address |-> a, value |-> bits, mode |-> row.order]
UnfreezeOf(a) == [op |-> "unfreeze", address |-> a]

GuiDone == UNCHANGED <<freezer, conn, linked, hub>>

(* A scan result, with the type the scan controls show. *)
AddRow(a) ==
  /\ a \notin Rows
  /\ \E row \in [type : Type, order : {"none"}] :
       /\ rows' = [rows EXCEPT ![a] = row]
       /\ Send(<<WatchOf("watch", a, row)>>)
  /\ GuiDone

(* An entry of a file that was saved; the frozen ones are frozen again.    *)
LoadEntry(a) ==
  /\ a \notin Rows
  /\ \E row \in Row, bits \in F!Val :
       /\ rows' = [rows EXCEPT ![a] = row]
       /\ Send(<<WatchOf("watch", a, row)>>
               \o IF row.order # "none" THEN <<FreezeOf(a, row, bits)>> ELSE <<>>)
  /\ GuiDone

(* Freezing a row changes its record and sends that, with whatever number  *)
(* the row shows or the dialog was given.                                  *)
FreezeRow(a, mode) ==
  LET row == [rows[a] EXCEPT !.order = mode] IN
  /\ a \in Rows
  /\ rows' = [rows EXCEPT ![a] = row]
  /\ \E bits \in F!Val : Send(<<FreezeOf(a, row, bits)>>)
  /\ GuiDone

FreezeToCurrentValue(a) == rows[a].order = "none" /\ FreezeRow(a, "freeze")

(* For a value to hold or a factor to scale by; the row may be frozen      *)
(* already.                                                                *)
FreezeDialog(a) == \E mode \in F!Mode : FreezeRow(a, mode)

UnfreezeRow(a) ==
  /\ rows[a].order # "none"
  /\ rows' = [rows EXCEPT ![a].order = "none"]
  /\ Send(<<UnfreezeOf(a)>>)
  /\ GuiDone

(* Seeded fault: the unfreeze of a removed row is forgotten. *)
RemoveRowFrozen(a) ==
  /\ a \in Rows
  /\ rows' = [rows EXCEPT ![a] = NoRow]
  /\ Send(<<WatchOf("unwatch", a, rows[a])>>)
  /\ GuiDone

(* Seeded fault: a row is unwatched with the type the scan controls show.  *)
RemoveRowMistyped(a) ==
  /\ a \in Rows
  /\ rows' = [rows EXCEPT ![a] = NoRow]
  /\ \E t \in Type :
       Send(<<[op |-> "unwatch", address |-> a, type |-> t]>>
            \o IF rows[a].order # "none" THEN <<UnfreezeOf(a)>> ELSE <<>>)
  /\ GuiDone

RemoveRow(a) ==
  /\ a \in Rows
  /\ rows' = [rows EXCEPT ![a] = NoRow]
  /\ Send(<<WatchOf("unwatch", a, rows[a])>>
          \o IF rows[a].order # "none" THEN <<UnfreezeOf(a)>> ELSE <<>>)
  /\ GuiDone

-----------------------------------------------------------------------------
(* The connection.                                                         *)

Disconnect ==
  /\ linked /\ conn < MaxConn
  /\ linked' = FALSE
  /\ unwatched' = unwatched \cup Watching(up[conn])
  /\ unheld' = unheld \cup Freezing(up[conn])
  /\ UNCHANGED <<freezer, rows, conn, up, hub>>

Reconnect ==
  /\ ~linked
  /\ linked' = TRUE
  /\ conn' = conn + 1
  /\ UNCHANGED <<freezer, rows, up, hub, ghosts>>

Closed(c) == c # conn \/ ~linked

(* What of a closed connection has not arrived never does. *)
LoseRest(c) ==
  /\ Closed(c) /\ caller # c
  /\ up[c] # <<>>
  /\ up' = [up EXCEPT ![c] = <<>>]
  /\ UNCHANGED <<freezer, gui, hub, ghosts>>

-----------------------------------------------------------------------------
(* The hub's handlers.  Each deals with the messages of its connection one *)
(* after the other.                                                        *)

Takes(c, messages) ==
  /\ caller # c
  /\ up[c] # <<>> /\ Head(up[c]) \in messages

Taken(c) == up' = [up EXCEPT ![c] = Tail(@)]

HubWatches(c) ==
  LET pair == <<Head(up[c]).address, Head(up[c]).type>> IN
  /\ attached /\ Takes(c, WatchMessage)
  /\ watchList' = IF Head(up[c]).op = "watch" THEN watchList \cup {pair}
                                              ELSE watchList \ {pair}
  /\ Taken(c)
  /\ UNCHANGED <<freezer, gui, caller, attached, ghosts>>

(* Seeded fault: the mode is left out, and is taken for freeze.            *)
HubFreezesModeless(c) ==
  LET message == Head(up[c]) IN
  /\ attached /\ Takes(c, FreezeMessage)
  /\ caller = NoConn
  /\ caller' = c
  /\ request' = IF message.op = "freeze"
                  THEN [op |-> "add", address |-> message.address,
                        value |-> message.value, mode |-> "freeze"]
                  ELSE [F!NoRequest EXCEPT !.op = "remove", !.address = message.address]
  /\ UNCHANGED <<table, gui, up, attached, watchList, ghosts>>

(* The handler awaits the agent.  Handlers of several connections may have *)
(* calls with it at once, which its one JavaScript thread takes one by     *)
(* one.  A call that waits there for its turn is here a message its        *)
(* handler has not taken yet: they come in any order, and if a detach      *)
(* fails the call, HubRejects loses the message the same.                  *)
HubFreezes(c) ==
  LET message == Head(up[c]) IN
  /\ attached /\ Takes(c, FreezeMessage)
  /\ caller = NoConn
  /\ caller' = c
  /\ request' = IF message.op = "freeze"
                  THEN [op |-> "add", address |-> message.address,
                        value |-> message.value, mode |-> message.mode]
                  ELSE [F!NoRequest EXCEPT !.op = "remove", !.address = message.address]
  /\ UNCHANGED <<table, gui, up, attached, watchList, ghosts>>

(* The call has returned, or failed, and its message is dealt with. *)
Answered == up' = IF caller \in Conn THEN [up EXCEPT ![caller] = Tail(@)] ELSE up

(* Another UI's handler has a message of its own: to freeze or unfreeze an *)
(* address of its own.                                                     *)
OtherFreezes ==
  /\ attached /\ caller = NoConn
  /\ caller' = OtherConn
  /\ request' \in {r \in F!Request : r.op # "clear" /\ r.address \in Others}
  /\ UNCHANGED <<table, gui, up, attached, watchList, ghosts>>

(* writeValue does not take the number: nothing is frozen.                 *)
Throws ==
  /\ request.op = "add"
  /\ request' = F!NoRequest
  /\ UNCHANGED table

AgentAnswers ==
  /\ caller # NoConn
  /\ caller' = NoConn
  /\ \/ F!Freeze /\ UNCHANGED unheld
     \/ F!Unfreeze /\ UNCHANGED unheld
     \/ (F!Refuse \/ Throws) /\ unheld' = unheld \cup (RowAddr \cap {request.address})
  /\ Answered
  /\ UNCHANGED <<gui, attached, watchList, unwatched>>

(* Agent is not initialized: of these only the GUI that sent it is told,   *)
(* by an event it does not look at.                                        *)
HubRejects(c) ==
  /\ ~attached /\ Takes(c, Message)
  /\ unwatched' = unwatched \cup Watching(<<Head(up[c])>>)
  /\ unheld' = unheld \cup Freezing(<<Head(up[c])>>)
  /\ Taken(c)
  /\ UNCHANGED <<freezer, gui, hub>>

-----------------------------------------------------------------------------
(* The session with the target: the agent and its freezer go with it, the   *)
(* watch list stays.                                                       *)

Detach ==
  /\ attached
  /\ attached' = FALSE
  /\ table' = [a \in Addr |-> F!NotFrozen]
  /\ request' = F!NoRequest
  /\ caller' = NoConn
  /\ Answered
  /\ unheld' = unheld \cup (RowAddr \cap (F!Frozen \cup {request.address}))
  /\ UNCHANGED <<gui, watchList, unwatched>>

Attach ==
  /\ ~attached
  /\ attached' = TRUE
  /\ UNCHANGED <<table, request, gui, up, caller, watchList, ghosts>>

-----------------------------------------------------------------------------
User ==
  \E a \in RowAddr : AddRow(a) \/ LoadEntry(a) \/ FreezeToCurrentValue(a)
                       \/ FreezeDialog(a) \/ UnfreezeRow(a) \/ RemoveRow(a)

Handler(c) == HubWatches(c) \/ HubFreezes(c) \/ HubRejects(c)

Next ==
  \/ User
  \/ Disconnect \/ Reconnect
  \/ \E c \in Conn : LoseRest(c) \/ Handler(c)
  \/ OtherFreezes \/ AgentAnswers
  \/ Detach \/ Attach

Spec == Init /\ [][Next]_vars

(* The hub's loop runs its tasks, and the agent answers its callers in     *)
(* turn, so that a handler among others comes to be answered as well;      *)
(* nobody has to reconnect, attach or press anything.                      *)
Fairness ==
  /\ WF_vars(AgentAnswers)
  /\ \A c \in Conn : WF_vars(Handler(c)) /\ SF_vars(HubFreezes(c))

FairSpec == Spec /\ Fairness

-----------------------------------------------------------------------------
TypeOK ==
  /\ table \in [Addr -> [mode : F!Mode \cup {"none"}, value : F!Val, lastWritten : F!Val]]
  /\ request \in F!Request \cup {F!NoRequest}
  /\ (request = F!NoRequest) <=> (caller = NoConn)
  /\ rows \in [RowAddr -> Row \cup {NoRow}]
  /\ conn \in Conn /\ linked \in BOOLEAN
  /\ up \in [Conn -> Seq(Message)]
  /\ caller \in Conn \cup {NoConn, OtherConn} /\ attached \in BOOLEAN
  /\ caller \in Conn => up[caller] # <<>>
  /\ watchList \subseteq RowAddr \X Type
  /\ unwatched \subseteq RowAddr /\ unheld \subseteq RowAddr

(* A row is in the hub's watch list, with its own type and no other, and   *)
(* an address without a row is not, once the hub has dealt with the        *)
(* messages about it; unless one of them was lost.                         *)
WatchListIsRows ==
  \A a \in RowAddr \ unwatched :
    (\A c \in Conn : a \notin Watching(up[c])) =>
      {t \in Type : <<a, t>> \in watchList} = {rows[a].type} \ {NoType}

(* The freezer has an order for the rows that show as frozen, in the mode  *)
(* they show, and for no other address, once the hub has dealt with the    *)
(* messages about it; unless one of them was lost or its order refused or  *)
(* wiped by a detach.                                                      *)
FrozenAsShown ==
  \A a \in RowAddr \ unheld :
    (\A c \in Conn : a \notin Freezing(up[c])) =>
      table[a].mode = rows[a].order

(* What a row shows of its being frozen comes to be so, or is changed, or  *)
(* is lost.                                                                *)
OrderTakesEffect ==
  \A a \in RowAddr, order \in F!Mode \cup {"none"} :
    rows[a].order = order ~>
      table[a].mode = order \/ rows[a].order # order \/ a \in unheld

=============================================================================
