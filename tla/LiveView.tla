------------------------------ MODULE LiveView ------------------------------
(***************************************************************************)
(* What the user sees of the target's memory: the poll loop (hub.py) reads *)
(* the watched cells and the scan results and broadcasts them, and the GUI *)
(* (main.gd) puts them into the rows of its cheat table and into its tree  *)
(* of results.  The user adds and removes rows and scans meanwhile, so     *)
(* that what arrives may be of before.                                     *)
(*                                                                         *)
(* The target stays attached and the connection open; what happens when    *)
(* they do not is in Hub and CheatTable.  How a scan is done is in Scanner: *)
(* here it leaves any results.                                             *)
(***************************************************************************)
EXTENDS Integers, Sequences, FiniteSets

CONSTANTS
  Addr,        \* addresses that scans may find
  RowAddr,     \* those of them the user adds to the cheat table
  Type,        \* data types
  NoType,      \* the type of a row that is not there
  Word,        \* number of values of a cell
  NoValue,     \* what the tree shows of an address it has no item for
  MaxUp,       \* bound: messages the hub has not dealt with
  MaxDown      \* messages to the GUI before the hub's send has to wait

VARIABLES
  mem,         \* the target's memory
  results,     \* the addresses in the agent's currentScanResults
  rows,        \* the cheat table: the row of each address
  tree,        \* the tree of results: the value shown of each address
  up,          \* messages on their way to the hub
  down,        \* events on their way to the GUI
  watchList,   \* Hub.watch_list
  poll         \* where the poll loop is, and its watch_job

gui == <<rows, tree>>
vars == <<mem, results, gui, up, down, watchList, poll>>

Val == 0..Word-1

ASSUME LiveViewAssumption ==
  /\ RowAddr \subseteq Addr
  /\ NoType \notin Type /\ NoValue \notin Val
  /\ Word \in Nat \ {0} /\ MaxUp \in Nat \ {0} /\ MaxDown \in Nat \ {0}

(* A number is known by the bits of the cell and the type it is read as.   *)
Reading == [type : Type, bits : Val]
Read(t, a) == [type |-> t, bits |-> mem[a]]

NoRow == [type |-> NoType, value |-> [type |-> NoType, bits |-> 0]]
Row == [type : Type, value : Reading]
Rows == {a \in RowAddr : rows[a] # NoRow}

WatchMessage == [op : {"watch", "unwatch"}, address : RowAddr, type : Type]
ScanMessage == [op : {"first-scan", "next-scan", "undo-scan"}]
Message == WatchMessage \cup ScanMessage

(* What the agent read at some addresses.                                  *)
Partial(A, S) == UNION {[D -> S] : D \in SUBSET A}
Event == [event : {"watch"}, data : Partial(RowAddr, Reading)]
           \cup [event : {"current-scan-results"}, data : Partial(Addr, Val)]

Init ==
  /\ mem \in [Addr -> Val]
  /\ results = {} /\ watchList = {}
  /\ rows = [a \in RowAddr |-> NoRow]
  /\ tree = [a \in Addr |-> NoValue]
  /\ up = <<>> /\ down = <<>>
  /\ poll = [at |-> "copy", job |-> {}]

-----------------------------------------------------------------------------
(* The user.                                                               *)

Send(message) == Len(up) < MaxUp /\ up' = Append(up, message)

(* An item of the tree, or an entry of a file, with the type the scan      *)
(* controls show or the file says: any number may come with it.            *)
AddRow(a) ==
  /\ a \notin Rows
  /\ \E row \in Row :
       /\ rows' = [rows EXCEPT ![a] = row]
       /\ Send([op |-> "watch", address |-> a, type |-> row.type])
  /\ UNCHANGED <<mem, results, tree, down, watchList, poll>>

RemoveRow(a) ==
  /\ a \in Rows
  /\ rows' = [rows EXCEPT ![a] = NoRow]
  /\ Send([op |-> "unwatch", address |-> a, type |-> rows[a].type])
  /\ UNCHANGED <<mem, results, tree, down, watchList, poll>>

(* The buttons to refine and to undo work once results have been shown     *)
(* (is_scan), which is while the tree has items.                           *)
IsScan == \E a \in Addr : tree[a] # NoValue

Scan ==
  /\ \/ Send([op |-> "first-scan"])
     \/ IsScan /\ Send([op |-> "next-scan"])
  /\ UNCHANGED <<mem, results, gui, down, watchList, poll>>

UndoScan ==
  /\ IsScan
  /\ tree' = [a \in Addr |-> NoValue]
  /\ Send([op |-> "undo-scan"])
  /\ UNCHANGED <<mem, results, rows, down, watchList, poll>>

-----------------------------------------------------------------------------
(* The events.                                                             *)

Takes(event) == down # <<>> /\ Head(down).event = event /\ down' = Tail(down)

(* A row takes the value given for its address, whatever it was read as.   *)
OnWatch ==
  LET data == Head(down).data IN
  /\ Takes("watch")
  /\ rows' = [a \in RowAddr |-> IF a \in Rows \cap DOMAIN data
                                  THEN [rows[a] EXCEPT !.value = data[a]]
                                  ELSE rows[a]]
  /\ UNCHANGED <<mem, results, tree, up, watchList, poll>>

(* Seeded fault: items that are no longer in the results stay. *)
OnResultsKeeping ==
  LET data == Head(down).data IN
  /\ Takes("current-scan-results")
  /\ tree' = [a \in Addr |-> IF a \in DOMAIN data THEN data[a] ELSE tree[a]]
  /\ UNCHANGED <<mem, results, rows, up, watchList, poll>>

OnResults ==
  LET data == Head(down).data IN
  /\ Takes("current-scan-results")
  /\ tree' = [a \in Addr |-> IF a \in DOMAIN data THEN data[a] ELSE NoValue]
  /\ UNCHANGED <<mem, results, rows, up, watchList, poll>>

-----------------------------------------------------------------------------
(* The hub's handler.                                                      *)

Dispatches(messages) == up # <<>> /\ Head(up) \in messages /\ up' = Tail(up)

(* Seeded fault: a pair that is unwatched stays in the list. *)
HubWatchesOn ==
  LET pair == <<Head(up).address, Head(up).type>> IN
  /\ Dispatches(WatchMessage)
  /\ watchList' = watchList \cup {pair}
  /\ UNCHANGED <<mem, results, gui, down, poll>>

HubWatches ==
  LET pair == <<Head(up).address, Head(up).type>> IN
  /\ Dispatches(WatchMessage)
  /\ watchList' = IF Head(up).op = "watch" THEN watchList \cup {pair}
                                           ELSE watchList \ {pair}
  /\ UNCHANGED <<mem, results, gui, down, poll>>

(* The agent finds results anew, refines those it has, or forgets them.    *)
HubScans ==
  /\ Dispatches(ScanMessage)
  /\ results' \in CASE Head(up).op = "first-scan" -> SUBSET Addr
                    [] Head(up).op = "next-scan" -> SUBSET results
                    [] Head(up).op = "undo-scan" -> {{}}
  /\ UNCHANGED <<mem, gui, down, watchList, poll>>

-----------------------------------------------------------------------------
(* The poll loop.                                                          *)

PollCopy ==
  /\ poll.at = "copy"
  /\ poll' = IF watchList # {} THEN [at |-> "watch", job |-> watchList]
                               ELSE [at |-> "results", job |-> {}]
  /\ UNCHANGED <<mem, results, gui, up, down, watchList>>

(* What read_batch answers: of an address in the job with two types, the   *)
(* last one read counts, and a set has no order.                           *)
Readings(job) ==
  {data \in [{p[1] : p \in job} -> Reading] :
     \A a \in DOMAIN data : \E p \in job : p[1] = a /\ data[a] = Read(p[2], a)}

Broadcast(event, data) ==
  Len(down) < MaxDown /\ down' = Append(down, [event |-> event, data |-> data])

(* Seeded fault: the job is kept for the next round. *)
PollWatchKeeping ==
  /\ poll.at = "watch"
  /\ \E data \in Readings(poll.job) : Broadcast("watch", data)
  /\ poll' = [poll EXCEPT !.at = "results"]
  /\ UNCHANGED <<mem, results, gui, up, watchList>>

PollWatch ==
  /\ poll.at = "watch"
  /\ \E data \in Readings(poll.job) : Broadcast("watch", data)
  /\ poll' = [at |-> "results", job |-> {}]
  /\ UNCHANGED <<mem, results, gui, up, watchList>>

(* Without results there is nothing to broadcast. *)
PollResults ==
  /\ poll.at = "results"
  /\ IF results # {} THEN Broadcast("current-scan-results", [a \in results |-> mem[a]])
                     ELSE UNCHANGED down
  /\ poll' = [at |-> "copy", job |-> {}]
  /\ UNCHANGED <<mem, results, gui, up, watchList>>

-----------------------------------------------------------------------------
Store(a) ==
  /\ \E v \in Val : mem' = [mem EXCEPT ![a] = v]
  /\ UNCHANGED <<results, gui, up, down, watchList, poll>>

User == Scan \/ UndoScan \/ \E a \in RowAddr : AddRow(a) \/ RemoveRow(a)
Events == OnWatch \/ OnResults
Handler == HubWatches \/ HubScans
PollLoop == PollCopy \/ PollWatch \/ PollResults

Next == User \/ Events \/ Handler \/ PollLoop \/ \E a \in Addr : Store(a)

(* The GUI draws its frames, the hub's loop runs its tasks and the agent   *)
(* answers; the user and the target owe nothing.                           *)
Fairness == WF_vars(Events) /\ WF_vars(Handler) /\ WF_vars(PollLoop)

Spec == Init /\ [][Next]_vars /\ Fairness

-----------------------------------------------------------------------------
TypeOK ==
  /\ mem \in [Addr -> Val]
  /\ results \subseteq Addr
  /\ rows \in [RowAddr -> Row \cup {NoRow}]
  /\ tree \in [Addr -> Val \cup {NoValue}]
  /\ up \in Seq(Message) /\ Len(up) <= MaxUp
  /\ down \in Seq(Event) /\ Len(down) <= MaxDown
  /\ watchList \subseteq RowAddr \X Type
  /\ poll \in [at : {"copy", "watch", "results"}, job : SUBSET (RowAddr \X Type)]
  /\ (poll.at = "watch") <=> (poll.job # {})

(* A row that stays comes to show, for good, what its cell holds read as   *)
(* the row's own type, if the cell stays too; whatever rows of the address *)
(* there were before.                                                      *)
RowFresh ==
  \A a \in RowAddr, t \in Type, v \in Val :
    <>[](rows[a].type = t /\ mem[a] = v)
      => <>[](rows[a].value = [type |-> t, bits |-> v])

(* A result that stays comes to be shown with what its cell holds, if that *)
(* stays too, and what is no result comes to be removed while there are    *)
(* others; whatever was scanned and undone before.                         *)
TreeShowsResults ==
  \A a \in Addr :
    /\ \A v \in Val : <>[](a \in results /\ mem[a] = v) => <>[](tree[a] = v)
    /\ <>[](a \notin results /\ results # {}) => <>[](tree[a] = NoValue)

(* Items that are no longer in the results are removed from the tree, also *)
(* when a scan or an undo leaves no results at all.  The tree says so of   *)
(* itself (main.gd:178), but results are broadcast only if there are any.  *)
TreeEmptied ==
  <>[](results = {}) => <>[](\A a \in Addr : tree[a] = NoValue)

=============================================================================
