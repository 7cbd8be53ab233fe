-------------------------- MODULE LiveViewProofs --------------------------
(***************************************************************************)
(* The types of the values on their way from the target to the user, for   *)
(* every set of addresses, rows and data types and every bound on the      *)
(* messages.  What comes to be shown (RowFresh, TreeShowsResults) is       *)
(* liveness, and stays with the model checker.                             *)
(***************************************************************************)
EXTENDS LiveView, TLAPS

(* The parts of TypeOK. *)
TargetTyped == mem \in [Addr -> Val] /\ results \subseteq Addr
ShownTyped == rows \in [RowAddr -> Row \cup {NoRow}] /\ tree \in [Addr -> Val \cup {NoValue}]
UpTyped == up \in Seq(Message) /\ Len(up) <= MaxUp
DownTyped == down \in Seq(Event) /\ Len(down) <= MaxDown
PollTyped ==
  /\ watchList \subseteq RowAddr \X Type
  /\ poll \in [at : {"copy", "watch", "results"}, job : SUBSET (RowAddr \X Type)]
  /\ (poll.at = "watch") <=> (poll.job # {})

LEMMA TypesUnfolded ==
  /\ TypeOK <=> TargetTyped /\ ShownTyped /\ UpTyped /\ DownTyped /\ PollTyped
  /\ TypeOK' <=> TargetTyped' /\ ShownTyped' /\ UpTyped' /\ DownTyped' /\ PollTyped'
  BY DEF TypeOK, TargetTyped, ShownTyped, UpTyped, DownTyped, PollTyped

(* Queues, bounded when something is added. *)
LEMMA Added ==
  ASSUME NEW S, NEW q \in Seq(S), NEW e \in S, NEW max \in Nat, Len(q) < max
  PROVE  Append(q, e) \in Seq(S) /\ Len(Append(q, e)) <= max
  OBVIOUS

LEMMA Taken ==
  ASSUME NEW S, NEW q \in Seq(S), q # <<>>, NEW max \in Nat, Len(q) <= max
  PROVE  Head(q) \in S /\ Tail(q) \in Seq(S) /\ Len(Tail(q)) <= max
  OBVIOUS

(* A map from some of the addresses. *)
LEMMA PartialMaps ==
  ASSUME NEW A, NEW S, NEW data
  PROVE  data \in Partial(A, S) <=> \E D \in SUBSET A : data \in [D -> S]
  BY DEF Partial

(* What the user sends. *)
LEMMA SendKeeps ==
  ASSUME UpTyped, NEW message \in Message, Send(message)
  PROVE  UpTyped'
<1>1. up' = Append(up, message) /\ Len(up) < MaxUp /\ MaxUp \in Nat
  BY LiveViewAssumption DEF Send
<1> QED
  BY <1>1, Added DEF UpTyped

LEMMA DispatchKeeps ==
  ASSUME UpTyped, NEW messages, Dispatches(messages)
  PROVE  UpTyped'
<1>1. up # <<>> /\ up' = Tail(up) /\ MaxUp \in Nat
  BY LiveViewAssumption DEF Dispatches
<1> QED
  BY <1>1, Taken DEF UpTyped

(* What the hub broadcasts. *)
LEMMA BroadcastKeeps ==
  ASSUME DownTyped, NEW event, NEW data, [event |-> event, data |-> data] \in Event,
         Broadcast(event, data)
  PROVE  DownTyped'
<1> DEFINE e == [event |-> event, data |-> data]
<1>1. down' = Append(down, e) /\ Len(down) < MaxDown /\ MaxDown \in Nat /\ e \in Event
  BY LiveViewAssumption DEF Broadcast
<1> HIDE DEF e
<1> QED
  BY <1>1, Added DEF DownTyped

(* An event the GUI takes carries what the event of its name does. *)
LEMMA TakesKeeps ==
  ASSUME DownTyped, NEW event, Takes(event)
  PROVE  /\ DownTyped'
         /\ event = "watch" => Head(down).data \in Partial(RowAddr, Reading)
         /\ event = "current-scan-results" => Head(down).data \in Partial(Addr, Val)
<1>1. down # <<>> /\ Head(down).event = event /\ down' = Tail(down) /\ MaxDown \in Nat
  BY LiveViewAssumption DEF Takes
<1>2. Head(down) \in Event /\ DownTyped'
  BY <1>1, Taken DEF DownTyped
<1>3. ASSUME NEW e \in Event
      PROVE  /\ e.event = "watch" => e.data \in Partial(RowAddr, Reading)
             /\ e.event = "current-scan-results" => e.data \in Partial(Addr, Val)
  BY DEF Event
<1> QED
  BY <1>1, <1>2, <1>3

LEMMA ReadTyped ==
  ASSUME TargetTyped, NEW t \in Type, NEW a \in Addr
  PROVE  Read(t, a) \in Reading
  BY DEF TargetTyped, Read, Reading

-----------------------------------------------------------------------------

LEMMA InitTypes == Init => TypeOK
<1> SUFFICES ASSUME Init PROVE TypeOK
  OBVIOUS
<1>1. UpTyped /\ DownTyped
  BY LiveViewAssumption DEF Init, UpTyped, DownTyped
<1>2. TargetTyped /\ ShownTyped /\ PollTyped
  BY DEF Init, TargetTyped, ShownTyped, PollTyped
<1> QED
  BY <1>1, <1>2, TypesUnfolded

LEMMA UserKeeps == TypeOK /\ User => TypeOK'
<1> SUFFICES ASSUME TypeOK, User PROVE TypeOK'
  OBVIOUS
<1>0. TargetTyped /\ ShownTyped /\ UpTyped /\ DownTyped /\ PollTyped
  BY TypesUnfolded
<1>1. UNCHANGED <<mem, results, down, watchList, poll>>
  BY DEF User, Scan, UndoScan, AddRow, RemoveRow
<1>2. TargetTyped' /\ DownTyped' /\ PollTyped'
  BY <1>0, <1>1 DEF TargetTyped, DownTyped, PollTyped
<1>3. ScanMessage \subseteq Message /\ WatchMessage \subseteq Message
  BY DEF Message
<1>4. ASSUME Scan \/ UndoScan PROVE UpTyped' /\ ShownTyped'
  <2>1. PICK o \in {"first-scan", "next-scan", "undo-scan"} : Send([op |-> o])
    BY <1>4 DEF Scan, UndoScan
  <2>2. [op |-> o] \in Message
    BY <1>3 DEF ScanMessage
  <2>3. ShownTyped'
    BY <1>0, <1>4 DEF ShownTyped, Scan, UndoScan, gui
  <2> QED
    BY <1>0, <2>1, <2>2, <2>3, SendKeeps
<1>5. ASSUME NEW a \in RowAddr, AddRow(a) PROVE UpTyped' /\ ShownTyped'
  <2>1. PICK row \in Row : rows' = [rows EXCEPT ![a] = row]
                           /\ Send([op |-> "watch", address |-> a, type |-> row.type])
    BY <1>5 DEF AddRow
  <2>2. [op |-> "watch", address |-> a, type |-> row.type] \in Message
    BY <1>3 DEF WatchMessage, Row
  <2>3. ShownTyped'
    BY <1>0, <1>5, <2>1 DEF ShownTyped, AddRow
  <2> QED
    BY <1>0, <2>1, <2>2, <2>3, SendKeeps
<1>6. ASSUME NEW a \in RowAddr, RemoveRow(a) PROVE UpTyped' /\ ShownTyped'
  <2>1. /\ rows[a] # NoRow /\ rows' = [rows EXCEPT ![a] = NoRow]
        /\ Send([op |-> "unwatch", address |-> a, type |-> rows[a].type])
    BY <1>6 DEF RemoveRow, Rows
  <2>2. rows[a] \in Row
    BY <1>0, <2>1 DEF ShownTyped
  <2>3. [op |-> "unwatch", address |-> a, type |-> rows[a].type] \in Message
    BY <1>3, <2>2 DEF WatchMessage, Row
  <2>4. ShownTyped'
    BY <1>0, <1>6, <2>1 DEF ShownTyped, RemoveRow
  <2> QED
    BY <1>0, <2>1, <2>3, <2>4, SendKeeps
<1> QED
  BY <1>2, <1>4, <1>5, <1>6, TypesUnfolded DEF User

LEMMA EventsKeep == TypeOK /\ Events => TypeOK'
<1> SUFFICES ASSUME TypeOK, Events PROVE TypeOK'
  OBVIOUS
<1>0. TargetTyped /\ ShownTyped /\ UpTyped /\ DownTyped /\ PollTyped
  BY TypesUnfolded
<1>1. TargetTyped' /\ UpTyped' /\ PollTyped'
  BY <1>0 DEF Events, OnWatch, OnResults, TargetTyped, UpTyped, PollTyped
<1> DEFINE data == Head(down).data
<1>2. CASE OnWatch
  <2>1. /\ Takes("watch") /\ tree' = tree
        /\ rows' = [a \in RowAddr |-> IF a \in Rows \cap DOMAIN data
                                        THEN [rows[a] EXCEPT !.value = data[a]]
                                        ELSE rows[a]]
    BY <1>2 DEF OnWatch
  <2>2. DownTyped' /\ data \in Partial(RowAddr, Reading)
    BY <1>0, <2>1, TakesKeeps
  <2> HIDE DEF data
  <2>3. PICK D \in SUBSET RowAddr : data \in [D -> Reading]
    BY <2>2, PartialMaps
  <2>4. ASSUME NEW a \in RowAddr, a \in Rows \cap DOMAIN data
        PROVE  [rows[a] EXCEPT !.value = data[a]] \in Row
    <3>1. rows[a] \in Row /\ data[a] \in Reading
      BY <1>0, <2>3, <2>4 DEF ShownTyped, Rows
    <3> QED
      BY <3>1 DEF Row
  <2>5. ShownTyped'
    BY <1>0, <2>1, <2>4 DEF ShownTyped
  <2> QED
    BY <1>1, <2>2, <2>5, TypesUnfolded
<1>3. CASE OnResults
  <2>1. /\ Takes("current-scan-results") /\ rows' = rows
        /\ tree' = [a \in Addr |-> IF a \in DOMAIN data THEN data[a] ELSE NoValue]
    BY <1>3 DEF OnResults
  <2>2. DownTyped' /\ data \in Partial(Addr, Val)
    BY <1>0, <2>1, TakesKeeps
  <2> HIDE DEF data
  <2>3. PICK D \in SUBSET Addr : data \in [D -> Val]
    BY <2>2, PartialMaps
  <2>4. ShownTyped'
    BY <1>0, <2>1, <2>3 DEF ShownTyped
  <2> QED
    BY <1>1, <2>2, <2>4, TypesUnfolded
<1> QED
  BY <1>2, <1>3 DEF Events

LEMMA HandlerKeeps == TypeOK /\ Handler => TypeOK'
<1> SUFFICES ASSUME TypeOK, Handler PROVE TypeOK'
  OBVIOUS
<1>0. TargetTyped /\ ShownTyped /\ UpTyped /\ DownTyped /\ PollTyped
  BY TypesUnfolded
<1>1. ShownTyped' /\ DownTyped'
  BY <1>0 DEF Handler, HubWatches, HubScans, gui, ShownTyped, DownTyped
<1>2. CASE HubWatches
  <2> DEFINE pair == <<Head(up).address, Head(up).type>>
  <2>1. /\ Dispatches(WatchMessage) /\ UNCHANGED <<mem, results, poll>>
        /\ watchList' \subseteq watchList \cup {pair}
    BY <1>2 DEF HubWatches
  <2>2. Head(up) \in WatchMessage
    BY <2>1 DEF Dispatches
  <2>3. pair \in RowAddr \X Type
    BY <2>2 DEF WatchMessage
  <2> HIDE DEF pair
  <2>4. TargetTyped' /\ PollTyped' /\ UpTyped'
    BY <1>0, <2>1, <2>3, DispatchKeeps DEF TargetTyped, PollTyped
  <2> QED
    BY <1>1, <2>4, TypesUnfolded
<1>3. CASE HubScans
  <2>1. Dispatches(ScanMessage) /\ UNCHANGED <<mem, watchList, poll>>
    BY <1>3 DEF HubScans
  <2>2. results' \subseteq Addr
    <3>1. Head(up) \in ScanMessage
      BY <2>1 DEF Dispatches
    <3>2. Head(up).op \in {"first-scan", "next-scan", "undo-scan"}
      BY <3>1 DEF ScanMessage
    <3> QED
      BY <1>0, <1>3, <3>2 DEF HubScans, TargetTyped
  <2>3. TargetTyped' /\ PollTyped' /\ UpTyped'
    BY <1>0, <2>1, <2>2, DispatchKeeps DEF TargetTyped, PollTyped
  <2> QED
    BY <1>1, <2>3, TypesUnfolded
<1> QED
  BY <1>2, <1>3 DEF Handler

LEMMA PollKeeps == TypeOK /\ PollLoop => TypeOK'
<1> SUFFICES ASSUME TypeOK, PollLoop PROVE TypeOK'
  OBVIOUS
<1>0. TargetTyped /\ ShownTyped /\ UpTyped /\ DownTyped /\ PollTyped
  BY TypesUnfolded
<1>1. TargetTyped' /\ ShownTyped' /\ UpTyped'
  BY <1>0 DEF PollLoop, PollCopy, PollWatch, PollResults, gui, TargetTyped, ShownTyped, UpTyped
<1>2. PollTyped'
  BY <1>0 DEF PollLoop, PollCopy, PollWatch, PollResults, PollTyped
<1>3. ASSUME PollCopy PROVE DownTyped'
  BY <1>0, <1>3 DEF PollCopy, DownTyped
<1>4. ASSUME PollWatch PROVE DownTyped'
  <2>1. PICK data \in Readings(poll.job) : Broadcast("watch", data)
    BY <1>4 DEF PollWatch
  <2>2. poll.job \subseteq RowAddr \X Type
    BY <1>0 DEF PollTyped
  <2>3. {p[1] : p \in poll.job} \in SUBSET RowAddr
    BY <2>2
  <2>4. data \in Partial(RowAddr, Reading)
    BY <2>3, PartialMaps DEF Readings
  <2>5. [event |-> "watch", data |-> data] \in Event
    BY <2>4 DEF Event
  <2> QED
    BY <1>0, <2>1, <2>5, BroadcastKeeps
<1>5. ASSUME PollResults PROVE DownTyped'
  <2> DEFINE data == [a \in results |-> mem[a]]
  <2>1. down' = down \/ Broadcast("current-scan-results", data)
    BY <1>5 DEF PollResults
  <2>2. data \in [results -> Val] /\ results \in SUBSET Addr
    BY <1>0 DEF TargetTyped
  <2> HIDE DEF data
  <2>3. data \in Partial(Addr, Val)
    BY <2>2, PartialMaps
  <2>4. [event |-> "current-scan-results", data |-> data] \in Event
    BY <2>3 DEF Event
  <2>5. CASE down' = down
    BY <1>0, <2>5 DEF DownTyped
  <2> QED
    BY <1>0, <2>1, <2>4, <2>5, BroadcastKeeps
<1> QED
  BY <1>1, <1>2, <1>3, <1>4, <1>5, TypesUnfolded DEF PollLoop

LEMMA StoreKeeps == TypeOK /\ (\E a \in Addr : Store(a)) => TypeOK'
  BY DEF Store, TypeOK, gui

LEMMA IdleKeeps == TypeOK /\ UNCHANGED vars => TypeOK'
  BY DEF vars, gui, TypeOK

(* No event carries values for addresses the GUI does not know, no message *)
(* leaves the types of its command, and the poll loop waits for values     *)
(* just when it took a non-empty watch list.                               *)
THEOREM TypesHold == Spec => []TypeOK
<1>1. TypeOK /\ [Next]_vars => TypeOK'
  BY UserKeeps, EventsKeep, HandlerKeeps, PollKeeps, StoreKeeps, IdleKeeps DEF Next
<1> QED
  BY InitTypes, <1>1, PTL DEF Spec

=============================================================================
