-------------------------- MODULE CheatTableProofs --------------------------
(***************************************************************************)
(* The watch list is the table's, and the freezer's orders are what it     *)
(* shows, for every set of addresses, rows, types, connections and any     *)
(* number of messages under way.                                           *)
(*                                                                         *)
(* The argument is about what is still to come: the messages about an      *)
(* address that the hub has not dealt with lead, one after the other, from *)
(* what the hub has to what the row shows.                                 *)
(***************************************************************************)
EXTENDS CheatTable, TLAPS

(* The places in q of the messages of M.                                   *)
Pending(q, M) == {i \in 1..Len(q) : q[i] \in M}

First(q, M, i) == i \in Pending(q, M) /\ \A j \in Pending(q, M) : i <= j
Last(q, M, i) == i \in Pending(q, M) /\ \A j \in Pending(q, M) : j <= i
Next2(q, M, i, j) ==
  /\ i \in Pending(q, M) /\ j \in Pending(q, M) /\ i < j
  /\ \A k \in Pending(q, M) : k <= i \/ j <= k

(* With aft[m] the state that m leaves, the messages of M in q end in state *)
(* shown; there is nothing to come if that is the present state.           *)
EndsIn(q, M, aft, now, shown) ==
  /\ Pending(q, M) = {} => now = shown
  /\ \A i \in Pending(q, M) : Last(q, M, i) => aft[q[i]] = shown

(* With bef[m] the state in which m is due, each is due after the one      *)
(* before it, and the first of them now.                                   *)
Chained(q, M, bef, aft, now) ==
  /\ \A i \in Pending(q, M) : First(q, M, i) => now = bef[q[i]]
  /\ \A i, j \in Pending(q, M) : Next2(q, M, i, j) => aft[q[i]] = bef[q[j]]

(* t is q with s sent after it.                                            *)
IsSent(q, s, t) ==
  /\ Len(q) \in Nat /\ Len(s) \in Nat /\ Len(t) = Len(q) + Len(s)
  /\ \A i \in 1..Len(q) : t[i] = q[i]
  /\ \A i \in 1..Len(s) : t[Len(q) + i] = s[i]

LEMMA Sent ==
  ASSUME NEW S, NEW q \in Seq(S), NEW s \in Seq(S)
  PROVE  q \o s \in Seq(S) /\ IsSent(q, s, q \o s)
BY DEF IsSent

LEMMA PendingSent ==
  ASSUME NEW q, NEW s, NEW t, IsSent(q, s, t), NEW M,
         NEW k \in 1..Len(s), Pending(s, M) = {k}
  PROVE  /\ Pending(t, M) = Pending(q, M) \cup {Len(q) + k}
         /\ t[Len(q) + k] = s[k]
         /\ Len(q) + k \in Nat
         /\ \A i \in Pending(q, M) : i \in Nat /\ i < Len(q) + k /\ t[i] = q[i]
<1>1. Len(q) \in Nat /\ k \in Nat /\ k >= 1 /\ Len(q) + k \in 1..Len(t) /\ s[k] \in M
  BY DEF IsSent, Pending
<1>2. t[Len(q) + k] = s[k]
  BY DEF IsSent
<1>3. ASSUME NEW i \in Pending(q, M)
      PROVE  i \in Nat /\ i < Len(q) + k /\ t[i] = q[i] /\ i \in Pending(t, M)
  BY <1>1 DEF Pending, IsSent
<1>4. ASSUME NEW i \in Pending(t, M) PROVE i \in Pending(q, M) \/ i = Len(q) + k
  <2>1. CASE i <= Len(q)
    BY <2>1, <1>1 DEF Pending, IsSent
  <2>2. CASE ~(i <= Len(q))
    <3>1. i - Len(q) \in 1..Len(s) /\ i = Len(q) + (i - Len(q)) /\ t[i] \in M
      BY <2>2, <1>1 DEF Pending, IsSent
    <3>2. t[i] = s[i - Len(q)]
      BY <3>1 DEF IsSent
    <3>3. i - Len(q) = k
      BY <3>1, <3>2 DEF Pending
    <3> QED BY <3>1, <3>3
  <2> QED BY <2>1, <2>2
<1> QED BY <1>1, <1>2, <1>3, <1>4 DEF Pending

LEMMA PendingOthersSent ==
  ASSUME NEW q, NEW s, NEW t, IsSent(q, s, t), NEW M, Pending(s, M) = {}
  PROVE  /\ Pending(t, M) = Pending(q, M)
         /\ \A i \in Pending(q, M) : i \in Nat /\ t[i] = q[i]
<1>1. Len(q) \in Nat
  BY DEF IsSent
<1>2. ASSUME NEW i \in Pending(q, M) PROVE i \in Nat /\ t[i] = q[i] /\ i \in Pending(t, M)
  BY <1>1 DEF Pending, IsSent
<1>3. ASSUME NEW i \in Pending(t, M) PROVE i \in Pending(q, M)
  <2>1. CASE i <= Len(q)
    BY <2>1, <1>1 DEF Pending, IsSent
  <2>2. CASE ~(i <= Len(q))
    <3>1. i - Len(q) \in 1..Len(s) /\ i = Len(q) + (i - Len(q)) /\ t[i] \in M
      BY <2>2, <1>1 DEF Pending, IsSent
    <3>2. t[i] = s[i - Len(q)]
      BY <3>1 DEF IsSent
    <3> QED BY <3>1, <3>2 DEF Pending
  <2> QED BY <2>1, <2>2
<1> QED BY <1>2, <1>3

(* Places in what is left after the first message.                         *)
LEMMA PendingTail ==
  ASSUME NEW S, NEW q \in Seq(S), q # <<>>, NEW M
  PROVE  /\ Tail(q) \in Seq(S) /\ Len(Tail(q)) = Len(q) - 1 /\ Head(q) = q[1]
         /\ \A i \in 1..Len(Tail(q)) : Tail(q)[i] = q[i + 1]
         /\ \A i \in Pending(Tail(q), M) : i \in Nat /\ i >= 1 /\ i + 1 \in Pending(q, M)
         /\ \A i \in Pending(q, M) : i \in Nat /\ (i = 1 \/ (i > 1 /\ i - 1 \in Pending(Tail(q), M)))
         /\ 1 \in Pending(q, M) <=> Head(q) \in M
<1> DEFINE t == Tail(q)
<1>1. /\ t \in Seq(S) /\ Len(t) = Len(q) - 1 /\ Head(q) = q[1]
      /\ \A i \in 1..Len(t) : t[i] = q[i + 1]
      /\ Len(q) \in Nat /\ Len(q) >= 1
  OBVIOUS
<1> HIDE DEF t
<1>2. ASSUME NEW i \in Pending(t, M) PROVE i \in Nat /\ i >= 1 /\ i + 1 \in Pending(q, M)
  BY <1>1 DEF Pending
<1>3. ASSUME NEW i \in Pending(q, M)
      PROVE  i \in Nat /\ (i = 1 \/ (i > 1 /\ i - 1 \in Pending(t, M)))
  <2>1. i \in 1..Len(q) /\ q[i] \in M
    BY DEF Pending
  <2>2. ASSUME i # 1 PROVE i - 1 \in 1..Len(t) /\ t[i - 1] = q[i] /\ i > 1
    <3>1. i - 1 \in 1..Len(t) /\ i > 1 /\ (i - 1) + 1 = i
      BY <2>1, <2>2, <1>1
    <3> QED BY <3>1, <1>1
  <2> QED BY <2>1, <2>2 DEF Pending
<1>4. 1 \in Pending(q, M) <=> Head(q) \in M
  BY <1>1 DEF Pending
<1> QED BY <1>1, <1>2, <1>3, <1>4 DEF t

(* A message of M among others sent with it becomes the last one.          *)
LEMMA EndsInSent ==
  ASSUME NEW q, NEW s, NEW t, IsSent(q, s, t), NEW M, NEW aft, NEW now, NEW shown,
         EndsIn(q, M, aft, now, shown),
         NEW k \in 1..Len(s), Pending(s, M) = {k}
  PROVE  EndsIn(t, M, aft, now, aft[s[k]])
<1>1. /\ Pending(t, M) = Pending(q, M) \cup {Len(q) + k}
      /\ t[Len(q) + k] = s[k]
      /\ Len(q) + k \in Nat
      /\ \A i \in Pending(q, M) : i \in Nat /\ i < Len(q) + k
  BY PendingSent
<1>2. ASSUME NEW i \in Pending(t, M), Last(t, M, i) PROVE i = Len(q) + k
  BY <1>1, <1>2 DEF Last
<1> QED BY <1>1, <1>2 DEF EndsIn

LEMMA EndsInOthersSent ==
  ASSUME NEW q, NEW s, NEW t, IsSent(q, s, t), NEW M, NEW aft, NEW now, NEW shown,
         EndsIn(q, M, aft, now, shown), Pending(s, M) = {}
  PROVE  EndsIn(t, M, aft, now, shown)
<1>1. /\ Pending(t, M) = Pending(q, M)
      /\ \A i \in Pending(q, M) : t[i] = q[i]
  BY PendingOthersSent
<1> QED BY <1>1 DEF EndsIn, Last

(* The first message is dealt with.                                        *)
LEMMA EndsInTaken ==
  ASSUME NEW S, NEW q \in Seq(S), q # <<>>, NEW M, NEW aft, NEW now, NEW shown,
         EndsIn(q, M, aft, now, shown)
  PROVE  EndsIn(Tail(q), M, aft, IF Head(q) \in M THEN aft[Head(q)] ELSE now, shown)
<1> DEFINE t == Tail(q)
<1>1. /\ Head(q) = q[1]
      /\ \A i \in Pending(t, M) : i \in Nat /\ i >= 1 /\ i + 1 \in Pending(q, M) /\ t[i] = q[i + 1]
      /\ \A i \in Pending(q, M) : i \in Nat /\ (i = 1 \/ (i > 1 /\ i - 1 \in Pending(t, M)))
      /\ 1 \in Pending(q, M) <=> Head(q) \in M
  BY PendingTail DEF Pending
<1> HIDE DEF t
<1>2. ASSUME Pending(t, M) = {}
      PROVE  (IF Head(q) \in M THEN aft[Head(q)] ELSE now) = shown
  <2>1. CASE Head(q) \in M
    <3>1. Last(q, M, 1)
      BY <1>1, <1>2, <2>1 DEF Last
    <3> QED BY <3>1, <1>1, <2>1 DEF EndsIn
  <2>2. CASE Head(q) \notin M
    <3>1. Pending(q, M) = {}
      BY <1>1, <1>2, <2>2
    <3> QED BY <3>1, <2>2 DEF EndsIn
  <2> QED BY <2>1, <2>2
<1>3. ASSUME NEW i \in Pending(t, M), Last(t, M, i) PROVE aft[t[i]] = shown
  <2>1. i + 1 \in Pending(q, M) /\ i \in Nat /\ i >= 1 /\ t[i] = q[i + 1]
    BY <1>1
  <2>2. ASSUME NEW j \in Pending(q, M) PROVE j <= i + 1
    <3>1. j \in Nat /\ (j = 1 \/ j - 1 <= i)
      BY <1>1, <1>3 DEF Last
    <3> QED BY <3>1, <2>1
  <2>3. Last(q, M, i + 1)
    BY <2>1, <2>2 DEF Last
  <2> QED BY <2>1, <2>3 DEF EndsIn
<1> QED BY <1>2, <1>3 DEF EndsIn, t

(* A message of M is sent when it is due at the end.                       *)
LEMMA ChainedSent ==
  ASSUME NEW q, NEW s, NEW t, IsSent(q, s, t), NEW M, NEW bef, NEW aft,
         NEW now, NEW shown,
         EndsIn(q, M, aft, now, shown), Chained(q, M, bef, aft, now),
         NEW k \in 1..Len(s), Pending(s, M) = {k}, bef[s[k]] = shown
  PROVE  Chained(t, M, bef, aft, now)
<1> DEFINE n == Len(q) + k
<1>1. /\ Pending(t, M) = Pending(q, M) \cup {n} /\ t[n] = s[k]
      /\ \A i \in Pending(q, M) : i \in Nat /\ i < n /\ t[i] = q[i]
      /\ n \in Nat
  BY PendingSent
<1> HIDE DEF n
<1>2. ASSUME NEW i \in Pending(t, M), First(t, M, i) PROVE now = bef[t[i]]
  <2>1. CASE i = n
    <3>1. ASSUME NEW j \in Pending(q, M) PROVE FALSE
      <4>1. j \in Pending(t, M) /\ j \in Nat /\ j < n
        BY <1>1
      <4>2. n <= j
        BY <4>1, <1>2, <2>1 DEF First
      <4> QED BY <4>1, <4>2, <1>1
    <3>2. Pending(q, M) = {}
      BY <3>1
    <3> QED BY <3>2, <2>1, <1>1 DEF EndsIn
  <2>2. CASE i # n
    <3>1. i \in Pending(q, M) /\ First(q, M, i)
      BY <1>1, <1>2, <2>2 DEF First
    <3> QED BY <3>1, <1>1 DEF Chained
  <2> QED BY <2>1, <2>2
<1>3. ASSUME NEW i \in Pending(t, M), NEW j \in Pending(t, M), Next2(t, M, i, j)
      PROVE  aft[t[i]] = bef[t[j]]
  <2>1. i \in Pending(q, M) /\ i \in Nat
    BY <1>1, <1>3 DEF Next2
  <2>2. CASE j = n
    <3>1. Last(q, M, i)
      BY <1>1, <1>3, <2>1, <2>2 DEF Next2, Last
    <3>2. t[j] = s[k] /\ t[i] = q[i]
      BY <2>1, <2>2, <1>1
    <3> QED BY <3>1, <3>2, <2>1 DEF EndsIn
  <2>3. CASE j # n
    <3>1. j \in Pending(q, M) /\ Next2(q, M, i, j)
      BY <1>1, <1>3, <2>1, <2>3 DEF Next2
    <3> QED BY <3>1, <2>1, <1>1 DEF Chained
  <2> QED BY <2>2, <2>3
<1> QED BY <1>2, <1>3 DEF Chained

LEMMA ChainedOthersSent ==
  ASSUME NEW q, NEW s, NEW t, IsSent(q, s, t), NEW M, NEW bef, NEW aft, NEW now,
         Chained(q, M, bef, aft, now), Pending(s, M) = {}
  PROVE  Chained(t, M, bef, aft, now)
<1>1. Pending(t, M) = Pending(q, M) /\ \A i \in Pending(q, M) : t[i] = q[i]
  BY PendingOthersSent
<1>2. ASSUME NEW i \in Pending(t, M), First(t, M, i) PROVE now = bef[t[i]]
  <2>1. i \in Pending(q, M) /\ First(q, M, i)
    BY <1>1, <1>2 DEF First
  <2> QED BY <2>1, <1>1 DEF Chained
<1>3. ASSUME NEW i \in Pending(t, M), NEW j \in Pending(t, M), Next2(t, M, i, j)
      PROVE  aft[t[i]] = bef[t[j]]
  <2>1. i \in Pending(q, M) /\ j \in Pending(q, M) /\ Next2(q, M, i, j)
    BY <1>1, <1>3 DEF Next2
  <2> QED BY <2>1, <1>1 DEF Chained
<1> QED BY <1>2, <1>3 DEF Chained

LEMMA ChainedTaken ==
  ASSUME NEW S, NEW q \in Seq(S), q # <<>>, NEW M, NEW bef, NEW aft, NEW now,
         Chained(q, M, bef, aft, now)
  PROVE  /\ Head(q) \in M => now = bef[Head(q)]
         /\ Chained(Tail(q), M, bef, aft, IF Head(q) \in M THEN aft[Head(q)] ELSE now)
<1> DEFINE t == Tail(q)
<1>1. /\ Head(q) = q[1]
      /\ \A i \in Pending(t, M) : i \in Nat /\ i >= 1 /\ i + 1 \in Pending(q, M) /\ t[i] = q[i + 1]
      /\ \A i \in Pending(q, M) : i \in Nat /\ (i = 1 \/ (i > 1 /\ i - 1 \in Pending(t, M)))
      /\ 1 \in Pending(q, M) <=> Head(q) \in M
  BY PendingTail DEF Pending
<1> HIDE DEF t
<1>2. ASSUME Head(q) \in M PROVE now = bef[Head(q)]
  <2>1. First(q, M, 1)
    BY <1>1, <1>2 DEF First
  <2> QED BY <2>1, <1>1, <1>2 DEF Chained
<1>3. ASSUME NEW i \in Pending(t, M), First(t, M, i)
      PROVE  (IF Head(q) \in M THEN aft[Head(q)] ELSE now) = bef[t[i]]
  <2>1. i + 1 \in Pending(q, M) /\ i \in Nat /\ i >= 1 /\ t[i] = q[i + 1]
    BY <1>1
  <2>2. ASSUME NEW j \in Pending(q, M) PROVE j \in Nat /\ (j = 1 \/ i + 1 <= j)
    <3>1. j \in Nat /\ (j = 1 \/ i <= j - 1)
      BY <1>1, <1>3 DEF First
    <3> QED BY <3>1, <2>1
  <2>3. CASE Head(q) \in M
    <3>1. 1 \in Pending(q, M) /\ Next2(q, M, 1, i + 1)
      BY <1>1, <2>1, <2>2, <2>3 DEF Next2
    <3> QED BY <3>1, <2>1, <2>3, <1>1 DEF Chained
  <2>4. CASE Head(q) \notin M
    <3>1. 1 \notin Pending(q, M)
      BY <1>1, <2>4
    <3>2. First(q, M, i + 1)
      BY <2>1, <2>2, <3>1 DEF First
    <3> QED BY <3>2, <2>1, <2>4 DEF Chained
  <2> QED BY <2>3, <2>4
<1>4. ASSUME NEW i \in Pending(t, M), NEW j \in Pending(t, M), Next2(t, M, i, j)
      PROVE  aft[t[i]] = bef[t[j]]
  <2>1. /\ i + 1 \in Pending(q, M) /\ i \in Nat /\ i >= 1 /\ t[i] = q[i + 1]
        /\ j + 1 \in Pending(q, M) /\ j \in Nat /\ j >= 1 /\ t[j] = q[j + 1]
    BY <1>1
  <2>2. ASSUME NEW k \in Pending(q, M) PROVE k <= i + 1 \/ j + 1 <= k
    <3>1. k \in Nat /\ (k = 1 \/ k - 1 <= i \/ j <= k - 1)
      BY <1>1, <1>4 DEF Next2
    <3> QED BY <3>1, <2>1
  <2>3. Next2(q, M, i + 1, j + 1)
    BY <2>1, <2>2, <1>4 DEF Next2
  <2> QED BY <2>1, <2>3 DEF Chained
<1> QED BY <1>2, <1>3, <1>4 DEF Chained, t

-----------------------------------------------------------------------------
(* What is to come about an address, and what it leads to.                 *)
WatchOn(a) == {m \in WatchMessage : m.address = a}
FreezeOn(a) == {m \in FreezeMessage : m.address = a}

WatchBefore == [m \in WatchMessage |-> IF m.op = "watch" THEN {} ELSE {m.type}]
WatchAfter == [m \in WatchMessage |-> IF m.op = "watch" THEN {m.type} ELSE {}]
OrderAfter == [m \in FreezeMessage |-> IF m.op = "freeze" THEN m.mode ELSE "none"]

Watched(a) == {t \in Type : <<a, t>> \in watchList}
ShownType(a) == {rows[a].type} \ {NoType}

(* The messages on the connection bring the hub, one after the other, to   *)
(* the type of the row.                                                    *)
WatchesLead ==
  \A a \in RowAddr \ unwatched :
    /\ EndsIn(up[conn], WatchOn(a), WatchAfter, Watched(a), ShownType(a))
    /\ Chained(up[conn], WatchOn(a), WatchBefore, WatchAfter, Watched(a))

OrdersLead ==
  \A a \in RowAddr \ unheld :
    EndsIn(up[conn], FreezeOn(a), OrderAfter, table[a].mode, rows[a].order)

(* What a closed connection still brings is about addresses given up.      *)
ClosedIsLost ==
  \A c \in Conn : Closed(c) =>
    Watching(up[c]) \subseteq unwatched /\ Freezing(up[c]) \subseteq unheld

(* The call under way is for the first message of its connection.          *)
CallIsHead ==
  /\ caller \in Conn =>
       /\ Head(up[caller]) \in FreezeMessage
       /\ request.address = Head(up[caller]).address
       /\ Head(up[caller]).op = "freeze" =>
            request.op = "add" /\ request.mode = Head(up[caller]).mode
       /\ Head(up[caller]).op = "unfreeze" => request.op = "remove"
  /\ caller = OtherConn => request.address \in Others /\ request.op \in {"add", "remove"}

(* Only a connection that is not the last is lost.                         *)
LastStays == ~linked => conn < MaxConn

IInv == TypeOK /\ LastStays /\ WatchesLead /\ OrdersLead /\ ClosedIsLost /\ CallIsHead

-----------------------------------------------------------------------------
LEMMA Modes == "none" \notin F!Mode /\ F!NotFrozen.mode = "none"
BY DEF F!Mode, F!NotFrozen

LEMMA Requests ==
  /\ F!NoRequest \notin F!Request
  /\ \A r \in F!Request : r.op # "clear" => r.address \in Addr
  /\ \A r \in F!Request : r.value \in F!Val /\ r.mode \in F!Mode
BY CheatTableAssumption DEF F!NoRequest, F!Request

(* What the user does changes one row and sends messages about it.         *)
UserSends(a, row, s) ==
  /\ a \in RowAddr /\ row \in Row \cup {NoRow}
  /\ s \in Seq(Message) /\ \A i \in 1..Len(s) : s[i].address = a
  /\ rows' = [rows EXCEPT ![a] = row]
  /\ Send(s) /\ GuiDone
  /\ \/ Pending(s, WatchOn(a)) = {} /\ row.type = rows[a].type
     \/ \E k \in 1..Len(s) :
          /\ Pending(s, WatchOn(a)) = {k}
          /\ WatchBefore[s[k]] = ShownType(a) /\ WatchAfter[s[k]] = {row.type} \ {NoType}
  /\ \/ Pending(s, FreezeOn(a)) = {} /\ row.order = rows[a].order
     \/ \E k \in 1..Len(s) :
          Pending(s, FreezeOn(a)) = {k} /\ OrderAfter[s[k]] = row.order

LEMMA Messages ==
  ASSUME NEW a \in RowAddr, NEW row \in Row, NEW bits \in F!Val
  PROVE  /\ WatchOf("watch", a, row) \in WatchMessage
         /\ WatchOf("unwatch", a, row) \in WatchMessage
         /\ row.order # "none" => FreezeOf(a, row, bits) \in FreezeMessage
         /\ UnfreezeOf(a) \in FreezeMessage
BY DEF WatchOf, FreezeOf, UnfreezeOf, WatchMessage, FreezeMessage, Row

LEMMA Kinds == WatchMessage \cap FreezeMessage = {}
BY DEF WatchMessage, FreezeMessage

LEMMA Pair ==
  ASSUME NEW x, NEW y
  PROVE  <<x>> \o <<y>> = <<x, y>>
<1> DEFINE t == <<x>> \o <<y>>
           S == {x, y}
<1>1. <<x>> \in Seq(S) /\ <<y>> \in Seq(S) /\ <<x, y>> \in Seq(S)
  OBVIOUS
<1>2. t \in Seq(S) /\ Len(t) = 2 /\ t[1] = x /\ t[2] = y
  BY <1>1
<1> HIDE DEF t
<1>3. t = <<x, y>>
  BY <1>1, <1>2
<1> QED BY <1>3 DEF t

LEMMA AddRowSends ==
  ASSUME TypeOK, NEW a \in RowAddr, AddRow(a)
  PROVE  \E row, s : UserSends(a, row, s)
<1>1. PICK row \in [type : Type, order : {"none"}] :
        rows' = [rows EXCEPT ![a] = row] /\ Send(<<WatchOf("watch", a, row)>>)
  BY DEF AddRow
<1> DEFINE m == WatchOf("watch", a, row)
<1>2. row \in Row /\ row.order = "none" /\ row.type \in Type /\ rows[a] = NoRow /\ GuiDone
  BY <1>1 DEF Row, AddRow, Rows
<1>3. m \in WatchMessage /\ m \notin FreezeMessage /\ m.address = a /\ m.op = "watch" /\ m.type = row.type
  BY <1>2 DEF WatchOf, WatchMessage, FreezeMessage
<1>4. WatchBefore[m] = {} /\ WatchAfter[m] = {row.type}
  BY <1>3 DEF WatchBefore, WatchAfter
<1>5. <<m>> \in Seq(Message) /\ Len(<<m>>) = 1 /\ <<m>>[1] = m
  BY <1>3 DEF Message
<1> HIDE DEF m
<1>6. Pending(<<m>>, WatchOn(a)) = {1} /\ Pending(<<m>>, FreezeOn(a)) = {}
  BY <1>3, <1>5 DEF Pending, WatchOn, FreezeOn
<1>7. ShownType(a) = {} /\ {row.type} \ {NoType} = {row.type} /\ rows[a].order = "none"
  BY <1>2, CheatTableAssumption DEF ShownType, NoRow
<1>8. UserSends(a, row, <<m>>)
  BY <1>1, <1>2, <1>3, <1>4, <1>5, <1>6, <1>7 DEF UserSends, m
<1> QED BY <1>8

LEMMA LoadEntrySends ==
  ASSUME TypeOK, NEW a \in RowAddr, LoadEntry(a)
  PROVE  \E row, s : UserSends(a, row, s)
<1>1. PICK row \in Row, bits \in F!Val :
        /\ rows' = [rows EXCEPT ![a] = row]
        /\ Send(<<WatchOf("watch", a, row)>>
                \o IF row.order # "none" THEN <<FreezeOf(a, row, bits)>> ELSE <<>>)
  BY DEF LoadEntry
<1> DEFINE m == WatchOf("watch", a, row)
           f == FreezeOf(a, row, bits)
<1>2. row.type \in Type /\ rows[a] = NoRow /\ GuiDone
  BY <1>1 DEF Row, LoadEntry, Rows
<1>3. m \in WatchMessage /\ m \notin FreezeMessage /\ m.address = a /\ m.op = "watch" /\ m.type = row.type
  BY <1>2 DEF WatchOf, WatchMessage, FreezeMessage
<1>4. WatchBefore[m] = {} /\ WatchAfter[m] = {row.type}
  BY <1>3 DEF WatchBefore, WatchAfter
<1>5. ShownType(a) = {} /\ {row.type} \ {NoType} = {row.type} /\ rows[a].order = "none"
  BY <1>2, CheatTableAssumption DEF ShownType, NoRow
<1>6. CASE row.order = "none"
  <2>1. Send(<<m>>)
    <3>1. <<m>> \o <<>> = <<m>>
      OBVIOUS
    <3> QED BY <1>1, <1>6, <3>1
  <2>2. <<m>> \in Seq(Message) /\ Len(<<m>>) = 1 /\ <<m>>[1] = m
    BY <1>3 DEF Message
  <2> HIDE DEF m
  <2>3. Pending(<<m>>, WatchOn(a)) = {1} /\ Pending(<<m>>, FreezeOn(a)) = {}
    BY <1>3, <2>2 DEF Pending, WatchOn, FreezeOn
  <2>4. UserSends(a, row, <<m>>)
    BY <1>1, <1>2, <1>3, <1>4, <1>5, <1>6, <2>1, <2>2, <2>3 DEF UserSends
  <2> QED BY <2>4
<1>7. CASE row.order # "none"
  <2>1. /\ f \in FreezeMessage /\ f \notin WatchMessage /\ f.address = a
        /\ OrderAfter[f] = row.order
    <3>1. f \in FreezeMessage /\ f.address = a /\ f.op = "freeze" /\ f.mode = row.order
      BY <1>7, Messages DEF FreezeOf
    <3> QED BY <3>1, Kinds DEF OrderAfter
  <2>2. Send(<<m, f>>)
    <3>1. <<m>> \o <<f>> = <<m, f>>
      BY Pair
    <3> QED BY <1>1, <1>7, <3>1
  <2>3. <<m, f>> \in Seq(Message) /\ Len(<<m, f>>) = 2 /\ <<m, f>>[1] = m /\ <<m, f>>[2] = f
    BY <1>3, <2>1 DEF Message
  <2> HIDE DEF m, f
  <2>4. Pending(<<m, f>>, WatchOn(a)) = {1} /\ Pending(<<m, f>>, FreezeOn(a)) = {2}
    BY <1>3, <2>1, <2>3 DEF Pending, WatchOn, FreezeOn
  <2>5. UserSends(a, row, <<m, f>>)
    BY <1>1, <1>2, <1>3, <1>4, <1>5, <2>1, <2>2, <2>3, <2>4 DEF UserSends
  <2> QED BY <2>5
<1> QED BY <1>6, <1>7

LEMMA FreezeRowSends ==
  ASSUME TypeOK, NEW a \in RowAddr, NEW mode \in F!Mode, FreezeRow(a, mode)
  PROVE  \E row, s : UserSends(a, row, s)
<1> DEFINE row == [rows[a] EXCEPT !.order = mode]
<1>1. PICK bits \in F!Val :
        rows' = [rows EXCEPT ![a] = row] /\ Send(<<FreezeOf(a, row, bits)>>)
  BY DEF FreezeRow
<1> DEFINE f == FreezeOf(a, row, bits)
<1>2. rows[a] \in Row /\ GuiDone
  BY DEF FreezeRow, Rows, TypeOK
<1>3. row \in Row /\ row.order = mode /\ row.type = rows[a].type /\ mode # "none"
  BY <1>2 DEF Row, F!Mode
<1>4. /\ f \in FreezeMessage /\ f \notin WatchMessage /\ f.address = a
      /\ OrderAfter[f] = row.order
  <2>1. f \in FreezeMessage /\ f.address = a /\ f.op = "freeze" /\ f.mode = row.order
    BY <1>3, Messages DEF FreezeOf
  <2> QED BY <2>1, Kinds DEF OrderAfter
<1>5. <<f>> \in Seq(Message) /\ Len(<<f>>) = 1 /\ <<f>>[1] = f
  BY <1>4 DEF Message
<1> HIDE DEF f, row
<1>6. Pending(<<f>>, FreezeOn(a)) = {1} /\ Pending(<<f>>, WatchOn(a)) = {}
  BY <1>4, <1>5 DEF Pending, WatchOn, FreezeOn
<1>7. UserSends(a, row, <<f>>)
  BY <1>1, <1>2, <1>3, <1>4, <1>5, <1>6 DEF UserSends, f
<1> QED BY <1>7

LEMMA UnfreezeRowSends ==
  ASSUME TypeOK, NEW a \in RowAddr, UnfreezeRow(a)
  PROVE  \E row, s : UserSends(a, row, s)
<1> DEFINE row == [rows[a] EXCEPT !.order = "none"]
           f == UnfreezeOf(a)
<1>1. rows' = [rows EXCEPT ![a] = row] /\ Send(<<f>>) /\ GuiDone
  BY DEF UnfreezeRow, TypeOK
<1>2. rows[a] \in Row
  BY DEF UnfreezeRow, NoRow, TypeOK
<1>3. row \in Row /\ row.order = "none" /\ row.type = rows[a].type
  BY <1>2 DEF Row
<1>4. f \in FreezeMessage /\ f \notin WatchMessage /\ f.address = a /\ OrderAfter[f] = "none"
  <2>1. f \in FreezeMessage /\ f.address = a /\ f.op = "unfreeze"
    BY DEF UnfreezeOf, FreezeMessage
  <2> QED BY <2>1, Kinds DEF OrderAfter
<1>5. <<f>> \in Seq(Message) /\ Len(<<f>>) = 1 /\ <<f>>[1] = f
  BY <1>4 DEF Message
<1> HIDE DEF f, row
<1>6. Pending(<<f>>, FreezeOn(a)) = {1} /\ Pending(<<f>>, WatchOn(a)) = {}
  BY <1>4, <1>5 DEF Pending, WatchOn, FreezeOn
<1>7. UserSends(a, row, <<f>>)
  BY <1>1, <1>2, <1>3, <1>4, <1>5, <1>6 DEF UserSends
<1> QED BY <1>7

LEMMA RemoveRowSends ==
  ASSUME TypeOK, NEW a \in RowAddr, RemoveRow(a)
  PROVE  \E row, s : UserSends(a, row, s)
<1> DEFINE m == WatchOf("unwatch", a, rows[a])
           f == UnfreezeOf(a)
<1>1. /\ rows' = [rows EXCEPT ![a] = NoRow] /\ GuiDone
      /\ Send(<<m>> \o IF rows[a].order # "none" THEN <<f>> ELSE <<>>)
  BY DEF RemoveRow
<1>2. rows[a] \in Row /\ rows[a].type \in Type
  BY DEF RemoveRow, Rows, TypeOK, Row
<1>3. m \in WatchMessage /\ m \notin FreezeMessage /\ m.address = a /\ m.op = "unwatch" /\ m.type = rows[a].type
  BY <1>2 DEF WatchOf, WatchMessage, FreezeMessage
<1>4. WatchBefore[m] = {rows[a].type} /\ WatchAfter[m] = {}
  BY <1>3 DEF WatchBefore, WatchAfter
<1>5. /\ ShownType(a) = {rows[a].type} /\ {NoRow.type} \ {NoType} = {}
      /\ NoRow.order = "none"
  BY <1>2, CheatTableAssumption DEF ShownType, NoRow
<1>6. f \in FreezeMessage /\ f \notin WatchMessage /\ f.address = a /\ OrderAfter[f] = "none"
  <2>1. f \in FreezeMessage /\ f.address = a /\ f.op = "unfreeze"
    BY DEF UnfreezeOf, FreezeMessage
  <2> QED BY <2>1, Kinds DEF OrderAfter
<1>7. CASE rows[a].order = "none"
  <2>1. Send(<<m>>)
    <3>1. <<m>> \o <<>> = <<m>>
      OBVIOUS
    <3> QED BY <1>1, <1>7, <3>1
  <2>2. <<m>> \in Seq(Message) /\ Len(<<m>>) = 1 /\ <<m>>[1] = m
    BY <1>3 DEF Message
  <2> HIDE DEF m, f
  <2>3. Pending(<<m>>, WatchOn(a)) = {1} /\ Pending(<<m>>, FreezeOn(a)) = {}
    BY <1>3, <2>2 DEF Pending, WatchOn, FreezeOn
  <2>4. UserSends(a, NoRow, <<m>>)
    BY <1>1, <1>3, <1>4, <1>5, <1>7, <2>1, <2>2, <2>3 DEF UserSends
  <2> QED BY <2>4
<1>8. CASE rows[a].order # "none"
  <2>1. Send(<<m, f>>)
    <3>1. <<m>> \o <<f>> = <<m, f>>
      BY Pair
    <3> QED BY <1>1, <1>8, <3>1
  <2>2. <<m, f>> \in Seq(Message) /\ Len(<<m, f>>) = 2 /\ <<m, f>>[1] = m /\ <<m, f>>[2] = f
    BY <1>3, <1>6 DEF Message
  <2> HIDE DEF m, f
  <2>3. Pending(<<m, f>>, WatchOn(a)) = {1} /\ Pending(<<m, f>>, FreezeOn(a)) = {2}
    BY <1>3, <1>6, <2>2 DEF Pending, WatchOn, FreezeOn
  <2>4. UserSends(a, NoRow, <<m, f>>)
    BY <1>1, <1>3, <1>4, <1>5, <1>6, <2>1, <2>2, <2>3 DEF UserSends
  <2> QED BY <2>4
<1> QED BY <1>7, <1>8

LEMMA UserIsSends ==
  ASSUME TypeOK, User
  PROVE  \E a \in RowAddr : \E row, s : UserSends(a, row, s)
<1>1. ASSUME NEW a \in RowAddr, FreezeToCurrentValue(a) PROVE \E row, s : UserSends(a, row, s)
  BY <1>1, FreezeRowSends DEF FreezeToCurrentValue, F!Mode
<1>2. ASSUME NEW a \in RowAddr, FreezeDialog(a) PROVE \E row, s : UserSends(a, row, s)
  BY <1>2, FreezeRowSends DEF FreezeDialog
<1> QED
  BY <1>1, <1>2, AddRowSends, LoadEntrySends, UnfreezeRowSends, RemoveRowSends DEF User

-----------------------------------------------------------------------------
(* An address that no watch, or freeze, message of q is about.             *)
LEMMA NonePending ==
  ASSUME NEW q, NEW a
  PROVE  /\ a \notin Watching(q) => Pending(q, WatchOn(a)) = {}
         /\ a \notin Freezing(q) => Pending(q, FreezeOn(a)) = {}
BY DEF Watching, Freezing, Pending, WatchOn, FreezeOn

LEMMA TailAbout ==
  ASSUME NEW q \in Seq(Message), q # <<>>
  PROVE  /\ Tail(q) \in Seq(Message)
         /\ Watching(Tail(q)) \subseteq Watching(q) /\ Freezing(Tail(q)) \subseteq Freezing(q)
         /\ Head(q) \in Message
         /\ Head(q) \in WatchMessage => Head(q).address \in Watching(q)
         /\ Head(q) \in FreezeMessage => Head(q).address \in Freezing(q)
<1> DEFINE t == Tail(q)
<1>1. /\ t \in Seq(Message) /\ Len(t) = Len(q) - 1 /\ Head(q) = q[1]
      /\ Len(q) \in Nat /\ Len(q) >= 1 /\ q[1] \in Message
      /\ \A i \in 1..Len(t) : t[i] = q[i + 1]
  OBVIOUS
<1> HIDE DEF t
<1>2. \A i \in 1..Len(t) : i + 1 \in 1..Len(q)
  BY <1>1
<1>3. Watching(t) \subseteq Watching(q) /\ Freezing(t) \subseteq Freezing(q)
  BY <1>1, <1>2 DEF Watching, Freezing
<1>4. 1 \in 1..Len(q)
  BY <1>1
<1> QED BY <1>1, <1>3, <1>4 DEF Watching, Freezing, t

LEMMA UserTypes ==
  ASSUME TypeOK, NEW a, NEW row, NEW s, UserSends(a, row, s)
  PROVE  TypeOK'
<1>1. rows' \in [RowAddr -> Row \cup {NoRow}]
  BY DEF UserSends, TypeOK
<1>2. /\ UNCHANGED <<table, request, conn, linked, caller, attached, watchList>>
  BY DEF UserSends, GuiDone, freezer, hub
<1>3. /\ up' \in [Conn -> Seq(Message)]
      /\ caller \in Conn => up'[caller] # <<>>
  <2>1. CASE linked
    <3>1. up' = [up EXCEPT ![conn] = up[conn] \o s]
      BY <2>1 DEF UserSends, Send
    <3>2. conn \in Conn /\ up[conn] \in Seq(Message) /\ s \in Seq(Message)
      BY DEF TypeOK, UserSends
    <3> DEFINE t == up[conn] \o s
    <3>3. t \in Seq(Message) /\ Len(t) = Len(up[conn]) + Len(s)
      BY <3>2
    <3>4. up[conn] # <<>> => t # <<>>
      BY <3>2
    <3> HIDE DEF t
    <3> QED BY <3>1, <3>2, <3>3, <3>4 DEF TypeOK, t
  <2>2. CASE ~linked
    BY <2>2 DEF UserSends, Send, TypeOK
  <2> QED BY <2>1, <2>2
<1>4. unwatched' \subseteq RowAddr /\ unheld' \subseteq RowAddr
  <2>1. a \in RowAddr /\ \A i \in 1..Len(s) : s[i].address = a
    BY DEF UserSends
  <2>2. Watching(s) \subseteq RowAddr /\ Freezing(s) \subseteq RowAddr
    BY <2>1 DEF Watching, Freezing
  <2> QED BY <2>2 DEF UserSends, Send, ghosts, TypeOK
<1> QED BY <1>1, <1>2, <1>3, <1>4 DEF TypeOK

LEMMA UserPreserves ==
  ASSUME IInv, NEW a, NEW row, NEW s, UserSends(a, row, s)
  PROVE  IInv'
<1>1. TypeOK'
  BY UserTypes DEF IInv
<1>2. /\ UNCHANGED <<table, request, conn, linked, caller, attached, watchList>>
      /\ a \in RowAddr /\ rows' = [rows EXCEPT ![a] = row] /\ rows \in [RowAddr -> Row \cup {NoRow}]
      /\ s \in Seq(Message) /\ conn \in Conn /\ up \in [Conn -> Seq(Message)]
      /\ unwatched \subseteq unwatched' /\ unheld \subseteq unheld'
  BY DEF UserSends, GuiDone, freezer, hub, IInv, TypeOK, Send, ghosts
<1>3. /\ linked => up' = [up EXCEPT ![conn] = up[conn] \o s] /\ UNCHANGED <<unwatched, unheld>>
      /\ ~linked => up' = up /\ unwatched' = unwatched \cup Watching(s) /\ unheld' = unheld \cup Freezing(s)
  BY DEF UserSends, Send, ghosts
<1>4. ASSUME NEW b \in RowAddr, b # a
      PROVE  /\ Pending(s, WatchOn(b)) = {} /\ Pending(s, FreezeOn(b)) = {}
             /\ rows'[b] = rows[b]
  BY <1>2, <1>4 DEF UserSends, Pending, WatchOn, FreezeOn
<1>5. rows'[a] = row
  BY <1>2
<1> DEFINE q == up[conn]
           t == q \o s
<1>6. IsSent(q, s, t)
  BY <1>2, Sent
<1> HIDE DEF t
<1>7. WatchesLead'
  <2> SUFFICES ASSUME NEW b \in RowAddr \ unwatched'
               PROVE  /\ EndsIn(up'[conn], WatchOn(b), WatchAfter, Watched(b), {rows'[b].type} \ {NoType})
                      /\ Chained(up'[conn], WatchOn(b), WatchBefore, WatchAfter, Watched(b))
    BY <1>2 DEF WatchesLead, Watched, ShownType
  <2>1. /\ EndsIn(q, WatchOn(b), WatchAfter, Watched(b), ShownType(b))
        /\ Chained(q, WatchOn(b), WatchBefore, WatchAfter, Watched(b))
    BY <1>2 DEF IInv, WatchesLead
  <2>2. CASE Pending(s, WatchOn(b)) = {} /\ rows'[b].type = rows[b].type
    <3>1. CASE linked
      <4>1. up'[conn] = t
        BY <1>2, <1>3, <3>1 DEF t
      <4>2. /\ EndsIn(t, WatchOn(b), WatchAfter, Watched(b), ShownType(b))
            /\ Chained(t, WatchOn(b), WatchBefore, WatchAfter, Watched(b))
        BY <1>6, <2>1, <2>2, EndsInOthersSent, ChainedOthersSent
      <4> QED BY <4>1, <4>2, <2>2 DEF ShownType
    <3>2. CASE ~linked
      BY <1>3, <3>2, <2>1, <2>2 DEF ShownType
    <3> QED BY <3>1, <3>2
  <2>3. CASE b = a /\ ~(Pending(s, WatchOn(a)) = {} /\ row.type = rows[a].type)
    <3>1. PICK k \in 1..Len(s) :
            /\ Pending(s, WatchOn(a)) = {k}
            /\ WatchBefore[s[k]] = ShownType(a) /\ WatchAfter[s[k]] = {row.type} \ {NoType}
      BY <2>3 DEF UserSends
    <3>2. linked
      <4>1. a \in Watching(s)
        BY <3>1, NonePending
      <4> QED BY <4>1, <1>3, <2>3
    <3>3. up'[conn] = t
      BY <1>2, <1>3, <3>2 DEF t
    <3>4. EndsIn(t, WatchOn(a), WatchAfter, Watched(a), {row.type} \ {NoType})
      <4>1. EndsIn(q, WatchOn(a), WatchAfter, Watched(a), ShownType(a))
        BY <2>1, <2>3
      <4>2. EndsIn(t, WatchOn(a), WatchAfter, Watched(a), WatchAfter[s[k]])
        BY <1>6, <4>1, <3>1, EndsInSent
      <4> QED BY <4>2, <3>1
    <3>5. Chained(t, WatchOn(a), WatchBefore, WatchAfter, Watched(a))
      BY <1>6, <2>1, <2>3, <3>1, ChainedSent
    <3> QED BY <3>3, <3>4, <3>5, <1>5, <2>3
  <2> QED BY <2>2, <2>3, <1>4, <1>5
<1>8. OrdersLead'
  <2> SUFFICES ASSUME NEW b \in RowAddr \ unheld'
               PROVE  EndsIn(up'[conn], FreezeOn(b), OrderAfter, table[b].mode, rows'[b].order)
    BY <1>2 DEF OrdersLead
  <2>1. EndsIn(q, FreezeOn(b), OrderAfter, table[b].mode, rows[b].order)
    BY <1>2 DEF IInv, OrdersLead
  <2>2. CASE Pending(s, FreezeOn(b)) = {} /\ rows'[b].order = rows[b].order
    <3>1. CASE linked
      <4>1. up'[conn] = t
        BY <1>2, <1>3, <3>1 DEF t
      <4>2. EndsIn(t, FreezeOn(b), OrderAfter, table[b].mode, rows[b].order)
        BY <1>6, <2>1, <2>2, EndsInOthersSent
      <4> QED BY <4>1, <4>2, <2>2
    <3>2. CASE ~linked
      BY <1>3, <3>2, <2>1, <2>2
    <3> QED BY <3>1, <3>2
  <2>3. CASE b = a /\ ~(Pending(s, FreezeOn(a)) = {} /\ row.order = rows[a].order)
    <3>1. PICK k \in 1..Len(s) : Pending(s, FreezeOn(a)) = {k} /\ OrderAfter[s[k]] = row.order
      BY <2>3 DEF UserSends
    <3>2. linked
      <4>1. a \in Freezing(s)
        BY <3>1, NonePending
      <4> QED BY <4>1, <1>3, <2>3
    <3>3. up'[conn] = t
      BY <1>2, <1>3, <3>2 DEF t
    <3>4. EndsIn(t, FreezeOn(a), OrderAfter, table[a].mode, row.order)
      BY <1>6, <2>1, <2>3, <3>1, EndsInSent
    <3> QED BY <3>3, <3>4, <1>5, <2>3
  <2> QED BY <2>2, <2>3, <1>4, <1>5
<1>9. ClosedIsLost'
  <2> SUFFICES ASSUME NEW c \in Conn, c # conn \/ ~linked
               PROVE  Watching(up'[c]) \subseteq unwatched' /\ Freezing(up'[c]) \subseteq unheld'
    BY <1>2 DEF ClosedIsLost, Closed
  <2>1. up'[c] = up[c]
    BY <1>2, <1>3
  <2> QED BY <1>2, <2>1 DEF IInv, ClosedIsLost, Closed
<1>10. CallIsHead'
  <2> SUFFICES ASSUME caller \in Conn PROVE Head(up'[caller]) = Head(up[caller])
    BY <1>2 DEF IInv, CallIsHead
  <2>1. up[caller] # <<>> /\ up[caller] \in Seq(Message)
    BY DEF IInv, TypeOK
  <2>2. CASE caller = conn /\ linked
    <3>1. up'[caller] = q \o s
      BY <2>2, <1>2, <1>3
    <3>2. Head(q \o s) = Head(q)
      BY <2>1, <2>2, <1>2
    <3> QED BY <3>1, <3>2, <2>2
  <2>3. CASE ~(caller = conn /\ linked)
    BY <2>3, <1>2, <1>3
  <2> QED BY <2>2, <2>3
<1> QED BY <1>1, <1>2, <1>7, <1>8, <1>9, <1>10 DEF IInv, LastStays

-----------------------------------------------------------------------------
(* The first message of c is dealt with.                                   *)
Dealt(c) ==
  /\ c \in Conn /\ up[c] # <<>>
  /\ up' = [up EXCEPT ![c] = Tail(@)]
  /\ UNCHANGED gui
  /\ unwatched \subseteq unwatched' /\ unheld \subseteq unheld'

(* If it does what it says, and one of a closed connection nothing to what *)
(* was not given up, the rest still leads there.                           *)
LEMMA DealtLeads ==
  ASSUME IInv, NEW c, Dealt(c),
         \A a \in RowAddr \ unwatched' :
           Watched(a)' = IF c = conn /\ Head(up[c]) \in WatchOn(a)
                           THEN WatchAfter[Head(up[c])] ELSE Watched(a),
         \A a \in RowAddr \ unheld' :
           table'[a].mode = IF c = conn /\ Head(up[c]) \in FreezeOn(a)
                              THEN OrderAfter[Head(up[c])] ELSE table[a].mode
  PROVE  WatchesLead' /\ OrdersLead' /\ ClosedIsLost' /\ LastStays'
<1>1. /\ c \in Conn /\ conn \in Conn /\ up \in [Conn -> Seq(Message)] /\ up[c] # <<>>
      /\ UNCHANGED <<rows, conn, linked>>
      /\ unwatched \subseteq unwatched' /\ unheld \subseteq unheld'
      /\ up'[c] = Tail(up[c]) /\ \A d \in Conn : d # c => up'[d] = up[d]
  BY DEF Dealt, IInv, TypeOK, gui
<1> DEFINE q == up[c]
<1>2. q \in Seq(Message)
  BY <1>1
<1>3. WatchesLead'
  <2> SUFFICES ASSUME NEW a \in RowAddr \ unwatched'
               PROVE  /\ EndsIn(up'[conn], WatchOn(a), WatchAfter, Watched(a)', ShownType(a))
                      /\ Chained(up'[conn], WatchOn(a), WatchBefore, WatchAfter, Watched(a)')
    BY <1>1 DEF WatchesLead, ShownType
  <2>1. /\ EndsIn(up[conn], WatchOn(a), WatchAfter, Watched(a), ShownType(a))
        /\ Chained(up[conn], WatchOn(a), WatchBefore, WatchAfter, Watched(a))
    BY <1>1 DEF IInv, WatchesLead
  <2>2. CASE c = conn
    <3>1. Watched(a)' = IF Head(q) \in WatchOn(a) THEN WatchAfter[Head(q)] ELSE Watched(a)
      BY <2>2
    <3>2. EndsIn(Tail(q), WatchOn(a), WatchAfter, Watched(a)', ShownType(a))
      BY <1>1, <1>2, <2>1, <2>2, <3>1, EndsInTaken
    <3>3. Chained(Tail(q), WatchOn(a), WatchBefore, WatchAfter, Watched(a)')
      BY <1>1, <1>2, <2>1, <2>2, <3>1, ChainedTaken
    <3> QED BY <1>1, <2>2, <3>2, <3>3
  <2>3. CASE c # conn
    BY <1>1, <2>1, <2>3
  <2> QED BY <2>2, <2>3
<1>4. OrdersLead'
  <2> SUFFICES ASSUME NEW a \in RowAddr \ unheld'
               PROVE  EndsIn(up'[conn], FreezeOn(a), OrderAfter, table'[a].mode, rows[a].order)
    BY <1>1 DEF OrdersLead
  <2>1. EndsIn(up[conn], FreezeOn(a), OrderAfter, table[a].mode, rows[a].order)
    BY <1>1 DEF IInv, OrdersLead
  <2>2. CASE c = conn
    <3>1. table'[a].mode = IF Head(q) \in FreezeOn(a) THEN OrderAfter[Head(q)] ELSE table[a].mode
      BY <2>2
    <3>2. EndsIn(Tail(q), FreezeOn(a), OrderAfter, table'[a].mode, rows[a].order)
      BY <1>1, <1>2, <2>1, <2>2, <3>1, EndsInTaken
    <3> QED BY <1>1, <2>2, <3>2
  <2>3. CASE c # conn
    BY <1>1, <2>1, <2>3
  <2> QED BY <2>2, <2>3
<1>5. ClosedIsLost'
  <2> SUFFICES ASSUME NEW d \in Conn, Closed(d)
               PROVE  Watching(up'[d]) \subseteq unwatched' /\ Freezing(up'[d]) \subseteq unheld'
    BY <1>1 DEF ClosedIsLost, Closed
  <2>1. Watching(up[d]) \subseteq unwatched /\ Freezing(up[d]) \subseteq unheld
    BY DEF IInv, ClosedIsLost
  <2>2. CASE d = c
    <3>1. Watching(Tail(q)) \subseteq Watching(q) /\ Freezing(Tail(q)) \subseteq Freezing(q)
      BY <1>1, <1>2, TailAbout
    <3> QED BY <1>1, <2>1, <2>2, <3>1
  <2>3. CASE d # c
    BY <1>1, <2>1, <2>3
  <2> QED BY <2>2, <2>3
<1>6. LastStays'
  BY <1>1 DEF IInv, LastStays
<1> QED BY <1>3, <1>4, <1>5, <1>6

(* The calls of other connections stay at their heads.                     *)
LEMMA DealtTypes ==
  ASSUME TypeOK, NEW c, Dealt(c)
  PROVE  /\ up' \in [Conn -> Seq(Message)]
         /\ \A d \in Conn : d # c => up'[d] = up[d]
         /\ Head(up[c]) \in Message
         /\ Watching(<<Head(up[c])>>) \subseteq RowAddr /\ Freezing(<<Head(up[c])>>) \subseteq RowAddr
         /\ Head(up[c]) \in WatchMessage => Head(up[c]).address \in Watching(<<Head(up[c])>>)
         /\ Head(up[c]) \in FreezeMessage => Head(up[c]).address \in Freezing(<<Head(up[c])>>)
<1>1. up[c] \in Seq(Message) /\ up[c] # <<>> /\ c \in Conn /\ up \in [Conn -> Seq(Message)]
      /\ up' = [up EXCEPT ![c] = Tail(up[c])]
  BY DEF Dealt, TypeOK
<1>2. Tail(up[c]) \in Seq(Message) /\ Head(up[c]) \in Message
  BY <1>1
<1> DEFINE m == Head(up[c])
<1> HIDE DEF m
<1>3. Len(<<m>>) = 1 /\ <<m>>[1] = m
  OBVIOUS
<1>4. /\ Watching(<<m>>) = IF m \in WatchMessage THEN {m.address} ELSE {}
      /\ Freezing(<<m>>) = IF m \in FreezeMessage THEN {m.address} ELSE {}
  BY <1>3 DEF Watching, Freezing
<1>5. m \in Message => m.address \in RowAddr
  BY DEF Message, WatchMessage, FreezeMessage
<1> QED BY <1>1, <1>2, <1>4, <1>5 DEF m

LEMMA HubWatchesPreserves ==
  ASSUME IInv, NEW c \in Conn, HubWatches(c)
  PROVE  IInv'
<1> DEFINE m == Head(up[c])
<1>1. /\ Dealt(c) /\ UNCHANGED <<table, request, rows, conn, linked, caller, attached, unwatched, unheld>>
      /\ m \in WatchMessage /\ caller # c /\ up[c] # <<>>
      /\ watchList' = IF m.op = "watch" THEN watchList \cup {<<m.address, m.type>>}
                                        ELSE watchList \ {<<m.address, m.type>>}
  BY DEF HubWatches, Takes, Taken, Dealt, freezer, gui, ghosts
<1>2. m.address \in RowAddr /\ m.type \in Type /\ m.op \in {"watch", "unwatch"} /\ m \notin FreezeMessage
  BY <1>1, Kinds DEF WatchMessage
<1>3. TypeOK'
  <2>1. up' \in [Conn -> Seq(Message)] /\ (caller \in Conn => up'[caller] # <<>>)
    BY <1>1, DealtTypes DEF IInv, TypeOK
  <2>2. watchList' \subseteq RowAddr \X Type
    BY <1>1, <1>2 DEF IInv, TypeOK
  <2> QED BY <1>1, <2>1, <2>2 DEF IInv, TypeOK
<1>4. ASSUME NEW a \in RowAddr \ unwatched'
      PROVE  Watched(a)' = IF c = conn /\ m \in WatchOn(a) THEN WatchAfter[m] ELSE Watched(a)
  <2>1. CASE m.address # a
    <3>1. m \notin WatchOn(a)
      BY <2>1 DEF WatchOn
    <3>2. Watched(a)' = Watched(a)
      BY <1>1, <2>1 DEF Watched
    <3> QED BY <3>1, <3>2
  <2>2. CASE m.address = a
    <3>1. m \in WatchOn(a)
      BY <1>1, <2>2 DEF WatchOn
    <3>2. up[c] \in Seq(Message)
      BY DEF IInv, TypeOK
    <3>3. c = conn
      <4>1. a \in Watching(up[c])
        BY <1>1, <2>2, <3>2, TailAbout
      <4> QED BY <4>1, <1>1 DEF IInv, ClosedIsLost, Closed
    <3>4. Watched(a) = WatchBefore[m]
      <4>1. Chained(up[c], WatchOn(a), WatchBefore, WatchAfter, Watched(a))
        BY <1>1, <3>3 DEF IInv, WatchesLead
      <4> QED BY <4>1, <3>1, <3>2, <1>1, ChainedTaken
    <3>5. CASE m.op = "watch"
      <4>1. Watched(a) = {} /\ WatchAfter[m] = {m.type}
        BY <1>1, <3>4, <3>5 DEF WatchBefore, WatchAfter
      <4>2. Watched(a)' = {m.type}
        BY <1>1, <1>2, <2>2, <3>5, <4>1 DEF Watched
      <4> QED BY <4>1, <4>2, <3>1, <3>3
    <3>6. CASE m.op = "unwatch"
      <4>1. Watched(a) = {m.type} /\ WatchAfter[m] = {}
        BY <1>1, <3>4, <3>6 DEF WatchBefore, WatchAfter
      <4>2. Watched(a)' = {}
        BY <1>1, <1>2, <2>2, <3>6, <4>1 DEF Watched
      <4> QED BY <4>1, <4>2, <3>1, <3>3
    <3> QED BY <1>2, <3>5, <3>6
  <2> QED BY <2>1, <2>2
<1>5. ASSUME NEW a \in RowAddr \ unheld'
      PROVE  table'[a].mode = IF c = conn /\ m \in FreezeOn(a) THEN OrderAfter[m] ELSE table[a].mode
  BY <1>1, <1>2 DEF FreezeOn
<1>6. WatchesLead' /\ OrdersLead' /\ ClosedIsLost' /\ LastStays'
  BY <1>1, <1>4, <1>5, DealtLeads
<1>7. CallIsHead'
  <2>1. TypeOK /\ Dealt(c)
    BY <1>1 DEF IInv
  <2>2. \A d \in Conn : d # c => up'[d] = up[d]
    BY <2>1 DEF Dealt, TypeOK
  <2> QED BY <1>1, <2>2 DEF IInv, CallIsHead
<1> QED BY <1>3, <1>6, <1>7 DEF IInv

(* Nothing of what the lead is about changes, and no address is regained.  *)
LEMMA SameLead ==
  ASSUME WatchesLead, OrdersLead, UNCHANGED <<up, rows, conn, watchList>>,
         unwatched \subseteq unwatched', unheld \subseteq unheld',
         \A a \in RowAddr \ unheld' : table'[a].mode = table[a].mode
  PROVE  WatchesLead' /\ OrdersLead'
<1>1. ASSUME NEW a \in RowAddr \ unwatched'
      PROVE  /\ EndsIn(up'[conn'], WatchOn(a), WatchAfter, Watched(a)', ShownType(a)')
             /\ Chained(up'[conn'], WatchOn(a), WatchBefore, WatchAfter, Watched(a)')
  BY <1>1 DEF WatchesLead, Watched, ShownType
<1>2. ASSUME NEW a \in RowAddr \ unheld'
      PROVE  EndsIn(up'[conn'], FreezeOn(a), OrderAfter, table'[a].mode, rows'[a].order)
  BY <1>2 DEF OrdersLead
<1> QED BY <1>1, <1>2 DEF WatchesLead, OrdersLead

LEMMA HubFreezesPreserves ==
  ASSUME IInv, NEW c \in Conn, HubFreezes(c)
  PROVE  IInv'
<1> DEFINE m == Head(up[c])
<1>1. /\ m \in FreezeMessage /\ up[c] # <<>> /\ caller' = c
      /\ UNCHANGED <<table, rows, conn, linked, up, attached, watchList, unwatched, unheld>>
      /\ request' = IF m.op = "freeze"
                      THEN [op |-> "add", address |-> m.address, value |-> m.value, mode |-> m.mode]
                      ELSE [F!NoRequest EXCEPT !.op = "remove", !.address = m.address]
  BY DEF HubFreezes, Takes, gui, ghosts
<1> HIDE DEF m
<1>2. /\ m.address \in Addr /\ m.op \in {"freeze", "unfreeze"}
      /\ m.op = "freeze" => m.value \in F!Val /\ m.mode \in F!Mode
  BY <1>1 DEF FreezeMessage, RowAddr
<1>3. /\ request' \in F!Request /\ request'.address = m.address
      /\ m.op = "freeze" => request'.op = "add" /\ request'.mode = m.mode
      /\ m.op = "unfreeze" => request'.op = "remove"
  <2>1. 0 \in F!Val /\ "freeze" \in F!Mode
    BY CheatTableAssumption DEF F!Val, F!Mode
  <2> QED BY <1>1, <1>2, <2>1 DEF F!Request, F!NoRequest
<1>4. request' # F!NoRequest /\ c # NoConn /\ c # OtherConn
  BY <1>3, Requests, CheatTableAssumption DEF Conn, NoConn, OtherConn
<1>5. TypeOK'
  BY <1>1, <1>3, <1>4 DEF IInv, TypeOK
<1>6. WatchesLead' /\ OrdersLead'
  BY <1>1, SameLead DEF IInv
<1>7. ClosedIsLost' /\ LastStays'
  BY <1>1 DEF IInv, ClosedIsLost, Closed, LastStays
<1>8. CallIsHead'
  BY <1>1, <1>3, <1>4 DEF CallIsHead, m
<1> QED BY <1>5, <1>6, <1>7, <1>8 DEF IInv

LEMMA OtherFreezesPreserves ==
  ASSUME IInv, OtherFreezes
  PROVE  IInv'
<1>1. /\ UNCHANGED <<table, rows, conn, linked, up, attached, watchList, unwatched, unheld>>
      /\ caller' = OtherConn /\ request' \in F!Request
      /\ request'.op # "clear" /\ request'.address \in Others
  BY DEF OtherFreezes, gui, ghosts
<1>2. request' # F!NoRequest /\ OtherConn # NoConn /\ OtherConn \notin Conn
  BY <1>1, Requests, CheatTableAssumption DEF Conn, NoConn, OtherConn
<1>3. request'.op \in {"add", "remove"}
  BY <1>1 DEF F!Request
<1>4. TypeOK'
  BY <1>1, <1>2 DEF IInv, TypeOK
<1>5. WatchesLead' /\ OrdersLead'
  BY <1>1, SameLead DEF IInv
<1>6. ClosedIsLost' /\ LastStays'
  BY <1>1 DEF IInv, ClosedIsLost, Closed, LastStays
<1>7. CallIsHead'
  BY <1>1, <1>2, <1>3 DEF CallIsHead
<1> QED BY <1>4, <1>5, <1>6, <1>7 DEF IInv

(* A message is dealt with whose address, and what is known of it, stays.  *)
LEMMA RejectedLeads ==
  ASSUME IInv, NEW c, Dealt(c), UNCHANGED watchList,
         \A a \in RowAddr \ unheld' : table'[a].mode = table[a].mode,
         Head(up[c]) \in WatchMessage => Head(up[c]).address \in unwatched',
         Head(up[c]) \in FreezeMessage => Head(up[c]).address \in unheld'
  PROVE  WatchesLead' /\ OrdersLead' /\ ClosedIsLost' /\ LastStays'
<1>1. ASSUME NEW a \in RowAddr \ unwatched'
      PROVE  Head(up[c]) \notin WatchOn(a) /\ Watched(a)' = Watched(a)
  BY <1>1 DEF WatchOn, Watched
<1>2. ASSUME NEW a \in RowAddr \ unheld' PROVE Head(up[c]) \notin FreezeOn(a)
  BY <1>2 DEF FreezeOn
<1> QED BY <1>1, <1>2, DealtLeads

LEMMA HubRejectsPreserves ==
  ASSUME IInv, NEW c \in Conn, HubRejects(c)
  PROVE  IInv'
<1> DEFINE m == Head(up[c])
<1>1. /\ Dealt(c) /\ caller # c
      /\ UNCHANGED <<table, request, rows, conn, linked, caller, attached, watchList>>
      /\ unwatched' = unwatched \cup Watching(<<m>>) /\ unheld' = unheld \cup Freezing(<<m>>)
  BY DEF HubRejects, Takes, Taken, Dealt, freezer, gui, hub
<1> HIDE DEF m
<1>2. TypeOK
  BY DEF IInv
<1>3. /\ up' \in [Conn -> Seq(Message)] /\ \A d \in Conn : d # c => up'[d] = up[d]
      /\ Watching(<<m>>) \subseteq RowAddr /\ Freezing(<<m>>) \subseteq RowAddr
      /\ m \in WatchMessage => m.address \in Watching(<<m>>)
      /\ m \in FreezeMessage => m.address \in Freezing(<<m>>)
  BY <1>1, <1>2, DealtTypes DEF m
<1>4. TypeOK'
  BY <1>1, <1>2, <1>3 DEF TypeOK
<1>5. WatchesLead' /\ OrdersLead' /\ ClosedIsLost' /\ LastStays'
  BY <1>1, <1>3, RejectedLeads DEF m
<1>6. CallIsHead'
  BY <1>1, <1>3 DEF IInv, CallIsHead
<1> QED BY <1>4, <1>5, <1>6 DEF IInv


(* The agent has carried out the call, or has not.                         *)
LEMMA AnswerTypes ==
  ASSUME TypeOK, AgentAnswers
  PROVE  /\ table' \in [Addr -> [mode : F!Mode \cup {"none"}, value : F!Val, lastWritten : F!Val]]
         /\ request' = F!NoRequest /\ caller' = NoConn
         /\ request \in F!Request
         /\ unheld' \subseteq RowAddr /\ unheld \subseteq unheld'
<1>1. request \in F!Request
  BY DEF AgentAnswers, TypeOK
<1>2. 0 \in F!Val
  BY CheatTableAssumption DEF F!Val
<1>3. ASSUME NEW o \in [mode : F!Mode \cup {"none"}, value : F!Val, lastWritten : F!Val], NEW a,
             table' = [table EXCEPT ![a] = o]
      PROVE  table' \in [Addr -> [mode : F!Mode \cup {"none"}, value : F!Val, lastWritten : F!Val]]
  BY <1>3 DEF TypeOK
<1>4. CASE F!Freeze
  <2>1. F!Order(request.value, request.mode) \in [mode : F!Mode \cup {"none"}, value : F!Val, lastWritten : F!Val]
    BY <1>1, <1>2, Requests DEF F!Order
  <2> QED BY <1>1, <1>3, <1>4, <2>1 DEF F!Freeze, F!Answer, AgentAnswers, TypeOK
<1>5. CASE F!Unfreeze
  <2>1. F!NotFrozen \in [mode : F!Mode \cup {"none"}, value : F!Val, lastWritten : F!Val]
    BY <1>2 DEF F!NotFrozen
  <2> QED BY <1>1, <1>3, <1>5, <2>1 DEF F!Unfreeze, F!Answer, AgentAnswers, TypeOK
<1>6. CASE F!Refuse \/ Throws
  BY <1>1, <1>6 DEF F!Refuse, Throws, F!Answer, AgentAnswers, TypeOK
<1> QED BY <1>1, <1>4, <1>5, <1>6 DEF AgentAnswers, TypeOK

LEMMA AnswerOrders ==
  ASSUME TypeOK, AgentAnswers, request.op \in {"add", "remove"}, NEW a \in RowAddr \ unheld'
  PROVE  table'[a].mode = IF a = request.address
                            THEN IF request.op = "add" THEN request.mode ELSE "none"
                            ELSE table[a].mode
<1>1. a \in DOMAIN table
  BY DEF TypeOK, RowAddr
<1>2. CASE F!Freeze
  BY <1>1, <1>2 DEF F!Freeze, F!Order
<1>3. CASE F!Unfreeze
  BY <1>1, <1>3 DEF F!Unfreeze, F!NotFrozen
<1>4. CASE (F!Refuse \/ Throws) /\ unheld' = unheld \cup (RowAddr \cap {request.address})
  BY <1>4 DEF F!Refuse, Throws
<1> QED BY <1>2, <1>3, <1>4 DEF AgentAnswers

LEMMA AgentAnswersPreserves ==
  ASSUME IInv, AgentAnswers
  PROVE  IInv'
<1>1. TypeOK /\ CallIsHead
  BY DEF IInv
<1>2. /\ table' \in [Addr -> [mode : F!Mode \cup {"none"}, value : F!Val, lastWritten : F!Val]]
      /\ request' = F!NoRequest /\ caller' = NoConn /\ request \in F!Request
      /\ unheld' \subseteq RowAddr /\ unheld \subseteq unheld'
  BY <1>1, AnswerTypes
<1>3. /\ UNCHANGED <<rows, conn, linked, attached, watchList, unwatched>> /\ Answered
      /\ caller \in Conn \/ caller = OtherConn
  BY <1>1 DEF AgentAnswers, gui, TypeOK
<1>4. NoConn \notin Conn /\ OtherConn # NoConn /\ OtherConn \notin Conn
  BY CheatTableAssumption DEF Conn, NoConn, OtherConn
<1>5. CallIsHead'
  BY <1>2, <1>4 DEF CallIsHead
<1>6. CASE caller = OtherConn
  <2>1. up' = up /\ request.address \in Others /\ request.op \in {"add", "remove"}
    BY <1>1, <1>3, <1>4, <1>6 DEF Answered, CallIsHead
  <2>2. ASSUME NEW a \in RowAddr \ unheld' PROVE table'[a].mode = table[a].mode
    BY <1>1, <2>1, <2>2, AnswerOrders DEF RowAddr
  <2>3. WatchesLead' /\ OrdersLead'
    BY <1>2, <1>3, <2>1, <2>2, SameLead DEF IInv
  <2>4. ClosedIsLost' /\ LastStays'
    BY <1>2, <1>3, <2>1 DEF IInv, ClosedIsLost, Closed, LastStays
  <2>5. TypeOK'
    BY <1>1, <1>2, <1>3, <1>4, <2>1 DEF TypeOK
  <2> QED BY <1>5, <2>3, <2>4, <2>5 DEF IInv
<1>7. CASE caller \in Conn
  <2> DEFINE c == caller
             m == Head(up[c])
  <2>1. Dealt(c)
    BY <1>1, <1>2, <1>3, <1>7 DEF Answered, Dealt, TypeOK, gui
  <2>2. /\ m \in FreezeMessage /\ request.address = m.address
        /\ m.op = "freeze" => request.op = "add" /\ request.mode = m.mode
        /\ m.op = "unfreeze" => request.op = "remove"
        /\ m.op \in {"freeze", "unfreeze"}
    BY <1>1, <1>7 DEF CallIsHead, FreezeMessage
  <2>3. up[c] \in Seq(Message) /\ up[c] # <<>>
    BY <1>1, <1>7 DEF TypeOK
  <2>4. m.address \in Freezing(up[c])
    BY <2>2, <2>3, TailAbout
  <2>5. m.address \in unheld \/ c = conn
    BY <1>7, <2>4 DEF IInv, ClosedIsLost, Closed
  <2>6. up' \in [Conn -> Seq(Message)]
    BY <2>1, <1>1, DealtTypes
  <2> HIDE DEF m
  <2>7. ASSUME NEW a \in RowAddr \ unwatched'
        PROVE  Watched(a)' = IF c = conn /\ m \in WatchOn(a) THEN WatchAfter[m] ELSE Watched(a)
    BY <1>3, <2>2, Kinds DEF Watched, WatchOn
  <2>8. ASSUME NEW a \in RowAddr \ unheld'
        PROVE  table'[a].mode = IF c = conn /\ m \in FreezeOn(a) THEN OrderAfter[m] ELSE table[a].mode
    <3>1. table'[a].mode = IF a = m.address
                             THEN IF request.op = "add" THEN request.mode ELSE "none"
                             ELSE table[a].mode
      BY <1>1, <2>2, <2>8, AnswerOrders
    <3>2. OrderAfter[m] = IF m.op = "freeze" THEN m.mode ELSE "none"
      BY <2>2 DEF OrderAfter
    <3>3. m \in FreezeOn(a) <=> a = m.address
      BY <2>2 DEF FreezeOn
    <3>4. a = m.address => c = conn
      BY <1>2, <2>5, <2>8
    <3> QED BY <2>2, <3>1, <3>2, <3>3, <3>4
  <2>9. WatchesLead' /\ OrdersLead' /\ ClosedIsLost' /\ LastStays'
    BY <2>1, <2>7, <2>8, DealtLeads DEF m
  <2>10. TypeOK'
    BY <1>1, <1>2, <1>3, <1>4, <2>6 DEF TypeOK
  <2> QED BY <1>5, <2>9, <2>10 DEF IInv
<1> QED BY <1>3, <1>6, <1>7


LEMMA DetachPreserves ==
  ASSUME IInv, Detach
  PROVE  IInv'
<1>1. TypeOK /\ CallIsHead
  BY DEF IInv
<1>2. /\ UNCHANGED <<rows, conn, linked, watchList, unwatched>> /\ Answered
      /\ attached' = FALSE /\ request' = F!NoRequest /\ caller' = NoConn
      /\ table' = [a \in Addr |-> F!NotFrozen]
      /\ unheld' = unheld \cup (RowAddr \cap (F!Frozen \cup {request.address}))
  BY DEF Detach, gui
<1>3. NoConn \notin Conn /\ OtherConn # NoConn /\ OtherConn \notin Conn
  BY CheatTableAssumption DEF Conn, NoConn, OtherConn
<1>4. CallIsHead'
  BY <1>2, <1>3 DEF CallIsHead
<1>5. table' \in [Addr -> [mode : F!Mode \cup {"none"}, value : F!Val, lastWritten : F!Val]]
  <2>1. 0 \in F!Val
    BY CheatTableAssumption DEF F!Val
  <2> QED BY <1>2, <2>1 DEF F!NotFrozen
<1>6. ASSUME NEW a \in RowAddr \ unheld' PROVE table'[a].mode = table[a].mode
  <2>1. a \in Addr /\ a \notin F!Frozen
    BY <1>2, <1>6 DEF RowAddr
  <2> QED BY <1>2, <2>1 DEF F!Frozen
<1>7. unheld' \subseteq RowAddr /\ unheld \subseteq unheld'
  BY <1>1, <1>2 DEF TypeOK
<1>8. CASE caller \notin Conn
  <2>1. up' = up
    BY <1>2, <1>8 DEF Answered
  <2>2. WatchesLead' /\ OrdersLead'
    BY <1>2, <1>6, <1>7, <2>1, SameLead DEF IInv
  <2>3. ClosedIsLost' /\ LastStays'
    BY <1>2, <1>7, <2>1 DEF IInv, ClosedIsLost, Closed, LastStays
  <2>4. TypeOK'
    BY <1>1, <1>2, <1>3, <1>5, <1>7, <2>1 DEF TypeOK
  <2> QED BY <1>4, <2>2, <2>3, <2>4 DEF IInv
<1>9. CASE caller \in Conn
  <2>1. Dealt(caller)
    BY <1>1, <1>2, <1>7, <1>9 DEF Answered, Dealt, TypeOK, gui
  <2>2. /\ Head(up[caller]) \in FreezeMessage
        /\ Head(up[caller]).address = request.address
        /\ request.address \in RowAddr
    BY <1>1, <1>9 DEF CallIsHead, FreezeMessage
  <2>3. Head(up[caller]) \notin WatchMessage /\ Head(up[caller]).address \in unheld'
    BY <1>2, <2>2, Kinds
  <2>4. WatchesLead' /\ OrdersLead' /\ ClosedIsLost' /\ LastStays'
    BY <1>2, <1>6, <2>1, <2>3, RejectedLeads
  <2>5. up' \in [Conn -> Seq(Message)]
    BY <1>1, <2>1, DealtTypes
  <2>6. TypeOK'
    BY <1>1, <1>2, <1>3, <1>5, <1>7, <2>5 DEF TypeOK
  <2> QED BY <1>4, <2>4, <2>6 DEF IInv
<1> QED BY <1>8, <1>9

LEMMA AttachPreserves ==
  ASSUME IInv, Attach
  PROVE  IInv'
<1>1. /\ UNCHANGED <<table, request, rows, conn, linked, up, caller, watchList, unwatched, unheld>>
      /\ attached' = TRUE
  BY DEF Attach, gui, ghosts
<1>2. TypeOK'
  BY <1>1 DEF IInv, TypeOK
<1>3. WatchesLead' /\ OrdersLead'
  BY <1>1, SameLead DEF IInv
<1>4. ClosedIsLost' /\ CallIsHead' /\ LastStays'
  BY <1>1 DEF IInv, ClosedIsLost, Closed, CallIsHead, LastStays
<1> QED BY <1>2, <1>3, <1>4 DEF IInv

LEMMA DisconnectPreserves ==
  ASSUME IInv, Disconnect
  PROVE  IInv'
<1>1. /\ UNCHANGED <<table, request, rows, conn, up, caller, attached, watchList>>
      /\ linked' = FALSE /\ conn < MaxConn
      /\ unwatched' = unwatched \cup Watching(up[conn])
      /\ unheld' = unheld \cup Freezing(up[conn])
  BY DEF Disconnect, freezer, hub
<1>2. Watching(up[conn]) \subseteq RowAddr /\ Freezing(up[conn]) \subseteq RowAddr
  <2>1. up[conn] \in Seq(Message)
    BY DEF IInv, TypeOK
  <2> QED BY <2>1 DEF Watching, Freezing, WatchMessage, FreezeMessage
<1>3. TypeOK'
  BY <1>1, <1>2 DEF IInv, TypeOK
<1>4. WatchesLead' /\ OrdersLead'
  BY <1>1, SameLead DEF IInv
<1>5. ClosedIsLost'
  BY <1>1 DEF IInv, ClosedIsLost, Closed
<1>6. CallIsHead' /\ LastStays'
  BY <1>1 DEF IInv, CallIsHead, LastStays
<1> QED BY <1>3, <1>4, <1>5, <1>6 DEF IInv

(* With nothing to come of it, the hub has what the row shows.             *)
LEMMA NothingToCome ==
  ASSUME NEW q, NEW r, NEW M, NEW bef, NEW aft, NEW now, NEW shown,
         Pending(q, M) = {}, Pending(r, M) = {}, EndsIn(q, M, aft, now, shown)
  PROVE  EndsIn(r, M, aft, now, shown) /\ Chained(r, M, bef, aft, now)
BY DEF EndsIn, Chained

LEMMA ReconnectPreserves ==
  ASSUME IInv, Reconnect
  PROVE  IInv'
<1>1. /\ UNCHANGED <<table, request, rows, up, caller, attached, watchList, unwatched, unheld>>
      /\ ~linked /\ linked' = TRUE /\ conn' = conn + 1
  BY DEF Reconnect, freezer, hub, ghosts
<1>2. conn \in Conn /\ conn' \in Conn
  BY <1>1, CheatTableAssumption DEF IInv, TypeOK, LastStays, Conn
<1>3. TypeOK'
  BY <1>1, <1>2 DEF IInv, TypeOK
<1>4. \A c \in Conn : Watching(up[c]) \subseteq unwatched /\ Freezing(up[c]) \subseteq unheld
  BY <1>1 DEF IInv, ClosedIsLost, Closed
<1>5. ASSUME NEW a \in RowAddr \ unwatched
      PROVE  /\ EndsIn(up[conn'], WatchOn(a), WatchAfter, Watched(a), ShownType(a))
             /\ Chained(up[conn'], WatchOn(a), WatchBefore, WatchAfter, Watched(a))
  <2>1. Pending(up[conn], WatchOn(a)) = {} /\ Pending(up[conn'], WatchOn(a)) = {}
    BY <1>2, <1>4, <1>5, NonePending
  <2>2. EndsIn(up[conn], WatchOn(a), WatchAfter, Watched(a), ShownType(a))
    BY <1>5 DEF IInv, WatchesLead
  <2> QED BY <2>1, <2>2, NothingToCome
<1>6. ASSUME NEW a \in RowAddr \ unheld
      PROVE  EndsIn(up[conn'], FreezeOn(a), OrderAfter, table[a].mode, rows[a].order)
  <2>1. Pending(up[conn], FreezeOn(a)) = {} /\ Pending(up[conn'], FreezeOn(a)) = {}
    BY <1>2, <1>4, <1>6, NonePending
  <2>2. EndsIn(up[conn], FreezeOn(a), OrderAfter, table[a].mode, rows[a].order)
    BY <1>6 DEF IInv, OrdersLead
  <2> QED BY <2>1, <2>2, NothingToCome
<1>7. WatchesLead' /\ OrdersLead'
  BY <1>1, <1>5, <1>6 DEF WatchesLead, OrdersLead, Watched, ShownType
<1>8. ClosedIsLost' /\ CallIsHead' /\ LastStays'
  BY <1>1, <1>4 DEF IInv, ClosedIsLost, CallIsHead, LastStays
<1> QED BY <1>3, <1>7, <1>8 DEF IInv

LEMMA LoseRestPreserves ==
  ASSUME IInv, NEW c \in Conn, LoseRest(c)
  PROVE  IInv'
<1>1. /\ UNCHANGED <<table, request, rows, conn, linked, caller, attached, watchList, unwatched, unheld>>
      /\ Closed(c) /\ caller # c /\ up' = [up EXCEPT ![c] = <<>>]
  BY DEF LoseRest, freezer, gui, hub, ghosts
<1>2. TypeOK'
  BY <1>1 DEF IInv, TypeOK
<1>3. conn \in Conn /\ up'[c] = <<>> /\ \A d \in Conn : d # c => up'[d] = up[d]
  BY <1>1 DEF IInv, TypeOK
<1>4. /\ Watching(<<>>) = {} /\ Freezing(<<>>) = {}
      /\ \A M : Pending(<<>>, M) = {}
  BY DEF Watching, Freezing, Pending
<1>5. ASSUME c # conn PROVE WatchesLead' /\ OrdersLead'
  BY <1>1, <1>3, <1>5 DEF IInv, WatchesLead, OrdersLead, Watched, ShownType
<1>6. ASSUME c = conn PROVE WatchesLead' /\ OrdersLead'
  <2>1. Watching(up[conn]) \subseteq unwatched /\ Freezing(up[conn]) \subseteq unheld
    BY <1>1, <1>6 DEF IInv, ClosedIsLost
  <2>2. ASSUME NEW a \in RowAddr \ unwatched
        PROVE  /\ EndsIn(<<>>, WatchOn(a), WatchAfter, Watched(a), ShownType(a))
               /\ Chained(<<>>, WatchOn(a), WatchBefore, WatchAfter, Watched(a))
    <3>1. Pending(up[conn], WatchOn(a)) = {}
      BY <2>1, <2>2, NonePending
    <3>2. EndsIn(up[conn], WatchOn(a), WatchAfter, Watched(a), ShownType(a))
      BY <2>2 DEF IInv, WatchesLead
    <3> QED BY <1>4, <3>1, <3>2, NothingToCome
  <2>3. ASSUME NEW a \in RowAddr \ unheld
        PROVE  EndsIn(<<>>, FreezeOn(a), OrderAfter, table[a].mode, rows[a].order)
    <3>1. Pending(up[conn], FreezeOn(a)) = {}
      BY <2>1, <2>3, NonePending
    <3>2. EndsIn(up[conn], FreezeOn(a), OrderAfter, table[a].mode, rows[a].order)
      BY <2>3 DEF IInv, OrdersLead
    <3> QED BY <1>4, <3>1, <3>2, NothingToCome
  <2> QED BY <1>1, <1>3, <1>6, <2>2, <2>3 DEF WatchesLead, OrdersLead, Watched, ShownType
<1>7. WatchesLead' /\ OrdersLead'
  BY <1>5, <1>6
<1>8. ClosedIsLost'
  BY <1>1, <1>3, <1>4 DEF IInv, ClosedIsLost, Closed
<1>9. CallIsHead' /\ LastStays'
  BY <1>1, <1>3 DEF IInv, CallIsHead, LastStays
<1> QED BY <1>2, <1>7, <1>8, <1>9 DEF IInv

LEMMA NextPreserves ==
  ASSUME IInv, [Next]_vars
  PROVE  IInv'
<1>1. CASE User
  <2>1. TypeOK
    BY DEF IInv
  <2> QED BY <1>1, <2>1, UserIsSends, UserPreserves
<1>2. ASSUME NEW c \in Conn, Handler(c) PROVE IInv'
  BY <1>2, HubWatchesPreserves, HubFreezesPreserves, HubRejectsPreserves DEF Handler
<1>3. ASSUME NEW c \in Conn, LoseRest(c) PROVE IInv'
  BY <1>3, LoseRestPreserves
<1>4. CASE Disconnect \/ Reconnect
  BY <1>4, DisconnectPreserves, ReconnectPreserves
<1>5. CASE OtherFreezes \/ AgentAnswers
  BY <1>5, OtherFreezesPreserves, AgentAnswersPreserves
<1>6. CASE Detach \/ Attach
  BY <1>6, DetachPreserves, AttachPreserves
<1>7. CASE UNCHANGED vars
  <2>1. UNCHANGED <<table, request, rows, conn, linked, up, caller, attached, watchList, unwatched, unheld>>
    BY <1>7 DEF vars, freezer, gui, hub, ghosts
  <2>2. TypeOK'
    BY <2>1 DEF IInv, TypeOK
  <2>3. WatchesLead' /\ OrdersLead'
    BY <2>1, SameLead DEF IInv
  <2>4. ClosedIsLost' /\ CallIsHead' /\ LastStays'
    BY <2>1 DEF IInv, ClosedIsLost, Closed, CallIsHead, LastStays
  <2> QED BY <2>2, <2>3, <2>4 DEF IInv
<1> QED BY <1>1, <1>2, <1>3, <1>4, <1>5, <1>6, <1>7 DEF Next

LEMMA InitIInv == Init => IInv
<1> SUFFICES ASSUME Init PROVE IInv
  OBVIOUS
<1>1. /\ table = [a \in Addr |-> F!NotFrozen] /\ request = F!NoRequest
      /\ rows = [a \in RowAddr |-> NoRow] /\ conn = 1 /\ linked = TRUE
      /\ up = [c \in Conn |-> <<>>] /\ caller = NoConn /\ attached = TRUE
      /\ watchList = {} /\ unwatched = {} /\ unheld = {}
  BY DEF Init, F!Init
<1>2. 0 \in F!Val /\ conn \in Conn /\ NoConn \notin Conn /\ OtherConn # NoConn
  BY <1>1, CheatTableAssumption DEF F!Val, Conn, NoConn, OtherConn
<1>3. TypeOK
  <2>1. table \in [Addr -> [mode : F!Mode \cup {"none"}, value : F!Val, lastWritten : F!Val]]
    BY <1>1, <1>2 DEF F!NotFrozen
  <2>2. up \in [Conn -> Seq(Message)]
    BY <1>1
  <2>3. rows \in [RowAddr -> Row \cup {NoRow}]
    BY <1>1
  <2> QED BY <1>1, <1>2, <2>1, <2>2, <2>3 DEF TypeOK
<1>4. /\ Watching(<<>>) = {} /\ Freezing(<<>>) = {}
      /\ \A M : Pending(<<>>, M) = {}
  BY DEF Watching, Freezing, Pending
<1>5. ASSUME NEW a \in RowAddr
      PROVE  Watched(a) = ShownType(a) /\ table[a].mode = rows[a].order /\ up[conn] = <<>>
  BY <1>1, <1>2 DEF Watched, ShownType, NoRow, F!NotFrozen, RowAddr
<1>6. WatchesLead /\ OrdersLead
  BY <1>4, <1>5 DEF WatchesLead, OrdersLead, EndsIn, Chained
<1>7. ClosedIsLost /\ CallIsHead /\ LastStays
  BY <1>1, <1>2, <1>4 DEF ClosedIsLost, CallIsHead, LastStays
<1> QED BY <1>3, <1>6, <1>7 DEF IInv

-----------------------------------------------------------------------------
(* In every reachable state what is still to come leads to what is shown.  *)
THEOREM Invariance == Spec => []IInv
BY InitIInv, NextPreserves, PTL DEF Spec

(* The types of rows, messages, calls and orders (main.gd, hub.py) hold.   *)
THEOREM TypesHold == Spec => []TypeOK
<1>1. IInv => TypeOK
  BY DEF IInv
<1> QED BY <1>1, Invariance, PTL

(* Once the hub has dealt with the messages about an address, its watch    *)
(* list (hub.py:300-305) has the row's type and no other, unless a message *)
(* was lost.                                                               *)
THEOREM WatchListFollowsRows == Spec => []WatchListIsRows
<1>1. ASSUME IInv PROVE WatchListIsRows
  <2>1. ASSUME NEW a \in RowAddr \ unwatched, \A c \in Conn : a \notin Watching(up[c])
        PROVE  Watched(a) = ShownType(a)
    <3>1. Pending(up[conn], WatchOn(a)) = {}
      BY <1>1, <2>1, NonePending DEF IInv, TypeOK
    <3> QED BY <1>1, <3>1 DEF IInv, WatchesLead, EndsIn
  <2> QED BY <2>1 DEF WatchListIsRows, Watched, ShownType
<1> QED BY <1>1, Invariance, PTL

(* Once the hub has dealt with the messages about an address, the freezer  *)
(* has the order the row shows (main.gd:443-534), and none if it shows     *)
(* none, unless a message or an order was lost.                            *)
THEOREM FreezerFollowsRows == Spec => []FrozenAsShown
<1>1. ASSUME IInv PROVE FrozenAsShown
  <2>1. ASSUME NEW a \in RowAddr \ unheld, \A c \in Conn : a \notin Freezing(up[c])
        PROVE  table[a].mode = rows[a].order
    <3>1. Pending(up[conn], FreezeOn(a)) = {}
      BY <1>1, <2>1, NonePending DEF IInv, TypeOK
    <3> QED BY <1>1, <3>1 DEF IInv, OrdersLead, EndsIn
  <2> QED BY <2>1 DEF FrozenAsShown
<1> QED BY <1>1, Invariance, PTL


=============================================================================
