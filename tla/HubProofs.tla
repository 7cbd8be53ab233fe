----------------------------- MODULE HubProofs -----------------------------
(***************************************************************************)
(* Proofs about the hub, for any number of UIs, sessions and addresses.    *)
(*                                                                         *)
(* TypesHold needs no hypothesis.  The other properties hold when no two   *)
(* UIs send attach (OneAttacher), however many freeze, watch and scan;     *)
(* nothing in hub.py enforces it, and the run HubTwoAttach shows that it   *)
(* is needed.                                                              *)
(*                                                                         *)
(* With nothing locked the argument is about the loop's queue.  detach_    *)
(* sync's task names no session, so it must get its turn before a later    *)
(* attach opens one (PendingInTime): closing a session queues its task at  *)
(* once, while the handler that closes it still has a broadcast to await,  *)
(* and a handler is never in the queue twice (OnePlace), so none of its    *)
(* turns is ahead of that task.  OnePlace in turn needs that a handler     *)
(* waits in one queue, one agent's calls or one broadcast at a time.       *)
(***************************************************************************)
EXTENDS Hub, TLAPS

\* No two UIs send attach.
OneAttacher == \A c, d \in Attachers : c = d

-----------------------------------------------------------------------------
(* Queues and tasks.                                                       *)

Waking == [task : Task, ok : BOOLEAN]

\* t is woken by an element of the queue q.
Queued(t, q) == \E k \in 1..Len(q) : q[k].task = t
\* ... and only one.
Once(t, q) == \A k, l \in 1..Len(q) : q[k].task = t /\ q[l].task = t => k = l
\* t comes up before u does.
Ahead(t, u, q) == \E k \in 1..Len(q) : q[k].task = t /\ \A l \in 1..k : q[l].task # u

\* t waits for the agent of session s.
Called(t, s) == \E k \in 1..Len(calls[s]) : calls[s][k] = t
CalledOnce(t, s) == \A k, l \in 1..Len(calls[s]) : calls[s][k] = t /\ calls[s][l] = t => k = l
InCalls(t) == \E s \in Sessions : Called(t, s)
InSending(t) == \E b \in sending : b.task = t

AttachStates == {"attCall", "attStatus", "attached", "attError"}

-----------------------------------------------------------------------------
(* The parts of the invariant.                                             *)

ClientPc == {"new", "recv", "queued", "attCall", "attStatus", "attached",
             "attError", "call", "leaving", "out"}
DetacherPc == {"none", "queued", "call", "bcast", "done"}
PollerPc == {"none", "queued", "read", "watched", "results", "top", "sleep", "done"}
SessState == {"new", "live", "dying", "dead"}
Await == ClientPc \cup DetacherPc \cup PollerPc

\* TypeOK says what pc, sess and calls are at the tasks and sessions; this,
\* that they are functions of nothing else.
Typed ==
  /\ pc \in [Task -> Await]
  /\ sess \in [Sessions -> SessState]
  /\ calls \in [Sessions -> Seq(Task)]
  /\ TypeOK

\* A client's handler waits in one place, which its await tells.
Placed(t) ==
  /\ Once(t, ready)
  /\ \A s \in Sessions : CalledOnce(t, s)
  /\ \A s, r \in Sessions : Called(t, s) /\ Called(t, r) => s = r
  /\ \A b, d \in sending : b.task = t /\ d.task = t => b = d
  /\ Queued(t, ready) => /\ ~InCalls(t) /\ ~InSending(t)
                         /\ pc[t] \notin {"new", "recv", "out"}
  /\ InCalls(t) => pc[t] \in {"attCall", "call"}
  /\ InSending(t) => pc[t] \in {"attStatus", "attached", "attError"}

OnePlace == \A c \in Clients : Placed(Client(c))

\* Only the UI that attaches is at an await of attach.
AttachIsAttachers ==
  \A c \in Clients :
    /\ command[c] = "attach" => c \in Attachers
    /\ pc[Client(c)] \in AttachStates => command[c] = "attach"

\* A session that has not ended is the hub's; only a live one has calls to
\* answer, and only one that has ended a detach task.
SessionsEnd ==
  \A s \in Sessions :
    /\ sess[s] \in {"live", "dying"} => session = s
    /\ calls[s] # <<>> => sess[s] = "live"
    /\ pc[Detacher(s)] # "none" => sess[s] = "dead"

\* Without a session there is no poll loop.
NoSessionNothing == session = None => polling = None

\* detach and attach give up the poll loop and, later, the session.
ClosingStoppedPolling ==
  /\ \A c \in Clients : pc[Client(c)] = "attCall" => polling = None
  /\ \A s \in Sessions : pc[Detacher(s)] = "call" => polling = None
  /\ \A c \in Clients : pc[Client(c)] = "attStatus" => session = None

\* A detach task that has not closed anything yet.
Pending(s) == pc[Detacher(s)] \in {"queued", "call"}

\* It will run while the hub has the session it is for; or attach has closed
\* that, and it will run before attach opens the next.
PendingInTime ==
  \A s \in Sessions : Pending(s) =>
    /\ session \in {s, None}
    /\ Queued(Detacher(s), ready)
    /\ session = None =>
         \E c \in Clients : pc[Client(c)] = "attStatus" /\ Ahead(Detacher(s), Client(c), ready)

\* Only the hub's agent has something frozen, and calls to answer.
FrozenByAgent ==
  \A s \in Sessions :
    /\ frozen[s] # {} => agent = s /\ sess[s] \in {"live", "dying"}
    /\ calls[s] # <<>> => agent = s

\* What holds of the session, and needs OneAttacher.
Rest ==
  /\ AttachIsAttachers
  /\ SessionsEnd
  /\ AgentIsSessions
  /\ NoSessionNothing
  /\ RunningPollerIsHubs
  /\ ClosingStoppedPolling
  /\ PendingInTime
  /\ FrozenByAgent

IInv == Typed /\ OnePlace /\ Rest

\* While attach waits for the clear, its call is with the agent; or it has been
\* answered, and what was frozen since is for handlers that come up later.
LeftFrozen ==
  \A c \in Clients : pc[Client(c)] = "attCall" =>
    \A s \in Sessions : sess[s] = "live" =>
      \/ Called(Client(c), s)
      \/ /\ Queued(Client(c), ready)
         /\ \A d \in frozen[s] : Freezing(d) /\ Ahead(Client(c), Client(d), ready)

-----------------------------------------------------------------------------
(* Lemmas about queues.                                                    *)

LEMMA AppendQueue ==
  ASSUME NEW q \in Seq(Waking), NEW w \in Waking, NEW t
  PROVE  /\ Append(q, w) \in Seq(Waking)
         /\ Queued(t, Append(q, w)) <=> Queued(t, q) \/ w.task = t
         /\ Once(t, q) /\ (w.task # t \/ ~Queued(t, q)) => Once(t, Append(q, w))
         /\ \A u : Ahead(t, u, q) => Ahead(t, u, Append(q, w))
<1>. DEFINE r == Append(q, w)
<1>1. /\ r \in Seq(Waking) /\ Len(r) = Len(q) + 1 /\ Len(q) \in Nat
      /\ r[Len(q) + 1] = w
      /\ \A k \in 1..Len(q) : r[k] = q[k]
  OBVIOUS
<1>. HIDE DEF r
<1>2. Queued(t, r) <=> Queued(t, q) \/ w.task = t
  BY <1>1 DEF Queued
<1>3. Once(t, q) /\ (w.task # t \/ ~Queued(t, q)) => Once(t, r)
  BY <1>1 DEF Queued, Once
<1>4. ASSUME NEW u, Ahead(t, u, q) PROVE Ahead(t, u, r)
  <2>1. PICK k \in 1..Len(q) : q[k].task = t /\ \A l \in 1..k : q[l].task # u
    BY <1>4 DEF Ahead
  <2>2. k \in 1..Len(r) /\ r[k].task = t /\ \A l \in 1..k : r[l].task # u
    BY <1>1, <2>1
  <2>. QED
    BY <2>2 DEF Ahead
<1>. QED
  BY <1>1, <1>2, <1>3, <1>4 DEF r

LEMMA TailQueue ==
  ASSUME NEW q \in Seq(Waking), q # <<>>, NEW t
  PROVE  /\ Tail(q) \in Seq(Waking)
         /\ Head(q) \in Waking
         /\ Queued(Head(q).task, q)
         /\ Queued(t, q) <=> Queued(t, Tail(q)) \/ Head(q).task = t
         /\ Once(t, q) => Once(t, Tail(q))
         /\ Once(t, q) /\ Head(q).task = t => ~Queued(t, Tail(q))
<1>. DEFINE r == Tail(q)
<1>1. /\ r \in Seq(Waking) /\ Len(r) = Len(q) - 1 /\ Len(q) \in Nat \ {0}
      /\ Head(q) = q[1] /\ Head(q) \in Waking
      /\ \A k \in 1..Len(r) : r[k] = q[k + 1]
  OBVIOUS
<1>. HIDE DEF r
<1>2. Queued(t, q) => Queued(t, r) \/ Head(q).task = t
  <2>. SUFFICES ASSUME NEW k \in 1..Len(q), q[k].task = t, Head(q).task # t
                PROVE  Queued(t, r)
    BY DEF Queued
  <2>1. k - 1 \in 1..Len(r) /\ r[k - 1] = q[k]
    BY <1>1
  <2>. QED
    BY <2>1 DEF Queued
<1>3. Queued(t, r) => Queued(t, q)
  BY <1>1 DEF Queued
<1>4. Queued(Head(q).task, q)
  BY <1>1 DEF Queued
<1>5. Once(t, q) => Once(t, r)
  <2>. SUFFICES ASSUME Once(t, q), NEW k \in 1..Len(r), NEW l \in 1..Len(r),
                       r[k].task = t, r[l].task = t
                PROVE  k = l
    BY DEF Once
  <2>1. /\ k + 1 \in 1..Len(q) /\ l + 1 \in 1..Len(q)
        /\ q[k + 1].task = t /\ q[l + 1].task = t
    BY <1>1
  <2>. QED
    BY <2>1 DEF Once
<1>6. Once(t, q) /\ Head(q).task = t => ~Queued(t, r)
  BY <1>1 DEF Once, Queued
<1>. QED
  BY <1>1, <1>2, <1>3, <1>4, <1>5, <1>6 DEF r

LEMMA TailAhead ==
  ASSUME NEW q \in Seq(Waking), q # <<>>, NEW t, NEW u, Ahead(t, u, q)
  PROVE  /\ Head(q).task # u
         /\ Head(q).task # t => Ahead(t, u, Tail(q))
<1>. DEFINE r == Tail(q)
<1>1. /\ r \in Seq(Waking) /\ Len(r) = Len(q) - 1 /\ Len(q) \in Nat \ {0}
      /\ Head(q) = q[1]
      /\ \A k \in 1..Len(r) : r[k] = q[k + 1]
  OBVIOUS
<1>. HIDE DEF r
<1>2. PICK k \in 1..Len(q) : q[k].task = t /\ \A l \in 1..k : q[l].task # u
  BY DEF Ahead
<1>3. Head(q).task # u
  BY <1>1, <1>2
<1>4. ASSUME Head(q).task # t PROVE Ahead(t, u, r)
  <2>1. k - 1 \in 1..Len(r) /\ r[k - 1].task = t
    BY <1>1, <1>2, <1>4
  <2>2. \A l \in 1..k - 1 : r[l].task # u
    BY <1>1, <1>2
  <2>. QED
    BY <2>1, <2>2 DEF Ahead
<1>. QED
  BY <1>3, <1>4 DEF r

LEMMA ConcatQueue ==
  ASSUME NEW p \in Seq(Waking), NEW q \in Seq(Waking), NEW t
  PROVE  /\ p \o q \in Seq(Waking)
         /\ Queued(t, p \o q) <=> Queued(t, p) \/ Queued(t, q)
         /\ Once(t, p) /\ Once(t, q) /\ ~(Queued(t, p) /\ Queued(t, q)) => Once(t, p \o q)
         /\ \A u : Ahead(t, u, p) \/ (~Queued(u, p) /\ Ahead(t, u, q)) => Ahead(t, u, p \o q)
<1>. DEFINE r == p \o q
<1>1. /\ r \in Seq(Waking) /\ Len(r) = Len(p) + Len(q) /\ Len(p) \in Nat /\ Len(q) \in Nat
      /\ \A k \in 1..Len(p) : r[k] = p[k]
      /\ \A k \in 1..Len(q) : Len(p) + k \in 1..Len(r) /\ r[Len(p) + k] = q[k]
      /\ \A k \in 1..Len(r) : k \in 1..Len(p) \/ (k - Len(p) \in 1..Len(q) /\ r[k] = q[k - Len(p)])
  OBVIOUS
<1>. HIDE DEF r
<1>2. Queued(t, r) <=> Queued(t, p) \/ Queued(t, q)
  <2>1. Queued(t, p) => Queued(t, r)
    BY <1>1 DEF Queued
  <2>2. Queued(t, q) => Queued(t, r)
    BY <1>1 DEF Queued
  <2>3. Queued(t, r) => Queued(t, p) \/ Queued(t, q)
    BY <1>1 DEF Queued
  <2>. QED
    BY <2>1, <2>2, <2>3
<1>3. Once(t, p) /\ Once(t, q) /\ ~(Queued(t, p) /\ Queued(t, q)) => Once(t, r)
  <2>. SUFFICES ASSUME Once(t, p), Once(t, q), ~(Queued(t, p) /\ Queued(t, q)),
                       NEW k \in 1..Len(r), NEW l \in 1..Len(r),
                       r[k].task = t, r[l].task = t
                PROVE  k = l
    BY DEF Once
  <2>1. CASE k \in 1..Len(p)
    <3>1. Queued(t, p)
      BY <1>1, <2>1 DEF Queued
    <3>2. l \in 1..Len(p)
      BY <1>1, <3>1 DEF Queued
    <3>. QED
      BY <1>1, <2>1, <3>2 DEF Once
  <2>2. CASE k \notin 1..Len(p)
    <3>1. k - Len(p) \in 1..Len(q) /\ q[k - Len(p)].task = t
      BY <1>1, <2>2
    <3>2. Queued(t, q)
      BY <3>1 DEF Queued
    <3>3. l \notin 1..Len(p)
      BY <1>1, <3>2 DEF Queued
    <3>4. l - Len(p) \in 1..Len(q) /\ q[l - Len(p)].task = t
      BY <1>1, <3>3
    <3>5. k - Len(p) = l - Len(p)
      BY <3>1, <3>4 DEF Once
    <3>. QED
      BY <1>1, <3>5
  <2>. QED
    BY <2>1, <2>2
<1>4. ASSUME NEW u, Ahead(t, u, p) PROVE Ahead(t, u, r)
  <2>1. PICK k \in 1..Len(p) : p[k].task = t /\ \A l \in 1..k : p[l].task # u
    BY <1>4 DEF Ahead
  <2>2. k \in 1..Len(r) /\ r[k].task = t /\ \A l \in 1..k : r[l].task # u
    BY <1>1, <2>1
  <2>. QED
    BY <2>2 DEF Ahead
<1>5. ASSUME NEW u, ~Queued(u, p), Ahead(t, u, q) PROVE Ahead(t, u, r)
  <2>1. PICK k \in 1..Len(q) : q[k].task = t /\ \A l \in 1..k : q[l].task # u
    BY <1>5 DEF Ahead
  <2>2. Len(p) + k \in 1..Len(r) /\ r[Len(p) + k].task = t
    BY <1>1, <2>1
  <2>3. ASSUME NEW l \in 1..Len(p) + k PROVE r[l].task # u
    <3>1. CASE l \in 1..Len(p)
      BY <1>1, <1>5, <3>1 DEF Queued
    <3>2. CASE l \notin 1..Len(p)
      <4>1. l - Len(p) \in 1..k /\ l \in 1..Len(r)
        BY <1>1, <3>2
      <4>2. r[l] = q[l - Len(p)]
        BY <1>1, <3>2, <4>1
      <4>. QED
        BY <2>1, <4>1, <4>2
    <3>. QED
      BY <3>1, <3>2
  <2>. QED
    BY <2>2, <2>3 DEF Ahead
<1>. QED
  BY <1>1, <1>2, <1>3, <1>4, <1>5 DEF r

-----------------------------------------------------------------------------
(* Lemmas about tasks and their calls.                                     *)

LEMMA TaskNames ==
  /\ \A c \in Clients : Client(c) \in Task
  /\ \A s \in Sessions : Detacher(s) \in Task /\ Poller(s) \in Task
  /\ \A c, d \in Clients : Client(c) = Client(d) => c = d
  /\ \A s, r \in Sessions : Detacher(s) = Detacher(r) => s = r
  /\ \A s, r \in Sessions : Poller(s) = Poller(r) => s = r
  /\ \A c \in Clients, s \in Sessions : Client(c) # Detacher(s) /\ Client(c) # Poller(s)
  /\ \A s, r \in Sessions : Detacher(s) # Poller(r)
BY DEF Task, Client, Detacher, Poller

LEMMA NoneIsNoSession == None \notin Sessions
BY HubAssumption DEF None, Sessions

\* The tasks woken when a script is destroyed are those that called it.
LEMMA FailedCallsQueue ==
  ASSUME Typed, NEW s \in Sessions, NEW t
  PROVE  /\ FailedCalls(s) \in Seq(Waking)
         /\ Queued(t, FailedCalls(s)) <=> Called(t, s)
         /\ CalledOnce(t, s) => Once(t, FailedCalls(s))
<1>1. calls[s] \in Seq(Task)
  BY DEF Typed
<1>2. /\ FailedCalls(s) \in Seq(Waking) /\ Len(FailedCalls(s)) = Len(calls[s])
      /\ \A k \in 1..Len(calls[s]) : FailedCalls(s)[k].task = calls[s][k]
  BY <1>1 DEF FailedCalls, Wake, Waking
<1>. QED
  BY <1>1, <1>2 DEF Queued, Called, Once, CalledOnce

\* The queue of a task that has its turn.
LEMMA TurnQueue ==
  ASSUME Typed, NEW t \in Task, NEW at, NEW ok, Turn(t, at, ok)
  PROVE  /\ ready \in Seq(Waking) /\ ready # <<>> /\ Tail(ready) \in Seq(Waking)
         /\ Head(ready).task = t /\ pc[t] = at
BY DEF Typed, TypeOK, Turn, Wake, Waking

LEMMA WakeIsWaking == \A t \in Task, ok \in BOOLEAN :
  Wake(t, ok) \in Waking /\ Wake(t, ok).task = t
BY DEF Wake, Waking

\* A call to the agent adds the task at the end of one queue or the other.
LEMMA CallAgentQueues ==
  ASSUME Typed, agent # None, NEW t \in Task, NEW queue \in Seq(Waking),
         CallAgent(t, queue)
  PROVE  /\ calls' \in [Sessions -> Seq(Task)] /\ ready' \in Seq(Waking)
         /\ \/ /\ sess[agent] = "live"
               /\ calls' = [calls EXCEPT ![agent] = Append(@, t)] /\ ready' = queue
            \/ /\ sess[agent] # "live"
               /\ ready' = Append(queue, Wake(t, FALSE)) /\ calls' = calls
<1>1. agent \in Sessions /\ calls \in [Sessions -> Seq(Task)]
  BY DEF Typed, TypeOK
<1>2. CASE sess[agent] = "live"
  <2>1. Append(calls[agent], t) \in Seq(Task)
    BY <1>1
  <2>. QED
    BY <1>1, <1>2, <2>1 DEF CallAgent
<1>3. CASE sess[agent] # "live"
  <2>1. Wake(t, FALSE) \in Waking
    BY WakeIsWaking
  <2>2. ready' = Append(queue, Wake(t, FALSE)) /\ calls' = calls
    BY <1>3 DEF CallAgent
  <2>3. Append(queue, Wake(t, FALSE)) \in Seq(Waking)
    BY <2>1, AppendQueue
  <2>. QED
    BY <1>1, <1>3, <2>2, <2>3
<1>. QED
  BY <1>2, <1>3

\* Ending a session wakes its detach task and then its callers.
LEMMA SessionEndsQueue ==
  ASSUME Typed, NEW s \in Sessions, NEW queue \in Seq(Waking), NEW t, SessionEnds(s, queue)
  PROVE  /\ ready' \in Seq(Waking)
         /\ Queued(t, ready') <=> Queued(t, queue) \/ t = Detacher(s) \/ Called(t, s)
         /\ t # Detacher(s) /\ Once(t, queue) /\ CalledOnce(t, s) /\ ~(Queued(t, queue) /\ Called(t, s))
              => Once(t, ready')
         /\ \A u : Ahead(t, u, queue) => Ahead(t, u, ready')
         /\ \A u : u # Detacher(s) /\ ~Queued(u, queue) => Ahead(Detacher(s), u, ready')
<1>. DEFINE w == Wake(Detacher(s), TRUE)
            q == queue \o <<w>>
<1>1. w \in Waking /\ w.task = Detacher(s)
  BY TaskNames, WakeIsWaking
<1>2. ready' = q \o FailedCalls(s)
  BY DEF SessionEnds
<1>. HIDE DEF w
<1>3. /\ <<w>> \in Seq(Waking) /\ Len(<<w>>) = 1 /\ <<w>>[1] = w
      /\ \A v : Once(v, <<w>>) /\ (Queued(v, <<w>>) <=> v = Detacher(s))
      /\ \A u : u # Detacher(s) => Ahead(Detacher(s), u, <<w>>)
  <2>1. <<w>> \in Seq(Waking) /\ Len(<<w>>) = 1 /\ <<w>>[1] = w
    BY <1>1
  <2>. QED
    BY <1>1, <2>1 DEF Once, Queued, Ahead
<1>4. /\ q \in Seq(Waking)
      /\ Queued(t, q) <=> Queued(t, queue) \/ t = Detacher(s)
      /\ Once(t, queue) /\ t # Detacher(s) => Once(t, q)
      /\ \A u : Ahead(t, u, queue) => Ahead(t, u, q)
      /\ \A u : u # Detacher(s) /\ ~Queued(u, queue) => Ahead(Detacher(s), u, q)
  BY <1>3, ConcatQueue
<1>. HIDE DEF q
<1>5. /\ FailedCalls(s) \in Seq(Waking)
      /\ Queued(t, FailedCalls(s)) <=> Called(t, s)
      /\ CalledOnce(t, s) => Once(t, FailedCalls(s))
  BY FailedCallsQueue
<1>6. /\ q \o FailedCalls(s) \in Seq(Waking)
      /\ Queued(t, q \o FailedCalls(s)) <=> Queued(t, q) \/ Queued(t, FailedCalls(s))
      /\ Once(t, q) /\ Once(t, FailedCalls(s)) /\ ~(Queued(t, q) /\ Queued(t, FailedCalls(s)))
           => Once(t, q \o FailedCalls(s))
  BY <1>4, <1>5, ConcatQueue
<1>7. \A v, u : Ahead(v, u, q) => Ahead(v, u, q \o FailedCalls(s))
  BY <1>4, <1>5, ConcatQueue
<1>. QED
  BY <1>1, <1>2, <1>3, <1>4, <1>5, <1>6, <1>7

-----------------------------------------------------------------------------
(* The types.                                                              *)

\* The parts of Typed that actions disturb apart from one another.
AwaitsTyped(f) ==
  /\ f \in [Task -> Await]
  /\ \A c \in Clients : f[Client(c)] \in ClientPc
  /\ \A s \in Sessions : f[Detacher(s)] \in DetacherPc /\ f[Poller(s)] \in PollerPc
PcTyped == AwaitsTyped(pc)
FridaTyped ==
  /\ sess \in [Sessions -> SessState]
  /\ calls \in [Sessions -> Seq(Task)]
  /\ frozen \in [Sessions -> SUBSET Clients]
QueuesTyped ==
  /\ ready \in Seq(Waking)
  /\ \A b \in sending : b.task \in Task /\ b.to \subseteq Clients /\ b.doomed \in BOOLEAN
HubTyped ==
  /\ session \in Sessions \cup {None}
  /\ agent \in Sessions \cup {None}
  /\ polling \in Sessions \cup {None}
  /\ watchList \subseteq Addresses
ClientsTyped ==
  /\ open \subseteq Clients
  /\ command \in [Clients -> Requests \cup {NoCommand}]

LEMMA TypedParts ==
  /\ Typed <=> PcTyped /\ FridaTyped /\ QueuesTyped /\ HubTyped /\ ClientsTyped
  /\ Typed' <=> PcTyped' /\ FridaTyped' /\ QueuesTyped' /\ HubTyped' /\ ClientsTyped'
<1>. USE DEF Typed, TypeOK, PcTyped, AwaitsTyped, FridaTyped, QueuesTyped, HubTyped, ClientsTyped,
             ClientPc, DetacherPc, PollerPc, SessState, Waking
<1>1. Typed => PcTyped /\ FridaTyped /\ QueuesTyped /\ HubTyped /\ ClientsTyped
  OBVIOUS
<1>2. PcTyped /\ FridaTyped /\ QueuesTyped /\ HubTyped /\ ClientsTyped => Typed
  OBVIOUS
<1>3. Typed' => PcTyped' /\ FridaTyped' /\ QueuesTyped' /\ HubTyped' /\ ClientsTyped'
  OBVIOUS
<1>4. PcTyped' /\ FridaTyped' /\ QueuesTyped' /\ HubTyped' /\ ClientsTyped' => Typed'
  OBVIOUS
<1>. QED
  BY <1>1, <1>2, <1>3, <1>4

LEMMA InitTyped == Init => Typed
<1>. SUFFICES ASSUME Init PROVE Typed
  OBVIOUS
<1>1. PcTyped
  <2>1. /\ \A c \in Clients : Client(c)[1] = "client"
        /\ \A s \in Sessions : Detacher(s)[1] = "detach" /\ Poller(s)[1] = "poll"
    BY DEF Client, Detacher, Poller
  <2>2. pc = [t \in Task |-> IF t[1] = "client" THEN "new" ELSE "none"]
    BY DEF Init
  <2>3. ASSUME NEW t \in Task PROVE pc[t] = IF t[1] = "client" THEN "new" ELSE "none"
    BY <2>2
  <2>4. \A c \in Clients : pc[Client(c)] = "new"
    BY <2>1, <2>3, TaskNames
  <2>5. \A s \in Sessions : pc[Detacher(s)] = "none" /\ pc[Poller(s)] = "none"
    BY <2>1, <2>3, TaskNames
  <2>6. pc \in [Task -> Await]
    BY <2>2 DEF Await, ClientPc, DetacherPc
  <2>. QED
    BY <2>4, <2>5, <2>6 DEF PcTyped, AwaitsTyped, ClientPc, DetacherPc, PollerPc
<1>2. FridaTyped /\ QueuesTyped /\ HubTyped /\ ClientsTyped
  BY DEF Init, FridaTyped, QueuesTyped, HubTyped, ClientsTyped, SessState, NoCommand
<1>. QED
  BY <1>1, <1>2, TypedParts

\* x is an await of the task t.
AwaitOf(t, x) ==
  \/ \E c \in Clients : t = Client(c) /\ x \in ClientPc
  \/ \E s \in Sessions : t = Detacher(s) /\ x \in DetacherPc
  \/ \E s \in Sessions : t = Poller(s) /\ x \in PollerPc

\* A task moves to one of its own awaits.
LEMMA AwaitsSet ==
  ASSUME NEW f, AwaitsTyped(f), NEW t \in Task, NEW x, AwaitOf(t, x)
  PROVE  /\ AwaitsTyped([f EXCEPT ![t] = x])
         /\ [f EXCEPT ![t] = x][t] = x
         /\ \A u \in Task : u # t => [f EXCEPT ![t] = x][u] = f[u]
<1>. DEFINE g == [f EXCEPT ![t] = x]
<1>1. x \in Await
  BY DEF Await, AwaitOf
<1>2. g \in [Task -> Await] /\ g[t] = x /\ \A u \in Task : u # t => g[u] = f[u]
  BY <1>1 DEF AwaitsTyped
<1>. HIDE DEF g
<1>3. ASSUME NEW c \in Clients PROVE g[Client(c)] \in ClientPc
  BY <1>2, TaskNames DEF AwaitsTyped, AwaitOf
<1>4. ASSUME NEW s \in Sessions PROVE g[Detacher(s)] \in DetacherPc
  BY <1>2, TaskNames DEF AwaitsTyped, AwaitOf
<1>5. ASSUME NEW s \in Sessions PROVE g[Poller(s)] \in PollerPc
  BY <1>2, TaskNames DEF AwaitsTyped, AwaitOf
<1>6. AwaitsTyped(g)
  BY <1>2, <1>3, <1>4, <1>5 DEF AwaitsTyped
<1>. QED
  BY <1>2, <1>6 DEF g

\* What cancelling the poll loop does to the awaits.
LEMMA PollerCancelledIs ==
  ASSUME PcTyped, HubTyped
  PROVE  /\ AwaitsTyped(PollerCancelled)
         /\ \A u \in Task : PollerCancelled[u] =
              IF polling # None /\ u = Poller(polling) THEN "done" ELSE pc[u]
         /\ \A c \in Clients : PollerCancelled[Client(c)] = pc[Client(c)]
         /\ \A s \in Sessions : PollerCancelled[Detacher(s)] = pc[Detacher(s)]
         /\ \A s \in Sessions : PollerCancelled[Poller(s)] =
              IF s = polling THEN "done" ELSE pc[Poller(s)]
<1>1. polling # None => polling \in Sessions
  BY DEF HubTyped
<1>2. CASE polling = None
  BY <1>2, NoneIsNoSession DEF PollerCancelled, PcTyped
<1>3. CASE polling # None
  <2>1. PollerCancelled = [pc EXCEPT ![Poller(polling)] = "done"]
    BY <1>3 DEF PollerCancelled
  <2>2. Poller(polling) \in Task /\ AwaitOf(Poller(polling), "done")
    BY <1>1, <1>3, TaskNames DEF AwaitOf, PollerPc
  <2>3. /\ AwaitsTyped(PollerCancelled)
        /\ PollerCancelled[Poller(polling)] = "done"
        /\ \A u \in Task : u # Poller(polling) => PollerCancelled[u] = pc[u]
    <3>1. AwaitsTyped(pc)
      BY DEF PcTyped
    <3>2. /\ AwaitsTyped([pc EXCEPT ![Poller(polling)] = "done"])
          /\ [pc EXCEPT ![Poller(polling)] = "done"][Poller(polling)] = "done"
          /\ \A u \in Task : u # Poller(polling)
               => [pc EXCEPT ![Poller(polling)] = "done"][u] = pc[u]
      BY <2>2, <3>1, AwaitsSet
    <3>. QED
      BY <2>1, <3>2
  <2>4. \A c \in Clients : PollerCancelled[Client(c)] = pc[Client(c)]
    BY <1>1, <1>3, <2>3, TaskNames
  <2>5. \A s \in Sessions : PollerCancelled[Detacher(s)] = pc[Detacher(s)]
    BY <1>1, <1>3, <2>3, TaskNames
  <2>6. \A s \in Sessions : PollerCancelled[Poller(s)] =
              IF s = polling THEN "done" ELSE pc[Poller(s)]
    BY <1>1, <1>3, <2>3, TaskNames
  <2>. QED
    BY <1>3, <2>3, <2>4, <2>5, <2>6
<1>. QED
  BY <1>2, <1>3

LEMMA BroadcastTyped ==
  ASSUME Typed, NEW t \in Task, Broadcast(t)
  PROVE  \A b \in sending' : b.task \in Task /\ b.to \subseteq Clients /\ b.doomed \in BOOLEAN
<1>1. Registered \subseteq Clients /\ (~(Registered \subseteq open)) \in BOOLEAN
  BY DEF Registered
<1>. DEFINE new == [task |-> t, to |-> Registered, doomed |-> ~(Registered \subseteq open)]
<1>2. new.task = t /\ new.to = Registered /\ new.doomed \in BOOLEAN
  BY <1>1
<1>3. sending' = sending \cup {new}
  BY DEF Broadcast
<1>. HIDE DEF new
<1>. QED
  BY <1>1, <1>2, <1>3, TypedParts DEF QueuesTyped

\* A task has its turn and adds nothing to the queues but a broadcast.
LEMMA TurnTyped ==
  ASSUME Typed, NEW t \in Task, NEW at, NEW ok, Turn(t, at, ok), ready' = Tail(ready),
         UNCHANGED sending \/ Broadcast(t)
  PROVE  QueuesTyped'
<1>1. Tail(ready) \in Seq(Waking)
  BY TurnQueue
<1>. QED
  BY <1>1, BroadcastTyped, TypedParts DEF QueuesTyped

LEMMA SessionEndsTyped ==
  ASSUME Typed, NEW s \in Sessions, NEW queue \in Seq(Waking), SessionEnds(s, queue)
  PROVE  FridaTyped' /\ ready' \in Seq(Waking)
<1>1. ready' \in Seq(Waking)
  BY SessionEndsQueue
<1>2. FridaTyped'
  BY TypedParts DEF SessionEnds, FridaTyped, SessState
<1>. QED
  BY <1>1, <1>2

\* Closing the hub's session.
LEMMA DetachClosesTyped ==
  ASSUME Typed, NEW t \in Task, NEW x, AwaitOf(t, x), NEW at, NEW ok, Turn(t, at, ok),
         NEW pcs, AwaitsTyped(pcs), DetachCloses(t, x, pcs)
  PROVE  PcTyped' /\ FridaTyped' /\ QueuesTyped'
<1>1. Tail(ready) \in Seq(Waking) /\ ready \in Seq(Waking)
  BY TurnQueue
<1>2. \A b \in sending' : b.task \in Task /\ b.to \subseteq Clients /\ b.doomed \in BOOLEAN
  BY BroadcastTyped DEF DetachCloses
<1>3. AwaitsTyped([pcs EXCEPT ![t] = x])
  BY AwaitsSet
<1>4. CASE session = None \/ sess[session] = "dead"
  <2>1. PcTyped'
    BY <1>3, <1>4 DEF DetachCloses, PcTyped, AwaitsTyped
  <2>2. FridaTyped' /\ QueuesTyped'
    BY <1>1, <1>2, <1>4, TypedParts DEF DetachCloses, FridaTyped, QueuesTyped, fridaVars
  <2>. QED
    BY <2>1, <2>2
<1>5. CASE ~(session = None \/ sess[session] = "dead")
  <2>1. session \in Sessions
    BY <1>5, TypedParts DEF HubTyped
  <2>2. SessionEnds(session, Tail(ready))
    BY <1>5 DEF DetachCloses
  <2>3. FridaTyped' /\ QueuesTyped'
    BY <1>1, <1>2, <2>1, <2>2, SessionEndsTyped DEF QueuesTyped
  <2>4. pc' = [[pcs EXCEPT ![t] = x] EXCEPT ![Detacher(session)] = "queued"]
    BY <1>5 DEF DetachCloses
  <2>5. AwaitOf(Detacher(session), "queued") /\ Detacher(session) \in Task
    BY <2>1, TaskNames DEF AwaitOf, DetacherPc
  <2>6. AwaitsTyped(pc')
    BY <1>3, <2>4, <2>5, AwaitsSet
  <2>. QED
    BY <2>3, <2>6 DEF PcTyped, AwaitsTyped
<1>. QED
  BY <1>4, <1>5

LEMMA MovesTyped ==
  ASSUME Typed, NEW t \in Task, NEW x, AwaitOf(t, x), pc' = [pc EXCEPT ![t] = x]
  PROVE  PcTyped'
<1>1. AwaitsTyped(pc)
  BY TypedParts DEF PcTyped
<1>2. AwaitsTyped([pc EXCEPT ![t] = x])
  BY <1>1, AwaitsSet
<1>. QED
  BY <1>2 DEF PcTyped, AwaitsTyped

LEMMA AwaitOfClient == \A c \in Clients, x \in ClientPc : AwaitOf(Client(c), x)
BY DEF AwaitOf
LEMMA AwaitOfDetacher == \A s \in Sessions, x \in DetacherPc : AwaitOf(Detacher(s), x)
BY DEF AwaitOf
LEMMA AwaitOfPoller == \A s \in Sessions, x \in PollerPc : AwaitOf(Poller(s), x)
BY DEF AwaitOf

LEMMA FinishTyped ==
  ASSUME Typed, NEW c \in Clients, NEW at, NEW ok, Turn(Client(c), at, ok), Finish(c)
  PROVE  PcTyped' /\ ready' \in Seq(Waking) /\ command' \in [Clients -> Requests \cup {NoCommand}]
<1>1. command' \in [Clients -> Requests \cup {NoCommand}]
  BY TypedParts DEF Finish, ClientsTyped
<1>2. Client(c) \in Task /\ Tail(ready) \in Seq(Waking)
  BY TaskNames, TurnQueue
<1>3. Append(Tail(ready), Wake(Client(c), TRUE)) \in Seq(Waking)
  BY <1>2, WakeIsWaking, AppendQueue
<1>4. AwaitOf(Client(c), "recv") /\ AwaitOf(Client(c), "leaving")
  BY AwaitOfClient DEF ClientPc
<1>. QED
  BY <1>1, <1>2, <1>3, <1>4, MovesTyped DEF Finish

LEMMA AttachErrorTyped ==
  ASSUME Typed, NEW c \in Clients, NEW at, NEW ok, Turn(Client(c), at, ok), AttachError(c)
  PROVE  Typed'
<1>1. Client(c) \in Task /\ AwaitOf(Client(c), "attError")
  BY TaskNames, AwaitOfClient DEF ClientPc
<1>2. PcTyped'
  BY <1>1, MovesTyped DEF AttachError
<1>3. QueuesTyped'
  BY <1>1, TurnTyped DEF AttachError
<1>. QED
  BY <1>2, <1>3, TypedParts
     DEF AttachError, hubVars, fridaVars, FridaTyped, HubTyped, ClientsTyped

LEMMA LoadFailsTyped ==
  ASSUME Typed, NEW c \in Clients, NEW at, NEW ok, Turn(Client(c), at, ok), LoadFails(c)
  PROVE  Typed'
<1>1. Client(c) \in Task /\ AwaitOf(Client(c), "attError")
  BY TaskNames, AwaitOfClient DEF ClientPc
<1>2. PcTyped'
  BY <1>1, MovesTyped DEF LoadFails
<1>3. QueuesTyped'
  BY <1>1, TurnTyped DEF LoadFails
<1>4. FridaTyped'
  BY TypedParts DEF LoadFails, FridaTyped, SessState
<1>. QED
  BY <1>2, <1>3, <1>4, TypedParts DEF LoadFails, HubTyped, ClientsTyped

LEMMA LoadSucceedsTyped ==
  ASSUME Typed, NEW c \in Clients, NEW at, NEW ok, Turn(Client(c), at, ok), LoadSucceeds(c)
  PROVE  Typed'
<1>1. Client(c) \in Task /\ AwaitOf(Client(c), "attached") /\ Tail(ready) \in Seq(Waking)
  BY TaskNames, AwaitOfClient, TurnQueue DEF ClientPc
<1>2. PICK s \in Sessions :
        /\ sess' = [sess EXCEPT ![s] = "live"]
        /\ session' = s /\ agent' = s /\ polling' = s
        /\ pc' = [pc EXCEPT ![Client(c)] = "attached", ![Poller(s)] = "queued"]
        /\ ready' = Append(Tail(ready), Wake(Poller(s), TRUE))
        /\ Broadcast(Client(c))
        /\ UNCHANGED <<watchList, open, command, calls, frozen>>
  BY DEF LoadSucceeds
<1>3. PcTyped'
  <2>1. AwaitsTyped([pc EXCEPT ![Client(c)] = "attached"])
    BY <1>1, TypedParts, AwaitsSet DEF PcTyped
  <2>2. Poller(s) \in Task /\ AwaitOf(Poller(s), "queued")
    BY TaskNames, AwaitOfPoller DEF PollerPc
  <2>3. AwaitsTyped(pc')
    BY <1>2, <2>1, <2>2, AwaitsSet
  <2>. QED
    BY <2>3 DEF PcTyped, AwaitsTyped
<1>4. ready' \in Seq(Waking)
  BY <1>1, <1>2, TaskNames, WakeIsWaking, AppendQueue
<1>5. QueuesTyped'
  BY <1>1, <1>2, <1>4, BroadcastTyped DEF QueuesTyped
<1>6. FridaTyped'
  BY <1>2, TypedParts DEF FridaTyped, SessState
<1>. QED
  BY <1>2, <1>3, <1>5, <1>6, TypedParts DEF HubTyped, ClientsTyped

LEMMA AttachingTyped ==
  ASSUME Typed, NEW c \in Clients, NEW at, NEW ok, Turn(Client(c), at, ok), Attaching(c)
  PROVE  Typed'
BY AttachErrorTyped, LoadFailsTyped, LoadSucceedsTyped DEF Attaching

\* detach up to the call, run by any task.
LEMMA DetachCallsTyped ==
  ASSUME Typed, NEW t \in Task, NEW x, AwaitOf(t, x), NEW at, NEW ok, Turn(t, at, ok),
         DetachCalls(t, x)
  PROVE  Typed'
<1>1. Tail(ready) \in Seq(Waking)
  BY TurnQueue
<1>2. AwaitsTyped(PollerCancelled)
  BY PollerCancelledIs, TypedParts
<1>3. AwaitsTyped([PollerCancelled EXCEPT ![t] = x])
  BY <1>2, AwaitsSet
<1>4. PcTyped'
  BY <1>3 DEF DetachCalls, PcTyped, AwaitsTyped
<1>5. calls' \in [Sessions -> Seq(Task)] /\ ready' \in Seq(Waking)
  BY <1>1, CallAgentQueues DEF DetachCalls
<1>6. polling' = None /\ UNCHANGED <<session, agent, watchList, open, command, sending, sess, frozen>>
  BY DEF DetachCalls
<1>7. FridaTyped' /\ QueuesTyped' /\ HubTyped' /\ ClientsTyped'
  BY <1>5, <1>6, TypedParts DEF FridaTyped, QueuesTyped, HubTyped, ClientsTyped
<1>. QED
  BY <1>4, <1>7, TypedParts

\* detach from the call on, or all of it.
LEMMA DetachClosesAllTyped ==
  ASSUME Typed, NEW t \in Task, NEW x, AwaitOf(t, x), NEW at, NEW ok, Turn(t, at, ok),
         NEW pcs, pcs \in {pc, PollerCancelled}, DetachCloses(t, x, pcs),
         polling' \in {polling, None}
  PROVE  Typed'
<1>1. AwaitsTyped(pcs)
  BY PollerCancelledIs, TypedParts DEF PcTyped
<1>2. PcTyped' /\ FridaTyped' /\ QueuesTyped'
  BY <1>1, DetachClosesTyped
<1>3. session' = None /\ agent' = None /\ UNCHANGED <<watchList, open, command>>
  BY DEF DetachCloses
<1>4. HubTyped' /\ ClientsTyped'
  BY <1>3, TypedParts DEF HubTyped, ClientsTyped
<1>. QED
  BY <1>2, <1>4, TypedParts

LEMMA AttachTyped == ASSUME Typed, NEW c \in Clients, Attach(c) PROVE Typed'
<1>. DEFINE t == Client(c)
<1>1. t \in Task /\ AwaitOf(t, "attCall") /\ AwaitOf(t, "attStatus")
  BY TaskNames, AwaitOfClient DEF ClientPc
<1>. HIDE DEF t
<1>2. CASE AttachNow(c)
  BY <1>2, AttachingTyped DEF AttachNow
<1>3. CASE AttachDetachesFirst(c)
  <2>1. Turn(t, "queued", TRUE) /\ polling' = None
    BY <1>3 DEF AttachDetachesFirst, DetachCalls, t
  <2>2. DetachCalls(t, "attCall") \/ DetachCloses(t, "attStatus", PollerCancelled)
    BY <1>3 DEF AttachDetachesFirst, t
  <2>3. CASE DetachCalls(t, "attCall")
    BY <1>1, <2>1, <2>3, DetachCallsTyped
  <2>4. CASE DetachCloses(t, "attStatus", PollerCancelled)
    BY <1>1, <2>1, <2>4, DetachClosesAllTyped
  <2>. QED
    BY <2>2, <2>3, <2>4
<1>4. CASE AttachCloses(c)
  <2>1. PICK ok \in BOOLEAN : Turn(t, "attCall", ok)
    BY <1>4 DEF AttachCloses, t
  <2>2. DetachCloses(t, "attStatus", pc) /\ polling' = polling
    BY <1>4 DEF AttachCloses, t
  <2>. QED
    BY <1>1, <2>1, <2>2, DetachClosesAllTyped
<1>5. CASE AttachContinues(c)
  BY <1>5, AttachingTyped, AttachErrorTyped DEF AttachContinues
<1>6. CASE AttachReturns(c)
  <2>1. CASE Turn(t, "attached", FALSE) /\ AttachError(c)
    BY <2>1, AttachErrorTyped DEF t
  <2>2. CASE ~(Turn(t, "attached", FALSE) /\ AttachError(c))
    <3>1. /\ \E at, ok : Turn(t, at, ok)
          /\ Finish(c) /\ UNCHANGED <<hubVars, open, sending, fridaVars>>
      BY <1>6, <2>2 DEF AttachReturns, t
    <3>2. PcTyped' /\ ready' \in Seq(Waking) /\ command' \in [Clients -> Requests \cup {NoCommand}]
      BY <3>1, FinishTyped DEF t
    <3>. QED
      BY <3>1, <3>2, TypedParts
         DEF hubVars, fridaVars, FridaTyped, QueuesTyped, HubTyped, ClientsTyped
  <2>. QED
    BY <2>1, <2>2
<1>. QED
  BY <1>2, <1>3, <1>4, <1>5, <1>6 DEF Attach

LEMMA WatchTyped == ASSUME Typed, NEW c \in Clients, Watch(c) PROVE Typed'
<1>1. PcTyped' /\ ready' \in Seq(Waking) /\ command' \in [Clients -> Requests \cup {NoCommand}]
  BY FinishTyped DEF Watch
<1>2. /\ watchList' \subseteq Addresses
      /\ UNCHANGED <<session, agent, polling, open, sending, fridaVars>>
  BY TypedParts DEF Watch, HubTyped
<1>. QED
  BY <1>1, <1>2, TypedParts DEF fridaVars, FridaTyped, QueuesTyped, HubTyped, ClientsTyped

LEMMA CallTyped == ASSUME Typed, NEW c \in Clients, Call(c) PROVE Typed'
<1>1. Turn(Client(c), "queued", TRUE) /\ UNCHANGED <<hubVars, open, sending, sess, frozen>>
  BY DEF Call
<1>2. CASE agent = None
  <2>1. Finish(c) /\ UNCHANGED calls
    BY <1>2 DEF Call
  <2>2. PcTyped' /\ ready' \in Seq(Waking) /\ command' \in [Clients -> Requests \cup {NoCommand}]
    BY <1>1, <2>1, FinishTyped
  <2>. QED
    BY <1>1, <2>1, <2>2, TypedParts
       DEF hubVars, FridaTyped, QueuesTyped, HubTyped, ClientsTyped
<1>3. CASE agent # None
  <2>1. /\ pc' = [pc EXCEPT ![Client(c)] = "call"]
        /\ CallAgent(Client(c), Tail(ready)) /\ UNCHANGED command
    BY <1>3 DEF Call
  <2>2. Client(c) \in Task /\ AwaitOf(Client(c), "call") /\ Tail(ready) \in Seq(Waking)
    BY <1>1, TaskNames, AwaitOfClient, TurnQueue DEF ClientPc
  <2>3. PcTyped'
    BY <2>1, <2>2, MovesTyped
  <2>4. calls' \in [Sessions -> Seq(Task)] /\ ready' \in Seq(Waking)
    BY <1>3, <2>1, <2>2, CallAgentQueues
  <2>. QED
    BY <1>1, <2>1, <2>3, <2>4, TypedParts
       DEF hubVars, FridaTyped, QueuesTyped, HubTyped, ClientsTyped
<1>. QED
  BY <1>2, <1>3

LEMMA CallReturnsTyped == ASSUME Typed, NEW c \in Clients, CallReturns(c) PROVE Typed'
<1>1. PcTyped' /\ ready' \in Seq(Waking) /\ command' \in [Clients -> Requests \cup {NoCommand}]
  BY FinishTyped DEF CallReturns
<1>. QED
  BY <1>1, TypedParts
     DEF CallReturns, hubVars, fridaVars, FridaTyped, QueuesTyped, HubTyped, ClientsTyped

LEMMA LeaveTyped == ASSUME Typed, NEW c \in Clients, Leave(c) PROVE Typed'
<1>1. Client(c) \in Task /\ AwaitOf(Client(c), "out")
  BY TaskNames, AwaitOfClient DEF ClientPc
<1>2. PcTyped'
  BY <1>1, MovesTyped DEF Leave
<1>3. QueuesTyped'
  BY <1>1, TurnTyped DEF Leave
<1>. QED
  BY <1>2, <1>3, TypedParts DEF Leave, hubVars, fridaVars, FridaTyped, HubTyped, ClientsTyped

LEMMA DetachTyped == ASSUME Typed, NEW s \in Sessions, Detach(s) PROVE Typed'
<1>. DEFINE t == Detacher(s)
<1>1. t \in Task /\ AwaitOf(t, "call") /\ AwaitOf(t, "bcast") /\ AwaitOf(t, "done")
  BY TaskNames, AwaitOfDetacher DEF DetacherPc
<1>. HIDE DEF t
<1>2. CASE DetachStarts(s)
  <2>1. Turn(t, "queued", TRUE) /\ polling' = None
    BY <1>2 DEF DetachStarts, DetachCalls, t
  <2>2. DetachCalls(t, "call") \/ DetachCloses(t, "bcast", PollerCancelled)
    BY <1>2 DEF DetachStarts, t
  <2>3. CASE DetachCalls(t, "call")
    BY <1>1, <2>1, <2>3, DetachCallsTyped
  <2>4. CASE DetachCloses(t, "bcast", PollerCancelled)
    BY <1>1, <2>1, <2>4, DetachClosesAllTyped
  <2>. QED
    BY <2>2, <2>3, <2>4
<1>3. CASE DetachContinues(s)
  <2>1. PICK ok \in BOOLEAN : Turn(t, "call", ok)
    BY <1>3 DEF DetachContinues, t
  <2>2. DetachCloses(t, "bcast", pc) /\ polling' = polling
    BY <1>3 DEF DetachContinues, t
  <2>. QED
    BY <1>1, <2>1, <2>2, DetachClosesAllTyped
<1>4. CASE DetachReturns(s)
  <2>1. PICK ok \in BOOLEAN : Turn(t, "bcast", ok)
    BY <1>4 DEF DetachReturns, t
  <2>2. /\ pc' = [pc EXCEPT ![t] = "done"] /\ ready' = Tail(ready)
        /\ UNCHANGED <<hubVars, open, command, sending, fridaVars>>
    BY <1>4 DEF DetachReturns, t
  <2>3. PcTyped' /\ QueuesTyped'
    BY <1>1, <2>1, <2>2, MovesTyped, TurnTyped
  <2>. QED
    BY <2>2, <2>3, TypedParts DEF hubVars, fridaVars, FridaTyped, HubTyped, ClientsTyped
<1>. QED
  BY <1>2, <1>3, <1>4 DEF Detach

\* The three kinds of step of the poll loop.
PollStep(s, x) == PollStops(s, x) \/ PollCalls(s, x) \/ PollBroadcasts(s, x)

LEMMA PollIsStep ==
  ASSUME NEW s \in Sessions, Poll(s)
  PROVE  \E at \in PollerPc, ok \in BOOLEAN, x \in PollerPc :
           /\ Turn(Poller(s), at, ok) /\ PollStep(s, x)
           /\ at \in {"none", "done"} => x = "done"
<1>. USE DEF PollStep, PollerPc
<1>1. CASE PollTop(s)
  BY <1>1 DEF PollTop
<1>2. CASE PollRead(s)
  BY <1>2 DEF PollRead
<1>3. CASE PollWatched(s)
  BY <1>3 DEF PollWatched
<1>4. CASE PollResults(s)
  BY <1>4 DEF PollResults
<1>5. CASE PollSleeps(s)
  BY <1>5 DEF PollSleeps
<1>6. CASE PollCancelled(s)
  BY <1>6 DEF PollCancelled
<1>. QED
  BY <1>1, <1>2, <1>3, <1>4, <1>5, <1>6 DEF Poll

LEMMA PollTyped == ASSUME Typed, NEW s \in Sessions, Poll(s) PROVE Typed'
<1>1. PICK at \in PollerPc, ok \in BOOLEAN, x \in PollerPc :
        Turn(Poller(s), at, ok) /\ PollStep(s, x)
  BY PollIsStep
<1>2. /\ Poller(s) \in Task /\ AwaitOf(Poller(s), x) /\ AwaitOf(Poller(s), "done")
      /\ Tail(ready) \in Seq(Waking)
  BY <1>1, TaskNames, AwaitOfPoller, TurnQueue DEF PollerPc
<1>3. ASSUME NEW y, AwaitOf(Poller(s), y), PollStops(s, y) PROVE Typed'
  <2>1. PcTyped' /\ QueuesTyped'
    BY <1>1, <1>2, <1>3, MovesTyped, TurnTyped DEF PollStops
  <2>. QED
    BY <1>3, <2>1, TypedParts DEF PollStops, hubVars, fridaVars, FridaTyped, HubTyped, ClientsTyped
<1>4. CASE PollBroadcasts(s, x)
  <2>1. PcTyped' /\ QueuesTyped'
    BY <1>1, <1>2, <1>4, MovesTyped, TurnTyped DEF PollBroadcasts
  <2>. QED
    BY <1>4, <2>1, TypedParts DEF PollBroadcasts, hubVars, fridaVars, FridaTyped, HubTyped, ClientsTyped
<1>5. CASE PollCalls(s, x) /\ agent # None
  <2>1. /\ pc' = [pc EXCEPT ![Poller(s)] = x]
        /\ CallAgent(Poller(s), Tail(ready))
        /\ UNCHANGED <<hubVars, open, command, sending, sess, frozen>>
    BY <1>5 DEF PollCalls
  <2>2. PcTyped'
    BY <1>2, <2>1, MovesTyped
  <2>3. calls' \in [Sessions -> Seq(Task)] /\ ready' \in Seq(Waking)
    BY <1>2, <1>5, <2>1, CallAgentQueues
  <2>. QED
    BY <2>1, <2>2, <2>3, TypedParts
       DEF hubVars, FridaTyped, QueuesTyped, HubTyped, ClientsTyped
<1>6. CASE PollCalls(s, x) /\ agent = None
  BY <1>2, <1>3, <1>6 DEF PollCalls
<1>. QED
  BY <1>1, <1>2, <1>3, <1>4, <1>5, <1>6 DEF PollStep

LEMMA WakeTyped ==
  ASSUME Typed, NEW t \in Task, NEW ok \in BOOLEAN, ready' = Append(ready, Wake(t, ok))
  PROVE  ready' \in Seq(Waking)
BY TypedParts, WakeIsWaking, AppendQueue DEF QueuesTyped

LEMMA TimerTyped == ASSUME Typed, NEW s \in Sessions, Timer(s) PROVE Typed'
<1>1. Poller(s) \in Task /\ AwaitOf(Poller(s), "queued")
  BY TaskNames, AwaitOfPoller DEF PollerPc
<1>2. PcTyped' /\ ready' \in Seq(Waking)
  BY <1>1, MovesTyped, WakeTyped DEF Timer
<1>. QED
  BY <1>2, TypedParts
     DEF Timer, hubVars, fridaVars, FridaTyped, QueuesTyped, HubTyped, ClientsTyped

LEMMA BroadcastEndsTyped == ASSUME Typed, NEW t \in Task, BroadcastEnds(t) PROVE Typed'
<1>1. PICK b \in sending, ok \in BOOLEAN :
        /\ sending' = sending \ {b} /\ ready' = Append(ready, Wake(t, ok))
        /\ UNCHANGED <<hubVars, open, pc, command, fridaVars>>
  BY DEF BroadcastEnds
<1>2. ready' \in Seq(Waking)
  BY <1>1, WakeTyped
<1>. QED
  BY <1>1, <1>2, TypedParts
     DEF hubVars, fridaVars, PcTyped, AwaitsTyped, FridaTyped, QueuesTyped, HubTyped, ClientsTyped

\* A call of detach that clears the freezer.
Clears(t) == pc[t] = "attCall" \/ (t[1] = "detach" /\ pc[t] = "call")

\* An answer wakes the caller and takes it from the agent's calls.
LEMMA AnswerIs ==
  ASSUME Typed, NEW s \in Sessions, Answer(s)
  PROVE  /\ sess[s] = "live" /\ calls[s] # <<>>
         /\ \E t \in Task, ok \in BOOLEAN :
              /\ t = Head(calls[s])
              /\ ready' = Append(ready, Wake(t, ok))
              /\ frozen' = [frozen EXCEPT ![s] =
                   IF Clears(t) THEN {} ELSE @ \cup {c \in Clients : t = Client(c) /\ Freezing(c)}]
         /\ calls' = [calls EXCEPT ![s] = Tail(@)]
         /\ UNCHANGED <<hubVars, open, pc, command, sending, sess>>
<1>1. sess[s] = "live" /\ calls[s] # <<>> /\ calls[s] \in Seq(Task)
  BY TypedParts DEF Answer, FridaTyped
<1>2. Head(calls[s]) \in Task
  BY <1>1
<1>3. TRUE \in BOOLEAN /\ FALSE \in BOOLEAN
  OBVIOUS
<1>. QED
  BY <1>1, <1>2, <1>3 DEF Answer, Clears

LEMMA AnswerTyped == ASSUME Typed, NEW s \in Sessions, Answer(s) PROVE Typed'
<1>1. calls[s] # <<>> /\ calls[s] \in Seq(Task)
  BY AnswerIs, TypedParts DEF FridaTyped
<1>2. ready' \in Seq(Waking)
  BY AnswerIs, WakeTyped
<1>3. calls' \in [Sessions -> Seq(Task)]
  <2>1. Tail(calls[s]) \in Seq(Task)
    BY <1>1
  <2>2. calls' = [calls EXCEPT ![s] = Tail(@)]
    BY AnswerIs
  <2>3. calls \in [Sessions -> Seq(Task)]
    BY TypedParts DEF FridaTyped
  <2>. QED
    BY <2>1, <2>2, <2>3
<1>4. frozen' \in [Sessions -> SUBSET Clients]
  <2>1. PICK t \in Task : frozen' = [frozen EXCEPT ![s] =
                   IF Clears(t) THEN {} ELSE @ \cup {c \in Clients : t = Client(c) /\ Freezing(c)}]
    BY AnswerIs
  <2>. DEFINE v == IF Clears(t) THEN {}
                   ELSE frozen[s] \cup {c \in Clients : t = Client(c) /\ Freezing(c)}
  <2>2. v \in SUBSET Clients
    BY TypedParts DEF FridaTyped
  <2>3. frozen' = [frozen EXCEPT ![s] = v]
    BY <2>1
  <2>. HIDE DEF v
  <2>. QED
    BY <2>2, <2>3, TypedParts DEF FridaTyped
<1>. QED
  BY <1>2, <1>3, <1>4, AnswerIs, TypedParts
     DEF hubVars, PcTyped, AwaitsTyped, FridaTyped, QueuesTyped, HubTyped, ClientsTyped

LEMMA TargetExitsTyped == ASSUME Typed, NEW s \in Sessions, TargetExits(s) PROVE Typed'
<1>1. ready \in Seq(Waking)
  BY TypedParts DEF QueuesTyped
<1>2. CASE SessionEnds(s, ready) /\ pc' = [pc EXCEPT ![Detacher(s)] = "queued"]
  <2>1. FridaTyped' /\ ready' \in Seq(Waking)
    BY <1>1, <1>2, SessionEndsTyped
  <2>2. PcTyped'
    BY <1>2, TaskNames, AwaitOfDetacher, MovesTyped DEF DetacherPc
  <2>. QED
    BY <2>1, <2>2, TypedParts DEF TargetExits, hubVars, QueuesTyped, HubTyped, ClientsTyped
<1>3. CASE ~(SessionEnds(s, ready) /\ pc' = [pc EXCEPT ![Detacher(s)] = "queued"])
  <2>1. /\ sess' = [sess EXCEPT ![s] = "dying"] /\ calls' = [calls EXCEPT ![s] = <<>>]
        /\ ready' = ready \o FailedCalls(s)
        /\ UNCHANGED <<pc, frozen, hubVars, open, command, sending>>
    BY <1>3 DEF TargetExits
  <2>2. ready' \in Seq(Waking)
    BY <1>1, <2>1, FailedCallsQueue, ConcatQueue
  <2>3. FridaTyped'
    BY <2>1, TypedParts DEF FridaTyped, SessState
  <2>. QED
    BY <2>1, <2>2, <2>3, TypedParts
       DEF hubVars, PcTyped, AwaitsTyped, QueuesTyped, HubTyped, ClientsTyped
<1>. QED
  BY <1>2, <1>3

LEMMA DetachedTyped == ASSUME Typed, NEW s \in Sessions, Detached(s) PROVE Typed'
<1>1. ready \in Seq(Waking)
  BY TypedParts DEF QueuesTyped
<1>2. FridaTyped' /\ ready' \in Seq(Waking)
  BY <1>1, SessionEndsTyped DEF Detached
<1>3. PcTyped'
  BY TaskNames, AwaitOfDetacher, MovesTyped DEF Detached, DetacherPc
<1>. QED
  BY <1>2, <1>3, TypedParts DEF Detached, hubVars, QueuesTyped, HubTyped, ClientsTyped

LEMMA ClientStepsTyped ==
  ASSUME Typed, NEW c \in Clients,
         Connect(c) \/ Close(c) \/ \E m \in Requests : Send(c, m)
  PROVE  Typed'
<1>. DEFINE t == Client(c)
<1>1. /\ t \in Task
      /\ AwaitOf(t, "recv") /\ AwaitOf(t, "queued") /\ AwaitOf(t, "leaving")
  BY TaskNames, AwaitOfClient DEF ClientPc
<1>. HIDE DEF t
<1>2. CASE Connect(c)
  <2>1. /\ pc' = [pc EXCEPT ![t] = "recv"] /\ open' = open \cup {c}
        /\ UNCHANGED <<hubVars, command, ready, sending, fridaVars>>
    BY <1>2 DEF Connect, t
  <2>2. PcTyped'
    BY <1>1, <2>1, MovesTyped
  <2>. QED
    BY <2>1, <2>2, TypedParts DEF hubVars, fridaVars, FridaTyped, QueuesTyped, HubTyped, ClientsTyped
<1>3. CASE Close(c)
  <2>1. open' = open \ {c} /\ UNCHANGED <<hubVars, command, sending, fridaVars>>
    BY <1>3 DEF Close
  <2>2. \/ pc' = [pc EXCEPT ![t] = "leaving"] /\ ready' = Append(ready, Wake(t, TRUE))
        \/ UNCHANGED <<pc, ready>>
    BY <1>3 DEF Close, t
  <2>3. PcTyped' /\ ready' \in Seq(Waking)
    <3>1. CASE UNCHANGED <<pc, ready>>
      BY <3>1, TypedParts DEF PcTyped, AwaitsTyped, QueuesTyped
    <3>2. CASE pc' = [pc EXCEPT ![t] = "leaving"] /\ ready' = Append(ready, Wake(t, TRUE))
      BY <1>1, <3>2, MovesTyped, WakeTyped
    <3>. QED
      BY <2>2, <3>1, <3>2
  <2>. QED
    BY <2>1, <2>3, TypedParts DEF hubVars, fridaVars, FridaTyped, QueuesTyped, HubTyped, ClientsTyped
<1>4. ASSUME NEW m \in Requests, Send(c, m) PROVE Typed'
  <2>1. /\ pc' = [pc EXCEPT ![t] = "queued"] /\ ready' = Append(ready, Wake(t, TRUE))
        /\ command' = [command EXCEPT ![c] = m]
        /\ UNCHANGED <<hubVars, open, sending, fridaVars>>
    BY <1>4 DEF Send, t
  <2>2. PcTyped' /\ ready' \in Seq(Waking)
    BY <1>1, <2>1, MovesTyped, WakeTyped
  <2>. QED
    BY <1>4, <2>1, <2>2, TypedParts
       DEF hubVars, fridaVars, FridaTyped, QueuesTyped, HubTyped, ClientsTyped
<1>. QED
  BY <1>2, <1>3, <1>4

LEMMA StepTyped == Typed /\ [Next]_vars => Typed'
<1>. SUFFICES ASSUME Typed, [Next]_vars PROVE Typed'
  OBVIOUS
<1>1. CASE Loop
  BY <1>1, AttachTyped, WatchTyped, CallTyped, CallReturnsTyped, LeaveTyped, DetachTyped,
     PollTyped DEF Loop
<1>2. ASSUME NEW t \in Task, BroadcastEnds(t) PROVE Typed'
  BY <1>2, BroadcastEndsTyped
<1>3. ASSUME NEW s \in Sessions, Timer(s) \/ Answer(s) \/ TargetExits(s) \/ Detached(s)
      PROVE  Typed'
  BY <1>3, TimerTyped, AnswerTyped, TargetExitsTyped, DetachedTyped
<1>4. ASSUME NEW c \in Clients, Connect(c) \/ Close(c) \/ \E m \in Requests : Send(c, m)
      PROVE  Typed'
  BY <1>4, ClientStepsTyped
<1>5. CASE UNCHANGED vars
  BY <1>5, TypedParts DEF vars, hubVars, fridaVars, PcTyped, AwaitsTyped, FridaTyped,
     QueuesTyped, HubTyped, ClientsTyped
<1>. QED
  BY <1>1, <1>2, <1>3, <1>4, <1>5 DEF Next

\* The hub's state keeps its types: only tasks that exist are woken, call the
\* agent or broadcast, whatever UIs and targets do.
THEOREM TypesHold == Spec => []TypeOK
<1>1. Spec => []Typed
  BY InitTyped, StepTyped, PTL DEF Spec
<1>2. Typed => TypeOK
  BY DEF Typed
<1>. QED
  BY <1>1, <1>2, PTL

-----------------------------------------------------------------------------
(* One place for each handler.                                             *)

LEMMA InitOnePlace == Init => OnePlace
BY DEF Init, OnePlace, Placed, Once, CalledOnce, Called, Queued, InCalls, InSending

\* A step that puts t nowhere it was not.
LEMMA PlacedKept ==
  ASSUME NEW t, Placed(t), pc'[t] = pc[t], Once(t, ready'),
         Queued(t, ready') => Queued(t, ready),
         \A s \in Sessions : CalledOnce(t, s)' /\ (Called(t, s)' => Called(t, s)),
         \A b \in sending' : b.task = t => b \in sending
  PROVE  Placed(t)'
<1>1. InCalls(t)' => InCalls(t)
  BY DEF InCalls
<1>2. InSending(t)' => InSending(t)
  BY DEF InSending
<1>3. \A b, d \in sending' : b.task = t /\ d.task = t => b = d
  BY DEF Placed
<1>4. \A s, r \in Sessions : Called(t, s)' /\ Called(t, r)' => s = r
  BY DEF Placed
<1>5. Placed(t) => /\ Queued(t, ready) => /\ ~InCalls(t) /\ ~InSending(t)
                                          /\ pc[t] \notin {"new", "recv", "out"}
                   /\ InCalls(t) => pc[t] \in {"attCall", "call"}
                   /\ InSending(t) => pc[t] \in {"attStatus", "attached", "attError"}
  BY DEF Placed
<1>. QED
  BY <1>1, <1>2, <1>3, <1>4, <1>5 DEF Placed

\* A call more for the agent of a.
LEMMA CallsAppend ==
  ASSUME Typed, NEW a \in Sessions, NEW u \in Task, calls' = [calls EXCEPT ![a] = Append(@, u)],
         NEW t, NEW s \in Sessions
  PROVE  /\ Called(t, s)' <=> Called(t, s) \/ (s = a /\ t = u)
         /\ CalledOnce(t, s) /\ (t # u \/ s # a \/ ~Called(t, s)) => CalledOnce(t, s)'
<1>1. calls \in [Sessions -> Seq(Task)]
  BY DEF Typed
<1>2. CASE s # a
  <2>1. calls'[s] = calls[s]
    BY <1>1, <1>2
  <2>. QED
    BY <1>2, <2>1 DEF Called, CalledOnce
<1>3. CASE s = a
  <2>. DEFINE q == calls[s]
              r == calls'[s]
  <2>1. q \in Seq(Task) /\ r = Append(q, u)
    BY <1>1, <1>3
  <2>2. /\ Len(r) = Len(q) + 1 /\ Len(q) \in Nat /\ r[Len(q) + 1] = u
        /\ \A k \in 1..Len(q) : r[k] = q[k]
    BY <2>1
  <2>3. (\E k \in 1..Len(r) : r[k] = t) <=> (\E k \in 1..Len(q) : q[k] = t) \/ t = u
    BY <2>2
  <2>4. ASSUME \A k, l \in 1..Len(q) : q[k] = t /\ q[l] = t => k = l,
               t # u \/ ~\E k \in 1..Len(q) : q[k] = t
        PROVE  \A k, l \in 1..Len(r) : r[k] = t /\ r[l] = t => k = l
    BY <2>2, <2>4
  <2>. QED
    BY <1>3, <2>3, <2>4 DEF Called, CalledOnce
<1>. QED
  BY <1>2, <1>3

\* Another task has its turn.
LEMMA OthersPlaced ==
  ASSUME Typed, NEW u \in Task, NEW at, NEW ok, Turn(u, at, ok),
         NEW t, u # t, Placed(t), pc'[t] = pc[t],
         \/ ready' = Tail(ready)
         \/ \E v \in Task, ok2 \in BOOLEAN : v # t /\ ready' = Append(Tail(ready), Wake(v, ok2)),
         \/ calls' = calls
         \/ \E a \in Sessions : calls' = [calls EXCEPT ![a] = Append(@, u)],
         UNCHANGED sending \/ Broadcast(u)
  PROVE  Placed(t)'
<1>1. /\ ready \in Seq(Waking) /\ ready # <<>> /\ Tail(ready) \in Seq(Waking)
      /\ Head(ready).task = u
  BY TurnQueue
<1>2. /\ Queued(t, Tail(ready)) => Queued(t, ready)
      /\ Once(t, ready) => Once(t, Tail(ready))
  BY <1>1, TailQueue
<1>3. Once(t, ready) /\ \A s \in Sessions : CalledOnce(t, s)
  BY DEF Placed
<1>4. Once(t, ready') /\ (Queued(t, ready') => Queued(t, ready))
  <2>1. CASE ready' = Tail(ready)
    BY <1>2, <1>3, <2>1
  <2>2. ASSUME NEW v \in Task, NEW ok2 \in BOOLEAN, v # t,
               ready' = Append(Tail(ready), Wake(v, ok2))
        PROVE  Once(t, ready') /\ (Queued(t, ready') => Queued(t, ready))
    <3>1. Wake(v, ok2) \in Waking /\ Wake(v, ok2).task = v
      BY WakeIsWaking
    <3>. QED
      BY <1>1, <1>2, <1>3, <2>2, <3>1, AppendQueue
  <2>. QED
    BY <2>1, <2>2
<1>5. ASSUME NEW s \in Sessions PROVE CalledOnce(t, s)' /\ (Called(t, s)' => Called(t, s))
  <2>1. CASE calls' = calls
    BY <1>3, <2>1 DEF CalledOnce, Called
  <2>2. ASSUME NEW a \in Sessions, calls' = [calls EXCEPT ![a] = Append(@, u)]
        PROVE  CalledOnce(t, s)' /\ (Called(t, s)' => Called(t, s))
    BY <1>3, <2>2, CallsAppend
  <2>. QED
    BY <2>1, <2>2
<1>6. \A b \in sending' : b.task = t => b \in sending
  BY DEF Broadcast
<1>. QED
  BY <1>4, <1>5, <1>6, PlacedKept

\* A task that has its turn waits nowhere else.
LEMMA TurnFrees ==
  ASSUME Typed, NEW t \in Task, Placed(t), NEW at, NEW ok, Turn(t, at, ok)
  PROVE  /\ ~Queued(t, Tail(ready)) /\ Once(t, Tail(ready))
         /\ ~InCalls(t) /\ ~InSending(t)
<1>1. /\ ready \in Seq(Waking) /\ ready # <<>> /\ Head(ready).task = t
  BY TurnQueue
<1>2. Queued(t, ready) /\ (Once(t, ready) => Once(t, Tail(ready)) /\ ~Queued(t, Tail(ready)))
  BY <1>1, TailQueue
<1>. QED
  BY <1>2 DEF Placed

\* It goes on, and waits in one place at most.
LEMMA OwnPlaced ==
  ASSUME Typed, NEW t \in Task, NEW at, NEW ok, Turn(t, at, ok), Placed(t),
         \/ /\ ready' = Tail(ready) /\ calls' = calls /\ UNCHANGED sending
         \/ /\ \E ok2 \in BOOLEAN : ready' = Append(Tail(ready), Wake(t, ok2))
            /\ calls' = calls /\ UNCHANGED sending
            /\ pc'[t] \notin {"new", "recv", "out"}
         \/ /\ ready' = Tail(ready) /\ UNCHANGED sending
            /\ \E a \in Sessions : calls' = [calls EXCEPT ![a] = Append(@, t)]
            /\ pc'[t] \in {"attCall", "call"}
         \/ /\ \/ ready' = Tail(ready)
               \/ \E v \in Task, ok2 \in BOOLEAN :
                    v # t /\ ready' = Append(Tail(ready), Wake(v, ok2))
            /\ calls' = calls /\ Broadcast(t)
            /\ pc'[t] \in {"attStatus", "attached", "attError"}
  PROVE  Placed(t)'
<1>1. /\ ~Queued(t, Tail(ready)) /\ Once(t, Tail(ready))
      /\ ~InCalls(t) /\ ~InSending(t) /\ Tail(ready) \in Seq(Waking)
  BY TurnFrees, TurnQueue
<1>2. \A s \in Sessions : CalledOnce(t, s) /\ ~Called(t, s)
  BY <1>1 DEF Placed, InCalls
<1>3. \A b \in sending : b.task # t
  BY <1>1 DEF InSending
<1>4. calls' = calls => \A s \in Sessions : CalledOnce(t, s)' /\ ~Called(t, s)'
  BY <1>2 DEF CalledOnce, Called
<1>5. ASSUME NEW v \in Task, NEW ok2 \in BOOLEAN, ready' = Append(Tail(ready), Wake(v, ok2))
      PROVE  Once(t, ready') /\ (Queued(t, ready') <=> v = t)
  <2>1. Wake(v, ok2) \in Waking /\ Wake(v, ok2).task = v
    BY WakeIsWaking
  <2>. QED
    BY <1>1, <1>5, <2>1, AppendQueue
<1>6. CASE ready' = Tail(ready) /\ calls' = calls /\ UNCHANGED sending
  BY <1>1, <1>3, <1>4, <1>6 DEF Placed, InCalls, InSending
<1>7. CASE /\ \E ok2 \in BOOLEAN : ready' = Append(Tail(ready), Wake(t, ok2))
           /\ calls' = calls /\ UNCHANGED sending
           /\ pc'[t] \notin {"new", "recv", "out"}
  <2>1. Once(t, ready')
    BY <1>5, <1>7
  <2>. QED
    BY <1>3, <1>4, <1>7, <2>1 DEF Placed, InCalls, InSending
<1>8. CASE /\ ready' = Tail(ready) /\ UNCHANGED sending
           /\ \E a \in Sessions : calls' = [calls EXCEPT ![a] = Append(@, t)]
           /\ pc'[t] \in {"attCall", "call"}
  <2>1. PICK a \in Sessions : calls' = [calls EXCEPT ![a] = Append(@, t)]
    BY <1>8
  <2>2. \A s \in Sessions : CalledOnce(t, s)' /\ (Called(t, s)' => s = a)
    BY <1>2, <2>1, CallsAppend
  <2>. QED
    BY <1>1, <1>3, <1>8, <2>2 DEF Placed, InCalls, InSending
<1>9. CASE /\ \/ ready' = Tail(ready)
              \/ \E v \in Task, ok2 \in BOOLEAN :
                   v # t /\ ready' = Append(Tail(ready), Wake(v, ok2))
           /\ calls' = calls /\ Broadcast(t)
           /\ pc'[t] \in {"attStatus", "attached", "attError"}
  <2>1. Once(t, ready') /\ ~Queued(t, ready')
    BY <1>1, <1>5, <1>9
  <2>2. \A b, d \in sending' : b.task = t /\ d.task = t => b = d
    BY <1>3, <1>9 DEF Broadcast
  <2>. QED
    BY <1>4, <1>9, <2>1, <2>2 DEF Placed, InCalls, InSending
<1>. QED
  BY <1>6, <1>7, <1>8, <1>9

\* The calls of session s fail: a task that made one is woken, another is left.
LEMMA CallsFailPlaced ==
  ASSUME Typed, NEW s \in Sessions, NEW t, Placed(t), pc'[t] = pc[t],
         calls' = [calls EXCEPT ![s] = <<>>],
         NEW queue, Queued(t, queue) => Queued(t, ready), Once(t, queue),
         Queued(t, ready') <=> Queued(t, queue) \/ Called(t, s),
         Once(t, queue) /\ CalledOnce(t, s) /\ ~(Queued(t, queue) /\ Called(t, s)) => Once(t, ready'),
         \A b \in sending' : b.task = t => b \in sending
  PROVE  Placed(t)'
<1>1. calls \in [Sessions -> Seq(Task)] /\ Len(<<>>) = 0
  BY DEF Typed
<1>2. calls'[s] = <<>> /\ \A r \in Sessions : r # s => calls'[r] = calls[r]
  BY <1>1
<1>3. /\ ~Called(t, s)' /\ CalledOnce(t, s)'
      /\ \A r \in Sessions : r # s => (Called(t, r)' <=> Called(t, r))
                                      /\ (CalledOnce(t, r)' <=> CalledOnce(t, r))
  BY <1>1, <1>2 DEF Called, CalledOnce
<1>4. \A r \in Sessions : CalledOnce(t, r)' /\ (Called(t, r)' => Called(t, r))
  BY <1>3 DEF Placed
<1>5. Called(t, s) => ~Queued(t, ready) /\ pc[t] \in {"attCall", "call"}
  BY DEF Placed, InCalls
<1>6. Once(t, ready')
  BY <1>5 DEF Placed
<1>7. CASE ~Called(t, s)
  BY <1>4, <1>6, <1>7, PlacedKept
<1>8. CASE Called(t, s)
  <2>1. ~InCalls(t)'
    BY <1>3, <1>8 DEF Placed, InCalls
  <2>2. ~InSending(t)
    BY <1>5, <1>8 DEF Placed
  <2>3. ~InSending(t)' /\ \A b, d \in sending' : b.task = t /\ d.task = t => b = d
    BY <2>2 DEF InSending
  <2>4. \A r, q \in Sessions : Called(t, r)' /\ Called(t, q)' => r = q
    BY <2>1 DEF InCalls
  <2>. QED
    BY <1>4, <1>5, <1>6, <1>8, <2>1, <2>3, <2>4 DEF Placed
<1>. QED
  BY <1>7, <1>8

LEMMA SessionEndsPlaced ==
  ASSUME Typed, NEW s \in Sessions, NEW queue \in Seq(Waking), SessionEnds(s, queue),
         NEW t, t # Detacher(s), Placed(t), pc'[t] = pc[t],
         Once(t, queue), Queued(t, queue) => Queued(t, ready),
         \A b \in sending' : b.task = t => b \in sending
  PROVE  Placed(t)'
<1>1. /\ Queued(t, ready') <=> Queued(t, queue) \/ Called(t, s)
      /\ Once(t, queue) /\ CalledOnce(t, s) /\ ~(Queued(t, queue) /\ Called(t, s)) => Once(t, ready')
  BY SessionEndsQueue
<1>2. calls' = [calls EXCEPT ![s] = <<>>]
  BY DEF SessionEnds
<1>. QED
  BY <1>1, <1>2, CallsFailPlaced

\* A handler whose turn it is not, when another task closes the session.
LEMMA DetachClosesOther ==
  ASSUME Typed, NEW u \in Task, NEW at, NEW ok, Turn(u, at, ok), NEW x, NEW pcs,
         DetachCloses(u, x, pcs), pcs \in [Task -> Await],
         NEW c \in Clients, Client(c) # u, Placed(Client(c)), pcs[Client(c)] = pc[Client(c)]
  PROVE  Placed(Client(c))'
<1>. DEFINE t == Client(c)
<1>1. t \in Task /\ t # u /\ Placed(t) /\ pcs[t] = pc[t]
  BY TaskNames
<1>2. Tail(ready) \in Seq(Waking) /\ ready \in Seq(Waking) /\ ready # <<>>
  BY TurnQueue
<1>3. [pcs EXCEPT ![u] = x][t] = pc[t]
  BY <1>1
<1>. HIDE DEF t
<1>4. Broadcast(u)
  BY DEF DetachCloses
<1>5. CASE session = None \/ sess[session] = "dead"
  <2>1. ready' = Tail(ready) /\ pc'[t] = pc[t] /\ calls' = calls
    BY <1>3, <1>5 DEF DetachCloses, fridaVars
  <2>2. Placed(t)'
    BY <1>1, <1>4, <2>1, OthersPlaced
  <2>. QED
    BY <2>2 DEF t
<1>6. CASE ~(session = None \/ sess[session] = "dead")
  <2>1. session \in Sessions
    BY <1>6 DEF Typed, TypeOK
  <2>2. SessionEnds(session, Tail(ready))
    BY <1>6 DEF DetachCloses
  <2>3. pc' = [pcs EXCEPT ![u] = x, ![Detacher(session)] = "queued"] /\ t # Detacher(session)
    BY <1>6, <2>1, TaskNames DEF DetachCloses, t
  <2>4. pc'[t] = pc[t]
    BY <1>1, <2>3
  <2>5. Once(t, Tail(ready)) /\ (Queued(t, Tail(ready)) => Queued(t, ready))
    BY <1>1, <1>2, TailQueue DEF Placed
  <2>6. \A b \in sending' : b.task = t => b \in sending
    BY <1>1, <1>4 DEF Broadcast
  <2>7. Placed(t)'
    BY <1>1, <1>2, <2>1, <2>2, <2>3, <2>4, <2>5, <2>6, SessionEndsPlaced
  <2>. QED
    BY <2>7 DEF t
<1>. QED
  BY <1>5, <1>6

\* The handler that closes it, in attach.
LEMMA DetachClosesOwn ==
  ASSUME Typed, NEW c \in Clients, NEW at, NEW ok, Turn(Client(c), at, ok), NEW pcs,
         DetachCloses(Client(c), "attStatus", pcs), pcs \in [Task -> Await], Placed(Client(c))
  PROVE  Placed(Client(c))'
<1>. DEFINE t == Client(c)
<1>1. t \in Task /\ Placed(t) /\ Turn(t, at, ok)
  BY TaskNames
<1>2. [pcs EXCEPT ![t] = "attStatus"][t] = "attStatus"
  BY <1>1
<1>. HIDE DEF t
<1>3. Broadcast(t)
  BY DEF DetachCloses, t
<1>4. CASE session = None \/ sess[session] = "dead"
  <2>1. ready' = Tail(ready) /\ pc'[t] = "attStatus" /\ calls' = calls
    BY <1>2, <1>4 DEF DetachCloses, fridaVars, t
  <2>2. Placed(t)'
    BY <1>1, <1>3, <2>1, OwnPlaced
  <2>. QED
    BY <2>2 DEF t
<1>5. CASE ~(session = None \/ sess[session] = "dead")
  <2>1. session \in Sessions
    BY <1>5 DEF Typed, TypeOK
  <2>2. SessionEnds(session, Tail(ready))
    BY <1>5 DEF DetachCloses
  <2>3. pc' = [pcs EXCEPT ![t] = "attStatus", ![Detacher(session)] = "queued"] /\ t # Detacher(session)
    BY <1>5, <2>1, TaskNames DEF DetachCloses, t
  <2>4. pc'[t] = "attStatus"
    BY <1>1, <2>3
  <2>5. /\ ~Queued(t, Tail(ready)) /\ Once(t, Tail(ready)) /\ Tail(ready) \in Seq(Waking)
        /\ ~InCalls(t) /\ ~InSending(t)
    BY <1>1, TurnFrees, TurnQueue
  <2>6. \A r \in Sessions : ~Called(t, r) /\ CalledOnce(t, r)
    BY <1>1, <2>5 DEF InCalls, Placed
  <2>7. ~Queued(t, ready') /\ Once(t, ready')
    BY <2>1, <2>2, <2>3, <2>5, <2>6, SessionEndsQueue
  <2>8. calls \in [Sessions -> Seq(Task)] /\ calls' = [calls EXCEPT ![session] = <<>>]
    BY <2>2 DEF SessionEnds, Typed
  <2>9. \A r \in Sessions : ~Called(t, r)' /\ CalledOnce(t, r)'
    <3>1. Len(<<>>) = 0 /\ \A r \in Sessions : calls'[r] = IF r = session THEN <<>> ELSE calls[r]
      BY <2>8
    <3>. QED
      BY <2>6, <3>1 DEF Called, CalledOnce
  <2>10. \A b, d \in sending' : b.task = t /\ d.task = t => b = d
    BY <1>3, <2>5 DEF Broadcast, InSending
  <2>11. Placed(t)'
    BY <2>4, <2>7, <2>9, <2>10 DEF Placed, InCalls
  <2>. QED
    BY <2>11 DEF t
<1>. QED
  BY <1>4, <1>5

\* How a task that has its turn and ends no session leaves the queues.
Resumes(u) == ready' = Tail(ready) /\ calls' = calls /\ UNCHANGED sending
Requeues(u) ==
  /\ \E ok \in BOOLEAN : ready' = Append(Tail(ready), Wake(u, ok))
  /\ calls' = calls /\ UNCHANGED sending
CallsAgent(u) ==
  /\ agent \in Sessions /\ sess[agent] = "live"
  /\ calls' = [calls EXCEPT ![agent] = Append(@, u)]
  /\ ready' = Tail(ready) /\ UNCHANGED sending
Broadcasts(u) ==
  /\ \/ ready' = Tail(ready)
     \/ \E s \in Sessions : ready' = Append(Tail(ready), Wake(Poller(s), TRUE))
  /\ calls' = calls /\ Broadcast(u)

\* ... and where its handler is then.
GoesOn(u) ==
  \/ Resumes(u)
  \/ Requeues(u) /\ pc'[u] \notin {"new", "recv", "out"}
  \/ CallsAgent(u) /\ pc'[u] \in {"attCall", "call"}
  \/ Broadcasts(u) /\ pc'[u] \in {"attStatus", "attached", "attError"}

OtherHandlersKept(u) == \A c \in Clients : Client(c) # u => pc'[Client(c)] = pc[Client(c)]

LEMMA GoesOnPlaced ==
  ASSUME Typed, OnePlace, NEW u \in Task, NEW at, NEW ok, Turn(u, at, ok),
         OtherHandlersKept(u), Resumes(u) \/ Requeues(u) \/ CallsAgent(u) \/ Broadcasts(u),
         (\E c \in Clients : u = Client(c)) => GoesOn(u)
  PROVE  OnePlace'
<1>. SUFFICES ASSUME NEW c \in Clients PROVE Placed(Client(c))'
  BY DEF OnePlace
<1>. DEFINE t == Client(c)
<1>1. t \in Task /\ Placed(t) /\ \A s \in Sessions : t # Poller(s) /\ Poller(s) \in Task
  BY TaskNames DEF OnePlace
<1>2. TRUE \in BOOLEAN
  OBVIOUS
<1>3. CASE u # t
  <2>1. pc'[t] = pc[t]
    BY <1>3 DEF OtherHandlersKept
  <2>. HIDE DEF t
  <2>2. \/ ready' = Tail(ready)
        \/ \E v \in Task, ok2 \in BOOLEAN : v # t /\ ready' = Append(Tail(ready), Wake(v, ok2))
    BY <1>1, <1>2, <1>3 DEF Resumes, Requeues, CallsAgent, Broadcasts
  <2>3. \/ calls' = calls
        \/ \E a \in Sessions : calls' = [calls EXCEPT ![a] = Append(@, u)]
    BY DEF Resumes, Requeues, CallsAgent, Broadcasts
  <2>4. UNCHANGED sending \/ Broadcast(u)
    BY DEF Resumes, Requeues, CallsAgent, Broadcasts
  <2>5. Placed(t)'
    BY <1>1, <1>3, <2>1, <2>2, <2>3, <2>4, OthersPlaced
  <2>. QED
    BY <2>5 DEF t
<1>4. CASE u = t
  <2>1. GoesOn(t) /\ Turn(t, at, ok)
    BY <1>4
  <2>. HIDE DEF t
  <2>2. Placed(t)'
    <3>1. CASE Resumes(t)
      BY <1>1, <2>1, <3>1, OwnPlaced DEF Resumes
    <3>2. CASE Requeues(t) /\ pc'[t] \notin {"new", "recv", "out"}
      BY <1>1, <2>1, <3>2, OwnPlaced DEF Requeues
    <3>3. CASE CallsAgent(t) /\ pc'[t] \in {"attCall", "call"}
      BY <1>1, <2>1, <3>3, OwnPlaced DEF CallsAgent
    <3>4. CASE Broadcasts(t) /\ pc'[t] \in {"attStatus", "attached", "attError"}
      <4>1. \/ ready' = Tail(ready)
            \/ \E v \in Task, ok2 \in BOOLEAN : v # t /\ ready' = Append(Tail(ready), Wake(v, ok2))
        BY <1>1, <1>2, <3>4 DEF Broadcasts
      <4>. QED
        BY <1>1, <2>1, <3>4, <4>1, OwnPlaced DEF Broadcasts
    <3>. QED
      BY <2>1, <3>1, <3>2, <3>3, <3>4 DEF GoesOn
  <2>. QED
    BY <2>2 DEF t
<1>. QED
  BY <1>3, <1>4

LEMMA MovesOnly ==
  ASSUME Typed, NEW u \in Task, NEW f, f \in [Task -> Await], NEW x, pc' = [f EXCEPT ![u] = x],
         \A c \in Clients : f[Client(c)] = pc[Client(c)]
  PROVE  OtherHandlersKept(u) /\ pc'[u] = x
BY TaskNames DEF OtherHandlersKept

LEMMA PcIsTyped == Typed => pc \in [Task -> Await] /\ PollerCancelled \in [Task -> Await]
                            /\ \A c \in Clients : PollerCancelled[Client(c)] = pc[Client(c)]
BY TypedParts, PollerCancelledIs DEF PcTyped, AwaitsTyped

\* A task's call to the agent.
LEMMA CallAgentGoesOn ==
  ASSUME Typed, agent # None, NEW u, CallAgent(u, Tail(ready)), UNCHANGED sending
  PROVE  CallsAgent(u) \/ Requeues(u)
<1>1. agent \in Sessions /\ FALSE \in BOOLEAN
  BY DEF Typed, TypeOK
<1>. QED
  BY <1>1 DEF CallAgent, CallsAgent, Requeues

LEMMA FinishGoesOn ==
  ASSUME Typed, NEW c \in Clients, Finish(c), calls' = calls, UNCHANGED sending
  PROVE  OtherHandlersKept(Client(c)) /\ GoesOn(Client(c))
<1>1. Client(c) \in Task /\ TRUE \in BOOLEAN
  BY TaskNames
<1>2. CASE c \in open
  <2>1. pc' = [pc EXCEPT ![Client(c)] = "recv"] /\ ready' = Tail(ready)
    BY <1>2 DEF Finish
  <2>. QED
    BY <1>1, <2>1, PcIsTyped, MovesOnly DEF GoesOn, Resumes
<1>3. CASE c \notin open
  <2>1. pc' = [pc EXCEPT ![Client(c)] = "leaving"] /\ ready' = Append(Tail(ready), Wake(Client(c), TRUE))
    BY <1>3 DEF Finish
  <2>2. OtherHandlersKept(Client(c)) /\ pc'[Client(c)] = "leaving"
    BY <1>1, <2>1, PcIsTyped, MovesOnly
  <2>. QED
    BY <1>1, <2>1, <2>2 DEF GoesOn, Requeues
<1>. QED
  BY <1>2, <1>3

LEMMA AttachingGoesOn ==
  ASSUME Typed, NEW c \in Clients, Attaching(c)
  PROVE  OtherHandlersKept(Client(c)) /\ GoesOn(Client(c)) /\ pc'[Client(c)] \in {"attError", "attached"}
<1>. DEFINE t == Client(c)
<1>1. t \in Task /\ \A s \in Sessions : Poller(s) \in Task /\ Poller(s) # t
  BY TaskNames
<1>2. /\ \/ ready' = Tail(ready)
         \/ \E s \in Sessions : ready' = Append(Tail(ready), Wake(Poller(s), TRUE))
      /\ calls' = calls /\ Broadcast(t)
  BY DEF Attaching, AttachError, LoadFails, LoadSucceeds, fridaVars
<1>3. \/ pc' = [pc EXCEPT ![t] = "attError"]
      \/ \E s \in Sessions : pc' = [pc EXCEPT ![t] = "attached", ![Poller(s)] = "queued"]
  BY DEF Attaching, AttachError, LoadFails, LoadSucceeds
<1>. HIDE DEF t
<1>4. /\ pc'[t] \in {"attError", "attached"}
      /\ \A u \in Task : u # t /\ (\A s \in Sessions : u # Poller(s)) => pc'[u] = pc[u]
  <2>1. CASE pc' = [pc EXCEPT ![t] = "attError"]
    BY <1>1, <2>1, PcIsTyped
  <2>2. ASSUME NEW s \in Sessions, pc' = [pc EXCEPT ![t] = "attached", ![Poller(s)] = "queued"]
        PROVE  pc'[t] = "attached" /\ \A u \in Task : u # t /\ u # Poller(s) => pc'[u] = pc[u]
    BY <1>1, <2>2, PcIsTyped
  <2>. QED
    BY <1>3, <2>1, <2>2
<1>5. OtherHandlersKept(t)
  BY <1>4, TaskNames DEF OtherHandlersKept
<1>6. GoesOn(t)
  BY <1>2, <1>4 DEF GoesOn, Broadcasts
<1>. QED
  BY <1>4, <1>5, <1>6 DEF t

LEMMA DetachCallsGoesOn ==
  ASSUME Typed, NEW u \in Task, NEW x \in {"attCall", "call"}, DetachCalls(u, x)
  PROVE  OtherHandlersKept(u) /\ GoesOn(u) /\ (CallsAgent(u) \/ Requeues(u))
<1>1. OtherHandlersKept(u) /\ pc'[u] = x
  BY PcIsTyped, MovesOnly DEF DetachCalls
<1>2. CallsAgent(u) \/ Requeues(u)
  BY CallAgentGoesOn DEF DetachCalls
<1>. QED
  BY <1>1, <1>2 DEF GoesOn

\* Whoever closes the session, detach leaves each handler in one place.
LEMMA DetachClosesPlaced ==
  ASSUME Typed, OnePlace, NEW u \in Task, NEW at, NEW ok, Turn(u, at, ok), NEW x,
         (\E c \in Clients : u = Client(c)) => x = "attStatus",
         NEW pcs \in {pc, PollerCancelled}, DetachCloses(u, x, pcs)
  PROVE  OnePlace'
<1>. SUFFICES ASSUME NEW c \in Clients PROVE Placed(Client(c))'
  BY DEF OnePlace
<1>1. Placed(Client(c)) /\ pcs \in [Task -> Await] /\ pcs[Client(c)] = pc[Client(c)]
  BY PcIsTyped DEF OnePlace
<1>2. CASE u # Client(c)
  BY <1>1, <1>2, DetachClosesOther
<1>3. CASE u = Client(c)
  BY <1>1, <1>3, DetachClosesOwn
<1>. QED
  BY <1>2, <1>3

LEMMA HandlerOnePlace ==
  ASSUME Typed, OnePlace, NEW c \in Clients,
         Attach(c) \/ Watch(c) \/ Call(c) \/ CallReturns(c) \/ Leave(c)
  PROVE  OnePlace'
<1>. DEFINE t == Client(c)
<1>1. t \in Task
  BY TaskNames
<1>2. ASSUME NEW at, NEW ok, Turn(t, at, ok), OtherHandlersKept(t), GoesOn(t) PROVE OnePlace'
  BY <1>1, <1>2, GoesOnPlaced DEF GoesOn
<1>3. ASSUME NEW at, NEW ok, Turn(t, at, ok), Finish(c), calls' = calls, UNCHANGED sending
      PROVE  OnePlace'
  BY <1>2, <1>3, FinishGoesOn
<1>4. ASSUME NEW at, NEW ok, Turn(t, at, ok), Attaching(c) PROVE OnePlace'
  BY <1>2, <1>4, AttachingGoesOn
<1>5. ASSUME NEW at, NEW ok, Turn(t, at, ok), NEW pcs \in {pc, PollerCancelled},
             DetachCloses(t, "attStatus", pcs)
      PROVE  OnePlace'
  BY <1>1, <1>5, DetachClosesPlaced
<1>6. CASE Attach(c)
  <2>1. CASE AttachNow(c)
    BY <1>4, <2>1 DEF AttachNow
  <2>2. CASE AttachDetachesFirst(c)
    <3>1. Turn(t, "queued", TRUE)
      BY <2>2 DEF AttachDetachesFirst
    <3>2. DetachCalls(t, "attCall") \/ DetachCloses(t, "attStatus", PollerCancelled)
      BY <2>2 DEF AttachDetachesFirst
    <3>. QED
      BY <1>1, <1>2, <1>5, <3>1, <3>2, DetachCallsGoesOn
  <2>3. CASE AttachCloses(c)
    BY <1>5, <2>3 DEF AttachCloses
  <2>4. CASE AttachContinues(c)
    BY <1>4, <2>4 DEF AttachContinues, Attaching
  <2>5. CASE AttachReturns(c)
    BY <1>3, <1>4, <2>5 DEF AttachReturns, fridaVars, Attaching
  <2>. QED
    BY <1>6, <2>1, <2>2, <2>3, <2>4, <2>5 DEF Attach
<1>7. CASE Watch(c)
  BY <1>3, <1>7 DEF Watch, fridaVars
<1>8. CASE Call(c)
  <2>1. Turn(t, "queued", TRUE) /\ UNCHANGED sending
    BY <1>8 DEF Call
  <2>2. CASE agent = None
    BY <1>3, <1>8, <2>1, <2>2 DEF Call
  <2>3. CASE agent # None
    <3>1. CallAgent(t, Tail(ready)) /\ pc' = [pc EXCEPT ![t] = "call"]
      BY <1>8, <2>3 DEF Call
    <3>2. (CallsAgent(t) \/ Requeues(t)) /\ OtherHandlersKept(t) /\ pc'[t] = "call"
      BY <1>1, <2>1, <2>3, <3>1, CallAgentGoesOn, PcIsTyped, MovesOnly
    <3>. QED
      BY <1>2, <2>1, <3>2 DEF GoesOn
  <2>. QED
    BY <2>2, <2>3
<1>9. CASE CallReturns(c)
  BY <1>3, <1>9 DEF CallReturns, fridaVars
<1>10. CASE Leave(c)
  <2>1. Turn(t, "leaving", TRUE) /\ Resumes(t) /\ pc' = [pc EXCEPT ![t] = "out"]
    BY <1>10 DEF Leave, Resumes, fridaVars
  <2>. QED
    BY <1>1, <1>2, <2>1, PcIsTyped, MovesOnly DEF GoesOn
<1>. QED
  BY <1>6, <1>7, <1>8, <1>9, <1>10

LEMMA DetacherOnePlace == ASSUME Typed, OnePlace, NEW s \in Sessions, Detach(s) PROVE OnePlace'
<1>. DEFINE t == Detacher(s)
<1>1. t \in Task /\ \A c \in Clients : t # Client(c)
  BY TaskNames
<1>2. ASSUME NEW at, NEW ok, Turn(t, at, ok), NEW x, NEW pcs \in {pc, PollerCancelled},
             DetachCloses(t, x, pcs)
      PROVE  OnePlace'
  BY <1>1, <1>2, DetachClosesPlaced
<1>3. CASE DetachStarts(s)
  <2>1. Turn(t, "queued", TRUE)
    BY <1>3 DEF DetachStarts
  <2>2. DetachCalls(t, "call") \/ DetachCloses(t, "bcast", PollerCancelled)
    BY <1>3 DEF DetachStarts
  <2>3. CASE DetachCalls(t, "call")
    <3>1. OtherHandlersKept(t) /\ (CallsAgent(t) \/ Requeues(t))
      BY <1>1, <2>3, DetachCallsGoesOn
    <3>. QED
      BY <1>1, <2>1, <3>1, GoesOnPlaced
  <2>. QED
    BY <1>2, <2>1, <2>2, <2>3
<1>4. CASE DetachContinues(s)
  BY <1>2, <1>4 DEF DetachContinues
<1>5. CASE DetachReturns(s)
  <2>1. PICK ok \in BOOLEAN : Turn(t, "bcast", ok)
    BY <1>5 DEF DetachReturns
  <2>2. Resumes(t) /\ pc' = [pc EXCEPT ![t] = "done"]
    BY <1>5 DEF DetachReturns, Resumes, fridaVars
  <2>3. OtherHandlersKept(t)
    BY <1>1, <2>2, PcIsTyped, MovesOnly
  <2>. QED
    BY <1>1, <2>1, <2>2, <2>3, GoesOnPlaced
<1>. QED
  BY <1>3, <1>4, <1>5 DEF Detach

\* What a turn of the poll loop changes.
LEMMA PollGoesOn ==
  ASSUME Typed, NEW s \in Sessions, Poll(s)
  PROVE  /\ \E at \in PollerPc, ok \in BOOLEAN, x \in PollerPc :
              /\ Turn(Poller(s), at, ok) /\ pc' = [pc EXCEPT ![Poller(s)] = x]
              /\ at \in {"none", "done"} => x = "done"
         /\ Resumes(Poller(s)) \/ Requeues(Poller(s)) \/ CallsAgent(Poller(s)) \/ Broadcasts(Poller(s))
         /\ UNCHANGED <<hubVars, open, command, sess, frozen>>
<1>1. PICK at \in PollerPc, ok \in BOOLEAN, x \in PollerPc :
        /\ Turn(Poller(s), at, ok) /\ PollStep(s, x)
        /\ at \in {"none", "done"} => x = "done"
  BY PollIsStep
<1>2. \E y \in PollerPc : /\ pc' = [pc EXCEPT ![Poller(s)] = y]
                          /\ at \in {"none", "done"} => y = "done"
  BY <1>1 DEF PollStep, PollStops, PollCalls, PollBroadcasts, PollerPc
<1>3. ASSUME NEW y, PollStops(s, y)
      PROVE  Resumes(Poller(s)) /\ UNCHANGED <<hubVars, open, command, sess, frozen>>
  BY <1>3 DEF PollStops, Resumes, fridaVars
<1>4. CASE PollCalls(s, x) /\ agent # None
  <2>1. CallAgent(Poller(s), Tail(ready)) /\ UNCHANGED <<hubVars, open, command, sending, sess, frozen>>
    BY <1>4 DEF PollCalls
  <2>. QED
    BY <1>1, <1>2, <1>4, <2>1, CallAgentGoesOn
<1>5. CASE PollCalls(s, x) /\ agent = None
  BY <1>1, <1>2, <1>3, <1>5 DEF PollCalls
<1>6. CASE PollBroadcasts(s, x)
  BY <1>1, <1>2, <1>6 DEF PollBroadcasts, Broadcasts, fridaVars
<1>. QED
  BY <1>1, <1>2, <1>3, <1>4, <1>5, <1>6 DEF PollStep

LEMMA PollerOnePlace == ASSUME Typed, OnePlace, NEW s \in Sessions, Poll(s) PROVE OnePlace'
<1>. DEFINE t == Poller(s)
<1>1. t \in Task /\ \A c \in Clients : t # Client(c)
  BY TaskNames
<1>2. PICK at \in PollerPc, ok \in BOOLEAN, x \in PollerPc :
        Turn(t, at, ok) /\ pc' = [pc EXCEPT ![t] = x]
  BY PollGoesOn
<1>3. OtherHandlersKept(t)
  BY <1>1, <1>2, PcIsTyped, MovesOnly
<1>4. Resumes(t) \/ Requeues(t) \/ CallsAgent(t) \/ Broadcasts(t)
  BY PollGoesOn
<1>. QED
  BY <1>1, <1>2, <1>3, <1>4, GoesOnPlaced

\* A task is woken from outside the loop: the handler of another ...
LEMMA WokenOther ==
  ASSUME Typed, NEW v \in Task, NEW ok \in BOOLEAN, ready' = Append(ready, Wake(v, ok)),
         NEW t, t # v, Placed(t), pc'[t] = pc[t],
         \A s \in Sessions : CalledOnce(t, s)' /\ (Called(t, s)' => Called(t, s)),
         sending' \subseteq sending
  PROVE  Placed(t)'
<1>1. ready \in Seq(Waking) /\ Wake(v, ok) \in Waking /\ Wake(v, ok).task = v
  BY TypedParts, WakeIsWaking DEF QueuesTyped
<1>2. Once(t, ready)
  BY DEF Placed
<1>3. Once(t, ready') /\ (Queued(t, ready') => Queued(t, ready))
  BY <1>1, <1>2, AppendQueue
<1>. QED
  BY <1>3, PlacedKept

\* ... and its own.
LEMMA WokenOwn ==
  ASSUME Typed, NEW t \in Task, NEW ok \in BOOLEAN, ready' = Append(ready, Wake(t, ok)),
         Placed(t), ~Queued(t, ready), ~InCalls(t)', ~InSending(t)',
         \A s \in Sessions : CalledOnce(t, s)',
         pc'[t] \notin {"new", "recv", "out"}
  PROVE  Placed(t)'
<1>1. ready \in Seq(Waking) /\ Wake(t, ok) \in Waking /\ Wake(t, ok).task = t
  BY TypedParts, WakeIsWaking DEF QueuesTyped
<1>2. Once(t, ready)
  BY DEF Placed
<1>3. Once(t, ready')
  BY <1>1, <1>2, AppendQueue
<1>. QED
  BY <1>3 DEF Placed, InCalls, InSending

\* An answered call.
LEMMA CallsTail ==
  ASSUME Typed, NEW s \in Sessions, calls[s] # <<>>, calls' = [calls EXCEPT ![s] = Tail(@)],
         NEW t, NEW r \in Sessions
  PROVE  /\ Called(Head(calls[s]), s)
         /\ Called(t, r)' => Called(t, r)
         /\ CalledOnce(t, r) => CalledOnce(t, r)'
         /\ CalledOnce(t, r) /\ t = Head(calls[s]) /\ r = s => ~Called(t, r)'
<1>1. calls \in [Sessions -> Seq(Task)]
  BY DEF Typed
<1>. DEFINE q == calls[s]
            p == calls'[s]
<1>2. q \in Seq(Task) /\ q # <<>> /\ p = Tail(q)
  BY <1>1
<1>3. calls'[r] = IF r = s THEN p ELSE calls[r]
  BY <1>1
<1>. HIDE DEF p, q
<1>4. /\ Len(p) = Len(q) - 1 /\ Len(q) \in Nat \ {0} /\ Head(q) = q[1]
      /\ \A k \in 1..Len(p) : p[k] = q[k + 1]
  BY <1>2
<1>. USE DEF p, q
<1>5. Called(Head(q), s)
  BY <1>4 DEF Called
<1>6. CASE r # s
  BY <1>3, <1>5, <1>6 DEF Called, CalledOnce
<1>7. CASE r = s
  <2>1. (\E k \in 1..Len(p) : p[k] = t) => \E k \in 1..Len(q) : q[k] = t
    BY <1>4
  <2>2. ASSUME \A k, l \in 1..Len(q) : q[k] = t /\ q[l] = t => k = l
        PROVE  /\ \A k, l \in 1..Len(p) : p[k] = t /\ p[l] = t => k = l
               /\ t = Head(q) => ~\E k \in 1..Len(p) : p[k] = t
    <3>1. ASSUME NEW k \in 1..Len(p), NEW l \in 1..Len(p), p[k] = t, p[l] = t PROVE k = l
      <4>1. k + 1 \in 1..Len(q) /\ l + 1 \in 1..Len(q) /\ q[k + 1] = t /\ q[l + 1] = t
        BY <1>4, <3>1
      <4>. QED
        BY <2>2, <4>1
    <3>2. ASSUME t = Head(q), NEW k \in 1..Len(p), p[k] = t PROVE FALSE
      <4>1. k + 1 \in 1..Len(q) /\ 1 \in 1..Len(q) /\ q[k + 1] = t /\ q[1] = t
        BY <1>4, <3>2
      <4>. QED
        BY <2>2, <4>1
    <3>. QED
      BY <3>1, <3>2
  <2>. QED
    BY <1>3, <1>5, <1>7, <2>1, <2>2 DEF Called, CalledOnce
<1>. QED
  BY <1>6, <1>7

LEMMA CallsTailKeeps ==
  ASSUME Typed, NEW s \in Sessions, calls[s] # <<>>, calls' = [calls EXCEPT ![s] = Tail(@)],
         NEW t, NEW r \in Sessions, Called(t, r), t # Head(calls[s])
  PROVE  Called(t, r)'
<1>1. calls \in [Sessions -> Seq(Task)]
  BY DEF Typed
<1>. DEFINE q == calls[s]
            p == calls'[s]
<1>2. q \in Seq(Task) /\ q # <<>> /\ p = Tail(q)
  BY <1>1
<1>3. calls'[r] = IF r = s THEN p ELSE calls[r]
  BY <1>1
<1>. HIDE DEF p, q
<1>4. /\ Len(p) = Len(q) - 1 /\ Len(q) \in Nat \ {0} /\ Head(q) = q[1]
      /\ \A k \in 1..Len(p) : p[k] = q[k + 1]
  BY <1>2
<1>. USE DEF p, q
<1>5. CASE r # s
  BY <1>3, <1>5 DEF Called
<1>6. CASE r = s
  <2>1. PICK k \in 1..Len(q) : q[k] = t
    BY <1>6 DEF Called
  <2>2. k # 1
    BY <1>4, <2>1
  <2>3. k - 1 \in 1..Len(p) /\ p[k - 1] = t
    BY <1>4, <2>1, <2>2
  <2>. QED
    BY <1>3, <1>6, <2>3 DEF Called
<1>. QED
  BY <1>5, <1>6

LEMMA AnswerOnePlace == ASSUME Typed, OnePlace, NEW s \in Sessions, Answer(s) PROVE OnePlace'
<1>1. /\ sess[s] = "live" /\ calls[s] # <<>>
      /\ calls' = [calls EXCEPT ![s] = Tail(@)]
      /\ UNCHANGED <<pc, sending>>
  BY AnswerIs
<1>2. PICK v \in Task, ok \in BOOLEAN : v = Head(calls[s]) /\ ready' = Append(ready, Wake(v, ok))
  BY AnswerIs
<1>. SUFFICES ASSUME NEW c \in Clients PROVE Placed(Client(c))'
  BY DEF OnePlace
<1>. DEFINE t == Client(c)
<1>3. t \in Task /\ Placed(t)
  BY TaskNames DEF OnePlace
<1>. HIDE DEF t
<1>4. \A r \in Sessions :
        /\ Called(t, r)' => Called(t, r)
        /\ CalledOnce(t, r) => CalledOnce(t, r)'
        /\ CalledOnce(t, r) /\ t = v /\ r = s => ~Called(t, r)'
  BY <1>1, <1>2, CallsTail
<1>5. \A r \in Sessions : CalledOnce(t, r)' /\ (t = v /\ r = s => ~Called(t, r)')
  BY <1>3, <1>4 DEF Placed
<1>6. CASE t # v
  <2>1. Placed(t)'
    BY <1>1, <1>2, <1>3, <1>4, <1>5, <1>6, WokenOther
  <2>. QED
    BY <2>1 DEF t
<1>7. CASE t = v
  <2>1. Called(t, s)
    BY <1>1, <1>2, <1>7, CallsTail
  <2>2. pc[t] \in {"attCall", "call"} /\ ~Queued(t, ready) /\ ~InSending(t)
    BY <1>3, <2>1 DEF Placed, InCalls
  <2>3. ~InCalls(t)'
    <3>1. ASSUME NEW r \in Sessions, Called(t, r)' PROVE FALSE
      <4>1. Called(t, r) /\ r # s
        BY <1>4, <1>5, <1>7, <3>1
      <4>. QED
        BY <1>3, <2>1, <4>1 DEF Placed
    <3>. QED
      BY <3>1 DEF InCalls
  <2>4. ~InSending(t)' /\ pc'[t] \notin {"new", "recv", "out"}
    BY <1>1, <2>2 DEF InSending
  <2>5. Placed(t)'
    BY <1>2, <1>3, <1>5, <1>7, <2>2, <2>3, <2>4, WokenOwn
  <2>. QED
    BY <2>5 DEF t
<1>. QED
  BY <1>6, <1>7

LEMMA BroadcastEndsOnePlace ==
  ASSUME Typed, OnePlace, NEW u \in Task, BroadcastEnds(u) PROVE OnePlace'
<1>1. PICK b \in sending, ok \in BOOLEAN :
        /\ b.task = u
        /\ sending' = sending \ {b} /\ ready' = Append(ready, Wake(u, ok))
        /\ UNCHANGED <<hubVars, open, pc, command, fridaVars>>
  BY DEF BroadcastEnds
<1>. SUFFICES ASSUME NEW c \in Clients PROVE Placed(Client(c))'
  BY DEF OnePlace
<1>. DEFINE t == Client(c)
<1>2. t \in Task /\ Placed(t)
  BY TaskNames DEF OnePlace
<1>. HIDE DEF t
<1>3. /\ pc'[t] = pc[t] /\ sending' \subseteq sending
      /\ \A r \in Sessions : CalledOnce(t, r)' /\ (Called(t, r)' <=> Called(t, r))
  BY <1>1, <1>2 DEF Placed, CalledOnce, Called, fridaVars
<1>4. CASE t # u
  <2>1. Placed(t)'
    BY <1>1, <1>2, <1>3, <1>4, WokenOther
  <2>. QED
    BY <2>1 DEF t
<1>5. CASE t = u
  <2>1. InSending(t)
    BY <1>1, <1>5 DEF InSending
  <2>2. pc[t] \in {"attStatus", "attached", "attError"} /\ ~Queued(t, ready) /\ ~InCalls(t)
    BY <1>2, <2>1 DEF Placed
  <2>3. ~InCalls(t)'
    BY <1>3, <2>2 DEF InCalls
  <2>4. ~InSending(t)' /\ pc'[t] \notin {"new", "recv", "out"}
    BY <1>1, <1>2, <1>3, <1>5, <2>2 DEF InSending, Placed
  <2>5. Placed(t)'
    BY <1>1, <1>2, <1>3, <1>5, <2>2, <2>3, <2>4, WokenOwn
  <2>. QED
    BY <2>5 DEF t
<1>. QED
  BY <1>4, <1>5

LEMMA TargetEndsOnePlace ==
  ASSUME Typed, OnePlace, NEW s \in Sessions, TargetExits(s) \/ Detached(s) PROVE OnePlace'
<1>. SUFFICES ASSUME NEW c \in Clients PROVE Placed(Client(c))'
  BY DEF OnePlace
<1>. DEFINE t == Client(c)
<1>1. t \in Task /\ Placed(t) /\ t # Detacher(s) /\ Detacher(s) \in Task /\ ready \in Seq(Waking)
  BY TaskNames, TypedParts DEF OnePlace, QueuesTyped
<1>2. UNCHANGED sending
  BY DEF TargetExits, Detached
<1>. HIDE DEF t
<1>3. CASE SessionEnds(s, ready) /\ pc' = [pc EXCEPT ![Detacher(s)] = "queued"]
  <2>1. pc'[t] = pc[t] /\ Once(t, ready)
    BY <1>1, <1>3, PcIsTyped DEF Placed
  <2>2. Placed(t)'
    BY <1>1, <1>2, <1>3, <2>1, SessionEndsPlaced
  <2>. QED
    BY <2>2 DEF t
<1>4. CASE ~(SessionEnds(s, ready) /\ pc' = [pc EXCEPT ![Detacher(s)] = "queued"])
  <2>1. /\ calls' = [calls EXCEPT ![s] = <<>>]
        /\ ready' = ready \o FailedCalls(s)
        /\ UNCHANGED pc
    BY <1>4 DEF TargetExits, Detached
  <2>2. /\ FailedCalls(s) \in Seq(Waking)
        /\ Queued(t, FailedCalls(s)) <=> Called(t, s)
        /\ CalledOnce(t, s) => Once(t, FailedCalls(s))
    BY FailedCallsQueue
  <2>3. /\ Queued(t, ready') <=> Queued(t, ready) \/ Called(t, s)
        /\ Once(t, ready) /\ CalledOnce(t, s) /\ ~(Queued(t, ready) /\ Called(t, s)) => Once(t, ready')
    BY <1>1, <2>1, <2>2, ConcatQueue
  <2>4. Once(t, ready) /\ pc'[t] = pc[t]
    BY <1>1, <2>1 DEF Placed
  <2>5. Placed(t)'
    BY <1>1, <1>2, <2>1, <2>3, <2>4, CallsFailPlaced
  <2>. QED
    BY <2>5 DEF t
<1>. QED
  BY <1>3, <1>4

LEMMA TimerOnePlace == ASSUME Typed, OnePlace, NEW s \in Sessions, Timer(s) PROVE OnePlace'
<1>. SUFFICES ASSUME NEW c \in Clients PROVE Placed(Client(c))'
  BY DEF OnePlace
<1>. DEFINE t == Client(c)
<1>1. t \in Task /\ Placed(t) /\ t # Poller(s) /\ Poller(s) \in Task /\ TRUE \in BOOLEAN
  BY TaskNames DEF OnePlace
<1>. HIDE DEF t
<1>2. /\ ready' = Append(ready, Wake(Poller(s), TRUE)) /\ pc'[t] = pc[t]
      /\ UNCHANGED <<sending, calls>>
  BY <1>1, PcIsTyped DEF Timer, fridaVars
<1>3. \A r \in Sessions : CalledOnce(t, r)' /\ (Called(t, r)' <=> Called(t, r))
  BY <1>1, <1>2 DEF Placed, CalledOnce, Called
<1>4. Placed(t)'
  BY <1>1, <1>2, <1>3, WokenOther
<1>. QED
  BY <1>4 DEF t

LEMMA UiOnePlace ==
  ASSUME Typed, OnePlace, NEW d \in Clients, Connect(d) \/ Close(d) \/ \E m \in Requests : Send(d, m)
  PROVE  OnePlace'
<1>. SUFFICES ASSUME NEW c \in Clients PROVE Placed(Client(c))'
  BY DEF OnePlace
<1>. DEFINE t == Client(c)
            u == Client(d)
<1>1. t \in Task /\ u \in Task /\ Placed(t) /\ TRUE \in BOOLEAN
  BY TaskNames DEF OnePlace
<1>2. UNCHANGED <<sending, calls>>
  BY DEF Connect, Close, Send, fridaVars
<1>3. \/ UNCHANGED <<pc, ready>>
      \/ pc[u] = "new" /\ pc' = [pc EXCEPT ![u] = "recv"] /\ UNCHANGED ready
      \/ /\ pc[u] = "recv"
         /\ ready' = Append(ready, Wake(u, TRUE))
         /\ pc' = [pc EXCEPT ![u] = "queued"] \/ pc' = [pc EXCEPT ![u] = "leaving"]
  BY DEF Connect, Close, Send
<1>. HIDE DEF t, u
<1>4. \A r \in Sessions : CalledOnce(t, r)' /\ (Called(t, r)' <=> Called(t, r))
  BY <1>1, <1>2 DEF Placed, CalledOnce, Called
<1>5. (InCalls(t)' <=> InCalls(t)) /\ (InSending(t)' <=> InSending(t))
  BY <1>2, <1>4 DEF InCalls, InSending
<1>6. CASE UNCHANGED <<pc, ready>>
  <2>1. Placed(t)'
    BY <1>1, <1>2, <1>4, <1>6, PlacedKept DEF Placed
  <2>. QED
    BY <2>1 DEF t
<1>7. CASE pc[u] = "new" /\ pc' = [pc EXCEPT ![u] = "recv"] /\ UNCHANGED ready
  <2>1. pc'[t] = pc[t] \/ (t = u /\ pc[t] = "new" /\ pc'[t] = "recv")
    BY <1>1, <1>7, PcIsTyped
  <2>2. Placed(t)'
    BY <1>1, <1>2, <1>4, <1>5, <1>7, <2>1 DEF Placed
  <2>. QED
    BY <2>2 DEF t
<1>8. CASE /\ pc[u] = "recv" /\ ready' = Append(ready, Wake(u, TRUE))
           /\ pc' = [pc EXCEPT ![u] = "queued"] \/ pc' = [pc EXCEPT ![u] = "leaving"]
  <2>1. CASE t # u
    <3>1. pc'[t] = pc[t]
      BY <1>1, <1>8, <2>1, PcIsTyped
    <3>2. Placed(t)'
      BY <1>1, <1>2, <1>4, <1>8, <2>1, <3>1, WokenOther
    <3>. QED
      BY <3>2 DEF t
  <2>2. CASE t = u
    <3>1. pc'[t] \notin {"new", "recv", "out"}
      BY <1>1, <1>8, <2>2, PcIsTyped
    <3>2. ~Queued(t, ready) /\ ~InCalls(t) /\ ~InSending(t)
      BY <1>1, <1>8, <2>2 DEF Placed
    <3>3. Placed(t)'
      BY <1>1, <1>4, <1>5, <1>8, <2>2, <3>1, <3>2, WokenOwn
    <3>. QED
      BY <3>3 DEF t
  <2>. QED
    BY <2>1, <2>2
<1>. QED
  BY <1>3, <1>6, <1>7, <1>8

LEMMA OnePlaceStep == Typed /\ OnePlace /\ [Next]_vars => OnePlace'
<1>. SUFFICES ASSUME Typed, OnePlace, [Next]_vars PROVE OnePlace'
  OBVIOUS
<1>1. CASE Loop
  BY <1>1, HandlerOnePlace, DetacherOnePlace, PollerOnePlace DEF Loop
<1>2. ASSUME NEW t \in Task, BroadcastEnds(t) PROVE OnePlace'
  BY <1>2, BroadcastEndsOnePlace
<1>3. ASSUME NEW s \in Sessions, Timer(s) \/ Answer(s) \/ TargetExits(s) \/ Detached(s)
      PROVE  OnePlace'
  BY <1>3, TimerOnePlace, AnswerOnePlace, TargetEndsOnePlace
<1>4. ASSUME NEW c \in Clients, Connect(c) \/ Close(c) \/ \E m \in Requests : Send(c, m)
      PROVE  OnePlace'
  BY <1>4, UiOnePlace
<1>5. CASE UNCHANGED vars
  BY <1>5 DEF vars, fridaVars, OnePlace, Placed, Once, CalledOnce, Called, Queued, InCalls, InSending
<1>. QED
  BY <1>1, <1>2, <1>3, <1>4, <1>5 DEF Next

-----------------------------------------------------------------------------
(* Steps that touch neither the session, the poll loop nor detach.         *)

KeepsTurns ==
  \A s \in Sessions : Pending(s)' =>
    /\ Queued(Detacher(s), ready) => Queued(Detacher(s), ready')
    /\ \A c \in Clients : Ahead(Detacher(s), Client(c), ready) => Ahead(Detacher(s), Client(c), ready')

\* A quiet step leaves every task but u where it is,
Quiet(u) ==
  /\ UNCHANGED <<session, agent, polling, sess>>
  /\ \A t \in Task : t # u => pc'[t] = pc[t]
  /\ \A c \in Clients : Client(c) # u => command'[c] = command[c]
  /\ \A s \in Sessions :
       /\ calls'[s] # <<>> => calls[s] # <<>> \/ (s = agent /\ sess[s] = "live")
       /\ frozen'[s] # {} => frozen[s] # {} \/ (s = agent /\ sess[s] = "live")
  /\ KeepsTurns

\* ... and u where it does no harm.
QuietMove(u) ==
  \/ pc'[u] = pc[u] /\ UNCHANGED command
  \/ \E c \in Clients :
       /\ u = Client(c)
       /\ pc'[u] \notin {"attCall", "attStatus"}
       /\ pc'[u] \in AttachStates => command'[c] = "attach"
       /\ command'[c] = "attach" => c \in Attachers
       /\ \A s \in Sessions : pc[u] = "attStatus" => ~Ahead(Detacher(s), u, ready)
  \/ \E s \in Sessions : u = Detacher(s) /\ pc[u] # "none" /\ pc'[u] \notin {"queued", "call"}
  \/ \E s \in Sessions :
       /\ u = Poller(s)
       /\ pc'[u] \in {"none", "done"} \/ pc[u] \notin {"none", "done"}

LEMMA QuietRest ==
  ASSUME Typed, Rest, NEW u \in Task, Quiet(u), QuietMove(u)
  PROVE  Rest'
<1>1. /\ \A c \in Clients : Client(c) \in Task
      /\ \A s \in Sessions : Detacher(s) \in Task /\ Poller(s) \in Task
      /\ \A c \in Clients, s \in Sessions : Client(c) # Detacher(s) /\ Client(c) # Poller(s)
      /\ \A s, r \in Sessions : Detacher(s) # Poller(r)
      /\ \A c, d \in Clients : Client(c) = Client(d) => c = d
      /\ \A s, r \in Sessions : Detacher(s) = Detacher(r) => s = r
      /\ \A s, r \in Sessions : Poller(s) = Poller(r) => s = r
  BY TaskNames
<1>2. UNCHANGED <<session, agent, polling, sess>> /\ KeepsTurns
  BY DEF Quiet
<1>3. ASSUME NEW c \in Clients
      PROVE  \/ pc'[Client(c)] = pc[Client(c)] /\ command'[c] = command[c]
             \/ /\ pc'[Client(c)] \notin {"attCall", "attStatus"}
                /\ pc'[Client(c)] \in AttachStates => command'[c] = "attach"
                /\ command'[c] = "attach" => c \in Attachers
                /\ \A s \in Sessions : pc[Client(c)] = "attStatus" => ~Ahead(Detacher(s), Client(c), ready)
  BY <1>1 DEF Quiet, QuietMove
<1>4. ASSUME NEW s \in Sessions
      PROVE  \/ pc'[Detacher(s)] = pc[Detacher(s)]
             \/ pc[Detacher(s)] # "none" /\ pc'[Detacher(s)] \notin {"queued", "call"}
  BY <1>1 DEF Quiet, QuietMove
<1>5. ASSUME NEW s \in Sessions
      PROVE  pc'[Poller(s)] \in {"none", "done"} \/ pc[Poller(s)] \notin {"none", "done"}
  BY <1>1 DEF Quiet, QuietMove
<1>6. AttachIsAttachers'
  BY <1>3 DEF Rest, AttachIsAttachers
<1>7. SessionsEnd'
  BY <1>2, <1>4 DEF Rest, SessionsEnd, Quiet
<1>8. AgentIsSessions' /\ NoSessionNothing'
  BY <1>2 DEF Rest, AgentIsSessions, NoSessionNothing
<1>9. RunningPollerIsHubs'
  BY <1>2, <1>5 DEF Rest, RunningPollerIsHubs
<1>10. ClosingStoppedPolling'
  BY <1>2, <1>3, <1>4 DEF Rest, ClosingStoppedPolling
<1>11. PendingInTime'
  <2>. SUFFICES ASSUME NEW s \in Sessions, Pending(s)'
                PROVE  /\ session \in {s, None}
                       /\ Queued(Detacher(s), ready')
                       /\ session = None =>
                            \E c \in Clients : pc'[Client(c)] = "attStatus"
                                               /\ Ahead(Detacher(s), Client(c), ready')
    BY <1>2 DEF PendingInTime
  <2>1. Pending(s)
    BY <1>4 DEF Pending
  <2>2. /\ session \in {s, None}
        /\ Queued(Detacher(s), ready)
        /\ session = None =>
             \E c \in Clients : pc[Client(c)] = "attStatus" /\ Ahead(Detacher(s), Client(c), ready)
    BY <2>1 DEF Rest, PendingInTime
  <2>3. Queued(Detacher(s), ready')
    BY <1>2, <2>2 DEF KeepsTurns
  <2>4. ASSUME session = None
        PROVE  \E c \in Clients : pc'[Client(c)] = "attStatus" /\ Ahead(Detacher(s), Client(c), ready')
    <3>1. PICK c \in Clients : pc[Client(c)] = "attStatus" /\ Ahead(Detacher(s), Client(c), ready)
      BY <2>2, <2>4
    <3>2. pc'[Client(c)] = pc[Client(c)]
      BY <1>3, <3>1
    <3>3. Ahead(Detacher(s), Client(c), ready')
      BY <1>2, <3>1 DEF KeepsTurns
    <3>. QED
      BY <3>1, <3>2, <3>3
  <2>. QED
    BY <2>2, <2>3, <2>4
<1>12. FrozenByAgent'
  <2>. SUFFICES ASSUME NEW s \in Sessions
                PROVE  /\ frozen'[s] # {} => agent = s /\ sess[s] \in {"live", "dying"}
                       /\ calls'[s] # <<>> => agent = s
    BY <1>2 DEF FrozenByAgent
  <2>. QED
    BY DEF Rest, FrozenByAgent, Quiet
<1>. QED
  BY <1>6, <1>7, <1>8, <1>9, <1>10, <1>11, <1>12 DEF Rest

\* A turn keeps the order of those that wait.
LEMMA TurnKeeps ==
  ASSUME Typed, NEW u \in Task, NEW at, NEW ok, Turn(u, at, ok),
         ready' = Tail(ready) \/ \E w \in Waking : ready' = Append(Tail(ready), w)
  PROVE  /\ \A t, v : t # u =>
              /\ Queued(t, ready) => Queued(t, ready')
              /\ Ahead(t, v, ready) => Ahead(t, v, ready')
         /\ \A t : ~Ahead(t, u, ready)
<1>1. /\ ready \in Seq(Waking) /\ ready # <<>> /\ Tail(ready) \in Seq(Waking)
      /\ Head(ready).task = u
  BY TurnQueue
<1>2. ASSUME NEW t
      PROVE  /\ t # u /\ Queued(t, ready) => Queued(t, Tail(ready))
             /\ \A v : t # u /\ Ahead(t, v, ready) => Ahead(t, v, Tail(ready))
             /\ ~Ahead(t, u, ready)
  <2>1. Queued(t, ready) <=> Queued(t, Tail(ready)) \/ Head(ready).task = t
    BY <1>1, TailQueue
  <2>2. ASSUME NEW v, Ahead(t, v, ready)
        PROVE  Head(ready).task # v /\ (Head(ready).task # t => Ahead(t, v, Tail(ready)))
    BY <1>1, <2>2, TailAhead
  <2>. QED
    BY <1>1, <2>1, <2>2
<1>3. CASE ready' = Tail(ready)
  BY <1>2, <1>3
<1>4. ASSUME NEW w \in Waking, ready' = Append(Tail(ready), w)
      PROVE  \A t, v : t # u =>
              /\ Queued(t, ready) => Queued(t, ready')
              /\ Ahead(t, v, ready) => Ahead(t, v, ready')
  BY <1>1, <1>2, <1>4, AppendQueue
<1>. QED
  BY <1>2, <1>3, <1>4

LEMMA WakeKeeps ==
  ASSUME Typed, ready' = ready \/ \E w \in Waking : ready' = Append(ready, w)
  PROVE  KeepsTurns
<1>1. ready \in Seq(Waking)
  BY TypedParts DEF QueuesTyped
<1>2. CASE ready' = ready
  BY <1>2 DEF KeepsTurns
<1>3. ASSUME NEW w \in Waking, ready' = Append(ready, w) PROVE KeepsTurns
  BY <1>1, <1>3, AppendQueue DEF KeepsTurns
<1>. QED
  BY <1>2, <1>3

\* A turn that goes on without touching the session.
LEMMA TurnQuiet ==
  ASSUME Typed, NEW u \in Task, NEW at, NEW ok, Turn(u, at, ok),
         Resumes(u) \/ Requeues(u) \/ CallsAgent(u) \/ Broadcasts(u),
         UNCHANGED <<session, agent, polling, sess, frozen>>,
         NEW x, pc' = [pc EXCEPT ![u] = x],
         \A c \in Clients : Client(c) # u => command'[c] = command[c],
         \A s \in Sessions : u = Detacher(s) => x \notin {"queued", "call"}
  PROVE  Quiet(u) /\ pc'[u] = x /\ \A t : ~Ahead(t, u, ready)
<1>1. ready' = Tail(ready) \/ \E w \in Waking : ready' = Append(Tail(ready), w)
  BY TaskNames, WakeIsWaking DEF Resumes, Requeues, CallsAgent, Broadcasts
<1>2. pc'[u] = x /\ \A t \in Task : t # u => pc'[t] = pc[t]
  BY PcIsTyped
<1>3. \A s \in Sessions : Pending(s)' => Detacher(s) # u
  BY <1>2 DEF Pending
<1>4. KeepsTurns /\ \A t : ~Ahead(t, u, ready)
  BY <1>1, <1>3, TurnKeeps DEF KeepsTurns
<1>5. \A s \in Sessions : calls'[s] # <<>> => calls[s] # <<>> \/ (s = agent /\ sess[s] = "live")
  <2>1. CASE calls' = calls
    BY <2>1
  <2>2. CASE CallsAgent(u)
    BY <2>2 DEF CallsAgent, Typed
  <2>. QED
    BY <2>1, <2>2 DEF Resumes, Requeues, Broadcasts
<1>. QED
  BY <1>2, <1>4, <1>5 DEF Quiet

LEMMA FinishRest ==
  ASSUME Typed, Rest, NEW c \in Clients, NEW at, NEW ok, Turn(Client(c), at, ok), Finish(c),
         calls' = calls, UNCHANGED <<session, agent, polling, sending, sess, frozen>>
  PROVE  Rest'
<1>. DEFINE t == Client(c)
<1>1. t \in Task /\ \A s \in Sessions : t # Detacher(s)
  BY TaskNames
<1>2. PICK x \in {"recv", "leaving"} : pc' = [pc EXCEPT ![t] = x]
  BY DEF Finish
<1>3. Resumes(t) \/ Requeues(t)
  BY FinishGoesOn DEF Finish, Resumes, Requeues
<1>4. command' = [command EXCEPT ![c] = NoCommand] /\ command \in [Clients -> Requests \cup {NoCommand}]
  BY TypedParts DEF Finish, ClientsTyped
<1>5. command'[c] # "attach" /\ \A d \in Clients : Client(d) # t => command'[d] = command[d]
  BY <1>4 DEF NoCommand
<1>. HIDE DEF t
<1>6. Turn(t, at, ok)
  BY DEF t
<1>7. Quiet(t) /\ pc'[t] = x /\ \A v : ~Ahead(v, t, ready)
  BY <1>1, <1>2, <1>3, <1>5, <1>6, TurnQuiet
<1>8. QuietMove(t)
  BY <1>2, <1>5, <1>7 DEF QuietMove, t, AttachStates
<1>. QED
  BY <1>1, <1>7, <1>8, QuietRest

LEMMA AttachErrorRest ==
  ASSUME Typed, Rest, NEW c \in Clients, NEW at, NEW ok, Turn(Client(c), at, ok),
         at \in AttachStates \/ command[c] = "attach", AttachError(c)
  PROVE  Rest'
<1>. DEFINE t == Client(c)
<1>1. t \in Task /\ (\A s \in Sessions : t # Detacher(s)) /\ Turn(t, at, ok)
  BY TaskNames
<1>2. command[c] = "attach" /\ c \in Attachers
  BY <1>1 DEF Rest, AttachIsAttachers, Turn
<1>3. /\ pc' = [pc EXCEPT ![t] = "attError"]
      /\ Broadcasts(t)
      /\ UNCHANGED <<session, agent, polling, command, sess, frozen>>
  BY DEF AttachError, hubVars, fridaVars, Broadcasts
<1>. HIDE DEF t
<1>4. Quiet(t) /\ pc'[t] = "attError" /\ \A v : ~Ahead(v, t, ready)
  BY <1>1, <1>3, TurnQuiet
<1>5. QuietMove(t)
  BY <1>2, <1>3, <1>4 DEF QuietMove, t
<1>. QED
  BY <1>1, <1>4, <1>5, QuietRest

LEMMA HandlerQuietRest ==
  ASSUME Typed, Rest, NEW c \in Clients, Watch(c) \/ Call(c) \/ CallReturns(c) \/ Leave(c)
  PROVE  Rest'
<1>. DEFINE t == Client(c)
<1>1. t \in Task /\ (\A s \in Sessions : t # Detacher(s)) /\ "call" \notin {"queued"}
  BY TaskNames
<1>2. CASE Watch(c)
  BY <1>2, FinishRest DEF Watch, fridaVars
<1>3. CASE Call(c)
  <2>1. Turn(t, "queued", TRUE) /\ UNCHANGED <<session, agent, polling, sending, sess, frozen>>
    BY <1>3 DEF Call, hubVars
  <2>2. CASE agent = None
    BY <1>3, <2>1, <2>2, FinishRest DEF Call
  <2>3. CASE agent # None
    <3>1. CallAgent(t, Tail(ready)) /\ pc' = [pc EXCEPT ![t] = "call"] /\ UNCHANGED command
      BY <1>3, <2>3 DEF Call
    <3>2. CallsAgent(t) \/ Requeues(t)
      BY <2>1, <2>3, <3>1, CallAgentGoesOn
    <3>. HIDE DEF t
    <3>3. Quiet(t) /\ pc'[t] = "call" /\ \A v : ~Ahead(v, t, ready)
      BY <1>1, <2>1, <3>1, <3>2, TurnQuiet
    <3>4. command[c] = "attach" => c \in Attachers
      BY DEF Rest, AttachIsAttachers
    <3>5. QuietMove(t)
      BY <3>1, <3>3, <3>4 DEF QuietMove, t, AttachStates
    <3>. QED
      BY <1>1, <3>3, <3>5, QuietRest
  <2>. QED
    BY <2>2, <2>3
<1>4. CASE CallReturns(c)
  BY <1>4, FinishRest DEF CallReturns, fridaVars, hubVars
<1>5. CASE Leave(c)
  <2>1. /\ Turn(t, "leaving", TRUE) /\ Resumes(t) /\ pc' = [pc EXCEPT ![t] = "out"]
        /\ UNCHANGED <<session, agent, polling, command, sess, frozen>>
    BY <1>5 DEF Leave, Resumes, fridaVars, hubVars
  <2>. HIDE DEF t
  <2>2. Quiet(t) /\ pc'[t] = "out" /\ \A v : ~Ahead(v, t, ready)
    BY <1>1, <2>1, TurnQuiet
  <2>3. command[c] = "attach" => c \in Attachers
    BY DEF Rest, AttachIsAttachers
  <2>4. QuietMove(t)
    BY <2>1, <2>2, <2>3 DEF QuietMove, t, AttachStates
  <2>. QED
    BY <1>1, <2>2, <2>4, QuietRest
<1>. QED
  BY <1>2, <1>3, <1>4, <1>5

LEMMA PollRest == ASSUME Typed, Rest, NEW s \in Sessions, Poll(s) PROVE Rest'
<1>. DEFINE t == Poller(s)
<1>1. t \in Task /\ \A r \in Sessions : t # Detacher(r)
  BY TaskNames
<1>2. PICK at \in PollerPc, ok \in BOOLEAN, x \in PollerPc :
        /\ Turn(t, at, ok) /\ pc' = [pc EXCEPT ![t] = x]
        /\ at \in {"none", "done"} => x = "done"
  BY PollGoesOn
<1>3. /\ Resumes(t) \/ Requeues(t) \/ CallsAgent(t) \/ Broadcasts(t)
      /\ UNCHANGED <<session, agent, polling, command, sess, frozen>>
  BY PollGoesOn DEF hubVars
<1>. HIDE DEF t
<1>4. Quiet(t) /\ pc'[t] = x
  BY <1>1, <1>2, <1>3, TurnQuiet
<1>5. pc[t] = at
  BY <1>2 DEF Turn
<1>6. QuietMove(t)
  BY <1>2, <1>4, <1>5 DEF QuietMove, t
<1>. QED
  BY <1>1, <1>4, <1>6, QuietRest

LEMMA DetachReturnsRest == ASSUME Typed, Rest, NEW s \in Sessions, DetachReturns(s) PROVE Rest'
<1>. DEFINE t == Detacher(s)
            x == "done"
<1>1. t \in Task /\ x \notin {"queued", "call"}
  BY TaskNames
<1>2. PICK ok \in BOOLEAN : Turn(t, "bcast", ok)
  BY DEF DetachReturns
<1>3. /\ Resumes(t) /\ pc' = [pc EXCEPT ![t] = x]
      /\ UNCHANGED <<session, agent, polling, command, sess, frozen>>
  BY DEF DetachReturns, Resumes, fridaVars, hubVars
<1>. HIDE DEF t, x
<1>4. Quiet(t) /\ pc'[t] = x
  BY <1>1, <1>2, <1>3, TurnQuiet
<1>5. QuietMove(t)
  BY <1>1, <1>2, <1>4 DEF QuietMove, Turn, t
<1>. QED
  BY <1>1, <1>4, <1>5, QuietRest

LEMMA OutsideQuietRest ==
  ASSUME Typed, Rest,
         \/ \E t \in Task : BroadcastEnds(t)
         \/ \E s \in Sessions : Timer(s) \/ Answer(s)
         \/ \E c \in Clients : Connect(c) \/ Close(c) \/ \E m \in Requests : Send(c, m)
  PROVE  Rest'
<1>1. ASSUME NEW t \in Task, BroadcastEnds(t) PROVE Rest'
  <2>1. /\ \E ok \in BOOLEAN : ready' = Append(ready, Wake(t, ok))
        /\ UNCHANGED <<session, agent, polling, sess, frozen, calls, pc, command>>
    BY <1>1 DEF BroadcastEnds, hubVars, fridaVars
  <2>2. KeepsTurns
    BY <2>1, WakeIsWaking, WakeKeeps
  <2>3. Quiet(t) /\ QuietMove(t)
    BY <2>1, <2>2 DEF Quiet, QuietMove
  <2>. QED
    BY <2>3, QuietRest
<1>2. ASSUME NEW s \in Sessions, Timer(s) PROVE Rest'
  <2>. DEFINE t == Poller(s)
  <2>1. t \in Task /\ TRUE \in BOOLEAN
    BY TaskNames
  <2>2. /\ ready' = Append(ready, Wake(t, TRUE))
        /\ pc[t] = "sleep" /\ pc' = [pc EXCEPT ![t] = "queued"]
        /\ UNCHANGED <<session, agent, polling, sess, frozen, calls, command>>
    BY <1>2 DEF Timer, hubVars, fridaVars
  <2>. HIDE DEF t
  <2>3. KeepsTurns
    BY <2>1, <2>2, WakeIsWaking, WakeKeeps
  <2>4. \A u \in Task : u # t => pc'[u] = pc[u]
    BY <2>1, <2>2, PcIsTyped
  <2>5. Quiet(t) /\ QuietMove(t)
    BY <2>2, <2>3, <2>4 DEF Quiet, QuietMove, t
  <2>. QED
    BY <2>1, <2>5, QuietRest
<1>3. ASSUME NEW s \in Sessions, Answer(s) PROVE Rest'
  <2>1. /\ sess[s] = "live" /\ calls[s] # <<>> /\ calls \in [Sessions -> Seq(Task)]
        /\ calls' = [calls EXCEPT ![s] = Tail(@)]
        /\ UNCHANGED <<session, agent, polling, sess, pc, command>>
    BY <1>3, AnswerIs DEF hubVars, Typed
  <2>2. PICK t \in Task, ok \in BOOLEAN : t = Head(calls[s]) /\ ready' = Append(ready, Wake(t, ok))
    BY <1>3, AnswerIs
  <2>3. KeepsTurns
    BY <2>2, WakeIsWaking, WakeKeeps
  <2>4. agent = s
    BY <2>1 DEF Rest, FrozenByAgent
  <2>5. \A r \in Sessions : calls'[r] # <<>> => calls[r] # <<>>
    BY <2>1
  <2>6. \A r \in Sessions : frozen'[r] # {} => frozen[r] # {} \/ r = s
    <3>1. PICK v : frozen' = [frozen EXCEPT ![s] = v]
      BY <1>3, AnswerIs
    <3>. QED
      BY <3>1, TypedParts DEF FridaTyped
  <2>7. Quiet(t) /\ QuietMove(t)
    BY <2>1, <2>3, <2>4, <2>5, <2>6 DEF Quiet, QuietMove
  <2>. QED
    BY <2>7, QuietRest
<1>4. ASSUME NEW c \in Clients, Connect(c) \/ Close(c) \/ \E m \in Requests : Send(c, m)
      PROVE  Rest'
  <2>. DEFINE t == Client(c)
  <2>1. t \in Task /\ TRUE \in BOOLEAN
    BY TaskNames
  <2>2. UNCHANGED <<session, agent, polling, sess, frozen, calls>>
    BY <1>4 DEF Connect, Close, Send, hubVars, fridaVars
  <2>3. ready' = ready \/ ready' = Append(ready, Wake(t, TRUE))
    BY <1>4 DEF Connect, Close, Send
  <2>4. \/ UNCHANGED <<pc, command>>
        \/ /\ pc[t] \in {"new", "recv"}
           /\ \E x \in {"recv", "queued", "leaving"} : pc' = [pc EXCEPT ![t] = x]
           /\ \/ UNCHANGED command
              \/ \E m : (m = "attach" => c \in Attachers) /\ command' = [command EXCEPT ![c] = m]
    BY <1>4 DEF Connect, Close, Send
  <2>. HIDE DEF t
  <2>5. KeepsTurns
    BY <2>1, <2>3, WakeIsWaking, WakeKeeps
  <2>6. command \in [Clients -> Requests \cup {NoCommand}] /\ (command[c] = "attach" => c \in Attachers)
    BY TypedParts DEF Rest, AttachIsAttachers, ClientsTyped
  <2>7. CASE UNCHANGED <<pc, command>>
    <3>1. Quiet(t) /\ QuietMove(t)
      BY <2>2, <2>5, <2>7 DEF Quiet, QuietMove
    <3>. QED
      BY <2>1, <3>1, QuietRest
  <2>8. CASE ~UNCHANGED <<pc, command>>
    <3>1. PICK x \in {"recv", "queued", "leaving"} : pc' = [pc EXCEPT ![t] = x]
      BY <2>4, <2>8
    <3>2. pc'[t] = x /\ \A u \in Task : u # t => pc'[u] = pc[u]
      BY <2>1, <3>1, PcIsTyped
    <3>3. (command'[c] = "attach" => c \in Attachers) /\ \A d \in Clients : d # c => command'[d] = command[d]
      BY <2>4, <2>6, <2>8
    <3>4. Quiet(t)
      BY <2>2, <2>5, <3>2, <3>3 DEF Quiet, t
    <3>5. QuietMove(t)
      BY <2>4, <2>8, <3>1, <3>2, <3>3 DEF QuietMove, t, AttachStates
    <3>. QED
      BY <2>1, <3>4, <3>5, QuietRest
  <2>. QED
    BY <2>7, <2>8
<1>. QED
  BY <1>1, <1>2, <1>3, <1>4

-----------------------------------------------------------------------------
(* Steps that open a session, close one or end one.                        *)

\* While attach is about to open a session, no detach task waits to close it.
LEMMA NothingPending ==
  ASSUME OneAttacher, Typed, Rest, NEW c \in Clients, c \in Attachers,
         NEW at, NEW ok, Turn(Client(c), at, ok), session = None
  PROVE  \A s \in Sessions : ~Pending(s)
<1>. SUFFICES ASSUME NEW s \in Sessions, Pending(s) PROVE FALSE
  OBVIOUS
<1>1. PICK d \in Clients : pc[Client(d)] = "attStatus" /\ Ahead(Detacher(s), Client(d), ready)
  BY DEF Rest, PendingInTime
<1>2. d \in Attachers
  BY <1>1 DEF Rest, AttachIsAttachers, AttachStates
<1>3. d = c
  BY <1>2 DEF OneAttacher
<1>4. ready \in Seq(Waking) /\ ready # <<>> /\ Head(ready).task = Client(c)
  BY TaskNames, TurnQueue
<1>. QED
  BY <1>1, <1>3, <1>4, TailAhead

\* The hub's session when it is about to open one.
LEMMA NothingOpen ==
  ASSUME Typed, Rest, session = None
  PROVE  /\ agent = None /\ polling = None
         /\ \A s \in Sessions : /\ sess[s] \notin {"live", "dying"}
                                /\ calls[s] = <<>> /\ frozen[s] = {}
                                /\ pc[Poller(s)] \in {"none", "done"}
<1>1. agent = None /\ polling = None /\ \A s \in Sessions : s # None
  BY NoneIsNoSession DEF Rest, AgentIsSessions, NoSessionNothing
<1>2. \A s \in Sessions : sess[s] \notin {"live", "dying"} /\ calls[s] = <<>>
  BY <1>1 DEF Rest, SessionsEnd
<1>3. \A s \in Sessions : frozen[s] = {}
  BY <1>1 DEF Rest, FrozenByAgent
<1>4. \A s \in Sessions : pc[Poller(s)] \in {"none", "done"}
  BY <1>1 DEF Rest, RunningPollerIsHubs
<1>. QED
  BY <1>1, <1>2, <1>3, <1>4

LEMMA AttachingRest ==
  ASSUME OneAttacher, Typed, Rest, NEW c \in Clients, command[c] = "attach", NEW at, NEW ok,
         Turn(Client(c), at, ok), session = None, Attaching(c)
  PROVE  Rest'
<1>. DEFINE t == Client(c)
<1>1. /\ t \in Task /\ c \in Attachers
      /\ \A s \in Sessions : t # Detacher(s) /\ t # Poller(s) /\ Poller(s) \in Task /\ Detacher(s) \in Task
      /\ \A s, r \in Sessions : Detacher(s) # Poller(r) /\ (Poller(s) = Poller(r) => s = r)
      /\ \A d \in Clients : Client(d) \in Task /\ (Client(d) = t => d = c)
                            /\ \A s \in Sessions : Client(d) # Poller(s)
  BY TaskNames DEF Rest, AttachIsAttachers
<1>2. \A s \in Sessions : ~Pending(s)
  BY <1>1, NothingPending
<1>3. CASE AttachError(c)
  BY <1>3, AttachErrorRest
<1>4. CASE LoadFails(c) \/ LoadSucceeds(c)
  <2>1. PICK s \in Sessions, state \in {"live", "dead"} :
          /\ sess[s] = "new" /\ sess' = [sess EXCEPT ![s] = state]
          /\ session' = s
          /\ calls' = calls /\ frozen' = frozen /\ command' = command
          /\ \/ /\ pc' = [pc EXCEPT ![t] = "attError"] /\ agent' = agent /\ polling' = polling
             \/ /\ pc' = [pc EXCEPT ![t] = "attached", ![Poller(s)] = "queued"]
                /\ agent' = s /\ polling' = s
    BY <1>4 DEF LoadFails, LoadSucceeds, Fresh
  <2>2. sess'[s] \in {"live", "dead"} /\ \A r \in Sessions : r # s => sess'[r] = sess[r]
    BY <2>1 DEF Typed
  <2>. HIDE DEF t
  <2>3. /\ pc'[t] \in {"attError", "attached"}
        /\ \A u \in Task : u # t /\ u # Poller(s) => pc'[u] = pc[u]
        /\ pc'[Poller(s)] = pc[Poller(s)] \/ polling' = s
    <3>1. CASE pc' = [pc EXCEPT ![t] = "attError"]
      BY <1>1, <3>1, PcIsTyped
    <3>2. CASE pc' = [pc EXCEPT ![t] = "attached", ![Poller(s)] = "queued"] /\ polling' = s
      BY <1>1, <3>2, PcIsTyped
    <3>. QED
      BY <2>1, <3>1, <3>2
  <2>4. /\ \A d \in Clients : d # c => pc'[Client(d)] = pc[Client(d)]
        /\ \A r \in Sessions : pc'[Detacher(r)] = pc[Detacher(r)]
        /\ \A r \in Sessions : r # s => pc'[Poller(r)] = pc[Poller(r)]
    BY <1>1, <2>3
  <2>5. /\ agent = None /\ polling = None
        /\ \A r \in Sessions : /\ sess[r] \notin {"live", "dying"}
                               /\ calls[r] = <<>> /\ frozen[r] = {}
                               /\ pc[Poller(r)] \in {"none", "done"}
    BY NothingOpen
  <2>6. pc[Detacher(s)] = "none"
    BY <2>1 DEF Rest, SessionsEnd
  <2>7. \A d \in Clients : pc'[Client(d)] \notin {"attCall", "attStatus"}
    <3>1. ASSUME NEW d \in Clients, pc'[Client(d)] \in {"attCall", "attStatus"} PROVE FALSE
      <4>1. d # c
        BY <2>3, <3>1 DEF t
      <4>2. pc[Client(d)] \in AttachStates
        BY <2>4, <3>1, <4>1 DEF AttachStates
      <4>3. d \in Attachers
        BY <4>2 DEF Rest, AttachIsAttachers
      <4>. QED
        BY <1>1, <4>1, <4>3 DEF OneAttacher
    <3>. QED
      BY <3>1
  <2>8. \A r \in Sessions : pc'[Detacher(r)] \notin {"queued", "call"}
    BY <1>2, <2>4 DEF Pending
  <2>9. AttachIsAttachers'
    BY <2>1, <2>4 DEF Rest, AttachIsAttachers
  <2>10. SessionsEnd'
    BY <2>1, <2>2, <2>4, <2>5, <2>6 DEF Rest, SessionsEnd
  <2>11. AgentIsSessions' /\ NoSessionNothing'
    BY <2>1, <2>5, NoneIsNoSession DEF AgentIsSessions, NoSessionNothing
  <2>12. RunningPollerIsHubs'
    BY <2>1, <2>3, <2>4, <2>5 DEF RunningPollerIsHubs
  <2>13. ClosingStoppedPolling' /\ PendingInTime'
    BY <2>7, <2>8 DEF ClosingStoppedPolling, PendingInTime, Pending
  <2>14. FrozenByAgent'
    BY <2>1, <2>5 DEF FrozenByAgent
  <2>. QED
    BY <2>9, <2>10, <2>11, <2>12, <2>13, <2>14 DEF Rest
<1>. QED
  BY <1>3, <1>4 DEF Attaching

\* Cancelling the poll loop leaves none.
LEMMA CancelledStops ==
  ASSUME Typed, Rest
  PROVE  /\ \A s \in Sessions : PollerCancelled[Poller(s)] \in {"none", "done"}
         /\ polling = None => \A s \in Sessions : pc[Poller(s)] \in {"none", "done"}
<1>1. /\ PcTyped /\ HubTyped
      /\ \A s \in Sessions : s # None
  BY TypedParts, NoneIsNoSession
<1>. QED
  BY <1>1, PollerCancelledIs DEF Rest, RunningPollerIsHubs

LEMMA DetachCallsRest ==
  ASSUME Typed, Rest, NEW u \in Task, NEW at, NEW ok, Turn(u, at, ok), NEW x, DetachCalls(u, x),
         \/ \E c \in Clients : u = Client(c) /\ command[c] = "attach" /\ x = "attCall"
         \/ \E s \in Sessions : u = Detacher(s) /\ at = "queued" /\ x = "call"
  PROVE  Rest'
<1>1. /\ agent # None /\ polling' = None
      /\ pc' = [PollerCancelled EXCEPT ![u] = x]
      /\ UNCHANGED <<session, agent, command, sess, frozen>>
  BY DEF DetachCalls
<1>2. agent = session /\ agent \in Sessions
  BY <1>1, TypedParts DEF Rest, AgentIsSessions, HubTyped
<1>3. /\ pc'[u] = x /\ \A t \in Task : t # u => pc'[t] = PollerCancelled[t]
  BY <1>1, PcIsTyped
<1>4. /\ \A c \in Clients : PollerCancelled[Client(c)] = pc[Client(c)]
      /\ \A s \in Sessions : PollerCancelled[Detacher(s)] = pc[Detacher(s)]
      /\ \A s \in Sessions : PollerCancelled[Poller(s)] \in {"none", "done"}
  BY TypedParts, PollerCancelledIs, CancelledStops
<1>5. /\ \A c \in Clients : Client(c) \in Task
      /\ \A s \in Sessions : Detacher(s) \in Task /\ Poller(s) \in Task /\ u # Poller(s)
      /\ \A c \in Clients, s \in Sessions : Client(c) # Detacher(s)
      /\ \A c, d \in Clients : Client(c) = Client(d) => c = d
      /\ \A s, r \in Sessions : Detacher(s) = Detacher(r) => s = r
  BY TaskNames
<1>6. \A c \in Clients : \/ pc'[Client(c)] = pc[Client(c)]
                         \/ pc'[Client(c)] = "attCall" /\ command[c] = "attach"
  BY <1>3, <1>4, <1>5
<1>7. \A s \in Sessions : \/ pc'[Detacher(s)] = pc[Detacher(s)]
                          \/ u = Detacher(s) /\ pc'[Detacher(s)] = "call" /\ Pending(s)
  BY <1>3, <1>4, <1>5 DEF Turn, Pending
<1>8. \A s \in Sessions : pc'[Poller(s)] \in {"none", "done"}
  BY <1>3, <1>4, <1>5
<1>9. CallsAgent(u) \/ Requeues(u)
  BY <1>1, CallAgentGoesOn DEF DetachCalls
<1>10. \A s \in Sessions : calls'[s] # <<>> => calls[s] # <<>> \/ (s = agent /\ sess[s] = "live")
  <2>1. CASE calls' = calls
    BY <2>1
  <2>2. CASE CallsAgent(u)
    BY <2>2 DEF CallsAgent, Typed
  <2>. QED
    BY <1>9, <2>1, <2>2 DEF Requeues
<1>11. AttachIsAttachers'
  BY <1>1, <1>6 DEF Rest, AttachIsAttachers, AttachStates
<1>12. SessionsEnd'
  BY <1>1, <1>7, <1>10 DEF Rest, SessionsEnd, Pending
<1>13. AgentIsSessions' /\ NoSessionNothing' /\ RunningPollerIsHubs'
  BY <1>1, <1>8 DEF Rest, AgentIsSessions, NoSessionNothing, RunningPollerIsHubs
<1>14. ClosingStoppedPolling'
  BY <1>1, <1>6 DEF Rest, ClosingStoppedPolling
<1>15. PendingInTime'
  <2>. SUFFICES ASSUME NEW s \in Sessions, Pending(s)'
                PROVE  session \in {s, None} /\ Queued(Detacher(s), ready')
    BY <1>1, <1>2 DEF PendingInTime
  <2>1. Pending(s)
    BY <1>7 DEF Pending
  <2>2. session = s /\ Queued(Detacher(s), ready) /\ sess[s] = "dead"
    BY <1>1, <1>2, <2>1 DEF Rest, PendingInTime, SessionsEnd, Pending
  <2>3. CASE u # Detacher(s)
    <3>1. ready' = Tail(ready) \/ \E w \in Waking : ready' = Append(Tail(ready), w)
      BY <1>9, WakeIsWaking DEF CallsAgent, Requeues
    <3>2. Queued(Detacher(s), ready')
      BY <2>2, <2>3, <3>1, TurnKeeps
    <3>. QED
      BY <2>2, <3>2
  <2>4. CASE u = Detacher(s)
    <3>1. Requeues(u)
      BY <1>2, <1>9, <2>2 DEF CallsAgent
    <3>2. PICK ok2 \in BOOLEAN : ready' = Append(Tail(ready), Wake(u, ok2))
      BY <3>1 DEF Requeues
    <3>3. Queued(u, ready')
      BY <3>2, TurnQueue, WakeIsWaking, AppendQueue
    <3>. QED
      BY <2>2, <2>4, <3>3
  <2>. QED
    BY <2>3, <2>4
<1>16. FrozenByAgent'
  BY <1>1, <1>10 DEF Rest, FrozenByAgent
<1>. QED
  BY <1>11, <1>12, <1>13, <1>14, <1>15, <1>16 DEF Rest

\* The awaits of everyone but the two that closing moves.
LEMMA DetachClosesPc ==
  ASSUME Typed, NEW u \in Task, NEW x, NEW pcs \in {pc, PollerCancelled}, DetachCloses(u, x, pcs),
         \A s \in Sessions : u # Poller(s)
  PROVE  /\ \A c \in Clients : Client(c) # u => pc'[Client(c)] = pc[Client(c)]
         /\ \A s \in Sessions : pc'[Poller(s)] = pcs[Poller(s)]
         /\ \A s \in Sessions : s # session /\ Detacher(s) # u => pc'[Detacher(s)] = pc[Detacher(s)]
         /\ (\A s \in Sessions : u # Detacher(s)) => pc'[u] = x
         /\ session = None \/ sess[session] = "dead" =>
              /\ pc'[u] = x
              /\ \A s \in Sessions : Detacher(s) # u => pc'[Detacher(s)] = pc[Detacher(s)]
<1>1. /\ pcs \in [Task -> Await]
      /\ \A c \in Clients : pcs[Client(c)] = pc[Client(c)]
      /\ \A s \in Sessions : pcs[Detacher(s)] = pc[Detacher(s)]
  BY PcIsTyped, PollerCancelledIs, TypedParts
<1>2. /\ \A c \in Clients : Client(c) \in Task
      /\ \A s \in Sessions : Detacher(s) \in Task /\ Poller(s) \in Task
      /\ \A c \in Clients, s \in Sessions : Client(c) # Detacher(s)
      /\ \A s, r \in Sessions : Detacher(s) # Poller(r) /\ (Detacher(s) = Detacher(r) => s = r)
  BY TaskNames
<1>3. CASE session = None \/ sess[session] = "dead"
  <2>1. pc' = [pcs EXCEPT ![u] = x]
    BY <1>3 DEF DetachCloses
  <2>2. pc'[u] = x /\ \A t \in Task : t # u => pc'[t] = pcs[t]
    BY <1>1, <2>1
  <2>. QED
    BY <1>1, <1>2, <2>2
<1>4. CASE ~(session = None \/ sess[session] = "dead")
  <2>1. session \in Sessions
    BY <1>4 DEF Typed, TypeOK
  <2>2. pc' = [pcs EXCEPT ![u] = x, ![Detacher(session)] = "queued"]
    BY <1>4 DEF DetachCloses
  <2>3. /\ u # Detacher(session) => pc'[u] = x
        /\ \A t \in Task : t # u /\ t # Detacher(session) => pc'[t] = pcs[t]
    BY <1>1, <1>2, <2>1, <2>2
  <2>. QED
    BY <1>1, <1>2, <1>4, <2>1, <2>3
<1>. QED
  BY <1>3, <1>4

LEMMA QueuedAhead ==
  ASSUME NEW q \in Seq(Waking), NEW t, NEW u, Queued(t, q), ~Queued(u, q)
  PROVE  Ahead(t, u, q)
<1>1. PICK k \in 1..Len(q) : q[k].task = t
  BY DEF Queued
<1>2. \A l \in 1..k : l \in 1..Len(q)
  OBVIOUS
<1>. QED
  BY <1>1, <1>2 DEF Queued, Ahead

\* attach closes the session it finds.
LEMMA AttachClosesRest ==
  ASSUME OneAttacher, Typed, OnePlace, Rest, NEW c \in Clients, command[c] = "attach",
         NEW at \in {"queued", "attCall"}, NEW ok, Turn(Client(c), at, ok),
         \/ agent = None /\ session # None /\ polling' = None
              /\ DetachCloses(Client(c), "attStatus", PollerCancelled)
         \/ at = "attCall" /\ polling' = polling /\ DetachCloses(Client(c), "attStatus", pc)
  PROVE  Rest'
<1>. DEFINE t == Client(c)
<1>1. /\ t \in Task /\ c \in Attachers
      /\ \A s \in Sessions : t # Detacher(s) /\ t # Poller(s) /\ s # None
      /\ \A d \in Clients : Client(d) = t => d = c
      /\ Placed(t) /\ Turn(t, at, ok)
  BY TaskNames, NoneIsNoSession DEF Rest, AttachIsAttachers, OnePlace
<1>2. PICK pcs \in {pc, PollerCancelled} :
        /\ DetachCloses(t, "attStatus", pcs)
        /\ polling' = None
        /\ \A s \in Sessions : pcs[Poller(s)] \in {"none", "done"}
  <2>1. CASE polling' = None /\ DetachCloses(t, "attStatus", PollerCancelled)
    BY <2>1, CancelledStops
  <2>2. CASE at = "attCall" /\ polling' = polling /\ DetachCloses(t, "attStatus", pc)
    <3>1. polling = None
      BY <2>2 DEF Rest, ClosingStoppedPolling, Turn
    <3>. QED
      BY <2>2, <3>1, CancelledStops
  <2>. QED
    BY <2>1, <2>2
<1>3. /\ session' = None /\ agent' = None /\ command' = command
  BY <1>2 DEF DetachCloses
<1>4. /\ \A d \in Clients : d # c => pc'[Client(d)] = pc[Client(d)]
      /\ pc'[t] = "attStatus"
      /\ \A s \in Sessions : pc'[Poller(s)] \in {"none", "done"}
      /\ \A s \in Sessions : s # session => pc'[Detacher(s)] = pc[Detacher(s)]
      /\ session = None \/ sess[session] = "dead" =>
           \A s \in Sessions : pc'[Detacher(s)] = pc[Detacher(s)]
  BY <1>1, <1>2, DetachClosesPc
<1>5. session = None => \A s \in Sessions : ~Pending(s)
  BY <1>1, NothingPending
<1>6. /\ ~Queued(t, Tail(ready)) /\ Tail(ready) \in Seq(Waking) /\ ready \in Seq(Waking)
      /\ ready # <<>> /\ Head(ready).task = t
  BY <1>1, TurnFrees, TurnQueue
<1>. HIDE DEF t
<1>7. AttachIsAttachers'
  BY <1>3, <1>4 DEF Rest, AttachIsAttachers, t
<1>8. AgentIsSessions' /\ NoSessionNothing' /\ RunningPollerIsHubs' /\ ClosingStoppedPolling'
  BY <1>2, <1>3, <1>4 DEF AgentIsSessions, NoSessionNothing, RunningPollerIsHubs, ClosingStoppedPolling
<1>9. \A s \in Sessions : Pending(s) => session = s /\ Queued(Detacher(s), ready)
  BY <1>5 DEF Rest, PendingInTime
<1>10. /\ \A s \in Sessions : /\ sess[s] \in {"live", "dying"} => session = s
                              /\ calls[s] # <<>> => session = s /\ sess[s] = "live"
                              /\ frozen[s] # {} => session = s /\ sess[s] \in {"live", "dying"}
  BY <1>1 DEF Rest, SessionsEnd, FrozenByAgent, AgentIsSessions
<1>11. CASE session = None \/ sess[session] = "dead"
  <2>1. ready' = Tail(ready) /\ UNCHANGED <<sess, calls, frozen>>
    BY <1>2, <1>11 DEF DetachCloses, fridaVars
  <2>2. \A s \in Sessions : sess[s] \notin {"live", "dying"} /\ calls[s] = <<>> /\ frozen[s] = {}
    BY <1>1, <1>10, <1>11
  <2>3. SessionsEnd' /\ FrozenByAgent'
    BY <1>4, <1>11, <2>1, <2>2 DEF Rest, SessionsEnd, FrozenByAgent
  <2>4. PendingInTime'
    <3>. SUFFICES ASSUME NEW s \in Sessions, Pending(s)'
                  PROVE  Queued(Detacher(s), ready') /\ Ahead(Detacher(s), t, ready')
      BY <1>3, <1>4 DEF PendingInTime, t
    <3>1. Queued(Detacher(s), ready)
      BY <1>4, <1>9, <1>11 DEF Pending
    <3>2. Queued(Detacher(s), Tail(ready))
      BY <1>1, <1>6, <3>1, TailQueue DEF t
    <3>. QED
      BY <1>6, <2>1, <3>2, QueuedAhead
  <2>. QED
    BY <1>7, <1>8, <2>3, <2>4 DEF Rest
<1>12. CASE ~(session = None \/ sess[session] = "dead")
  <2>1. session \in Sessions /\ sess \in [Sessions -> SessState] /\ calls \in [Sessions -> Seq(Task)]
        /\ frozen \in [Sessions -> SUBSET Clients]
    BY <1>12 DEF Typed, TypeOK
  <2>2. SessionEnds(session, Tail(ready))
    BY <1>2, <1>12 DEF DetachCloses
  <2>3. /\ sess'[session] = "dead" /\ calls'[session] = <<>> /\ frozen'[session] = {}
        /\ \A s \in Sessions : s # session =>
             sess'[s] = sess[s] /\ calls'[s] = calls[s] /\ frozen'[s] = frozen[s]
    BY <2>1, <2>2 DEF SessionEnds
  <2>4. SessionsEnd' /\ FrozenByAgent'
    BY <1>4, <1>10, <2>3 DEF Rest, SessionsEnd, FrozenByAgent
  <2>5. PendingInTime'
    <3>. SUFFICES ASSUME NEW s \in Sessions, Pending(s)'
                  PROVE  Queued(Detacher(s), ready') /\ Ahead(Detacher(s), t, ready')
      BY <1>3, <1>4 DEF PendingInTime, t
    <3>1. s = session
      BY <1>4, <1>9 DEF Pending
    <3>2. Queued(Detacher(s), ready')
      BY <1>6, <2>1, <2>2, <3>1, SessionEndsQueue
    <3>3. Ahead(Detacher(s), t, ready')
      BY <1>1, <1>6, <2>1, <2>2, <3>1, SessionEndsQueue DEF t
    <3>. QED
      BY <3>2, <3>3
  <2>. QED
    BY <1>7, <1>8, <2>4, <2>5 DEF Rest
<1>. QED
  BY <1>11, <1>12

\* A detach task finds the session it is for, or none: it closes no other.
LEMMA DetacherFinds ==
  ASSUME Typed, Rest, NEW s \in Sessions, Pending(s)
  PROVE  session \in {s, None} /\ sess[s] = "dead"
BY DEF Rest, PendingInTime, SessionsEnd, Pending

LEMMA DetacherClosesRest ==
  ASSUME Typed, Rest, NEW s \in Sessions, NEW at \in {"queued", "call"}, NEW ok,
         Turn(Detacher(s), at, ok),
         \/ agent = None /\ polling' = None /\ DetachCloses(Detacher(s), "bcast", PollerCancelled)
         \/ at = "call" /\ polling' = polling /\ DetachCloses(Detacher(s), "bcast", pc)
  PROVE  Rest'
<1>. DEFINE t == Detacher(s)
<1>1. /\ t \in Task /\ Turn(t, at, ok) /\ s # None
      /\ \A r \in Sessions : t # Poller(r) /\ (Detacher(r) = t => r = s)
      /\ \A c \in Clients : Client(c) # t
  BY TaskNames, NoneIsNoSession
<1>2. PICK pcs \in {pc, PollerCancelled} :
        /\ DetachCloses(t, "bcast", pcs)
        /\ polling' = None
        /\ \A r \in Sessions : pcs[Poller(r)] \in {"none", "done"}
  <2>1. CASE polling' = None /\ DetachCloses(t, "bcast", PollerCancelled)
    BY <2>1, CancelledStops
  <2>2. CASE at = "call" /\ polling' = polling /\ DetachCloses(t, "bcast", pc)
    <3>1. polling = None
      BY <2>2 DEF Rest, ClosingStoppedPolling, Turn
    <3>. QED
      BY <2>2, <3>1, CancelledStops
  <2>. QED
    BY <2>1, <2>2
<1>3. Pending(s)
  BY DEF Pending, Turn
<1>4. session \in {s, None} /\ sess[s] = "dead"
  BY <1>3, DetacherFinds
<1>5. /\ session' = None /\ agent' = None /\ command' = command
      /\ ready' = Tail(ready) /\ UNCHANGED <<sess, calls, frozen>>
  BY <1>2, <1>4 DEF DetachCloses, fridaVars
<1>6. /\ \A d \in Clients : pc'[Client(d)] = pc[Client(d)]
      /\ \A r \in Sessions : pc'[Poller(r)] \in {"none", "done"}
      /\ \A r \in Sessions : r # s => pc'[Detacher(r)] = pc[Detacher(r)]
      /\ pc'[Detacher(s)] = "bcast"
  BY <1>1, <1>2, <1>4, DetachClosesPc
<1>7. \A r \in Sessions : sess[r] \notin {"live", "dying"} /\ calls[r] = <<>> /\ frozen[r] = {}
  BY <1>4, NoneIsNoSession DEF Rest, SessionsEnd, FrozenByAgent
<1>8. AttachIsAttachers'
  BY <1>5, <1>6 DEF Rest, AttachIsAttachers
<1>9. AgentIsSessions' /\ NoSessionNothing' /\ RunningPollerIsHubs' /\ ClosingStoppedPolling'
  BY <1>2, <1>5, <1>6 DEF AgentIsSessions, NoSessionNothing, RunningPollerIsHubs, ClosingStoppedPolling
<1>10. SessionsEnd' /\ FrozenByAgent'
  BY <1>4, <1>5, <1>6, <1>7 DEF Rest, SessionsEnd, FrozenByAgent
<1>11. PendingInTime'
  <2>. SUFFICES ASSUME NEW r \in Sessions, Pending(r)'
                PROVE  /\ Queued(Detacher(r), ready')
                       /\ \E c \in Clients : pc'[Client(c)] = "attStatus"
                                             /\ Ahead(Detacher(r), Client(c), ready')
    BY <1>5 DEF PendingInTime
  <2>1. r # s /\ Pending(r)
    BY <1>6 DEF Pending
  <2>2. session = None /\ Queued(Detacher(r), ready)
    BY <1>4, <2>1 DEF Rest, PendingInTime
  <2>3. PICK c \in Clients : pc[Client(c)] = "attStatus" /\ Ahead(Detacher(r), Client(c), ready)
    BY <2>1, <2>2 DEF Rest, PendingInTime
  <2>4. Queued(Detacher(r), ready') /\ Ahead(Detacher(r), Client(c), ready')
    BY <1>1, <1>5, <2>1, <2>2, <2>3, TurnKeeps
  <2>. QED
    BY <1>6, <2>3, <2>4
<1>. QED
  BY <1>8, <1>9, <1>10, <1>11 DEF Rest

\* The target's end wakes the detach task of the hub's own session.
LEMMA TargetEndsRest ==
  ASSUME Typed, Rest, NEW s \in Sessions, TargetExits(s) \/ Detached(s)
  PROVE  Rest'
<1>1. /\ sess[s] \in {"live", "dying"} /\ session = s /\ s # None
      /\ UNCHANGED <<session, agent, polling, command>>
  BY NoneIsNoSession DEF TargetExits, Detached, hubVars, Rest, SessionsEnd
<1>2. /\ Detacher(s) \in Task
      /\ \A c \in Clients : Client(c) \in Task /\ Client(c) # Detacher(s)
      /\ \A r \in Sessions : /\ Poller(r) \in Task /\ Poller(r) # Detacher(s)
                             /\ Detacher(r) \in Task /\ (Detacher(r) = Detacher(s) => r = s)
  BY TaskNames
<1>3. \A r \in Sessions : ~Pending(r)
  BY <1>1 DEF Rest, PendingInTime, SessionsEnd, Pending
<1>4. /\ sess \in [Sessions -> SessState] /\ calls \in [Sessions -> Seq(Task)]
      /\ frozen \in [Sessions -> SUBSET Clients] /\ ready \in Seq(Waking)
  BY TypedParts DEF Typed, TypeOK, QueuesTyped
<1>5. CASE SessionEnds(s, ready) /\ pc' = [pc EXCEPT ![Detacher(s)] = "queued"]
  <2>1. /\ sess'[s] = "dead" /\ calls'[s] = <<>> /\ frozen'[s] = {}
        /\ \A r \in Sessions : r # s =>
             sess'[r] = sess[r] /\ calls'[r] = calls[r] /\ frozen'[r] = frozen[r]
    BY <1>4, <1>5 DEF SessionEnds
  <2>2. /\ \A c \in Clients : pc'[Client(c)] = pc[Client(c)]
        /\ \A r \in Sessions : pc'[Poller(r)] = pc[Poller(r)]
        /\ \A r \in Sessions : r # s => pc'[Detacher(r)] = pc[Detacher(r)]
        /\ pc'[Detacher(s)] = "queued"
    BY <1>2, <1>5, PcIsTyped
  <2>3. AttachIsAttachers' /\ AgentIsSessions' /\ NoSessionNothing' /\ RunningPollerIsHubs'
    BY <1>1, <2>2 DEF Rest, AttachIsAttachers, AgentIsSessions, NoSessionNothing, RunningPollerIsHubs
  <2>4. ClosingStoppedPolling'
    BY <1>1, <2>2 DEF Rest, ClosingStoppedPolling
  <2>5. SessionsEnd' /\ FrozenByAgent'
    BY <1>1, <2>1, <2>2 DEF Rest, SessionsEnd, FrozenByAgent
  <2>6. Queued(Detacher(s), ready')
    BY <1>4, <1>5, SessionEndsQueue
  <2>7. PendingInTime'
    BY <1>1, <1>3, <2>2, <2>6 DEF PendingInTime, Pending
  <2>. QED
    BY <2>3, <2>4, <2>5, <2>7 DEF Rest
<1>6. CASE ~(SessionEnds(s, ready) /\ pc' = [pc EXCEPT ![Detacher(s)] = "queued"])
  <2>1. /\ sess' = [sess EXCEPT ![s] = "dying"]
        /\ calls' = [calls EXCEPT ![s] = <<>>]
        /\ UNCHANGED <<pc, frozen>> /\ sess[s] = "live"
    BY <1>6 DEF TargetExits, Detached
  <2>2. /\ sess'[s] = "dying" /\ calls'[s] = <<>>
        /\ \A r \in Sessions : r # s => sess'[r] = sess[r] /\ calls'[r] = calls[r]
    BY <1>4, <2>1
  <2>3. /\ AttachIsAttachers' /\ AgentIsSessions' /\ NoSessionNothing' /\ RunningPollerIsHubs'
        /\ ClosingStoppedPolling'
    BY <1>1, <2>1 DEF Rest, AttachIsAttachers, AgentIsSessions, NoSessionNothing, RunningPollerIsHubs,
                      ClosingStoppedPolling
  <2>4. SessionsEnd' /\ FrozenByAgent'
    BY <1>1, <2>1, <2>2 DEF Rest, SessionsEnd, FrozenByAgent
  <2>5. PendingInTime'
    BY <1>3, <2>1 DEF PendingInTime, Pending
  <2>. QED
    BY <2>3, <2>4, <2>5 DEF Rest
<1>. QED
  BY <1>5, <1>6

-----------------------------------------------------------------------------
(* The invariant.                                                          *)

LEMMA InitRest == Init => Rest
<1>. SUFFICES ASSUME Init PROVE Rest
  OBVIOUS
<1>1. /\ session = None /\ agent = None /\ polling = None
      /\ command = [c \in Clients |-> NoCommand]
      /\ sess = [s \in Sessions |-> "new"] /\ calls = [s \in Sessions |-> <<>>]
      /\ frozen = [s \in Sessions |-> {}]
      /\ pc = [t \in Task |-> IF t[1] = "client" THEN "new" ELSE "none"]
  BY DEF Init
<1>2. /\ \A c \in Clients : Client(c)[1] = "client" /\ Client(c) \in Task
      /\ \A s \in Sessions : Detacher(s)[1] = "detach" /\ Poller(s)[1] = "poll"
                             /\ Detacher(s) \in Task /\ Poller(s) \in Task
  BY TaskNames DEF Client, Detacher, Poller
<1>3. /\ \A c \in Clients : pc[Client(c)] = "new" /\ command[c] # "attach"
      /\ \A s \in Sessions : pc[Detacher(s)] = "none" /\ pc[Poller(s)] = "none"
  BY <1>1, <1>2 DEF NoCommand
<1>. QED
  BY <1>1, <1>3 DEF Rest, AttachIsAttachers, AttachStates, SessionsEnd, AgentIsSessions,
     NoSessionNothing, RunningPollerIsHubs, ClosingStoppedPolling, PendingInTime, Pending, FrozenByAgent

LEMMA AttachRest ==
  ASSUME OneAttacher, Typed, OnePlace, Rest, NEW c \in Clients, Attach(c)
  PROVE  Rest'
<1>. DEFINE t == Client(c)
<1>1. t \in Task
  BY TaskNames
<1>2. ASSUME NEW at \in AttachStates, pc[t] = at PROVE command[c] = "attach"
  BY <1>2 DEF Rest, AttachIsAttachers
<1>3. CASE AttachNow(c)
  BY <1>3, AttachingRest DEF AttachNow
<1>4. CASE AttachDetachesFirst(c)
  <2>1. Turn(t, "queued", TRUE) /\ command[c] = "attach" /\ session # None
    BY <1>4 DEF AttachDetachesFirst
  <2>2. CASE DetachCalls(t, "attCall")
    BY <1>1, <2>1, <2>2, DetachCallsRest
  <2>3. CASE ~DetachCalls(t, "attCall")
    <3>1. agent = None /\ polling' = None /\ DetachCloses(t, "attStatus", PollerCancelled)
      BY <1>4, <2>3 DEF AttachDetachesFirst
    <3>. QED
      BY <2>1, <3>1, AttachClosesRest
  <2>. QED
    BY <2>2, <2>3
<1>5. CASE AttachCloses(c)
  <2>1. PICK ok \in BOOLEAN : Turn(t, "attCall", ok)
    BY <1>5 DEF AttachCloses
  <2>2. command[c] = "attach"
    BY <1>2, <2>1 DEF Turn, AttachStates
  <2>3. DetachCloses(t, "attStatus", pc) /\ polling' = polling
    BY <1>5 DEF AttachCloses
  <2>. QED
    BY <2>1, <2>2, <2>3, AttachClosesRest
<1>6. CASE AttachContinues(c)
  <2>1. CASE Turn(t, "attStatus", TRUE) /\ Attaching(c)
    <3>1. session = None /\ command[c] = "attach"
      BY <1>2, <2>1 DEF Turn, AttachStates, Rest, ClosingStoppedPolling
    <3>. QED
      BY <2>1, <3>1, AttachingRest
  <2>2. CASE Turn(t, "attStatus", FALSE) /\ AttachError(c)
    BY <2>2, AttachErrorRest DEF AttachStates
  <2>. QED
    BY <1>6, <2>1, <2>2 DEF AttachContinues
<1>7. CASE AttachReturns(c)
  <2>1. CASE Turn(t, "attached", FALSE) /\ AttachError(c)
    BY <2>1, AttachErrorRest DEF AttachStates
  <2>2. CASE ~(Turn(t, "attached", FALSE) /\ AttachError(c))
    <3>1. /\ \E at, ok : Turn(t, at, ok)
          /\ Finish(c) /\ UNCHANGED <<hubVars, open, sending, fridaVars>>
      BY <1>7, <2>2 DEF AttachReturns
    <3>. QED
      BY <3>1, FinishRest DEF hubVars, fridaVars
  <2>. QED
    BY <2>1, <2>2
<1>. QED
  BY <1>3, <1>4, <1>5, <1>6, <1>7 DEF Attach

LEMMA DetachRest ==
  ASSUME Typed, Rest, NEW s \in Sessions, Detach(s) PROVE Rest'
<1>. DEFINE t == Detacher(s)
<1>1. t \in Task
  BY TaskNames
<1>2. CASE DetachStarts(s)
  <2>1. Turn(t, "queued", TRUE)
    BY <1>2 DEF DetachStarts
  <2>2. CASE DetachCalls(t, "call")
    BY <1>1, <2>1, <2>2, DetachCallsRest
  <2>3. CASE ~DetachCalls(t, "call")
    <3>1. agent = None /\ polling' = None /\ DetachCloses(t, "bcast", PollerCancelled)
      BY <1>2, <2>3 DEF DetachStarts
    <3>. QED
      BY <2>1, <3>1, DetacherClosesRest
  <2>. QED
    BY <2>2, <2>3
<1>3. CASE DetachContinues(s)
  <2>1. PICK ok \in BOOLEAN : Turn(t, "call", ok)
    BY <1>3 DEF DetachContinues
  <2>2. DetachCloses(t, "bcast", pc) /\ polling' = polling
    BY <1>3 DEF DetachContinues
  <2>. QED
    BY <2>1, <2>2, DetacherClosesRest
<1>. QED
  BY <1>2, <1>3, DetachReturnsRest DEF Detach

LEMMA RestStep == OneAttacher /\ Typed /\ OnePlace /\ Rest /\ [Next]_vars => Rest'
<1>. SUFFICES ASSUME OneAttacher, Typed, OnePlace, Rest, [Next]_vars PROVE Rest'
  OBVIOUS
<1>1. CASE Loop
  BY <1>1, AttachRest, HandlerQuietRest, DetachRest, PollRest DEF Loop
<1>2. ASSUME NEW t \in Task, BroadcastEnds(t) PROVE Rest'
  BY <1>2, OutsideQuietRest
<1>3. ASSUME NEW s \in Sessions, Timer(s) \/ Answer(s) \/ TargetExits(s) \/ Detached(s)
      PROVE  Rest'
  BY <1>3, OutsideQuietRest, TargetEndsRest
<1>4. ASSUME NEW c \in Clients, Connect(c) \/ Close(c) \/ \E m \in Requests : Send(c, m)
      PROVE  Rest'
  BY <1>4, OutsideQuietRest
<1>5. CASE UNCHANGED vars
  BY <1>5 DEF vars, hubVars, fridaVars, Rest, AttachIsAttachers, SessionsEnd, AgentIsSessions,
     NoSessionNothing, RunningPollerIsHubs, ClosingStoppedPolling, PendingInTime, Pending, FrozenByAgent
<1>. QED
  BY <1>1, <1>2, <1>3, <1>4, <1>5 DEF Next

LEMMA InvariantHolds == ASSUME OneAttacher PROVE Spec => []IInv
<1>1. Init => IInv
  BY InitTyped, InitOnePlace, InitRest DEF IInv
<1>2. IInv /\ [Next]_vars => IInv'
  BY StepTyped, OnePlaceStep, RestStep DEF IInv
<1>. QED
  BY <1>1, <1>2, PTL DEF Spec

\* A session that is open is the hub's: no agent is left in a target where the
\* next attach or detach of hub.py would not reach it.
THEOREM OpenSessionHolds == ASSUME OneAttacher PROVE Spec => []OpenSessionIsHubs
<1>1. IInv => OpenSessionIsHubs
  BY DEF IInv, Rest, SessionsEnd, OpenSessionIsHubs
<1>. QED
  BY <1>1, InvariantHolds, PTL

\* At most one _poll_loop runs, the one that the next detach cancels.
THEOREM RunningPollerHolds == ASSUME OneAttacher PROVE Spec => []RunningPollerIsHubs
<1>1. IInv => RunningPollerIsHubs
  BY DEF IInv, Rest
<1>. QED
  BY <1>1, InvariantHolds, PTL

\* Hub.agent is the script of Hub.session.
THEOREM AgentHolds == ASSUME OneAttacher PROVE Spec => []AgentIsSessions
<1>1. IInv => AgentIsSessions
  BY DEF IInv, Rest
<1>. QED
  BY <1>1, InvariantHolds, PTL

-----------------------------------------------------------------------------
(* The detach task of a session that has ended.                            *)

LEMMA HandlerHasTurn ==
  ASSUME NEW c \in Clients, Attach(c) \/ Watch(c) \/ Call(c) \/ CallReturns(c) \/ Leave(c)
  PROVE  \E at, ok : Turn(Client(c), at, ok)
BY DEF Attach, AttachNow, AttachDetachesFirst, AttachCloses, AttachContinues, AttachReturns,
       Watch, Call, CallReturns, Leave

\* A step that changes Hub.session is a turn of attach or of detach.
LEMMA SessionChangers ==
  ASSUME Typed, [Next]_vars, session' # session
  PROVE  \/ \E c \in Clients : Attach(c)
         \/ \E s \in Sessions : Detach(s) /\ session' = None
<1>1. ASSUME NEW c \in Clients, Watch(c) \/ Call(c) \/ CallReturns(c) \/ Leave(c) PROVE FALSE
  BY <1>1 DEF Watch, Call, CallReturns, Leave, hubVars
<1>2. ASSUME NEW s \in Sessions, Detach(s) PROVE session' = None
  BY <1>2 DEF Detach, DetachStarts, DetachContinues, DetachReturns, DetachCalls, DetachCloses, hubVars
<1>3. ASSUME NEW s \in Sessions, Poll(s) PROVE FALSE
  BY <1>3, PollGoesOn DEF hubVars
<1>4. ASSUME NEW s \in Sessions, Timer(s) \/ Answer(s) \/ TargetExits(s) \/ Detached(s) PROVE FALSE
  BY <1>4 DEF Timer, Answer, TargetExits, Detached, hubVars
<1>5. ASSUME NEW t \in Task, BroadcastEnds(t) PROVE FALSE
  BY <1>5 DEF BroadcastEnds, hubVars
<1>6. ASSUME NEW c \in Clients, Connect(c) \/ Close(c) \/ \E m \in Requests : Send(c, m) PROVE FALSE
  BY <1>6 DEF Connect, Close, Send, hubVars
<1>7. Next
  BY DEF vars, hubVars
<1>. QED
  BY <1>1, <1>2, <1>3, <1>4, <1>5, <1>6, <1>7 DEF Next, Loop

\* hub.py's detach_sync schedules a detach that names no session; when it runs
\* it closes the session it was scheduled for or finds none, never a session
\* that a later attach has opened.
THEOREM StaleDetachIsHarmless == ASSUME OneAttacher PROVE Spec => StaleDetachHarmless
<1>. DEFINE Harmless ==
       \A s \in Sessions :
         (\E ok \in BOOLEAN, at \in {"queued", "call"} : Turn(Detacher(s), at, ok))
            /\ session' # session => session = s
<1>1. IInv /\ [Next]_vars => [Harmless]_vars
  <2>. SUFFICES ASSUME IInv, [Next]_vars, NEW s \in Sessions,
                       NEW ok \in BOOLEAN, NEW at \in {"queued", "call"}, Turn(Detacher(s), at, ok),
                       session' # session
                PROVE  session = s
    OBVIOUS
  <2>1. Typed /\ Rest
    BY DEF IInv
  <2>2. session \in {s, None}
    BY <2>1, DetacherFinds DEF Pending, Turn
  <2>3. Head(ready).task = Detacher(s)
    BY <2>1, TaskNames, TurnQueue
  <2>4. ~\E c \in Clients : Attach(c)
    <3>. SUFFICES ASSUME NEW c \in Clients, Attach(c) PROVE FALSE
      OBVIOUS
    <3>1. PICK at2, ok2 : Turn(Client(c), at2, ok2)
      BY HandlerHasTurn
    <3>2. Head(ready).task = Client(c)
      BY <2>1, <3>1, TaskNames, TurnQueue
    <3>. QED
      BY <2>3, <3>2, TaskNames
  <2>5. session' = None
    BY <2>1, <2>4, SessionChangers
  <2>. QED
    BY <2>2, <2>5
<1>2. Spec => []IInv
  BY InvariantHolds
<1>3. Spec => [][Harmless]_vars
  BY <1>1, <1>2, PTL DEF Spec
<1>. QED
  BY <1>3 DEF StaleDetachHarmless

-----------------------------------------------------------------------------
(* The freezer of a session the hub closes.                                *)

\* The handler of c waits as before, and so do the freezes behind it.
StillWaits(c) ==
  /\ pc[Client(c)] = "attCall"
  /\ \A s \in Sessions : Called(Client(c), s) => Called(Client(c), s)'
  /\ Queued(Client(c), ready) => Queued(Client(c), ready')
  /\ \A d \in Clients : Ahead(Client(c), Client(d), ready) /\ Freezing(d) =>
       Ahead(Client(c), Client(d), ready') /\ Freezing(d)'

LEMMA LeftKept ==
  ASSUME Typed, LeftFrozen,
         \A c \in Clients : pc'[Client(c)] = "attCall" => StillWaits(c),
         \A s \in Sessions : sess'[s] = "live" => sess[s] = "live" /\ frozen'[s] = frozen[s]
  PROVE  LeftFrozen'
<1>. SUFFICES ASSUME NEW c \in Clients, pc'[Client(c)] = "attCall", NEW s \in Sessions, sess'[s] = "live"
              PROVE  \/ Called(Client(c), s)'
                     \/ /\ Queued(Client(c), ready')
                        /\ \A d \in frozen'[s] : Freezing(d)' /\ Ahead(Client(c), Client(d), ready')
  BY DEF LeftFrozen
<1>1. StillWaits(c) /\ sess[s] = "live" /\ frozen'[s] = frozen[s]
  OBVIOUS
<1>2. \A d \in frozen[s] : d \in Clients
  BY TypedParts DEF FridaTyped
<1>3. CASE Called(Client(c), s)
  BY <1>1, <1>3 DEF StillWaits
<1>4. CASE ~Called(Client(c), s)
  <2>1. Queued(Client(c), ready) /\ \A d \in frozen[s] : Freezing(d) /\ Ahead(Client(c), Client(d), ready)
    BY <1>1, <1>4 DEF LeftFrozen, StillWaits
  <2>. QED
    BY <1>1, <1>2, <2>1 DEF StillWaits
<1>. QED
  BY <1>3, <1>4

\* A turn of another task, or one that does not leave its handler waiting for
\* the clear.
LEMMA TurnLeft ==
  ASSUME Typed, LeftFrozen, NEW u \in Task, NEW at, NEW ok, Turn(u, at, ok),
         Resumes(u) \/ Requeues(u) \/ CallsAgent(u) \/ Broadcasts(u),
         OtherHandlersKept(u), \A d \in Clients : Client(d) # u => command'[d] = command[d],
         \A c \in Clients : u = Client(c) => pc'[u] # "attCall",
         UNCHANGED <<sess, frozen>>
  PROVE  LeftFrozen'
<1>1. ready' = Tail(ready) \/ \E w \in Waking : ready' = Append(Tail(ready), w)
  BY WakeIsWaking, TaskNames DEF Resumes, Requeues, CallsAgent, Broadcasts
<1>2. /\ \A t, v : t # u => /\ Queued(t, ready) => Queued(t, ready')
                            /\ Ahead(t, v, ready) => Ahead(t, v, ready')
      /\ \A t : ~Ahead(t, u, ready)
  BY <1>1, TurnKeeps
<1>3. ASSUME NEW t, NEW s \in Sessions, Called(t, s) PROVE Called(t, s)'
  <2>1. CASE calls' = calls
    BY <1>3, <2>1 DEF Called
  <2>2. CASE CallsAgent(u)
    BY <1>3, <2>2, CallsAppend DEF CallsAgent
  <2>. QED
    BY <2>1, <2>2 DEF Resumes, Requeues, Broadcasts
<1>4. ASSUME NEW c \in Clients, pc'[Client(c)] = "attCall" PROVE StillWaits(c)
  <2>1. Client(c) # u /\ pc[Client(c)] = "attCall"
    BY <1>4 DEF OtherHandlersKept
  <2>2. ASSUME NEW d \in Clients, Ahead(Client(c), Client(d), ready), Freezing(d)
        PROVE  Ahead(Client(c), Client(d), ready') /\ Freezing(d)'
    <3>1. Client(d) # u
      BY <1>2, <2>2
    <3>2. pc'[Client(d)] = pc[Client(d)] /\ command'[d] = command[d]
      BY <3>1 DEF OtherHandlersKept
    <3>. QED
      BY <1>2, <2>1, <2>2, <3>2 DEF Freezing
  <2>. QED
    BY <1>2, <1>3, <2>1, <2>2 DEF StillWaits
<1>. QED
  BY <1>4, LeftKept

\* Nobody waits for the clear once attach has gone on from it.
LEMMA AttachLeft ==
  ASSUME OneAttacher, Rest, NEW c \in Clients, command[c] = "attach",
         OtherHandlersKept(Client(c)), pc'[Client(c)] # "attCall"
  PROVE  LeftFrozen'
<1>1. c \in Attachers
  BY DEF Rest, AttachIsAttachers
<1>2. ASSUME NEW d \in Clients, pc'[Client(d)] = "attCall" PROVE FALSE
  <2>1. Client(d) # Client(c) /\ pc[Client(d)] = "attCall"
    BY <1>2 DEF OtherHandlersKept
  <2>2. d \in Attachers
    BY <2>1 DEF Rest, AttachIsAttachers, AttachStates
  <2>. QED
    BY <1>1, <2>1, <2>2 DEF OneAttacher
<1>. QED
  BY <1>2 DEF LeftFrozen

LEMMA AttachCallsLeft ==
  ASSUME OneAttacher, Typed, Rest, NEW c \in Clients, command[c] = "attach",
         DetachCalls(Client(c), "attCall")
  PROVE  LeftFrozen'
<1>. DEFINE t == Client(c)
<1>1. t \in Task /\ c \in Attachers
  BY TaskNames DEF Rest, AttachIsAttachers
<1>2. PICK a \in Sessions : agent = a /\ session = a /\ UNCHANGED <<sess, frozen>>
  BY TypedParts DEF DetachCalls, HubTyped, Rest, AgentIsSessions
<1>3. \A s \in Sessions : sess[s] = "live" => s = a
  BY <1>2 DEF Rest, SessionsEnd
<1>4. OtherHandlersKept(t)
  BY <1>1, DetachCallsGoesOn
<1>5. ASSUME NEW d \in Clients, pc'[Client(d)] = "attCall" PROVE d = c
  <2>1. CASE Client(d) = t
    BY <2>1, TaskNames
  <2>2. CASE Client(d) # t
    <3>1. pc[Client(d)] = "attCall"
      BY <1>4, <1>5, <2>2 DEF OtherHandlersKept
    <3>2. d \in Attachers
      BY <3>1 DEF Rest, AttachIsAttachers, AttachStates
    <3>. QED
      BY <1>1, <3>2 DEF OneAttacher
  <2>. QED
    BY <2>1, <2>2
<1>6. CASE sess[a] = "live"
  <2>1. calls' = [calls EXCEPT ![a] = Append(@, t)]
    BY <1>2, <1>6 DEF DetachCalls, CallAgent
  <2>. HIDE DEF t
  <2>2. Called(t, a)'
    BY <1>1, <1>2, <2>1, CallsAppend
  <2>. QED
    BY <1>2, <1>3, <1>5, <2>2 DEF LeftFrozen, t
<1>7. CASE sess[a] # "live"
  BY <1>2, <1>3, <1>7 DEF LeftFrozen
<1>. QED
  BY <1>6, <1>7

LEMMA HandlerLeft ==
  ASSUME OneAttacher, Typed, Rest, LeftFrozen, NEW c \in Clients,
         Attach(c) \/ Watch(c) \/ Call(c) \/ CallReturns(c) \/ Leave(c)
  PROVE  LeftFrozen'
<1>. DEFINE t == Client(c)
<1>1. /\ t \in Task /\ \A s \in Sessions : t # Poller(s) /\ t # Detacher(s)
      /\ \A d \in Clients : Client(d) = t => d = c
  BY TaskNames
<1>2. PICK at, ok : Turn(t, at, ok)
  BY HandlerHasTurn
<1>3. Finish(c) => \A x : x = pc'[t] => x # "attCall"
  <2>1. ASSUME NEW x \in {"recv", "leaving"}, pc' = [pc EXCEPT ![t] = x] PROVE pc'[t] # "attCall"
    BY <1>1, <2>1, PcIsTyped
  <2>. QED
    BY <2>1 DEF Finish
<1>4. CASE Attach(c)
  <2>1. command[c] = "attach"
    <3>1. command[c] = "attach" \/ pc[t] \in AttachStates
      BY <1>4 DEF Attach, AttachNow, AttachDetachesFirst, AttachCloses, AttachContinues,
                  AttachReturns, Turn, AttachStates
    <3>. QED
      BY <3>1 DEF Rest, AttachIsAttachers
  <2>2. ASSUME Attaching(c) PROVE LeftFrozen'
    BY <2>1, <2>2, AttachingGoesOn, AttachLeft
  <2>3. ASSUME NEW pcs \in {pc, PollerCancelled}, DetachCloses(t, "attStatus", pcs) PROVE LeftFrozen'
    <3>1. pc'[t] = "attStatus" /\ OtherHandlersKept(t)
      BY <1>1, <2>3, DetachClosesPc DEF OtherHandlersKept
    <3>. QED
      BY <2>1, <3>1, AttachLeft
  <2>4. CASE AttachNow(c) \/ AttachContinues(c)
    BY <2>2, <2>4 DEF AttachNow, AttachContinues, Attaching
  <2>5. CASE AttachDetachesFirst(c)
    BY <2>1, <2>3, <2>5, AttachCallsLeft DEF AttachDetachesFirst
  <2>6. CASE AttachCloses(c)
    BY <2>3, <2>6 DEF AttachCloses
  <2>7. CASE AttachReturns(c)
    <3>1. CASE Finish(c) /\ UNCHANGED <<sending, fridaVars>>
      BY <1>3, <2>1, <3>1, FinishGoesOn, AttachLeft DEF fridaVars
    <3>. QED
      BY <2>2, <2>7, <3>1 DEF AttachReturns, Attaching
  <2>. QED
    BY <1>4, <2>4, <2>5, <2>6, <2>7 DEF Attach
<1>5. CASE Watch(c) \/ CallReturns(c) \/ Call(c) \/ Leave(c)
  <2>1. /\ UNCHANGED <<sess, frozen>>
        /\ \A d \in Clients : Client(d) # t => command'[d] = command[d]
    <3>1. command' = command \/ command' = [command EXCEPT ![c] = NoCommand]
      BY <1>5 DEF Watch, CallReturns, Call, Leave, Finish
    <3>2. \A d \in Clients : d # c => command'[d] = command[d]
      BY <3>1, TypedParts DEF ClientsTyped
    <3>3. UNCHANGED <<sess, frozen>>
      BY <1>5 DEF Watch, CallReturns, Call, Leave, fridaVars
    <3>. QED
      BY <3>2, <3>3
  <2>2. CASE Finish(c) /\ UNCHANGED <<calls, sending>>
    <3>1. OtherHandlersKept(t) /\ (Resumes(t) \/ Requeues(t))
      BY <1>1, <2>2, FinishGoesOn DEF Finish, Resumes, Requeues
    <3>. QED
      BY <1>1, <1>2, <1>3, <2>1, <2>2, <3>1, TurnLeft
  <2>3. ASSUME NEW x \in {"call", "out"}, pc' = [pc EXCEPT ![t] = x],
               Resumes(t) \/ Requeues(t) \/ CallsAgent(t)
        PROVE  LeftFrozen'
    <3>1. OtherHandlersKept(t) /\ pc'[t] # "attCall"
      BY <1>1, <2>3, PcIsTyped, MovesOnly
    <3>. QED
      BY <1>1, <1>2, <2>1, <2>3, <3>1, TurnLeft
  <2>4. CASE Watch(c) \/ CallReturns(c)
    BY <2>2, <2>4 DEF Watch, CallReturns, fridaVars
  <2>5. CASE Call(c)
    <3>1. CASE agent = None
      BY <2>2, <2>5, <3>1 DEF Call
    <3>2. CASE agent # None
      <4>1. pc' = [pc EXCEPT ![t] = "call"] /\ CallAgent(t, Tail(ready)) /\ UNCHANGED sending
        BY <2>5, <3>2 DEF Call
      <4>2. CallsAgent(t) \/ Requeues(t)
        BY <3>2, <4>1, CallAgentGoesOn
      <4>. QED
        BY <2>3, <4>1, <4>2
    <3>. QED
      BY <3>1, <3>2
  <2>6. CASE Leave(c)
    <3>1. pc' = [pc EXCEPT ![t] = "out"] /\ Resumes(t)
      BY <2>6 DEF Leave, Resumes, fridaVars
    <3>. QED
      BY <2>3, <3>1
  <2>. QED
    BY <1>5, <2>4, <2>5, <2>6
<1>. QED
  BY <1>4, <1>5

LEMMA TaskLeft ==
  ASSUME Typed, Rest, LeftFrozen, NEW s \in Sessions, Detach(s) \/ Poll(s)
  PROVE  LeftFrozen'
<1>1. CASE Poll(s)
  <2>. DEFINE t == Poller(s)
  <2>1. t \in Task /\ \A c \in Clients : t # Client(c)
    BY TaskNames
  <2>2. PICK at, ok, x : Turn(t, at, ok) /\ pc' = [pc EXCEPT ![t] = x]
    BY <1>1, PollGoesOn
  <2>3. /\ Resumes(t) \/ Requeues(t) \/ CallsAgent(t) \/ Broadcasts(t)
        /\ UNCHANGED <<command, sess, frozen>>
    BY <1>1, PollGoesOn
  <2>4. OtherHandlersKept(t)
    BY <2>1, <2>2, PcIsTyped, MovesOnly
  <2>. QED
    BY <2>1, <2>2, <2>3, <2>4, TurnLeft
<1>2. CASE Detach(s)
  <2>. DEFINE t == Detacher(s)
  <2>1. /\ t \in Task /\ \A c \in Clients : t # Client(c)
        /\ \A r \in Sessions : t # Poller(r)
    BY TaskNames
  <2>2. PICK at, ok : Turn(t, at, ok)
    BY <1>2 DEF Detach, DetachStarts, DetachContinues, DetachReturns
  <2>3. CASE DetachCalls(t, "call")
    <3>1. /\ OtherHandlersKept(t) /\ (CallsAgent(t) \/ Requeues(t))
          /\ UNCHANGED <<command, sess, frozen>>
      BY <2>1, <2>3, DetachCallsGoesOn DEF DetachCalls
    <3>. QED
      BY <2>1, <2>2, <3>1, TurnLeft
  <2>4. ASSUME pc[t] \in {"queued", "call"}, NEW pcs \in {pc, PollerCancelled},
               DetachCloses(t, "bcast", pcs)
        PROVE  LeftFrozen'
    <3>1. session = None \/ sess[session] = "dead"
      BY <2>4, DetacherFinds DEF Pending
    <3>2. UNCHANGED <<command, sess, frozen>> /\ Broadcasts(t)
      BY <2>4, <3>1 DEF DetachCloses, Broadcasts, fridaVars
    <3>3. OtherHandlersKept(t)
      BY <2>1, <2>4, DetachClosesPc DEF OtherHandlersKept
    <3>. QED
      BY <2>1, <2>2, <3>2, <3>3, TurnLeft
  <2>5. CASE DetachReturns(s)
    <3>1. pc' = [pc EXCEPT ![t] = "done"] /\ Resumes(t) /\ UNCHANGED <<command, sess, frozen>>
      BY <2>5 DEF DetachReturns, Resumes, fridaVars
    <3>2. OtherHandlersKept(t)
      BY <2>1, <3>1, PcIsTyped, MovesOnly
    <3>. QED
      BY <2>1, <2>2, <3>1, <3>2, TurnLeft
  <2>6. CASE DetachStarts(s) /\ ~DetachCalls(t, "call")
    BY <2>4, <2>6 DEF DetachStarts, Turn
  <2>7. CASE DetachContinues(s)
    BY <2>4, <2>7 DEF DetachContinues, Turn
  <2>. QED
    BY <1>2, <2>3, <2>5, <2>6, <2>7 DEF Detach
<1>. QED
  BY <1>1, <1>2

\* Once the clear is answered, its handler has its turn before that of any
\* freeze the agent carries out after it.
LEMMA AnswerLeft ==
  ASSUME Typed, OnePlace, Rest, LeftFrozen, NEW s \in Sessions, Answer(s)
  PROVE  LeftFrozen'
<1>1. /\ sess[s] = "live" /\ calls[s] # <<>> /\ calls \in [Sessions -> Seq(Task)]
      /\ calls' = [calls EXCEPT ![s] = Tail(@)]
      /\ UNCHANGED <<sess, pc, command>> /\ frozen \in [Sessions -> SUBSET Clients]
      /\ ready \in Seq(Waking)
  BY AnswerIs, TypedParts DEF Typed, FridaTyped, QueuesTyped
<1>2. PICK v \in Task, ok \in BOOLEAN :
        /\ v = Head(calls[s])
        /\ ready' = Append(ready, Wake(v, ok))
        /\ frozen' = [frozen EXCEPT ![s] =
             IF Clears(v) THEN {} ELSE @ \cup {c \in Clients : v = Client(c) /\ Freezing(c)}]
  BY AnswerIs
<1>3. frozen'[s] = IF Clears(v) THEN {} ELSE frozen[s] \cup {c \in Clients : v = Client(c) /\ Freezing(c)}
  BY <1>1, <1>2
<1>4. \A r \in Sessions : sess[r] = "live" => r = s
  BY <1>1 DEF Rest, SessionsEnd
<1>5. Called(v, s)
  BY <1>1, <1>2, CallsTail
<1>6. \A t : /\ Queued(t, ready') <=> Queued(t, ready) \/ t = v
             /\ \A w : Ahead(t, w, ready) => Ahead(t, w, ready')
  <2>1. Wake(v, ok) \in Waking /\ Wake(v, ok).task = v
    BY WakeIsWaking DEF Wake
  <2>. QED
    BY <1>1, <1>2, <2>1, AppendQueue
<1>7. \A d \in Clients : Freezing(d)' <=> Freezing(d)
  BY <1>1 DEF Freezing
<1>. SUFFICES ASSUME NEW c \in Clients, pc[Client(c)] = "attCall"
              PROVE  \/ Called(Client(c), s)'
                     \/ /\ Queued(Client(c), ready')
                        /\ \A d \in frozen'[s] : Freezing(d)' /\ Ahead(Client(c), Client(d), ready')
  BY <1>1, <1>4 DEF LeftFrozen
<1>8. CASE v = Client(c)
  <2>1. Clears(v)
    BY <1>8 DEF Clears
  <2>. QED
    BY <1>3, <1>6, <1>8, <2>1
<1>9. CASE v # Client(c) /\ Called(Client(c), s)
  BY <1>1, <1>2, <1>9, CallsTailKeeps
<1>10. CASE v # Client(c) /\ ~Called(Client(c), s)
  <2>1. Queued(Client(c), ready) /\ \A d \in frozen[s] : Freezing(d) /\ Ahead(Client(c), Client(d), ready)
    BY <1>1, <1>10 DEF LeftFrozen
  <2>2. ASSUME NEW d \in frozen'[s] PROVE Freezing(d)' /\ Ahead(Client(c), Client(d), ready')
    <3>1. CASE d \in frozen[s]
      <4>1. d \in Clients
        BY <1>1, <3>1
      <4>. QED
        BY <1>6, <1>7, <2>1, <3>1, <4>1
    <3>2. CASE d \notin frozen[s]
      <4>1. d \in Clients /\ v = Client(d) /\ Freezing(d)
        BY <1>3, <2>2, <3>2
      <4>2. InCalls(v) /\ Placed(v)
        BY <1>5, <4>1 DEF InCalls, OnePlace
      <4>3. ~Queued(v, ready)
        BY <4>2 DEF Placed
      <4>4. Ahead(Client(c), v, ready)
        BY <1>1, <2>1, <4>3, QueuedAhead
      <4>. QED
        BY <1>6, <1>7, <4>1, <4>4
    <3>. QED
      BY <3>1, <3>2
  <2>. QED
    BY <1>6, <2>1, <2>2
<1>. QED
  BY <1>8, <1>9, <1>10

LEMMA LeftStep ==
  OneAttacher /\ Typed /\ OnePlace /\ Rest /\ LeftFrozen /\ [Next]_vars => LeftFrozen'
<1>. SUFFICES ASSUME OneAttacher, Typed, OnePlace, Rest, LeftFrozen, [Next]_vars
              PROVE  LeftFrozen'
  OBVIOUS
<1>1. CASE Loop
  BY <1>1, HandlerLeft, TaskLeft DEF Loop
<1>2. ready \in Seq(Waking)
  BY TypedParts DEF QueuesTyped
<1>3. ASSUME UNCHANGED <<sess, calls, frozen>>,
             ready' = ready \/ \E w \in Waking : ready' = Append(ready, w),
             \A c \in Clients :
               \/ pc'[Client(c)] = pc[Client(c)] /\ command'[c] = command[c]
               \/ pc[Client(c)] \in {"new", "recv"} /\ pc'[Client(c)] # "attCall"
      PROVE  LeftFrozen'
  <2>1. \A t, u : /\ Queued(t, ready) => Queued(t, ready')
                  /\ Ahead(t, u, ready) => Ahead(t, u, ready')
    <3>1. CASE ready' = ready
      BY <3>1
    <3>2. ASSUME NEW w \in Waking, ready' = Append(ready, w), NEW t, NEW u
          PROVE  /\ Queued(t, ready) => Queued(t, ready')
                 /\ Ahead(t, u, ready) => Ahead(t, u, ready')
      BY <1>2, <3>2, AppendQueue
    <3>. QED
      BY <1>3, <3>1, <3>2
  <2>2. \A d \in Clients : Freezing(d) => Freezing(d)'
    BY <1>3 DEF Freezing
  <2>3. ASSUME NEW c \in Clients, pc'[Client(c)] = "attCall" PROVE StillWaits(c)
    <3>1. pc[Client(c)] = "attCall"
      BY <1>3, <2>3
    <3>2. \A s \in Sessions : Called(Client(c), s) => Called(Client(c), s)'
      BY <1>3 DEF Called
    <3>. QED
      BY <2>1, <2>2, <3>1, <3>2 DEF StillWaits
  <2>. QED
    BY <1>3, <2>3, LeftKept
<1>4. ASSUME NEW t \in Task, BroadcastEnds(t) PROVE LeftFrozen'
  <2>1. \E w \in Waking : ready' = Append(ready, w)
    BY <1>4, WakeIsWaking DEF BroadcastEnds
  <2>2. UNCHANGED <<sess, calls, frozen>> /\ UNCHANGED <<pc, command>>
    BY <1>4 DEF BroadcastEnds, fridaVars
  <2>. QED
    BY <1>3, <2>1, <2>2
<1>5. ASSUME NEW s \in Sessions, Timer(s) PROVE LeftFrozen'
  <2>1. \A c \in Clients : pc'[Client(c)] = pc[Client(c)]
    BY <1>5, TaskNames, PcIsTyped DEF Timer
  <2>2. \E w \in Waking : ready' = Append(ready, w)
    BY <1>5, WakeIsWaking, TaskNames DEF Timer
  <2>3. UNCHANGED <<sess, calls, frozen>> /\ UNCHANGED command
    BY <1>5 DEF Timer, fridaVars
  <2>. QED
    BY <1>3, <2>1, <2>2, <2>3
<1>6. ASSUME NEW s \in Sessions, TargetExits(s) \/ Detached(s) PROVE LeftFrozen'
  <2>1. session = s /\ sess' \in [Sessions -> SessState] /\ sess'[s] # "live"
        /\ \A r \in Sessions : r # s => sess'[r] = sess[r]
    BY <1>6, TypedParts DEF TargetExits, Detached, SessionEnds, Rest, SessionsEnd, FridaTyped, SessState
  <2>2. \A r \in Sessions : sess'[r] # "live"
    BY <2>1 DEF Rest, SessionsEnd
  <2>. QED
    BY <2>2 DEF LeftFrozen
<1>7. ASSUME NEW c \in Clients, Connect(c) \/ Close(c) \/ \E m \in Requests : Send(c, m)
      PROVE  LeftFrozen'
  <2>. DEFINE Moves == /\ pc[Client(c)] \in {"new", "recv"}
                       /\ \E x \in {"recv", "queued", "leaving"} : pc' = [pc EXCEPT ![Client(c)] = x]
                       /\ \A d \in Clients : d # c => command'[d] = command[d]
  <2>1. UNCHANGED <<pc, command>> \/ Moves
    <3>1. CASE Connect(c)
      BY <3>1 DEF Connect
    <3>2. CASE Close(c)
      BY <3>2 DEF Close
    <3>3. ASSUME NEW m \in Requests, Send(c, m) PROVE Moves
      <4>1. \A d \in Clients : d # c => command'[d] = command[d]
        BY <3>3, TypedParts DEF Send, ClientsTyped
      <4>. QED
        BY <3>3, <4>1 DEF Send
    <3>. QED
      BY <1>7, <3>1, <3>2, <3>3
  <2>2. \A d \in Clients :
          \/ pc'[Client(d)] = pc[Client(d)] /\ command'[d] = command[d]
          \/ pc[Client(d)] \in {"new", "recv"} /\ pc'[Client(d)] # "attCall"
    BY <2>1, TaskNames, PcIsTyped
  <2>3. ready' = ready \/ \E w \in Waking : ready' = Append(ready, w)
    BY <1>7, WakeIsWaking, TaskNames DEF Connect, Close, Send
  <2>4. UNCHANGED <<sess, calls, frozen>>
    BY <1>7 DEF Connect, Close, Send, fridaVars
  <2>. QED
    BY <1>3, <2>2, <2>3, <2>4
<1>8. CASE UNCHANGED vars
  <2>1. UNCHANGED <<sess, calls, frozen>> /\ UNCHANGED <<pc, command, ready>>
    BY <1>8 DEF vars, fridaVars
  <2>. QED
    BY <1>3, <2>1
<1>. QED
  BY <1>1, <1>4, <1>5, <1>6, <1>7, <1>8, AnswerLeft DEF Next

\* Whatever other UIs freeze meanwhile, a session that hub.py's attach closes
\* while its target runs holds no freeze whose handler has returned: detach has
\* awaited the clear, and a freeze that the agent carried out later has its
\* handler's turn still to come.
THEOREM ReturnedFreezesAreCleared == ASSUME OneAttacher PROVE Spec => ReturnedFreezesCleared
<1>. DEFINE Cleared ==
       \A s \in Sessions :
         sess[s] = "live" /\ sess'[s] = "dead" /\ session' # session
           => \A c \in frozen[s] : Freezing(c)
            LInv == IInv /\ LeftFrozen
<1>1. Init => LInv
  <2>1. Init => LeftFrozen
    <3>1. Init => \A c \in Clients : pc[Client(c)] = "new"
      BY TaskNames DEF Init, Client
    <3>. QED
      BY <3>1 DEF LeftFrozen
  <2>. QED
    BY <2>1, InitTyped, InitOnePlace, InitRest DEF IInv
<1>2. LInv /\ [Next]_vars => LInv'
  BY StepTyped, OnePlaceStep, RestStep, LeftStep DEF IInv
<1>3. LInv /\ [Next]_vars => [Cleared]_vars
  <2>. SUFFICES ASSUME IInv, LeftFrozen, [Next]_vars, NEW s \in Sessions,
                       sess[s] = "live", sess'[s] = "dead", session' # session
                PROVE  \A c \in frozen[s] : Freezing(c)
    OBVIOUS
  <2>1. Typed /\ OnePlace /\ Rest
    BY DEF IInv
  <2>2. session = s /\ s # None
    BY <2>1, NoneIsNoSession DEF Rest, SessionsEnd
  <2>3. ASSUME NEW c \in Clients, Attach(c) PROVE \A d \in frozen[s] : Freezing(d)
    <3>1. CASE AttachCloses(c)
      <4>1. PICK ok \in BOOLEAN : Turn(Client(c), "attCall", ok)
        BY <3>1 DEF AttachCloses
      <4>2. ~InCalls(Client(c)) /\ pc[Client(c)] = "attCall"
        BY <2>1, <4>1, TaskNames, TurnFrees DEF OnePlace, Turn
      <4>. QED
        BY <4>2 DEF LeftFrozen, InCalls
    <3>2. CASE AttachDetachesFirst(c)
      <4>1. agent = None
        BY <3>2 DEF AttachDetachesFirst, DetachCalls
      <4>2. frozen[s] = {}
        BY <2>1, <2>2, <4>1 DEF Rest, FrozenByAgent
      <4>. QED
        BY <4>2
    <3>3. CASE AttachNow(c) \/ AttachContinues(c) \/ AttachReturns(c)
      <4>1. ~AttachError(c) /\ ~UNCHANGED hubVars
        BY DEF AttachError, hubVars
      <4>2. session = None
        BY <2>1, <3>3, <4>1 DEF AttachNow, AttachContinues, AttachReturns, Turn, Rest, ClosingStoppedPolling
      <4>. QED
        BY <2>2, <4>2
    <3>. QED
      BY <2>3, <3>1, <3>2, <3>3 DEF Attach
  <2>4. ASSUME NEW r \in Sessions, Detach(r), sess'[s] = "dead" PROVE FALSE
    <3>1. \E at \in {"queued", "call"}, ok \in BOOLEAN : Turn(Detacher(r), at, ok)
      BY <2>4 DEF Detach, DetachStarts, DetachContinues, DetachReturns, hubVars
    <3>2. session \in {r, None} /\ sess[r] = "dead"
      BY <2>1, <3>1, DetacherFinds DEF Turn, Pending
    <3>. QED
      BY <2>2, <3>2
  <2>. QED
    BY <2>1, <2>3, <2>4, SessionChangers
<1>4. Spec => [][Cleared]_vars
  BY <1>1, <1>2, <1>3, PTL DEF Spec
<1>. QED
  BY <1>4 DEF ReturnedFreezesCleared

=============================================================================
