-------------------------------- MODULE Hub --------------------------------
(***************************************************************************)
(* The hub: hub.py and the WebSocket handler of server.py.  One asyncio    *)
(* loop runs the handler of each client, the poll loop of each attach and  *)
(* a detach task for each Frida session that has ended; the Frida thread   *)
(* completes their calls to the agent, emits "detached" and so creates the *)
(* detach tasks, and the network completes their broadcasts.               *)
(*                                                                         *)
(* The loop is its FIFO queue of tasks to resume, and a step runs the task *)
(* at the head up to its next await: nothing in hub.py is locked, so what  *)
(* holds depends on that order.  The agent answers its calls in order (one *)
(* JavaScript thread).  A call to a destroyed script fails in two turns of *)
(* the loop where a broadcast takes at least three, so it is queued at     *)
(* once.  A UI that reconnects is another client.                          *)
(***************************************************************************)
EXTENDS Integers, Sequences, FiniteSets

CONSTANTS
  Clients,        \* UIs that may connect
  Attachers,      \* those that send attach
  MaxSessions,    \* bound: Frida sessions the provider can open
  Requests,       \* messages the UIs send, of those the hub acts on
  Addresses,      \* addresses that may be watched
  Leavers,        \* those whose connection may close
  ReadsThrow      \* whether getScanResults may meet an unmapped page and throw

ASSUME HubAssumption ==
  /\ Attachers \subseteq Clients
  /\ Requests \subseteq {"attach", "watch", "unwatch", "freeze", "call"}
  /\ MaxSessions \in Nat
  /\ Leavers \subseteq Clients
  /\ ReadsThrow \in BOOLEAN

Sessions == 1..MaxSessions
None == 0

Client(c) == <<"client", c>>
Detacher(s) == <<"detach", s>>
Poller(s) == <<"poll", s>>
Task == {Client(c) : c \in Clients} \cup {Detacher(s) : s \in Sessions}
          \cup {Poller(s) : s \in Sessions}

NoCommand == "none"

VARIABLES
  session,      \* Hub.session
  agent,        \* Hub.agent, by the session its script belongs to
  polling,      \* Hub.polling_task, by the attach that created it
  watchList,    \* Hub.watch_list
  open,         \* clients whose connection is open
  pc,           \* the await each task is at
  command,      \* the message each client's handler is serving
  ready,        \* the loop's queue: a task, and how its await ended
  sending,      \* broadcasts under way
  sess,         \* state of each Frida session
  calls,        \* tasks whose calls each agent has not answered
  frozen        \* UIs whose freezes each agent's freezer holds

hubVars == <<session, agent, polling, watchList>>
fridaVars == <<sess, calls, frozen>>
vars == <<hubVars, open, pc, command, ready, sending, fridaVars>>

(* Hub.clients: registered until the handler returns, open or not. *)
Registered == {c \in Clients : pc[Client(c)] \notin {"new", "out"}}

Wake(t, ok) == [task |-> t, ok |-> ok]

Init ==
  /\ session = None
  /\ agent = None
  /\ polling = None
  /\ watchList = {}
  /\ open = {}
  /\ pc = [t \in Task |-> IF t[1] = "client" THEN "new" ELSE "none"]
  /\ command = [c \in Clients |-> NoCommand]
  /\ ready = <<>>
  /\ sending = {}
  /\ sess = [s \in Sessions |-> "new"]
  /\ calls = [s \in Sessions |-> <<>>]
  /\ frozen = [s \in Sessions |-> {}]

-----------------------------------------------------------------------------
(* What tasks share. *)

(* Task t has the turn, its last await having ended well or raised. *)
Turn(t, at, ok) ==
  /\ ready # <<>>
  /\ Head(ready) = Wake(t, ok)
  /\ pc[t] = at

(* Seeded fault: a call to a destroyed script is left pending. *)
CallAgentUnchecked(t, queue) ==
  /\ calls' = [calls EXCEPT ![agent] = Append(@, t)]
  /\ ready' = queue

(* await self.agent....(), with queue the turns left after this one. *)
CallAgent(t, queue) ==
  IF sess[agent] = "live"
    THEN /\ calls' = [calls EXCEPT ![agent] = Append(@, t)]
         /\ ready' = queue
    ELSE /\ ready' = Append(queue, Wake(t, FALSE))
         /\ UNCHANGED calls

(* broadcast sends to every registered client at once and raises if any of *)
(* the sends does.                                                         *)
Broadcast(t) ==
  sending' = sending \cup {[task |-> t, to |-> Registered,
                            doomed |-> ~(Registered \subseteq open)]}

(* Seeded fault: the poll loop is not cancelled. *)
PollerKept == pc

(* polling_task.cancel(): the task does not get past its await. *)
PollerCancelled ==
  IF polling = None THEN pc ELSE [pc EXCEPT ![Poller(polling)] = "done"]

(* detach up to the call that clears the freezer. *)
DetachCalls(t, at) ==
  /\ agent # None
  /\ polling' = None
  /\ pc' = [PollerCancelled EXCEPT ![t] = at]
  /\ CallAgent(t, Tail(ready))
  /\ UNCHANGED <<session, agent, watchList, open, command, sending, sess, frozen>>

(* Closing a session destroys its script, which fails the calls it has not *)
(* answered, and emits "detached"; the new task gets its turn before the   *)
(* callers do.                                                             *)
FailedCalls(s) == [i \in 1..Len(calls[s]) |-> Wake(calls[s][i], FALSE)]

SessionEnds(s, queue) ==
  /\ sess' = [sess EXCEPT ![s] = "dead"]
  /\ calls' = [calls EXCEPT ![s] = <<>>]
  /\ frozen' = [frozen EXCEPT ![s] = {}]
  /\ ready' = queue \o <<Wake(Detacher(s), TRUE)>> \o FailedCalls(s)

(* Seeded fault: session.detach() is not called. *)
DetachForgets(t, at, pcs) ==
  /\ pc' = [pcs EXCEPT ![t] = at]
  /\ ready' = Tail(ready)
  /\ session' = None
  /\ agent' = None
  /\ Broadcast(t)
  /\ UNCHANGED <<watchList, open, command, fridaVars>>

(* Seeded fault: detach waits for "detached" to be emitted later. *)
DetachClosesLate(t, at, pcs) ==
  /\ pc' = [pcs EXCEPT ![t] = at]
  /\ IF session = None \/ sess[session] # "live"
       THEN ready' = Tail(ready) /\ UNCHANGED fridaVars
       ELSE /\ sess' = [sess EXCEPT ![session] = "dying"]
            /\ calls' = [calls EXCEPT ![session] = <<>>]
            /\ ready' = Tail(ready) \o FailedCalls(session)
            /\ UNCHANGED frozen
  /\ session' = None
  /\ agent' = None
  /\ Broadcast(t)
  /\ UNCHANGED <<watchList, open, command>>

(* Seeded fault: Hub.agent is not reset. *)
DetachKeepsAgent(t, at, pcs) ==
  /\ IF session = None \/ sess[session] = "dead"
       THEN /\ pc' = [pcs EXCEPT ![t] = at]
            /\ ready' = Tail(ready)
            /\ UNCHANGED fridaVars
       ELSE /\ pc' = [pcs EXCEPT ![t] = at, ![Detacher(session)] = "queued"]
            /\ SessionEnds(session, Tail(ready))
  /\ session' = None
  /\ Broadcast(t)
  /\ UNCHANGED <<agent, watchList, open, command>>

(* Seeded fault: the session's end is emitted when there is none. *)
DetachClosesNothing(t, at, pcs) ==
  /\ pc' = [pcs EXCEPT ![t] = at]
  /\ ready' = Append(Tail(ready), Wake(Detacher(session), TRUE))
  /\ session' = None
  /\ agent' = None
  /\ Broadcast(t)
  /\ UNCHANGED <<watchList, open, command, fridaVars>>

(* detach from session.detach() on. *)
DetachCloses(t, at, pcs) ==
  /\ IF session = None \/ sess[session] = "dead"
       THEN /\ pc' = [pcs EXCEPT ![t] = at]
            /\ ready' = Tail(ready)
            /\ UNCHANGED fridaVars
       ELSE /\ pc' = [pcs EXCEPT ![t] = at, ![Detacher(session)] = "queued"]
            /\ SessionEnds(session, Tail(ready))
  /\ session' = None
  /\ agent' = None
  /\ Broadcast(t)
  /\ UNCHANGED <<watchList, open, command>>

(* The handler goes back to its messages, or finds its connection closed.  *)
Finish(c) ==
  /\ command' = [command EXCEPT ![c] = NoCommand]
  /\ IF c \in open
       THEN pc' = [pc EXCEPT ![Client(c)] = "recv"] /\ ready' = Tail(ready)
       ELSE /\ pc' = [pc EXCEPT ![Client(c)] = "leaving"]
            /\ ready' = Append(Tail(ready), Wake(Client(c), TRUE))

-----------------------------------------------------------------------------
(* attach *)

AttachError(c) ==
  /\ pc' = [pc EXCEPT ![Client(c)] = "attError"]
  /\ ready' = Tail(ready)
  /\ Broadcast(Client(c))
  /\ UNCHANGED <<hubVars, open, command, fridaVars>>

Fresh(s) == sess[s] = "new" /\ \A r \in 1..s-1 : sess[r] # "new"

(* create_script or load raises after Hub.session is set.  A process that  *)
(* dies before the "detached" handler is set emits it to nobody.           *)
LoadFails(c) ==
  \E s \in Sessions, state \in {"live", "dead"} :
    /\ Fresh(s)
    /\ sess' = [sess EXCEPT ![s] = state]
    /\ session' = s
    /\ pc' = [pc EXCEPT ![Client(c)] = "attError"]
    /\ ready' = Tail(ready)
    /\ Broadcast(Client(c))
    /\ UNCHANGED <<agent, polling, watchList, open, command, calls, frozen>>

LoadSucceeds(c) ==
  \E s \in Sessions :
    /\ Fresh(s)
    /\ sess' = [sess EXCEPT ![s] = "live"]
    /\ session' = s
    /\ agent' = s
    /\ polling' = s
    /\ pc' = [pc EXCEPT ![Client(c)] = "attached", ![Poller(s)] = "queued"]
    /\ ready' = Append(Tail(ready), Wake(Poller(s), TRUE))
    /\ Broadcast(Client(c))
    /\ UNCHANGED <<watchList, open, command, calls, frozen>>

(* AttachError: the provider raises, or the session bound is reached. *)
Attaching(c) == AttachError(c) \/ LoadFails(c) \/ LoadSucceeds(c)

AttachNow(c) ==
  /\ Turn(Client(c), "queued", TRUE)
  /\ command[c] = "attach"
  /\ session = None
  /\ Attaching(c)

(* Seeded fault: attach closes the session without clearing the freezer. *)
AttachDropsFirst(c) ==
  /\ Turn(Client(c), "queued", TRUE)
  /\ command[c] = "attach"
  /\ session # None
  /\ polling' = None
  /\ DetachCloses(Client(c), "attStatus", PollerCancelled)

(* "If we're already attached, we detach." *)
AttachDetachesFirst(c) ==
  /\ Turn(Client(c), "queued", TRUE)
  /\ command[c] = "attach"
  /\ session # None
  /\ \/ DetachCalls(Client(c), "attCall")
     \/ /\ agent = None
        /\ polling' = None
        /\ DetachCloses(Client(c), "attStatus", PollerCancelled)

AttachCloses(c) ==
  /\ \E ok \in BOOLEAN : Turn(Client(c), "attCall", ok)
  /\ DetachCloses(Client(c), "attStatus", pc)
  /\ UNCHANGED polling

AttachContinues(c) ==
  \/ Turn(Client(c), "attStatus", TRUE) /\ Attaching(c)
  \/ Turn(Client(c), "attStatus", FALSE) /\ AttachError(c)

AttachReturns(c) ==
  \/ /\ \/ Turn(Client(c), "attached", TRUE)
        \/ \E ok \in BOOLEAN : Turn(Client(c), "attError", ok)
     /\ Finish(c)
     /\ UNCHANGED <<hubVars, open, sending, fridaVars>>
  \/ Turn(Client(c), "attached", FALSE) /\ AttachError(c)

Attach(c) ==
  AttachNow(c) \/ AttachDetachesFirst(c) \/ AttachCloses(c)
    \/ AttachContinues(c) \/ AttachReturns(c)

-----------------------------------------------------------------------------
(* The other messages of handle_message that change state. *)

(* Adding to and removing from the watch list needs an agent, though it    *)
(* does not call it.                                                       *)
Watch(c) ==
  /\ Turn(Client(c), "queued", TRUE)
  /\ command[c] \in {"watch", "unwatch"}
  /\ IF agent = None
       THEN UNCHANGED watchList
       ELSE \E a \in Addresses :
              watchList' = IF command[c] = "watch" THEN watchList \cup {a}
                           ELSE watchList \ {a}
  /\ Finish(c)
  /\ UNCHANGED <<session, agent, polling, open, sending, fridaVars>>

(* A call handed to the agent: add_freeze, or any other. *)
Call(c) ==
  /\ Turn(Client(c), "queued", TRUE)
  /\ command[c] \in {"freeze", "call"}
  /\ IF agent = None
       THEN Finish(c) /\ UNCHANGED calls
       ELSE /\ pc' = [pc EXCEPT ![Client(c)] = "call"]
            /\ CallAgent(Client(c), Tail(ready))
            /\ UNCHANGED command
  /\ UNCHANGED <<hubVars, open, sending, sess, frozen>>

(* The UI has asked for a freeze and has had no reply yet. *)
Freezing(c) == pc[Client(c)] = "call" /\ command[c] = "freeze"

CallReturns(c) ==
  /\ \E ok \in BOOLEAN : Turn(Client(c), "call", ok)
  /\ Finish(c)
  /\ UNCHANGED <<hubVars, open, sending, fridaVars>>

(* The handler's finally clause. *)
Leave(c) ==
  /\ Turn(Client(c), "leaving", TRUE)
  /\ pc' = [pc EXCEPT ![Client(c)] = "out"]
  /\ ready' = Tail(ready)
  /\ UNCHANGED <<hubVars, open, command, sending, fridaVars>>

-----------------------------------------------------------------------------
(* detach, run by the task that detach_sync creates. *)

DetachStarts(s) ==
  /\ Turn(Detacher(s), "queued", TRUE)
  /\ \/ DetachCalls(Detacher(s), "call")
     \/ /\ agent = None
        /\ polling' = None
        /\ DetachCloses(Detacher(s), "bcast", PollerCancelled)

DetachContinues(s) ==
  /\ \E ok \in BOOLEAN : Turn(Detacher(s), "call", ok)
  /\ DetachCloses(Detacher(s), "bcast", pc)
  /\ UNCHANGED polling

DetachReturns(s) ==
  /\ \E ok \in BOOLEAN : Turn(Detacher(s), "bcast", ok)
  /\ pc' = [pc EXCEPT ![Detacher(s)] = "done"]
  /\ ready' = Tail(ready)
  /\ UNCHANGED <<hubVars, open, command, sending, fridaVars>>

Detach(s) == DetachStarts(s) \/ DetachContinues(s) \/ DetachReturns(s)

-----------------------------------------------------------------------------
(* _poll_loop.  It uses whatever Hub.agent is when it looks, and any       *)
(* exception ends it.                                                      *)

PollStops(s, at) ==
  /\ pc' = [pc EXCEPT ![Poller(s)] = at]
  /\ ready' = Tail(ready)
  /\ UNCHANGED <<hubVars, open, command, sending, fridaVars>>

(* Without an agent the loop breaks, at its top or by the exception of the *)
(* call.                                                                   *)
PollCalls(s, at) ==
  IF agent = None THEN PollStops(s, "done")
  ELSE /\ pc' = [pc EXCEPT ![Poller(s)] = at]
       /\ CallAgent(Poller(s), Tail(ready))
       /\ UNCHANGED <<hubVars, open, command, sending, sess, frozen>>

PollBroadcasts(s, at) ==
  /\ pc' = [pc EXCEPT ![Poller(s)] = at]
  /\ ready' = Tail(ready)
  /\ Broadcast(Poller(s))
  /\ UNCHANGED <<hubVars, open, command, fridaVars>>

(* Seeded fault: the watch list is never asked for. *)
PollTopUnwatched(s) ==
  /\ Turn(Poller(s), "queued", TRUE)
  /\ PollCalls(s, "results")

PollTop(s) ==
  /\ Turn(Poller(s), "queued", TRUE)
  /\ \/ watchList # {} /\ PollCalls(s, "read")
     \/ watchList = {} /\ PollCalls(s, "results")

(* read_batch catches what each address throws; the script may be gone. *)
PollRead(s) ==
  \/ Turn(Poller(s), "read", TRUE) /\ PollBroadcasts(s, "watched")
  \/ Turn(Poller(s), "read", FALSE) /\ PollStops(s, "done")

PollWatched(s) ==
  \/ Turn(Poller(s), "watched", TRUE) /\ PollCalls(s, "results")
  \/ Turn(Poller(s), "watched", FALSE) /\ PollStops(s, "done")

(* Only results that are not empty are broadcast. *)
PollResults(s) ==
  \/ Turn(Poller(s), "results", TRUE)
       /\ (PollBroadcasts(s, "top") \/ PollStops(s, "sleep"))
  \/ Turn(Poller(s), "results", FALSE) /\ PollStops(s, "done")

PollSleeps(s) ==
  \/ Turn(Poller(s), "top", TRUE) /\ PollStops(s, "sleep")
  \/ Turn(Poller(s), "top", FALSE) /\ PollStops(s, "done")

(* The turn of a poller that was cancelled while it waited. *)
PollCancelled(s) ==
  /\ \E ok \in BOOLEAN : Turn(Poller(s), "done", ok)
  /\ PollStops(s, "done")

Poll(s) ==
  PollTop(s) \/ PollRead(s) \/ PollWatched(s) \/ PollResults(s)
    \/ PollSleeps(s) \/ PollCancelled(s)

-----------------------------------------------------------------------------
(* Outside the loop: the timer, the network, the agent, the UIs and the    *)
(* target process.                                                         *)

Timer(s) ==
  /\ pc[Poller(s)] = "sleep"
  /\ pc' = [pc EXCEPT ![Poller(s)] = "queued"]
  /\ ready' = Append(ready, Wake(Poller(s), TRUE))
  /\ UNCHANGED <<hubVars, open, command, sending, fridaVars>>

BroadcastEnds(t) ==
  \E b \in sending, ok \in BOOLEAN :
    /\ b.task = t
    /\ IF ok THEN ~b.doomed ELSE ~(b.to \subseteq open)
    /\ sending' = sending \ {b}
    /\ ready' = Append(ready, Wake(t, ok))
    /\ UNCHANGED <<hubVars, open, pc, command, fridaVars>>

(* The agent answers its oldest call, having done what it says. *)
Answer(s) ==
  /\ sess[s] = "live" /\ calls[s] # <<>>
  /\ LET t == Head(calls[s])
         ClearsFreezer == pc[t] = "attCall" \/ (t[1] = "detach" /\ pc[t] = "call")
         Freezer == {c \in Clients : t = Client(c) /\ Freezing(c)}
     IN /\ frozen' = [frozen EXCEPT ![s] = IF ClearsFreezer THEN {} ELSE @ \cup Freezer]
        /\ \/ ready' = Append(ready, Wake(t, TRUE))
           \/ /\ ReadsThrow
              /\ pc[t] = "results"
              /\ ready' = Append(ready, Wake(t, FALSE))
  /\ calls' = [calls EXCEPT ![s] = Tail(@)]
  /\ UNCHANGED <<hubVars, open, pc, command, sending, sess>>

(* The target exits.  The loop sees the script's end and the session's at  *)
(* once, or the script's first.                                            *)
TargetExits(s) ==
  /\ sess[s] = "live"
  /\ \/ /\ SessionEnds(s, ready)
        /\ pc' = [pc EXCEPT ![Detacher(s)] = "queued"]
     \/ /\ sess' = [sess EXCEPT ![s] = "dying"]
        /\ calls' = [calls EXCEPT ![s] = <<>>]
        /\ ready' = ready \o FailedCalls(s)
        /\ UNCHANGED <<pc, frozen>>
  /\ UNCHANGED <<hubVars, open, command, sending>>

(* Seeded fault: nobody listens for "detached". *)
DetachedUnheard(s) ==
  /\ sess[s] = "dying"
  /\ sess' = [sess EXCEPT ![s] = "dead"]
  /\ UNCHANGED <<hubVars, open, pc, command, ready, sending, calls, frozen>>

Detached(s) ==
  /\ sess[s] = "dying"
  /\ SessionEnds(s, ready)
  /\ pc' = [pc EXCEPT ![Detacher(s)] = "queued"]
  /\ UNCHANGED <<hubVars, open, command, sending>>

Connect(c) ==
  /\ pc[Client(c)] = "new"
  /\ pc' = [pc EXCEPT ![Client(c)] = "recv"]
  /\ open' = open \cup {c}
  /\ UNCHANGED <<hubVars, command, ready, sending, fridaVars>>

Send(c, m) ==
  /\ c \in open
  /\ pc[Client(c)] = "recv"
  /\ m = "attach" => c \in Attachers
  /\ command' = [command EXCEPT ![c] = m]
  /\ pc' = [pc EXCEPT ![Client(c)] = "queued"]
  /\ ready' = Append(ready, Wake(Client(c), TRUE))
  /\ UNCHANGED <<hubVars, open, sending, fridaVars>>

Close(c) ==
  /\ c \in Leavers \cap open
  /\ open' = open \ {c}
  /\ IF pc[Client(c)] = "recv"
       THEN /\ pc' = [pc EXCEPT ![Client(c)] = "leaving"]
            /\ ready' = Append(ready, Wake(Client(c), TRUE))
       ELSE UNCHANGED <<pc, ready>>
  /\ UNCHANGED <<hubVars, command, sending, fridaVars>>

-----------------------------------------------------------------------------

Loop ==
  \/ \E c \in Clients : Attach(c) \/ Watch(c) \/ Call(c) \/ CallReturns(c) \/ Leave(c)
  \/ \E s \in Sessions : Detach(s) \/ Poll(s)

Next ==
  \/ Loop
  \/ \E t \in Task : BroadcastEnds(t)
  \/ \E s \in Sessions : Timer(s) \/ Answer(s) \/ TargetExits(s) \/ Detached(s)
  \/ \E c \in Clients :
       Connect(c) \/ Close(c) \/ \E m \in Requests : Send(c, m)

Spec == Init /\ [][Next]_vars

(* The loop runs, timers fire, broadcasts end (a connection that stops     *)
(* reading is closed by its keepalive), a live agent answers, and a script *)
(* that is destroyed has its session's end emitted.  Nobody has to send a  *)
(* message, leave or exit.                                                 *)
Fairness ==
  /\ WF_vars(Loop)
  /\ \A t \in Task : WF_vars(BroadcastEnds(t))
  /\ \A s \in Sessions : WF_vars(Timer(s)) /\ WF_vars(Answer(s)) /\ WF_vars(Detached(s))

FairSpec == Spec /\ Fairness

-----------------------------------------------------------------------------
(* Types of the variables; only tasks that exist are woken or called back. *)
TypeOK ==
  /\ session \in Sessions \cup {None}
  /\ agent \in Sessions \cup {None}
  /\ polling \in Sessions \cup {None}
  /\ watchList \subseteq Addresses
  /\ open \subseteq Clients
  /\ \A c \in Clients :
       pc[Client(c)] \in {"new", "recv", "queued", "attCall", "attStatus", "attached",
                          "attError", "call", "leaving", "out"}
  /\ \A s \in Sessions :
       /\ pc[Detacher(s)] \in {"none", "queued", "call", "bcast", "done"}
       /\ pc[Poller(s)] \in {"none", "queued", "read", "watched", "results", "top",
                             "sleep", "done"}
       /\ sess[s] \in {"new", "live", "dying", "dead"}
       /\ calls[s] \in Seq(Task)
  /\ command \in [Clients -> Requests \cup {NoCommand}]
  /\ ready \in Seq([task : Task, ok : BOOLEAN])
  /\ \A b \in sending : b.task \in Task /\ b.to \subseteq Clients /\ b.doomed \in BOOLEAN
  /\ frozen \in [Sessions -> SUBSET Clients]

(* "Manages the Frida session": a session that is open is the hub's, so    *)
(* that the next attach or detach closes it; no agent is left in a target  *)
(* nobody can reach.                                                       *)
OpenSessionIsHubs == \A s \in Sessions : sess[s] = "live" => session = s

(* At most one poll loop runs, the one the next detach cancels, so clients *)
(* never get the values of two targets interleaved.                        *)
RunningPollerIsHubs ==
  \A s \in Sessions : pc[Poller(s)] \notin {"none", "done"} => polling = s

(* Calls go to the script of the hub's own session, never to one left from *)
(* an earlier attach.                                                      *)
AgentIsSessions == agent # None => agent = session

(* The detach task of a session that has ended never tears down the        *)
(* session of a later attach: "detached" names no session, and its task    *)
(* detaches whatever the hub is attached to when it runs.                  *)
StaleDetachHarmless ==
  [][\A s \in Sessions :
       (\E ok \in BOOLEAN, at \in {"queued", "call"} : Turn(Detacher(s), at, ok))
          /\ session' # session => session = s]_vars

(* When the hub closes a session whose target lives, every freeze that a   *)
(* UI has had its reply for is released first, whichever UI it was.  What  *)
(* may be left in the target is a freeze that the agent has carried out    *)
(* after the clear and whose handler still waits for its turn: the detach  *)
(* does not wait for it, and nobody can release it any more.               *)
ReturnedFreezesCleared ==
  [][\A s \in Sessions :
       sess[s] = "live" /\ sess'[s] = "dead" /\ session' # session
         => \A c \in frozen[s] : Freezing(c)]_vars

(* Every message a client sends is dealt with, whatever the target does    *)
(* meanwhile: no handler waits for a call nobody will answer or fail.      *)
HandlersReturn ==
  \A c \in Clients :
    pc[Client(c)] \notin {"new", "recv", "out"} ~> pc[Client(c)] \in {"recv", "out"}

(* The hub does not stay attached to an agent whose target is gone. *)
DeadAgentDropped ==
  \A s \in Sessions : agent = s /\ sess[s] # "live" ~> agent # s

(* "Polls the agent for updates, such as new values in watched memory      *)
(* addresses": while the hub is attached and something is watched, the     *)
(* watch list is read again and again, however attaches, detaches and ends *)
(* of targets interleave.  A UI that has closed its connection may have    *)
(* ended the loop, by the exception its broadcast raises.                  *)
WatchListPolled ==
  \A s \in Sessions :
    (agent = s /\ watchList # {})
      ~> \/ agent # s \/ watchList = {} \/ pc[Poller(s)] = "watched"
         \/ \E c \in Clients : c \notin open /\ pc[Client(c)] # "new"

=============================================================================
