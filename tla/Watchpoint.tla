----------------------------- MODULE Watchpoint -----------------------------
(***************************************************************************)
(* Watchpoints, from the hub's handler to the target's main thread: the    *)
(* set- and clear-watchpoint messages of hub.py, watchpoint.ts in the      *)
(* agent, debug register 0 of the watched thread, and the exception        *)
(* handler that runs on that thread when it traps.                         *)
(*                                                                         *)
(* The agent's functions and its exception handler exclude each other (the *)
(* JavaScript lock), so each is one step; the trap, its handler, and the   *)
(* delivery of a message and of a reply to the hub are steps of their own. *)
(* The condition (read or write) and the size are left out, and the main   *)
(* thread does not exit.                                                   *)
(***************************************************************************)
EXTENDS Integers, Sequences

CONSTANTS
  Addr,      \* addresses that may be watched
  NoAddr     \* no address: null, or an exception that is no watchpoint's

ASSUME WatchpointAssumption == NoAddr \notin Addr

VARIABLES
  watchpointActive,   \* watchpointActive of watchpoint.ts
  watchedThread,      \* whether watchedThreadId names the main thread
  handlerAddr,        \* address in the closure of the exception handler set last
  debugRegister,      \* what debug register 0 of the main thread watches
  thread,             \* the main thread, and the access it trapped at
  outbox,             \* messages and replies from the agent, in order
  hubPc,              \* the hub's handler: idle, calling the agent, to resume
  serving,            \* the message it serves
  active_watchpoint   \* Hub.active_watchpoint

agentVars == <<watchpointActive, watchedThread, handlerAddr, debugRegister>>
hubVars == <<hubPc, serving, active_watchpoint>>
vars == <<agentVars, thread, outbox, hubVars>>

Clear == [op |-> "clear", address |-> NoAddr]
Set(a) == [op |-> "set", address |-> a]
Reply == [type |-> "reply", address |-> NoAddr]
Hit(a) == [type |-> "watchpoint-hit", address |-> a]

Init ==
  /\ watchpointActive = FALSE
  /\ watchedThread = FALSE
  /\ handlerAddr = NoAddr
  /\ debugRegister = NoAddr
  /\ thread = [state |-> "running", at |-> NoAddr]
  /\ outbox = <<>>
  /\ hubPc = "idle"
  /\ serving = Clear
  /\ active_watchpoint = NoAddr

-----------------------------------------------------------------------------
(* The hub's handler, one message at a time. *)

HandleMessage(m) ==
  /\ hubPc = "idle"
  /\ hubPc' = "calling"
  /\ serving' = m
  /\ UNCHANGED <<agentVars, thread, outbox, active_watchpoint>>

(* Seeded fault: set-watchpoint does not replace an address it finds there. *)
HandlerResumesKeeping ==
  /\ hubPc = "answered"
  /\ hubPc' = "idle"
  /\ active_watchpoint' = IF serving.op = "set" /\ active_watchpoint # NoAddr
                            THEN active_watchpoint ELSE serving.address
  /\ serving' = Clear
  /\ UNCHANGED <<agentVars, thread, outbox>>

(* active_watchpoint is set when the awaiting handler gets its turn again. *)
HandlerResumes ==
  /\ hubPc = "answered"
  /\ hubPc' = "idle"
  /\ active_watchpoint' = serving.address
  /\ serving' = Clear
  /\ UNCHANGED <<agentVars, thread, outbox>>

(* The Frida thread takes what the agent sent: a reply is passed on to the *)
(* loop, a hit resets active_watchpoint there and then.                    *)
TakeReply ==
  /\ outbox # <<>> /\ Head(outbox).type = "reply"
  /\ outbox' = Tail(outbox)
  /\ hubPc' = "answered"
  /\ UNCHANGED <<agentVars, thread, serving, active_watchpoint>>

TakeHit ==
  /\ outbox # <<>> /\ Head(outbox).type = "watchpoint-hit"
  /\ outbox' = Tail(outbox)
  /\ active_watchpoint' = NoAddr
  /\ UNCHANGED <<agentVars, thread, hubPc, serving>>

-----------------------------------------------------------------------------
(* The agent. *)

(* clearWatchpointOnThreads, then the flag. *)
Disarmed ==
  /\ debugRegister' = IF watchedThread THEN NoAddr ELSE debugRegister
  /\ watchedThread' = FALSE
  /\ watchpointActive' = FALSE

(* setWatchpoint drops the watchpoint in force and replaces the exception  *)
(* handler before it tries the register; if that throws it logs and        *)
(* returns as if it had been set.                                          *)
SetWatchpoint ==
  /\ hubPc = "calling" /\ serving.op = "set"
  /\ handlerAddr' = serving.address
  /\ \/ /\ debugRegister' = serving.address
        /\ watchedThread' = TRUE
        /\ watchpointActive' = TRUE
     \/ IF watchpointActive
          THEN Disarmed
          ELSE UNCHANGED <<watchpointActive, watchedThread, debugRegister>>
  /\ outbox' = Append(outbox, Reply)
  /\ hubPc' = "awaiting"
  /\ UNCHANGED <<thread, serving, active_watchpoint>>

(* Seeded fault: the flag is reset and the register is not. *)
ClearFlagOnly ==
  /\ hubPc = "calling" /\ serving.op = "clear"
  /\ watchpointActive' = FALSE
  /\ outbox' = Append(outbox, Reply)
  /\ hubPc' = "awaiting"
  /\ UNCHANGED <<watchedThread, debugRegister, handlerAddr, thread, serving, active_watchpoint>>

ClearWatchpoint ==
  /\ hubPc = "calling" /\ serving.op = "clear"
  /\ IF watchpointActive
       THEN Disarmed
       ELSE UNCHANGED <<watchpointActive, watchedThread, debugRegister>>
  /\ outbox' = Append(outbox, Reply)
  /\ hubPc' = "awaiting"
  /\ UNCHANGED <<handlerAddr, thread, serving, active_watchpoint>>

-----------------------------------------------------------------------------
(* The target's main thread. *)

Trap ==
  /\ thread.state = "running"
  /\ debugRegister # NoAddr
  /\ thread' = [state |-> "trapped", at |-> debugRegister]
  /\ UNCHANGED <<agentVars, outbox, hubVars>>

(* An exception of the program's own, one it handles itself. *)
Fault ==
  /\ thread.state = "running"
  /\ thread' = [state |-> "faulted", at |-> NoAddr]
  /\ UNCHANGED <<agentVars, outbox, hubVars>>

(* Seeded fault: the watchpoint stays armed after its hit. *)
HandlerReportsAgain ==
  /\ thread.state \in {"trapped", "faulted"}
  /\ watchpointActive
  /\ outbox' = Append(outbox, Hit(handlerAddr))
  /\ thread' = IF thread.state = "trapped" THEN [state |-> "running", at |-> NoAddr]
               ELSE thread
  /\ UNCHANGED <<agentVars, hubVars>>

(* Armed, the handler takes any exception for its hit: it disarms, reports *)
(* the address it was set for and resumes the thread, which runs a         *)
(* faulting instruction again.                                             *)
HandlerReports ==
  /\ thread.state \in {"trapped", "faulted"}
  /\ watchpointActive
  /\ Disarmed
  /\ outbox' = Append(outbox, Hit(handlerAddr))
  /\ thread' = IF thread.state = "trapped" THEN [state |-> "running", at |-> NoAddr]
               ELSE thread
  /\ UNCHANGED <<handlerAddr, hubVars>>

(* Disarmed, it passes the exception on: the program handles its own and   *)
(* dies of a trap it never heard of.                                       *)
HandlerPasses ==
  /\ thread.state \in {"trapped", "faulted"}
  /\ ~watchpointActive
  /\ thread' = [state |-> IF thread.state = "trapped" THEN "dead" ELSE "running",
                at |-> NoAddr]
  /\ UNCHANGED <<agentVars, outbox, hubVars>>

-----------------------------------------------------------------------------

Agent == SetWatchpoint \/ ClearWatchpoint

Handler == HandlerReports \/ HandlerPasses

Next ==
  \/ \E a \in Addr : HandleMessage(Set(a))
  \/ HandleMessage(Clear)
  \/ HandlerResumes \/ TakeReply \/ TakeHit
  \/ Agent
  \/ Trap \/ Fault \/ Handler

Spec == Init /\ [][Next]_vars

(* The agent runs what it is called for, exceptions are handled, the Frida *)
(* thread delivers and the hub's loop resumes its handler.  The target has *)
(* to touch nothing and nobody has to send a message.                      *)
Fairness ==
  /\ WF_vars(Agent)
  /\ WF_vars(Handler)
  /\ WF_vars(TakeReply \/ TakeHit)
  /\ WF_vars(HandlerResumes)

FairSpec == Spec /\ Fairness

-----------------------------------------------------------------------------
(* Types of the variables; every hit sent names an address that was set. *)
TypeOK ==
  /\ watchpointActive \in BOOLEAN
  /\ watchedThread \in BOOLEAN
  /\ handlerAddr \in Addr \cup {NoAddr}
  /\ debugRegister \in Addr \cup {NoAddr}
  /\ thread \in [state : {"running", "trapped", "faulted", "dead"}, at : Addr \cup {NoAddr}]
  /\ outbox \in Seq({Reply} \cup {Hit(a) : a \in Addr})
  /\ hubPc \in {"idle", "calling", "awaiting", "answered"}
  /\ serving \in {Clear} \cup {Set(a) : a \in Addr}
  /\ active_watchpoint \in Addr \cup {NoAddr}

(* The flag the exception handler trusts tells whether the register is     *)
(* armed, and the handler installed is the one of the address it watches:  *)
(* otherwise a trap would be passed on and kill the target, or be reported *)
(* for an address nobody touched.                                          *)
FlagMatchesRegister ==
  /\ watchpointActive <=> debugRegister # NoAddr
  /\ watchpointActive <=> watchedThread
  /\ watchpointActive => handlerAddr = debugRegister

(* Once every reply and hit is in, a watchpoint that is armed is the one   *)
(* in active_watchpoint: a late hit never resets the entry of a newer one, *)
(* because the agent's messages and replies arrive in order.               *)
Quiet == hubPc = "idle" /\ outbox = <<>>

ArmedIsKnown == Quiet /\ watchpointActive => active_watchpoint = debugRegister

(* The target's own exceptions reach it in the end: the handler takes one  *)
(* for a hit at most once for each watchpoint that is set.                 *)
FaultReachesTarget ==
  \/ []<><<SetWatchpoint>>_vars
  \/ thread.state = "faulted" ~> thread.state # "faulted"

=============================================================================
