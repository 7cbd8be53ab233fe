-------------------------- MODULE WatchpointProofs --------------------------
(***************************************************************************)
(* The watchpoint path's safety, for every set of addresses.               *)
(***************************************************************************)
EXTENDS Watchpoint, SequenceTheorems, TLAPS

IsHit(m) == m.type = "watchpoint-hit"

AllHits == \A i \in 1..Len(outbox) : IsHit(outbox[i])

(* One call is answered by one reply. *)
OneReply ==
  /\ hubPc # "awaiting" => AllHits
  /\ hubPc = "awaiting" =>
       \E i \in 1..Len(outbox) :
         /\ outbox[i] = Reply
         /\ \A j \in 1..Len(outbox) : j # i => IsHit(outbox[j])

(* A watchpoint that is armed was set by the last call: no hit was sent    *)
(* after the reply to it, so none is left to reset active_watchpoint once  *)
(* the handler has resumed.                                                *)
ArmedByLastCall ==
  watchpointActive =>
    /\ hubPc \in {"idle", "calling"} => outbox = <<>> /\ active_watchpoint = debugRegister
    /\ hubPc = "awaiting" => /\ serving = Set(debugRegister)
                             /\ outbox # <<>> /\ outbox[Len(outbox)] = Reply
    /\ hubPc = "answered" => serving = Set(debugRegister) /\ outbox = <<>>

IInv == TypeOK /\ FlagMatchesRegister /\ OneReply /\ ArmedByLastCall

Messages == {Reply} \cup {Hit(a) : a \in Addr}

(* A reply is no hit. *)
LEMMA Kinds == ~IsHit(Reply) /\ \A a \in Addr : IsHit(Hit(a)) /\ Hit(a) # Reply
<1> QED BY DEF IsHit, Reply, Hit

LEMMA InitIInv == Init => IInv
<1> SUFFICES ASSUME Init PROVE IInv
  OBVIOUS
<1>1. TypeOK
  <2>1. thread \in [state : {"running", "trapped", "faulted", "dead"}, at : Addr \cup {NoAddr}]
    BY DEF Init
  <2>2. outbox \in Seq(Messages) /\ serving \in {Clear} \cup {Set(a) : a \in Addr}
    BY DEF Init
  <2>3. /\ watchpointActive \in BOOLEAN /\ watchedThread \in BOOLEAN
        /\ handlerAddr \in Addr \cup {NoAddr} /\ debugRegister \in Addr \cup {NoAddr}
        /\ active_watchpoint \in Addr \cup {NoAddr}
        /\ hubPc \in {"idle", "calling", "awaiting", "answered"}
    BY DEF Init
  <2> QED BY <2>1, <2>2, <2>3 DEF TypeOK, Messages
<1>2. FlagMatchesRegister
  BY DEF Init, FlagMatchesRegister
<1>3. OneReply /\ ArmedByLastCall
  BY DEF Init, OneReply, AllHits, ArmedByLastCall
<1> QED BY <1>1, <1>2, <1>3 DEF IInv

(* The agent answers the one call in progress, after the hits it has sent. *)
LEMMA AgentIInv ==
  ASSUME IInv, Agent
  PROVE  IInv'
<1> USE WatchpointAssumption
<1>1. /\ hubPc = "calling" /\ hubPc' = "awaiting" /\ outbox' = Append(outbox, Reply)
      /\ UNCHANGED <<thread, serving, active_watchpoint>>
      /\ outbox \in Seq(Messages) /\ AllHits
      /\ serving \in {Clear} \cup {Set(a) : a \in Addr}
  BY DEF Agent, SetWatchpoint, ClearWatchpoint, IInv, TypeOK, OneReply, Messages
<1>2. /\ outbox' \in Seq(Messages) /\ Len(outbox') = Len(outbox) + 1
      /\ outbox'[Len(outbox')] = Reply
      /\ \A j \in 1..Len(outbox) : outbox'[j] = outbox[j]
      /\ outbox' # <<>>
  BY <1>1 DEF Messages
<1>3. OneReply'
  BY <1>1, <1>2 DEF OneReply, AllHits, IsHit
<1>4. \/ watchpointActive' = FALSE /\ debugRegister' = NoAddr /\ watchedThread' = FALSE
      \/ /\ serving.op = "set" /\ watchpointActive' = TRUE /\ watchedThread' = TRUE
         /\ debugRegister' = serving.address /\ handlerAddr' = serving.address
  BY DEF Agent, SetWatchpoint, ClearWatchpoint, Disarmed, IInv, FlagMatchesRegister, TypeOK
<1>5. /\ serving.op = "set" => serving.address \in Addr /\ serving = Set(serving.address)
      /\ handlerAddr' \in Addr \cup {NoAddr}
  BY <1>1 DEF Agent, SetWatchpoint, ClearWatchpoint, IInv, TypeOK, Clear, Set
<1>6. TypeOK'
  BY <1>1, <1>2, <1>4, <1>5 DEF IInv, TypeOK, Messages
<1>7. FlagMatchesRegister'
  BY <1>4, <1>5 DEF FlagMatchesRegister
<1>8. ArmedByLastCall'
  BY <1>1, <1>2, <1>4, <1>5 DEF ArmedByLastCall
<1> QED BY <1>3, <1>6, <1>7, <1>8 DEF IInv

(* A hit goes out with the flag and the register reset. *)
LEMMA HandlerIInv ==
  ASSUME IInv, Trap \/ Fault \/ Handler
  PROVE  IInv'
<1> USE WatchpointAssumption
<1>1. CASE Trap \/ Fault \/ HandlerPasses
  BY <1>1 DEF Trap, Fault, HandlerPasses, IInv, TypeOK, FlagMatchesRegister, OneReply,
              AllHits, ArmedByLastCall, agentVars, hubVars
<1>2. CASE HandlerReports
  <2>1. /\ watchpointActive' = FALSE /\ debugRegister' = NoAddr /\ watchedThread' = FALSE
        /\ handlerAddr \in Addr /\ UNCHANGED <<handlerAddr, hubPc, serving, active_watchpoint>>
        /\ outbox' = Append(outbox, Hit(handlerAddr)) /\ outbox \in Seq(Messages)
    BY <1>2 DEF HandlerReports, Disarmed, IInv, TypeOK, FlagMatchesRegister, hubVars, Messages
  <2>2. /\ outbox' \in Seq(Messages) /\ Len(outbox') = Len(outbox) + 1
        /\ IsHit(outbox'[Len(outbox')])
        /\ \A j \in 1..Len(outbox) : outbox'[j] = outbox[j]
    BY <2>1, Kinds DEF Messages
  <2>3. TypeOK'
    BY <1>2, <2>1, <2>2 DEF HandlerReports, IInv, TypeOK, Messages
  <2>4. OneReply'
    BY <2>1, <2>2 DEF IInv, OneReply, AllHits
  <2>5. FlagMatchesRegister' /\ ArmedByLastCall'
    BY <2>1 DEF FlagMatchesRegister, ArmedByLastCall
  <2> QED BY <2>3, <2>4, <2>5 DEF IInv
<1> QED BY <1>1, <1>2 DEF Handler

(* What the hub takes from the agent, it takes in order. *)
LEMMA HubIInv ==
  ASSUME IInv, \/ \E a \in Addr : HandleMessage(Set(a))
               \/ HandleMessage(Clear) \/ HandlerResumes \/ TakeReply \/ TakeHit
  PROVE  IInv'
<1> USE WatchpointAssumption
<1>0. outbox \in Seq(Messages)
  BY DEF IInv, TypeOK, Messages
<1>1. CASE (\E a \in Addr : HandleMessage(Set(a))) \/ HandleMessage(Clear)
  BY <1>1 DEF HandleMessage, IInv, TypeOK, FlagMatchesRegister, OneReply, AllHits,
              ArmedByLastCall, agentVars
<1>2. CASE HandlerResumes
  <2>1. serving.address \in Addr \cup {NoAddr} /\ (serving = Set(debugRegister) => serving.address = debugRegister)
    BY DEF IInv, TypeOK, Set, Clear
  <2> QED BY <1>2, <2>1 DEF HandlerResumes, IInv, TypeOK, FlagMatchesRegister, OneReply,
                            AllHits, ArmedByLastCall, agentVars
<1>3. ASSUME outbox # <<>>, outbox' = Tail(outbox)
      PROVE  /\ outbox' \in Seq(Messages) /\ Len(outbox') = Len(outbox) - 1
             /\ Len(outbox) \in Nat \ {0} /\ Head(outbox) = outbox[1]
             /\ \A j \in 1..Len(outbox') : outbox'[j] = outbox[j+1]
  BY <1>0, <1>3
<1>4. CASE TakeReply
  <2>1. /\ outbox # <<>> /\ outbox' = Tail(outbox) /\ ~IsHit(Head(outbox))
        /\ hubPc' = "answered" /\ UNCHANGED <<agentVars, thread, serving, active_watchpoint>>
    BY <1>4 DEF TakeReply, IsHit
  <2>2. hubPc = "awaiting" /\ \A j \in 1..Len(outbox) : j # 1 => IsHit(outbox[j])
    BY <1>3, <2>1 DEF IInv, OneReply, AllHits
  <2>3. OneReply'
    BY <1>3, <2>1, <2>2 DEF OneReply, AllHits
  <2>4. ArmedByLastCall'
    <3>1. watchpointActive => Len(outbox) = 1
      BY <1>3, <2>1, <2>2, Kinds DEF IInv, ArmedByLastCall
    <3> QED BY <1>3, <2>1, <2>2, <3>1 DEF IInv, ArmedByLastCall, agentVars
  <2>5. TypeOK' /\ FlagMatchesRegister'
    BY <1>3, <2>1 DEF IInv, TypeOK, FlagMatchesRegister, agentVars, Messages
  <2> QED BY <2>3, <2>4, <2>5 DEF IInv
<1>5. CASE TakeHit
  <2>1. /\ outbox # <<>> /\ outbox' = Tail(outbox) /\ IsHit(Head(outbox))
        /\ active_watchpoint' = NoAddr /\ UNCHANGED <<agentVars, thread, hubPc, serving>>
    BY <1>5 DEF TakeHit, IsHit
  <2>2. OneReply'
    <3>1. CASE hubPc = "awaiting"
      <4>1. PICK i \in 1..Len(outbox) :
              outbox[i] = Reply /\ \A j \in 1..Len(outbox) : j # i => IsHit(outbox[j])
        BY <3>1 DEF IInv, OneReply
      <4>2. i - 1 \in 1..Len(outbox') /\ outbox'[i-1] = Reply
        BY <1>3, <2>1, <4>1, Kinds
      <4>3. \A j \in 1..Len(outbox') : j # i - 1 => IsHit(outbox'[j])
        BY <1>3, <2>1, <4>1
      <4> QED BY <2>1, <3>1, <4>2, <4>3 DEF OneReply
    <3>2. CASE hubPc # "awaiting"
      BY <1>3, <2>1, <3>2 DEF IInv, OneReply, AllHits
    <3> QED BY <3>1, <3>2
  <2>3. ArmedByLastCall'
    <3>1. watchpointActive => hubPc = "awaiting" /\ Len(outbox) > 1
      BY <1>3, <2>1, Kinds DEF IInv, ArmedByLastCall, TypeOK
    <3>2. watchpointActive => outbox' # <<>> /\ outbox'[Len(outbox')] = outbox[Len(outbox)]
      <4> SUFFICES ASSUME watchpointActive
                   PROVE  outbox' # <<>> /\ outbox'[Len(outbox')] = outbox[Len(outbox)]
        OBVIOUS
      <4>1. Len(outbox') \in 1..Len(outbox') /\ Len(outbox') + 1 = Len(outbox)
        BY <1>3, <2>1, <3>1
      <4>2. outbox'[Len(outbox')] = outbox[Len(outbox)]
        BY <1>3, <2>1, <4>1
      <4>3. outbox' # <<>>
        BY <4>1
      <4> QED BY <4>2, <4>3
    <3> QED BY <2>1, <3>1, <3>2 DEF IInv, ArmedByLastCall, agentVars
  <2>4. TypeOK' /\ FlagMatchesRegister'
    BY <1>3, <2>1 DEF IInv, TypeOK, FlagMatchesRegister, agentVars, Messages
  <2> QED BY <2>2, <2>3, <2>4 DEF IInv
<1> QED BY <1>1, <1>2, <1>4, <1>5

LEMMA StepIInv == IInv /\ [Next]_vars => IInv'
<1> SUFFICES ASSUME IInv, [Next]_vars PROVE IInv'
  OBVIOUS
<1>1. CASE UNCHANGED vars
  BY <1>1 DEF vars, agentVars, hubVars, IInv, TypeOK, FlagMatchesRegister, OneReply,
              AllHits, ArmedByLastCall
<1>2. CASE Next
  BY <1>2, AgentIInv, HandlerIInv, HubIInv DEF Next
<1> QED BY <1>1, <1>2

THEOREM Invariance == Spec => []IInv
<1> QED BY InitIInv, StepIInv, PTL DEF Spec

(* The agent, the trapped thread, the messages and the hub's record keep   *)
(* their types.                                                            *)
THEOREM TypesHold == Spec => []TypeOK
<1>1. IInv => TypeOK
  BY DEF IInv
<1> QED BY Invariance, <1>1, PTL

(* The flag the exception handler goes by agrees with the debug register,  *)
(* whatever the interleaving of calls, traps and failures to set.          *)
THEOREM FlagIsRegister == Spec => []FlagMatchesRegister
<1>1. IInv => FlagMatchesRegister
  BY DEF IInv
<1> QED BY Invariance, <1>1, PTL

(* An armed watchpoint is known to the hub once the agent's messages are   *)
(* in: no late hit resets the entry of a newer watchpoint.                 *)
THEOREM ArmedWatchpointKnown == Spec => []ArmedIsKnown
<1>1. IInv => ArmedIsKnown
  BY DEF IInv, ArmedByLastCall, ArmedIsKnown, Quiet
<1> QED BY Invariance, <1>1, PTL

=============================================================================
