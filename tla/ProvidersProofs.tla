-------------------------- MODULE ProvidersProofs --------------------------
(***************************************************************************)
(* No frida-server is left behind, the provider is that of the last game   *)
(* selected, and the session goes through it, for any games, servers and   *)
(* number of attempts, whatever fails on the way.                          *)
(***************************************************************************)
EXTENDS Providers, TLAPS

(* The provider being made has a server from when it was started until it  *)
(* takes over or fails, and it is not the one in use.                      *)
MakingOwn ==
  /\ making.at = "idle" => making = Idle
  /\ making.at # "idle" => selected \in Game
  /\ making.at # "connect" => making.server = NoServer
  /\ making.at = "connect" =>
       /\ making.server \in Server /\ making.server # provider
       /\ server[making.server] # Unused /\ server[making.server].game = selected
       /\ making.attempt >= 1

ProviderStarted == provider # NoServer => server[provider] # Unused

IInv ==
  /\ TypeOK /\ MakingOwn /\ ProviderStarted
  /\ ServersOwned /\ ProviderAsAnswered /\ SessionServed

LEMMA Servers ==
  ASSUME NEW s, s \in Started \cup {Unused}
  PROVE  /\ s # Unused <=> s \in Started
         /\ s.state \in {"starting", "ready", "exited"} <=> s # Unused
         /\ [s EXCEPT !.state = "exited"] # Unused
         /\ s # Unused => [s EXCEPT !.state = "exited"] \in Started
         /\ s # Unused => [s EXCEPT !.state = "ready"] \in Started
         /\ [s EXCEPT !.state = "exited"].game = s.game /\ [s EXCEPT !.state = "exited"].state = "exited"
         /\ [s EXCEPT !.state = "ready"].game = s.game /\ [s EXCEPT !.state = "ready"].state = "ready"
BY ProvidersAssumption DEF Started, Unused

LEMMA IdleIs ==
  /\ Idle.at = "idle" /\ Idle.server = NoServer /\ Idle.attempt = 0
  /\ Idle \in [at : {"idle", "download", "start", "connect"},
               server : Server \cup {NoServer}, attempt : 0..MaxAttempts]
BY ProvidersAssumption DEF Idle

LEMMA InitIInv == Init => IInv
BY IdleIs, ProvidersAssumption
   DEF Init, IInv, TypeOK, MakingOwn, ProviderStarted, ServersOwned,
       ProviderAsAnswered, SessionServed, Runs, Unused

LEMMA SelectGamePreserves ==
  ASSUME IInv, NEW g \in Game, SelectGame(g)
  PROVE  IInv'
<1>1. /\ making = Idle /\ selected' = g
      /\ UNCHANGED <<running, binary, server, provider, session, answered, left>>
      /\ making'.at \in {"download", "start"} /\ making'.server = NoServer
      /\ making' \in [at : {"idle", "download", "start", "connect"},
                      server : Server \cup {NoServer}, attempt : 0..MaxAttempts]
  BY IdleIs DEF SelectGame, Idle
<1> QED BY <1>1, IdleIs
   DEF IInv, TypeOK, MakingOwn, ProviderStarted, ServersOwned, ProviderAsAnswered, SessionServed, Runs

(* A provider is given up, with its server.                                *)
LEMMA RaisePreserves ==
  ASSUME IInv, Raise(server), binary' \in {"absent", "partial", "complete"},
         UNCHANGED <<running, selected, provider, session, answered, left>>
  PROVE  IInv'
<1>1. CASE making.server = NoServer
  <2>1. server' = server /\ making' = Idle
    BY <1>1 DEF Raise
  <2> QED BY <1>1, <2>1, IdleIs
     DEF IInv, TypeOK, MakingOwn, ProviderStarted, ServersOwned, ProviderAsAnswered, SessionServed, Runs
<1>2. CASE making.server # NoServer
  <2> DEFINE s == making.server
  <2>1. /\ s \in Server /\ s # provider /\ server[s] # Unused /\ server[s] \in Started \cup {Unused}
        /\ server \in [Server -> Started \cup {Unused}]
    BY <1>2 DEF IInv, MakingOwn, TypeOK
  <2>2. server' = [server EXCEPT ![s] = [server[s] EXCEPT !.state = "exited"]] /\ making' = Idle
    BY <1>2, <2>1 DEF Raise
  <2> HIDE DEF s
  <2>3. /\ server'[s] \in Started /\ server'[s].state = "exited"
        /\ \A t \in Server : t # s => server'[t] = server[t]
        /\ server' \in [Server -> Started \cup {Unused}]
    <3> DEFINE x == [server[s] EXCEPT !.state = "exited"]
    <3>1. x \in Started /\ x.state = "exited"
      BY <2>1, Servers
    <3> HIDE DEF x
    <3> QED BY <2>1, <2>2, <3>1 DEF x
  <2>4. TypeOK'
    BY <2>2, <2>3, IdleIs DEF IInv, TypeOK
  <2>5. MakingOwn' /\ ProviderStarted'
    BY <2>1, <2>2, <2>3, IdleIs DEF IInv, MakingOwn, ProviderStarted, TypeOK
  <2>6. ServersOwned'
    BY <2>1, <2>2, <2>3, IdleIs DEF IInv, ServersOwned, Runs, s
  <2>7. ProviderAsAnswered' /\ SessionServed'
    BY <2>1, <2>3 DEF IInv, ProviderAsAnswered, SessionServed, TypeOK
  <2> QED BY <2>4, <2>5, <2>6, <2>7 DEF IInv
<1> QED BY <1>1, <1>2

LEMMA DownloadPreserves ==
  ASSUME IInv, Download
  PROVE  IInv'
<1>1. CASE binary' = "complete"
  <2>1. /\ making.at = "download" /\ making' = [making EXCEPT !.at = "start"]
        /\ UNCHANGED <<running, server, selected, provider, session, answered, left>>
    BY <1>1 DEF Download
  <2>2. /\ making'.at = "start" /\ making'.server = making.server
        /\ making' \in [at : {"idle", "download", "start", "connect"},
                        server : Server \cup {NoServer}, attempt : 0..MaxAttempts]
    BY <2>1 DEF IInv, TypeOK
  <2> QED BY <1>1, <2>1, <2>2
     DEF IInv, TypeOK, MakingOwn, ProviderStarted, ServersOwned, ProviderAsAnswered, SessionServed, Runs
<1>2. CASE binary' # "complete"
  BY <1>2, RaisePreserves DEF Download
<1> QED BY <1>1, <1>2

LEMMA StartServerPreserves ==
  ASSUME IInv, StartServer
  PROVE  IInv'
<1>1. /\ making.at = "start" /\ making.server = NoServer /\ selected \in Game
      /\ UNCHANGED <<running, binary, selected, provider, session, answered, left>>
  BY DEF StartServer, IInv, MakingOwn
<1>2. CASE Raise(server)
  BY <1>1, <1>2, RaisePreserves DEF IInv, TypeOK
<1>3. ASSUME NEW s \in Server, NEW state \in {"starting", "exited"}, server[s] = Unused,
             server' = [server EXCEPT ![s] = [game |-> selected, state |-> state]],
             \/ state = "starting" /\ making' = [at |-> "connect", server |-> s, attempt |-> 1]
             \/ state = "exited" /\ making' = Idle
      PROVE  IInv'
  <2>1. /\ server'[s] = [game |-> selected, state |-> state] /\ server'[s] \in Started
        /\ \A t \in Server : t # s => server'[t] = server[t]
        /\ server' \in [Server -> Started \cup {Unused}]
    BY <1>1, <1>3 DEF IInv, TypeOK, Started
  <2>2. server'[s] # Unused /\ s # provider /\ s # NoServer
    <3>1. server'[s] # Unused
      BY <2>1, Servers
    <3>2. s # provider /\ s # NoServer
      BY <1>3, ProvidersAssumption DEF IInv, ProviderStarted
    <3> QED BY <3>1, <3>2
  <2>3. s # session
    BY <1>3, <2>2 DEF IInv, SessionServed
  <2>4. TypeOK'
    BY <1>1, <1>3, <2>1, IdleIs, ProvidersAssumption DEF IInv, TypeOK
  <2>5. MakingOwn' /\ ProviderStarted'
    BY <1>1, <1>3, <2>1, <2>2, IdleIs DEF IInv, TypeOK, MakingOwn, ProviderStarted
  <2>6. ServersOwned'
    <3>1. server'[s].state = state
      BY <2>1
    <3>2. ASSUME NEW t \in Server, t # s, Runs(t)' PROVE t \in left \cup {provider}
      BY <1>1, <2>1, <3>2, ProvidersAssumption DEF IInv, ServersOwned, Runs
    <3> QED BY <1>1, <1>3, <3>1, <3>2 DEF ServersOwned, Runs
  <2>7. ProviderAsAnswered' /\ SessionServed'
    BY <1>1, <2>1, <2>2, <2>3 DEF IInv, ProviderAsAnswered, SessionServed, TypeOK
  <2> QED BY <2>4, <2>5, <2>6, <2>7 DEF IInv
<1> QED BY <1>1, <1>2, <1>3 DEF StartServer, Raise

LEMMA ConnectPreserves ==
  ASSUME IInv, Connect
  PROVE  IInv'
<1> DEFINE s == making.server
<1>1. /\ s \in Server /\ s # provider /\ server[s].state = "ready" /\ s # NoServer
      /\ server[s].game = selected /\ server[s] # Unused /\ selected \in Game
      /\ provider' = s /\ making' = Idle /\ answered' = selected
      /\ UNCHANGED <<running, binary, selected, left>>
      /\ server \in [Server -> Started \cup {Unused}]
  BY ProvidersAssumption DEF Connect, IInv, MakingOwn, TypeOK
<1> HIDE DEF s
<1>2. /\ server' \in [Server -> Started \cup {Unused}]
      /\ \A t \in Server : t # provider => server'[t] = server[t]
      /\ provider # NoServer => server'[provider].state = "exited"
  <2>1. CASE provider = NoServer
    BY <1>1, <2>1 DEF Connect
  <2>2. CASE provider # NoServer
    <3>1. /\ server' = [server EXCEPT ![provider] = [server[provider] EXCEPT !.state = "exited"]]
          /\ provider \in Server /\ server[provider] # Unused /\ server[provider] \in Started \cup {Unused}
      BY <1>1, <2>2 DEF Connect, IInv, TypeOK, ProviderStarted
    <3>2. [server[provider] EXCEPT !.state = "exited"] \in Started
      BY <3>1, Servers
    <3> QED BY <1>1, <3>1, <3>2, Servers
  <2> QED BY <2>1, <2>2
<1>3. session' = NoServer
  BY DEF Connect, SessionWithout, IInv, SessionServed
<1>4. TypeOK'
  BY <1>1, <1>2, <1>3, IdleIs DEF IInv, TypeOK
<1>5. MakingOwn' /\ ProviderStarted'
  BY <1>1, <1>2, IdleIs DEF MakingOwn, ProviderStarted
<1>6. ServersOwned'
  BY <1>1, <1>2, IdleIs DEF IInv, ServersOwned, Runs, s
<1>7. ProviderAsAnswered' /\ SessionServed'
  BY <1>1, <1>2, <1>3, ProvidersAssumption DEF ProviderAsAnswered, SessionServed
<1> QED BY <1>4, <1>5, <1>6, <1>7 DEF IInv

LEMMA RetryPreserves ==
  ASSUME IInv, Retry
  PROVE  IInv'
<1>1. CASE making.attempt < MaxAttempts
  <2>1. /\ making.at = "connect" /\ making' = [making EXCEPT !.attempt = making.attempt + 1]
        /\ UNCHANGED <<running, binary, server, selected, provider, session, answered, left>>
    BY <1>1 DEF Retry
  <2>2. /\ making'.at = "connect" /\ making'.server = making.server /\ making'.attempt >= 1
        /\ making' \in [at : {"idle", "download", "start", "connect"},
                        server : Server \cup {NoServer}, attempt : 0..MaxAttempts]
    BY <1>1, <2>1, ProvidersAssumption DEF IInv, TypeOK, MakingOwn
  <2> QED BY <2>1, <2>2
     DEF IInv, TypeOK, MakingOwn, ProviderStarted, ServersOwned, ProviderAsAnswered, SessionServed, Runs
<1>2. CASE ~(making.attempt < MaxAttempts)
  BY <1>2, RaisePreserves DEF Retry, IInv, TypeOK
<1> QED BY <1>1, <1>2

LEMMA ServerReadyPreserves ==
  ASSUME IInv, NEW s \in Server, ServerReady(s)
  PROVE  IInv'
<1>1. /\ server[s].state = "starting" /\ server[s] \in Started \cup {Unused}
      /\ server' = [server EXCEPT ![s] = [server[s] EXCEPT !.state = "ready"]]
      /\ server \in [Server -> Started \cup {Unused}]
      /\ UNCHANGED <<running, binary, selected, provider, making, session, answered, left>>
  BY DEF ServerReady, hub, IInv, TypeOK
<1>2. /\ server'[s] \in Started /\ server'[s].state = "ready" /\ server'[s].game = server[s].game
      /\ \A t \in Server : t # s => server'[t] = server[t]
      /\ server' \in [Server -> Started \cup {Unused}]
      /\ server'[s] # Unused
  <2>1. server[s] # Unused
    BY <1>1 DEF Unused
  <2>2. server'[s] \in Started /\ server'[s].state = "ready" /\ server'[s].game = server[s].game
    BY <1>1, <2>1, Servers
  <2>3. server'[s] # Unused
    BY <2>2, Servers
  <2> QED BY <1>1, <2>2, <2>3
<1>3. s # session
  BY <1>1, ProvidersAssumption DEF IInv, SessionServed
<1> QED BY <1>1, <1>2, <1>3
   DEF IInv, TypeOK, MakingOwn, ProviderStarted, ServersOwned, ProviderAsAnswered, SessionServed, Runs

LEMMA ServerExitsPreserves ==
  ASSUME IInv, NEW s \in Server, ServerExits(s)
  PROVE  IInv'
<1>1. /\ server[s] # Unused /\ server[s] \in Started \cup {Unused}
      /\ server' = [server EXCEPT ![s] = [server[s] EXCEPT !.state = "exited"]]
      /\ server \in [Server -> Started \cup {Unused}]
      /\ session' = IF session = s THEN NoServer ELSE session
      /\ UNCHANGED <<running, binary, selected, provider, making, answered, left>>
  BY DEF ServerExits, SessionWithout, Runs, IInv, TypeOK, Unused
<1>2. /\ server'[s] \in Started /\ server'[s].state = "exited" /\ server'[s].game = server[s].game
      /\ \A t \in Server : t # s => server'[t] = server[t]
      /\ server' \in [Server -> Started \cup {Unused}]
      /\ server'[s] # Unused
  BY <1>1, Servers
<1>3. TypeOK' /\ ProviderStarted' /\ ProviderAsAnswered' /\ SessionServed'
  BY <1>1, <1>2 DEF IInv, TypeOK, ProviderStarted, ProviderAsAnswered, SessionServed
<1>4. MakingOwn'
  BY <1>1, <1>2 DEF IInv, MakingOwn
<1>5. ServersOwned'
  BY <1>1, <1>2 DEF IInv, ServersOwned, Runs
<1> QED BY <1>3, <1>4, <1>5 DEF IInv

LEMMA HubPreserves ==
  ASSUME IInv, Attach \/ HubKilled
  PROVE  IInv'
<1>1. CASE Attach
  BY <1>1 DEF Attach, IInv, TypeOK, MakingOwn, ProviderStarted, ServersOwned,
              ProviderAsAnswered, SessionServed, Runs
<1>2. CASE HubKilled
  BY <1>2, IdleIs, ProvidersAssumption
     DEF HubKilled, IInv, TypeOK, MakingOwn, ProviderStarted, ServersOwned,
         ProviderAsAnswered, SessionServed, Runs
<1> QED BY <1>1, <1>2

LEMMA GamePreserves ==
  ASSUME IInv, NEW g \in Game, GameStarts(g) \/ GameEnds(g)
  PROVE  IInv'
BY DEF GameStarts, GameEnds, hub, IInv, TypeOK, MakingOwn, ProviderStarted,
       ServersOwned, ProviderAsAnswered, SessionServed, Runs

LEMMA NextPreserves ==
  ASSUME IInv, [Next]_vars
  PROVE  IInv'
<1>1. CASE Select
  BY <1>1, DownloadPreserves, StartServerPreserves, ConnectPreserves, RetryPreserves DEF Select
<1>2. CASE Attach \/ HubKilled
  BY <1>2, HubPreserves
<1>3. ASSUME NEW g \in Game, SelectGame(g) \/ GameStarts(g) \/ GameEnds(g) PROVE IInv'
  BY <1>3, SelectGamePreserves, GamePreserves
<1>4. ASSUME NEW s \in Server, ServerReady(s) \/ ServerExits(s) PROVE IInv'
  BY <1>4, ServerReadyPreserves, ServerExitsPreserves
<1>5. CASE UNCHANGED vars
  BY <1>5 DEF vars, hub, IInv, TypeOK, MakingOwn, ProviderStarted, ServersOwned,
              ProviderAsAnswered, SessionServed, Runs
<1> QED BY <1>1, <1>2, <1>3, <1>4, <1>5 DEF Next

(* The parts of the invariant hold together in every reachable state.      *)
THEOREM Invariance == Spec => []IInv
BY InitIInv, NextPreserves, PTL DEF Spec

(* Paths, processes and the attempts of _connect_with_retry keep their     *)
(* types: no more than max_attempts are made.                              *)
THEOREM TypesHold == Spec => []TypeOK
<1>1. IInv => TypeOK
  BY DEF IInv
<1> QED BY <1>1, Invariance, PTL

(* Whatever fails in select_game, no server that this hub started runs on  *)
(* without a provider that will terminate it (wine.py:42-46).              *)
THEOREM NoServerLeftBehind == Spec => []ServersOwned
<1>1. IInv => ServersOwned
  BY DEF IInv
<1> QED BY <1>1, Invariance, PTL

(* What list-processes and attach work on (proton.py:96-104) is the game   *)
(* of the last selection that was answered with "ok".                      *)
THEOREM ProviderIsAnswered == Spec => []ProviderAsAnswered
<1>1. IInv => ProviderAsAnswered
  BY DEF IInv
<1> QED BY <1>1, Invariance, PTL

(* A session is never one through a server that was replaced or has ended. *)
THEOREM SessionIsServed == Spec => []SessionServed
<1>1. IInv => SessionServed
  BY DEF IInv
<1> QED BY <1>1, Invariance, PTL

=============================================================================
