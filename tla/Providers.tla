----------------------------- MODULE Providers -----------------------------
(***************************************************************************)
(* How the hub comes by its targets under Proton: select_game (proton.py)  *)
(* makes a WineTargetProvider (wine.py), which fetches a frida-server,     *)
(* starts it in the game's prefix and tries to connect; each of these may  *)
(* fail, and the provider of the game selected before serves on until the  *)
(* new one stands.                                                         *)
(*                                                                         *)
(* select_game does not await: the hub does nothing else meanwhile.  Its   *)
(* steps are taken apart here because games and servers come and go        *)
(* between them, and because the hub may be killed at any of them.         *)
(***************************************************************************)
EXTENDS Integers

CONSTANTS
  Game,         \* Proton games
  NoGame,
  Server,       \* frida-servers; bound: those ever started
  NoServer,
  MaxAttempts   \* _connect_with_retry's max_attempts

VARIABLES
  running,      \* the games that run
  binary,       \* what is at server_path
  server,       \* each server's game, and whether it runs
  selected,     \* ProtonTargetProvider.selected_game
  provider,     \* the server of wine_provider
  making,       \* the provider that is being made, and how far it is
  session,      \* the server that Hub.session goes through
  answered,     \* ghost: the game of the last selection answered with "ok"
  left          \* ghost: servers that outlived the hub that started them

hub == <<selected, provider, making, session, answered>>
vars == <<running, binary, server, hub, left>>

ASSUME ProvidersAssumption ==
  NoGame \notin Game /\ NoServer \notin Server /\ MaxAttempts \in Nat \ {0}

Unused == [game |-> NoGame, state |-> "unused"]
Started == [game : Game, state : {"starting", "ready", "exited"}]
Runs(s) == server[s].state \in {"starting", "ready"}

Idle == [at |-> "idle", server |-> NoServer, attempt |-> 0]

Init ==
  /\ running \in SUBSET Game
  /\ binary = "absent"
  /\ server = [s \in Server |-> Unused]
  /\ selected = NoGame /\ provider = NoServer /\ making = Idle
  /\ session = NoServer
  /\ answered = NoGame /\ left = {}

-----------------------------------------------------------------------------
(* select_game.                                                            *)

(* Seeded fault: the provider of the game before goes first. *)
SelectGameDropping(g) ==
  /\ making = Idle
  /\ g \in running
  /\ selected' = g
  /\ provider' = NoServer
  /\ making' = [Idle EXCEPT !.at = IF binary = "absent" THEN "download" ELSE "start"]
  /\ UNCHANGED <<running, binary, server, session, answered, left>>

SelectGame(g) ==
  /\ making = Idle
  /\ g \in running
  /\ selected' = g
  /\ making' = [Idle EXCEPT !.at = IF binary = "absent" THEN "download" ELSE "start"]
  /\ UNCHANGED <<running, binary, server, provider, session, answered, left>>

(* The exception ends select_game, and with it the provider that was being *)
(* made: its __del__ terminates its server, if it has one.                 *)
Raise(servers) ==
  /\ server' = IF making.server = NoServer
                 THEN servers ELSE [servers EXCEPT ![making.server].state = "exited"]
  /\ making' = Idle

(* The file is fetched and unpacked to server_path, and not asked about    *)
(* again once something is there.                                          *)
Download ==
  /\ making.at = "download"
  /\ binary' \in {"absent", "partial", "complete"}
  /\ IF binary' = "complete"
       THEN making' = [making EXCEPT !.at = "start"] /\ UNCHANGED server
       ELSE Raise(server)
  /\ UNCHANGED <<running, selected, provider, session, answered, left>>

(* Popen fails, or the server has ended with an error by the first look, or *)
(* not yet.                                                                *)
StartServer ==
  /\ making.at = "start"
  /\ \/ Raise(server)
     \/ \E s \in Server, state \in {"starting", "exited"} :
          LET started == [server EXCEPT ![s] = [game |-> selected, state |-> state]] IN
          /\ server[s] = Unused
          /\ IF state = "starting"
               THEN /\ server' = started
                    /\ making' = [at |-> "connect", server |-> s, attempt |-> 1]
               ELSE Raise(started)
  /\ UNCHANGED <<running, binary, selected, provider, session, answered, left>>

(* A server that is terminated ends the sessions through it. *)
SessionWithout(s) == IF session = s THEN NoServer ELSE session

(* Seeded fault: the server of the old provider is not terminated. *)
ConnectKeeping ==
  /\ making.at = "connect" /\ server[making.server].state = "ready"
  /\ provider' = making.server
  /\ making' = Idle
  /\ answered' = selected
  /\ UNCHANGED <<running, binary, server, selected, session, left>>

(* The new provider takes the place of the old one, which ends.            *)
Connect ==
  /\ making.at = "connect" /\ server[making.server].state = "ready"
  /\ provider' = making.server
  /\ making' = Idle
  /\ server' = IF provider = NoServer
                 THEN server ELSE [server EXCEPT ![provider].state = "exited"]
  /\ session' = SessionWithout(provider)
  /\ answered' = selected
  /\ UNCHANGED <<running, binary, selected, left>>

(* Seeded fault: the attempts are not counted. *)
RetryEndless ==
  /\ making.at = "connect" /\ server[making.server].state # "ready"
  /\ UNCHANGED vars

(* Seeded fault: the server of a provider that was never finished stays. *)
RetryLeaving ==
  /\ making.at = "connect" /\ server[making.server].state # "ready"
  /\ making' = IF making.attempt < MaxAttempts THEN [making EXCEPT !.attempt = @ + 1] ELSE Idle
  /\ UNCHANGED <<running, binary, server, selected, provider, session, answered, left>>

Retry ==
  /\ making.at = "connect" /\ server[making.server].state # "ready"
  /\ IF making.attempt < MaxAttempts
       THEN making' = [making EXCEPT !.attempt = @ + 1] /\ UNCHANGED server
       ELSE Raise(server)
  /\ UNCHANGED <<running, binary, selected, provider, session, answered, left>>

-----------------------------------------------------------------------------
(* Hub.attach detaches first; a provider whose server is gone raises.      *)
Attach ==
  /\ making = Idle
  /\ \/ /\ provider # NoServer
        /\ server[provider].state = "ready" /\ server[provider].game \in running
        /\ session' = provider
     \/ session' = NoServer
  /\ UNCHANGED <<running, binary, server, selected, provider, making, answered, left>>

(* The hub is killed, and started again.  What it was writing to           *)
(* server_path stays as it is; so do the servers.                          *)
HubKilled ==
  /\ binary' \in IF making.at = "download" THEN {"absent", "partial"} ELSE {binary}
  /\ left' = left \cup {s \in Server : Runs(s)}
  /\ selected' = NoGame /\ provider' = NoServer /\ making' = Idle
  /\ session' = NoServer /\ answered' = NoGame
  /\ UNCHANGED <<running, server>>

-----------------------------------------------------------------------------
(* Servers and games.                                                      *)

ServerReady(s) ==
  /\ server[s].state = "starting" /\ binary = "complete"
  /\ server' = [server EXCEPT ![s].state = "ready"]
  /\ UNCHANGED <<running, binary, hub, left>>

ServerExits(s) ==
  /\ Runs(s)
  /\ server' = [server EXCEPT ![s].state = "exited"]
  /\ session' = SessionWithout(s)
  /\ UNCHANGED <<running, binary, selected, provider, making, answered, left>>

GameStarts(g) ==
  /\ g \notin running
  /\ running' = running \cup {g}
  /\ UNCHANGED <<binary, server, hub, left>>

GameEnds(g) ==
  /\ g \in running
  /\ running' = running \ {g}
  /\ session' = IF session # NoServer /\ server[session].game = g THEN NoServer ELSE session
  /\ UNCHANGED <<binary, server, selected, provider, making, answered, left>>

Select == Download \/ StartServer \/ Connect \/ Retry

Next ==
  \/ Select \/ Attach \/ HubKilled
  \/ \E g \in Game : SelectGame(g) \/ GameStarts(g) \/ GameEnds(g)
  \/ \E s \in Server : ServerReady(s) \/ ServerExits(s)

(* The attempts are made one after the other.  A download may take for     *)
(* ever: urlretrieve is given no timeout.                                  *)
Fairness == WF_vars(Connect \/ Retry)

Spec == Init /\ [][Next]_vars /\ Fairness

-----------------------------------------------------------------------------
TypeOK ==
  /\ running \subseteq Game
  /\ binary \in {"absent", "partial", "complete"}
  /\ server \in [Server -> Started \cup {Unused}]
  /\ selected \in Game \cup {NoGame}
  /\ provider \in Server \cup {NoServer}
  /\ making \in [at : {"idle", "download", "start", "connect"},
                 server : Server \cup {NoServer}, attempt : 0..MaxAttempts]
  /\ session \in Server \cup {NoServer}
  /\ answered \in Game \cup {NoGame}
  /\ left \subseteq Server

(* A frida-server that runs is the provider's or that of the one being     *)
(* made, whatever failed before (wine.py:42); or a killed hub left it.     *)
ServersOwned == \A s \in Server : Runs(s) => s \in left \cup {provider, making.server}

(* The provider is that of the last game whose selection was answered with *)
(* "ok" (hub.py:276): a selection that fails leaves the one before.        *)
ProviderAsAnswered ==
  answered = IF provider = NoServer THEN NoGame ELSE server[provider].game

(* The hub's session goes through the server of its provider, and that is  *)
(* up and the game still runs: no session outlives a change of game.       *)
SessionServed ==
  session # NoServer =>
    /\ session = provider /\ server[session].state = "ready"
    /\ server[session].game \in running

(* Connecting comes to an end, with a provider or without.                 *)
ConnectEnds == making.at = "connect" ~> making = Idle

=============================================================================
