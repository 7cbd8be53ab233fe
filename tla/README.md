# Freat in TLA+

TLA+ specifications of freat, kept beside its code: what the agent's freezer,
scanner and watchpoints do inside the target, down to the bytes they read and
write; what the hub does between the user interfaces and the agent; what the
user's cheat table shows of all that; and how the hub comes by its targets. TLC
checks them on small instances, and TLAPS proves every safety property among
them for every instance, some under a hypothesis that section 4 names.

Freat attaches to a running program and searches, watches, writes, freezes and
traps its memory. What makes it hard to get right is that four parties run at
once: the target's own threads, which write, unmap and die at will; the agent
in the target's address space, with a JavaScript thread and a native sweep
thread; the hub, an asyncio program whose handlers interleave at every `await`;
and any number of user interfaces. No lock is shared between any two of them
but the freezer's mutex.

Paths below are relative to the repository: `server-python/agent/native/`,
`server-python/agent/agent/`, `server-python/src/freat_server/` and
`client-godot/scripts/` are shortened to the file name.

## 1. Inventory

| Component | Code | State | Operations | Interacts with |
|---|---|---|---|---|
| Freezer | `freezer.c`, `memory.ts:57-82` | `entries[64]`, `entry_count`, `freeze_mutex`, `running`, the thread; `freezeThreadStarted` | `freeze_start`, `freeze_stop`, `freeze_add`, `freeze_remove`, `freeze_clear`, the sweep every 100 µs | shares the table between JavaScript and the thread, memory with the game |
| Memory functions | `memory.ts` | none of their own | `readValue`, `writeValue`, `readBatch`, `writeBatch`, `addFreeze`, `removeFreeze`, `clearFreezeList` | called by the hub over RPC |
| Scanner | `scan.ts`, `scanner.c`, `types.ts` | `currentScanResults`: result sets, each two `malloc`ed buffers | `firstScan`, `nextScan`, `undoScan`, `getScanResults`, `getCount` | reads the game's memory while it changes |
| Watchpoints | `watchpoint.ts`, `hub.py:127-147, 319-331` | `watchpointActive`, `watchedThreadId`, the installed exception handler, the debug register; `Hub.active_watchpoint` | `setWatchpoint`, `clearWatchpoint`, the exception handler, the hit message | register on the target's main thread, handler on whatever thread traps, message to the hub |
| Agent RPC surface | `index.ts`, `logger.ts` | none | forwards | - |
| Hub | `hub.py` | `session`, `agent`, `polling_task`, `watch_list`, `clients` | `attach`, `detach`, `detach_sync`, `_poll_loop`, `broadcast`, one handler per message | RPC to the agent, callbacks from the Frida thread, messages to the UIs |
| WebSocket server | `server.py` | connections | register, one message at a time per client, unregister | - |
| Target providers | `targets/*.py` | device, `frida-server` process, selected game | list, attach, start and connect with retries, `select_game` | subprocesses, the network |
| Configuration | `config.py` | none | provider URI to options | read by `Hub.__init__` |
| GUI | `main.gd` | cheat table rows with frozen and watchpoint markers, scan controls | the user's actions, the hub's events | messages |
| GUI client | `RPCManager.gd` | socket, buffered data | send, poll, reconnect | drops what is sent while disconnected |
| GUI tree, build, vendored headers | `MultiSelectTree.gd`, `run.py`, `rollup.config.js`, `include/` | none relevant | - | - |

What makes each one correct, and what is hard about it:

- **Freezer.** Two threads share the table. The sweep must see one table from
  its lock to its unlock; swap-remove and update-in-place must leave each
  address once; a full table must not be overrun; freeze orders must be obeyed
  although the game keeps storing; scaling must not be applied to its own
  result.
- **Scanner.** The loops read memory that changes, ranges vanish below them,
  and an error in one result set leaves the others half replaced. What is kept
  must match what was asked; no buffer may be used after `free_results`, or
  freed twice; every call must end. At the edges: the last element of a range,
  sizes of 4 GiB and more, scan types that `scan.ts`, `scanner.c` and `hub.py`
  must number alike.
- **Watchpoints.** A flag, a register, a handler closure and the hub's record
  are changed by three threads. They must agree, or a trap is passed on and
  kills the target, or a hit is reported for another address.
- **Hub.** Every `await` lets other handlers, the poll loop and detach tasks
  run. At most one session may be open, it must be the hub's, agent and poll
  loop must belong to it, a late "detached" must not tear down a newer session,
  every message must be dealt with although targets die, and watching must go
  on.
- **Providers.** A selection is five steps of which each may fail, and starts a
  process that must not outlive its purpose; games and servers end by
  themselves, and the hub may be killed. A session must not go on through the
  server of another game.
- **GUI.** A row changes at once and the hub hears of it later, or, without a
  connection or an agent, never; nothing is acknowledged. What is polled was
  true before the last click, and is said by address, not by row.
- **Bytes.** Three languages hold the widths of the types. The agent allocates
  what C declares; a value goes through a shared buffer into a table slot that
  held another width; orders may overlap; and what `memcpy` writes at a width
  too large is the running game's.

## 2. Modules

| Module | Models | Proofs |
|---|---|---|
| `FreezeTable` | the abstract specification of the freezer: a table of orders | - |
| `Freezer` | `freezer.c` and its callers in `memory.ts`; implements `FreezeTable` | `FreezerProofs` |
| `NativeBytes` | `freezer.c`, `scanner.c`, `memory.ts` and `scan.ts` on bytes and widths | `NativeBytesProofs` |
| `Scanner` | `scan.ts` and `scanner.c`, element by element | `ScannerProofs` |
| `Watchpoint` | `watchpoint.ts`, the hub's two watchpoint messages, the trap between them | `WatchpointProofs` |
| `Hub` | `hub.py` and `server.py`, with the asyncio loop and Frida around them | `HubProofs` |
| `CheatTable` | the rows of `main.gd`, the watch list of `hub.py` and, as `FreezeTable`, the freezer | `CheatTableProofs` |
| `LiveView` | the poll loop of `hub.py` and what `main.gd` shows of its events | `LiveViewProofs` |
| `Providers` | `proton.py` and `wine.py`, the life of frida-servers | `ProvidersProofs` |
| `MC...` | instances for TLC | - |

The modules share no state: each takes the parts next to its own at the level
its questions need. `CheatTable` composes GUI, connection, hub and freezer, and
uses `FreezeTable` for the last, which `Freezer` is proved to implement; in it
attach and detach are one step each, whose inside is `Hub`.

`FreezeTable`, the abstract specification, translates no code; every other
definition that models code is mapped to its lines in `PROJECT.json`.
Definitions commented *Seeded fault* are plausible bugs: substituted for the
real definition they make TLC report the property they are meant for
(`"mutants"` in `PROJECT.json`), which shows that the property can fail.

### Freezer

`entries`, `entryCount`, `mutex` and `running` are the C variables, `started`
is `freezeThreadStarted`. Slots past `entryCount` keep what they held, as in C.
Each thread has a position: `jsPc` (idle, waiting for the mutex, in the
critical section, joining) and `loopPc` (absent, loop top, waiting, among the
entries, between the read and the write of `scale_entry`, done). A call of the
agent is three steps: the call itself (`addFreeze` first starts the thread if
none runs), the lock, the critical section. `write-value` is one step and
stores without the lock. The sweep takes one step per entry, two for a scale
entry that has to be written, since the game may store between the C read and
the C write. The game may store into any cell between any two steps. A cell is
one integer with `Word` values; products wrap as they do in C.

`FreezeTable` has no array, mutex or thread: one request at a time, carried out
at its own address in one step and refused only by a full table, and an order
per address, obeyed at some moment. `TableOf` maps the array to its table,
`call` is its request.

### Hub

asyncio runs one task at a time up to its next `await`, in the order in which
they became ready. The model is that queue (`ready`): a step takes the task at
the head and runs it to its next await. Nothing else orders the tasks, so the
order is what the properties depend on. Tasks are one handler per client, one
poll loop per attach, one detach task per ended session. `calls` holds the
agent's unanswered calls in order (one JavaScript thread), `sending` the
broadcasts under way and the clients they go to; `sess` is the life of each
Frida session: new, live, dying (the target has exited, Frida has not said so
yet), dead; `frozen` is, per session, the UIs whose freezes its freezer holds.
`Attachers` and `Leavers` are the UIs that may send `attach` and that may close
their connection. The environment may at any time connect a client, send a message,
close a connection, end the target and complete what is under way.

`attach` is the actions `AttachNow`, `AttachDetachesFirst`, `AttachContinues`,
`AttachReturns`, one for each stretch between awaits; `detach` is shared by
`attach` and the detach tasks. `Watch` and `Call` stand for the messages by
what they await: changing the watch list, or calling the agent. Loading the
agent may fail. A broadcast to a client that has closed raises in whoever
awaits it, since `gather` raises.

### Watchpoint

`HandleMessage`, the agent's function, the delivery of the reply and the
resumption of the hub's handler are separate steps, and so are a trap, the
handler run on the trapped thread, and the delivery of the hit. `outbox` keeps
messages and replies in one order, which is the order in which the Frida thread
delivers them. `Fault` is an exception of the target's own. A thread whose
exception no handler takes is `dead`.

### Scanner

One call runs at a time, and each element a native loop reads is a step, so
that the game's stores, unmaps and maps fall between any two reads. A result
set is the pair of buffer numbers and the cells they hold; `heap` is the live
buffers. Numbers are never used again, so use after free and double free are
visible; a set's buffers are null in C exactly when it found nothing, and
`scan.ts` drops such sets, which is why `TypeOK` asks for non-empty ones.
`past` and `ask` are what the last call started from, for the properties.
`undoScan` is here what the code does: it forgets every result.
`getScanResults` and `getCount` only read, and the hub meets their errors as
`ReadsThrow`. A size that crosses the native boundary declared `uint` is taken
modulo 2^32.

### NativeBytes

One range of bytes, at which elements of several widths overlap. Values become
bytes and bytes values through `ByteOf` and `ValueOf` (little-endian, `Radix`
values per byte, `Place` what each byte counts for); `Appended` is the loop
that keeps some elements of an array in their order. `currentScanResults` is one
set with its two raw buffers; `entries` has its C fields, `value` and
`lastWritten` eight bytes each, and slots keep what they held. `freezeValueBuf`
keeps its bytes from order to order. A call is one step and waits while a sweep
is under way, as `g_mutex_lock` makes it; a sweep is one step per entry, and the
game stores between any two. The histories `asked`, `seen` and `stored` say what
was ordered, what the last scan read and what the game stored since the sweep
began. A scan reaches `ScannedSize` bytes of the range, its size modulo 2^32:
`scan.ts` passes it as `uint`. `SizeOf` and the operators after it are the sizes C and TypeScript give
to the shared memory.

### CheatTable

A row is its type and the order it shows. Each user action changes the row and
then sends, in one step, as the callbacks of `main.gd` do; `Send` drops the
messages when there is no connection. `up` holds what each connection still
brings, in order: after a reconnect the old one may have a handler at work
while the new one's runs, and at any time what is left of the old one may be
lost. A freeze message takes a handler two steps, around the await of the
agent, which takes one request at a time (`request`, of `FreezeTable`) and
carries it out, refuses it with a full table, or throws on its value. The hub
may have calls of several connections with the agent at once. Its one JavaScript
thread takes them one by one, so one that waits there is here a message that its
handler has not taken; handlers take theirs in any order. Without
an agent the hub rejects messages; a detach wipes the orders and leaves the
watch list. The ghosts `unwatched` and `unheld` are the addresses for which a
message or an order was lost in one of these ways.

### LiveView

Two queues, `up` and `down`, join the GUI and the hub. The poll loop copies the
watch list, reads the cells and broadcasts, reads the results and broadcasts
them if there are any: `PollCopy`, `PollWatch`, `PollResults`. `Readings` is
what `readBatch` can answer, by address alone, for a list in which one address
may stand twice with different types: set order decides which reading counts. A
number is its bits and the type it was read as, so that a wrongly typed one
shows. `TreeShowsResults` is about the at most 100 results that are polled.

### Providers

`making` is the `WineTargetProvider` under construction: download, start,
connect with its attempts. An exception in any of them ends the construction,
and `__del__` terminates the server it had started (`Raise`). `selected` is set
before all of it, `provider` after. Each server ever started is one of
`Server`, starting, ready or exited; a session is the server it goes through.
`HubKilled` restarts the hub at any moment, with servers left running and
perhaps half a file at `server_path`, which is then taken for whole.

## 3. Runs

Model checking, `tlc -workers 2 -config <run>.cfg <module>`; the longest takes
about 150 s on two cores.

| Run | Question | Bounds | States |
|---|---|---|---|
| `Freezer` | types, unique addresses, a consistent sweep, implementation of `FreezeTable`; frozen values come back, scaling stops, calls return | 3 addresses, 2 slots, words of 2 bits, `freeze_stop` called too | 309,720 |
| `NativeBytes` | orders applied and results read at their own width, neighbours untouched | 3 bytes of 2 values, U8 and U16, 5 overlapping orders, 2 slots | 1,949,271 |
| `ScannerCalls` | what a scan finds, buffers owned and not leaked, calls end | 2 ranges, 3 elements of 3 values, 3 calls, 1 step of the target | 1,133,099 |
| `WatchpointPath` | flag, register, handler and the hub's record agree; faults reach the target | 3 addresses | 791 |
| `HubOneClient` | every message is dealt with though `gather` raises, a dead agent is dropped, the watch list is polled | 1 UI that may leave, 2 sessions | 432,187 |
| `HubTwoClients` | the open session is the hub's, one poll loop, the agent of that session, late detaches harmless, answered freezes released | 2 UIs that freeze, of which 1 attaches and may leave, 2 sessions, reads that throw | 2,959,693 |
| `CheatTable` | rows, watch list and orders agree; what a row shows comes to be so | 1 row address with 2 types and 1 that others freeze, 1 slot, 1 reconnect, 3 messages | 323,008 |
| `LiveView` | rows and tree come to show what memory holds | 2 addresses, 1 with rows of 2 types, 2 messages up, 1 event down | 1,205,280 |
| `Providers` | servers owned, provider and session as answered, connecting ends | 2 games, 3 servers, 3 attempts | 84,892 |

`MutualExclusion` of `Freezer` and the `TypeOK` of `Scanner`, `Watchpoint`,
`CheatTable` and `Providers` are in no run: they are proved below for every
instance, and what they guard against shows in properties that are.

Three runs end in a counterexample. Each checks what the project says of itself
against what its code does:

| Run | What it shows |
|---|---|
| `HubTwoAttach` | `attach` tests `self.session`, awaits `detach`, then assigns it: two UIs attaching at once both open a session, and the first stays open with nobody to close it (`hub.py:159` "If we're already attached, we detach.") |
| `TreeEmptied` | `hub.py:229` broadcasts results only if there are any, so after a scan or an undo that leaves none, items polled before stay in the tree for good (`main.gd:178` "# Remove items no longer in results.") |
| `ScannerKinds` | number 1 is GREATER_THAN in `hub.py` and the GUI, LESS_THAN in the agent: the two are swapped |

### Disagreements seen without a run

Met while translating; each is plain from the lines named.

- A result whose page was unmapped makes `getScanResults` throw (`scan.ts:182`),
  and the poll loop ends for the watch list too while the hub stays attached
  (`hub.py:241`); a UI that closes during the loop's broadcast ends it the same
  way. `WatchListPolled` is checked for reads that do not throw, and as long as
  no UI has left.
- A trap that is pending while the watchpoint is set elsewhere is handled by the
  new handler and reported at the new address (`watchpoint.ts:19`, against
  `test_integration.py:86`), and while one is armed any exception of the target
  is taken for its hit (`watchpoint.ts:20`, `README.md:24`).
- A range of 4 GiB or more is scanned only up to its size modulo 2^32, since
  `scan.ts:27` declares `uint` what `scanner.c:100` takes as `size_t`
  (`README.md:18`). Both models have the cut.
- `config.py:27` gives the option `prefix`, `hub.py:81` reads `wine_prefix`:
  `FREAT_PROVIDER=wine:///...` (`README.md:47`) raises KeyError.
- `setDebugLogging` writes a global of a CModule (`scan.ts:55`), which
  `freezer.c:25-27` says is read-only; nothing calls it, so `log` logs nothing.
- The fields listed at `memory.ts:3` add up to 40 bytes, `FREEZE_ENTRY_SIZE` is
  48. The safe way round: see `LayoutFits`.
- An order of type 6 (`STRING`, from RPC callers only) takes four bytes left in
  `freezeValueBuf` by the order before: `OrderAsGiven` promises none for it.
- Refining with UNKNOWN drops every result, since the filter's switch has no
  such case (`QuietScanExact` leaves it out by name), and a value the game
  stores that equals the scale entry's last result stays unscaled. Two scale
  orders that overlap feed each other.

### What is lost for good

`WatchListIsRows` and `FrozenAsShown` except the addresses in `unwatched` and
`unheld`. How one gets there, and that nothing repairs it short of removing the
row or freezing it again, is part of what `CheatTable` says: rows added or a
file loaded while detached (the hub rejects the messages), anything done while
disconnected, the 65th freeze, a value `writeValue` throws on, and a detach,
which wipes the orders while the rows still show them. `Providers` has two
more: servers of a killed hub run on, and a partial download is never redone.

`Hub` has one: a freeze that the agent carries out after the clear of a detach,
and whose handler has not resumed when the hub closes the session, stays in the
target. `HubTwoClients` reaches it: one UI attaches again, the other's freeze
arrives while `attach` waits for the clear. `detach` awaits its own call only
(`hub.py:195-200`), and no line says that it waits for the others', so there is
no run that fails on it; what does hold, however many UIs freeze, is that a
freeze somebody was answered is not left, `ReturnedFreezesCleared`.

### Why the bounds are enough

- *Freezer.* Two slots and three addresses are the least with a full table, a
  refused order, a swap-remove that moves an entry and a stale slot holding an
  address that comes back. The proofs below lift the safety part to any size.
  `StopCalled` is TRUE so that `CallsReturn` covers the join, although the code
  never calls `freeze_stop`.
- *NativeBytes.* Three bytes hold aligned and unaligned elements of two widths,
  and a neighbour that belongs to none; five orders for two slots overlap,
  narrow and widen a slot and fill the table. Wider types and bytes of more
  values add no case the code distinguishes, and all six properties are proved
  for them. `UintModulus` is above the size of the range here; the proofs
  cover a range whose size is cut.
- *CheatTable.* One row's messages are independent of another's but for the room
  in the table and the handler, which the other UI's address takes up. Three
  messages are two callbacks' worth, with another message behind. The same
  invariants were also checked once with two rows of the GUI's own and two
  messages (4,681,536 states), and are proved for any number.
- *LiveView.* One event in the socket and one being polled may both be older
  than the row they reach; two types let a row be removed and added again as
  another; of two results one can go while the other stays.
- *Providers.* Three servers: one in use, one that fails, one that takes over.
  Three attempts for ten: a first, a last and one between.
- *Hub.* A second session is needed for "stale" to mean something, and two are
  enough for a task of the first to meet the second. Two UIs are the least that
  interleave; a second one that attaches too breaks `OpenSessionIsHubs`
  (`HubTwoAttach`), so the passing run lets one attach. Both freeze, so
  that an answer of the agent to one meets the clear it makes for the other.
  Liveness is checked with one UI, which leaves in the middle of its own
  broadcasts; a second one multiplies the states beyond what TLC can check for
  liveness in minutes.
- *Watchpoint.* Three addresses: a watchpoint, the one it replaces and the
  next. The outbox needs no bound, since one call is under way at a time and a
  watchpoint fires once.
- *Scanner.* Two ranges, one with two elements, give two result sets, of which
  one can fail and the other live; three calls filter the results of a filter;
  three values tell `<` from `<=` and a value `writeValue` throws on from the
  others. The target's one step is placed at every point of every call.

### Fairness

- *Freezer* (`FairSpec`): weak fairness for each thread's own steps and strong
  fairness for taking the mutex. `g_mutex_lock` promises no order, but both
  threads leave their critical sections and the sweep sleeps 100 µs unlocked, so
  a waiting thread is not passed over for ever. The game and the callers owe
  nothing.
- *Hub*: weak fairness for the loop, the timers, the broadcasts (a peer that
  stops reading is closed by the WebSocket keepalive), a live agent's answers
  and the "detached" of a session that has ended. UIs need not send, nor
  targets exit.
- *Watchpoint*: weak fairness for the agent, the handler, the delivery and the
  hub's resumption. Nobody need touch the address.
- *Scanner*: weak fairness for the running call.
- *CheatTable* (`FairSpec`): weak fairness for the agent's answers and each
  connection's handler, strong fairness for a handler's freeze, because the
  agent serves waiting callers in turn. Nobody has to reconnect, attach or
  press anything, so `OrderTakesEffect` has the way out that the row changes or
  the message was lost.
- *LiveView*: weak fairness for the GUI's frames, the handler and the poll
  loop. The user and the game owe nothing: the properties say what shows if a
  row, a result and a cell stay as they are.
- *Providers*: weak fairness for the attempts to connect, which `select_game`
  makes one after the other; none for the download, since `urlretrieve` has no
  timeout.
- `NativeBytes` has no liveness; `Freezer` has the freezer's.

Deadlock is checked except in the scanner's runs, where nothing runs once their
calls and the target's steps are used up, and in `HubOneClient`, where nothing
does once the UI has left and its target is gone.

## 4. Proofs

TLAPS checks these for all values of the constants that satisfy the assumptions
named in each module (`ConstantsAssumption`, `WatchpointAssumption`,
`RangeAssumption`, `ScanAssumption`, `MemoryAssumption`, `OrdersAssumption`,
`CheatTableAssumption`, `ProvidersAssumption`, `HubAssumption`,
`LiveViewAssumption`). TLC evaluates the same assumptions. A theorem that needs
more says so in its own `ASSUME`; see HubProofs and ScannerProofs.

**FreezerProofs** (any addresses, word and table size). The inductive invariant
is `TypeOK /\ MutualExclusion /\ UniqueAddresses /\ SweepSeesTable`. Unique
addresses alone are not inductive: an append keeps the sweep's count right only
because the sweep is then not among the entries, and that is `MutualExclusion`.
The lemmas take the steps by actor: game, calls outside and inside the critical
section, the loop. From it follow `TypesHold`, `MutexIsExclusive`,
`AddressesUnique`, `SweepConsistent`, and `FreezerImplementsTable`: under the
mapping `TableOf` every step is a step of `FreezeTable` or leaves it unchanged.
Every operation has its lemma, and each needs uniqueness to know which slot
`TableOf` picks; that a call is refused only by a full table needs it too,
since there must be as many orders as entries (`FrozenCount`). A second, small
invariant says that a call is being served only between its start and the end
of its section (`CallsServed`).

**WatchpointProofs** (any addresses). `FlagIsRegister` is inductive with the
types, proved as `TypesHold`. `ArmedWatchpointKnown` is about messages in
flight; its invariant adds that a call has one reply (`OneReply`), and that
while the watchpoint is armed no hit follows the reply of the call that set it
(`ArmedByLastCall`), so that no late hit resets `active_watchpoint` after the
handler has set it.

**ScannerProofs** (any ranges, element size, values, number of calls).
`BuffersOwned` says nextScan neither reads a freed buffer nor frees one twice,
whatever fails; `TypesHold` that no empty set, whose buffer would be null, is
kept. `ResultsOwnBuffers` needs that new buffers are new (`HeapBelow`), and the
types need that the native cursor stays on elements of its range (`LoopInv`),
which rests on lemmas about the least range and on the arithmetic of `end_addr
- step`.

What a scan answers is said of calls that have ended, and nothing about a call
that runs follows from it. `AnswerInv` says what every element read so far has
done to the answer: where the call stands among ranges and sets (`Stage`), that
what it has made passed the test of the scan type (`MadePassed`), that a live
buffer is one of before, one of a set still to be filtered or one of a new set
(`NothingLost`), and that on a quiet target what it has made is what the
elements gone over hold (`ExactSoFar`). When the call ends, all is gone over:
`CandidatesAsAsked`, `NothingLeaks`, `ScansAreExact`. The last assumes that no
first scan is of type UNCHANGED (`NoFirstUnchanged`), which the GUI does not
send (`main.gd:289`) and the first loop's switch does not know.

**NativeBytesProofs** (any memory, byte, types, orders and table size).
`LayoutFits` needs no invariant: each C variable fits in what the agent
allocates for it. `OrdersAreKept` says that each order in force has one entry,
of its own mode, type, width and bytes. By itself it is not inductive, for a
removal moves the last entry and an update keeps its slot: `OrdersFiled` adds
that an order is filed under its own address, and `TableTyped` that slots and
count are in bounds. The lemma `Widths` carries the rest: the width TypeScript
gives is between one and eight bytes and never below what C scans, so an
entry's bytes survive its two copies, `EntryOfCarriesOut`. From the same
invariant follows `NeighboursAreSafe`: what a sweep step overwrites is the
element of an order in force.

`SweepsHold` is about the end of a sweep, so its invariant is about the middle
(`SweepSoFar`): a byte that an entry gone over covers holds what *some* entry
gives it, not what that entry gave it, because orders overlap and a later one
overwrites. A scale order spares such a byte, since only freeze orders cover it.

`TypesHold` and `PreviousValuesHold` come from `ValueInv`, which has to know
that results are elements of the range, and that there are none after a scan
for a type the native code does not know. `FrozenAreFound`, about the
elements that lie in `ScannedSize`, then follows from `SweepsHold` by computing: the bytes of a value, summed by place, are the value
modulo its width (`ValueOfBytes`), which is what `Cut` leaves of the value the
scan asks for. These are loops, and tlapm cannot instantiate an induction
theorem. It can show, from the well-foundedness of `<`, that a set of naturals
with 0 and every successor is `Nat` (`AllNaturals`); so a function given step
by step exists (`StepwiseFunction`), and `Place`, `ValueOf` and `Appended`
unfold. The arithmetic of `\div` and `%` by a number that is not a numeral is
proved beside (`RemainderOfProduct`).

**HubProofs** (any UIs, sessions and addresses). `TypesHold` needs no
hypothesis. The properties of the session are proved under `OneAttacher`, no two
UIs send `attach`: nothing in `hub.py` enforces it, and `HubTwoAttach` shows
what happens without. Any number of UIs may freeze, watch, call and leave.

Nothing is locked, so the invariant is about who is ahead of whom in the loop's
queue. `detach_sync`'s task names no session: it is harmless only if it has its
turn before a later `attach` opens one. `PendingInTime` says it does: closing a
session queues the task at once, while the handler that closes it still has a
broadcast to await, and the turn after that broadcast comes behind the task.
This needs that a handler is in one place, in the queue, in one agent's calls
or in one broadcast, and there once (`OnePlace`), or an earlier entry of it
could overtake. The other parts say who may be inside `attach`
(`AttachIsAttachers`), that a session which has not ended is the hub's and only
a live one answers (`SessionsEnd`), that the poll loop is given up before the
session (`ClosingStoppedPolling`), and what may be frozen (`FrozenByAgent`).

`ReturnedFreezesAreCleared` is about the interval between the agent's answer to
the clear and the turn of the handler that closes the session, in which other
UIs' freezes are carried out. Their answers are queued behind that of the clear,
so none of their handlers can have resumed by then. The invariant is
`LeftFrozen`: while `attach` awaits the clear its call is still with the agent,
or its turn stands in the queue before that of each UI whose freeze the session
still holds. It rests on `OnePlace` again.

**LiveViewProofs** (any addresses, rows, types and bounds). `TypesHold`, by
actor: what is read is of the watch list's types, so every event carries
numbers, for addresses the GUI knows; and the poll loop waits for values just
when it took a watch list that was not empty.

**CheatTableProofs** (any rows, types, values, table size, connections and
backlog). That rows, watch list and orders agree *at rest* is not inductive;
the invariant says what is on the way. For an address no message of which was
lost, the messages about it are all in the current connection's queue, and lead
one after the other (`Chained`) from what the hub or the freezer has to what
the row shows (`EndsIn`): each watch message is about the type of the row it
was sent for, each freeze message has the mode the row then showed. A user's
step extends the chain at its end and a handler's shortens it at its head
(`CallIsHead`: while a handler waits, its request is the first message of its
queue). On a reconnect the old chain must be empty or counted lost
(`ClosedIsLost`), which makes it matter that a message in flight marks its
address when the connection goes. With nothing on the way, the two ends are the
same: `WatchListFollowsRows`, `FreezerFollowsRows`.

**ProvidersProofs** (any games, servers and attempts). The invariant joins the
stages of `making` to the server it holds, and the provider's server to the
game of the last answered selection. `NoServerLeftBehind` needs that a
constructor that raises has its server in hand, `ProviderIsAnswered` that
nothing replaces `provider` before the last step, `SessionIsServed` that the
server that is terminated takes its sessions with it.

Only model-checked: liveness under fairness, which is beyond the prover
(`FrozenValueHeld`, `NoEndlessScaling`, `CallsReturn`, `HandlersReturn`,
`DeadAgentDropped`, `WatchListPolled`, `ScanReturns`, `FaultReachesTarget`,
`OrderTakesEffect`, `RowFresh`, `TreeShowsResults`, `ConnectEnds`). Every other
property of a passing run is a theorem. No module declares a RECURSIVE operator.

## 5. Not modelled

- Floating-point arithmetic: the widths of FLOAT and DOUBLE are in
  `NativeBytes`, their values nowhere.
- The read or write condition and size of a watchpoint; the backtrace of a hit;
  the end of the target's main thread.
- The markers of watchpoints in the rows: a row keeps its marker when another's
  watchpoint replaces it, or when `setHardwareWatchpoint` failed, and clearing
  from the stale row removes the other's watchpoint (`main.gd:422`). No line
  says what the marker promises. Nor does one for `write-value`, which is sent
  with the type of the scan controls, not of the row (`main.gd:624`).
- `list-processes`, `list-proton-games` and scan-progress: they change no state.
- The restart of a GUI, which forgets its rows while the hub's watch list stays,
  and more than one GUI with rows of its own.
- `discover_games` but for its answer; the local and remote providers, which are
  single calls of frida; two hubs over one data directory.
- `config.py`: one parse at start (see the disagreements above).
- What Frida does to the freezer thread when it unloads the agent: nothing in
  the code stops the thread (`freeze_stop` is bound and never called).
- `index.ts` forwards and `logger.ts` prints; build files and the tree widget
  keep no state worth a model; of the vendored headers only what `freezer.c` and
  `scanner.c` use is, and the others declare libraries nothing calls.

## 6. What could follow

1. An abstract scanner, a set of candidates that a scan replaces, narrows or
   forgets in one step, which `Scanner` implements on a quiet target;
   `ExactSoFar` is most of the refinement's invariant.
2. An abstract memory of orders that `NativeBytes` implements between sweeps,
   as `Freezer` implements `FreezeTable`.
3. The rows of several GUIs over one hub, whose freezes of one address replace
   each other: `OtherFreezes` has another UI only at addresses of its own.
