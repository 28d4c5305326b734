# Kaisola: TLA+ specifications

Kaisola is an Electron workspace for coding agents.  Its main process owns
windows, agents and a local database; a detached *session broker* owns the
terminals; an iPhone *companion* follows and controls the desktop over an
encrypted connection.  This directory models the parts whose correctness
depends on interleaving, failure and ordering, checks them with TLC and proves
some of them with TLAPS.  `PROJECT.json` maps every definition to the lines it
models.

## 1. Inventory

| Component | State | Operations | Hard behaviour | What makes it correct |
|---|---|---|---|---|
| Terminal control leases (`companion/terminalControl.cjs`, adapter in `ipc/terminalHandler.cjs`) | one lease per terminal, pending size restores | acquire, renew, write, resize, interrupt, release, expiry, disconnect | awaits between check and act; restores racing the next lease | late commands never land behind a later lease; the desktop's size comes back; nobody is locked out |
| Command cache and router (`companion/commandCache.cjs`, `commandRouter.cjs`) | receipts, runs in flight | execute | repeats after a reconnect, joins, eviction, failing handlers | a command runs at most once; a receipt belongs to its command |
| Event log (`companion/eventLog.cjs`) | retained events, boundary, acknowledgements | append, invalidate, replay, acknowledge | two limits at once, invalidation | a replay has no gap; limits hold |
| Synchronization (`stateHub`, `desktopState`, `gateway`, `bonjourTransport`, Swift `CompanionStore`, `CompanionClient`) | desktop state, session position, socket queue, phone's cursor and replica | publish, hello, replay or snapshot, acknowledge, close | slow consumers, lost connections, dead sessions, restarts | the phone shows one past state, never goes back, catches up |
| Project moves (`ipc/projectTransferJournal.cjs`, `main.cjs`, `store.ts`, `App.tsx`) | window stores, journal, renderers | detach, prepare, adopt, commit, abort, finish, recover | crashes, timers, reloads that save, closed and reopened windows | each project is in exactly one window; moves are resolved |
| Terminal observer streams (`gateway.cjs`, `terminalCursor.cjs`, `terminalObservers.cjs`) | shared streams, their members and observers | subscribe, set up, resync, dispose | joining a stream that is being set up or disposed of | each member shows one gap-free stretch of output, nobody waits for ever |
| Session broker (`session-broker.cjs`, `sessionBrokerClient.cjs`, `brokerWire.cjs`) | clients, terminals, `broker.json`, `broker.lock`, socket path | hello, attach, dispatch, idle exit, relisten | restarts of either side; files that outlive their writer | one broker; terminals survive the app and are found again; the broker does not outlive its use |
| Terminal manager and spool (`terminalManager.cjs`, `terminalSpool.cjs`) | PTY records, disk windows, release timers | create, write, release | flow control, rotation | bounded memory, no lost tail |
| Pairing and device store (`pairing.cjs`, `deviceStore.cjs`, `companionHandler.cjs`, `bonjourTransport.cjs`) | offers, handshakes, devices and their file, pairing records, live connections | offer, claim, confirm, finalize, cancel, revoke, narrow, expire | single use, expiry, three parts that remember one pairing, revocation against registration | one device per code; a connection has the rights its device has now; the window is told the truth |
| Rendezvous, Kaisola Link, relay (`accountRendezvous.cjs`, `kaisolaLinkClient.cjs`, `relay/`, `functions/`) | tickets, routes | publish, connect, forward | replacement, reconnect | frames reach the right peer once |
| Agent sessions (`acpHandler.cjs`, `acpSessionService.cjs`, `acp.cjs`, `acpProcessLedger.cjs`) | connections, connect tasks, leases, idle timers, turns, permission requests | connect, disconnect, prompt, steer, cancel, permit, park, adopt, transfer | turns racing transfers and adoptions, windows that are gone, agents that do not answer | no process is lost; a turn keeps its listener; idle agents go, visible ones stay; Stop holds; every turn settles |
| Attention (`attentionService.cjs`) | items that need the user | raise, clear, acknowledge | restarts, duplicates | each item is cleared exactly once |
| Mesh and worktrees (`GroupAssistant.tsx`, `meshPolicy.ts`, `worktreeHandler.cjs`) | rounds, worktrees | run, review, apply | partial failure | no work is lost |
| Account, updates, usage (`authHandler.cjs`, `updateHandler.cjs`, `usageHandler.cjs`) | tokens, staged update, quotas | refresh, stage, install | concurrent refresh | one refresh at a time |
| Cryptography, protocol, redaction | none or small | validate, seal, open | none that TLC reaches | - |
| Desktop services (files, git, MCP, extensions, sandbox, models, LaTeX) | little | request and response | I/O | - |
| Native macOS client (`native/`), user interface | views | - | - | - |

Components interact as follows.  A phone's frames reach its gateway session
strictly one after another (`bonjourTransport.cjs:466-472`); a command goes
through the router and the cache to a handler, for instance the control lease
service, which talks to the session broker over an ordered socket.  Everything
the desktop wants a phone to know is appended to the event log by
`desktopState`, which queues one synchronization of all sessions.  Renderers
persist their own stores in main's database; the move handler in main is the
only code that edits a store from outside its renderer.

## 2. Modules

| Module | Models | Extends or instances |
|---|---|---|
| `TerminalControl` | the lease service, its adapter and the PTY, for one terminal | |
| `TerminalControlProofs` | its invariant and the proofs | extends `TerminalControl` |
| `Selection` | what filtering a sequence leaves | |
| `SelectionProofs` | that it keeps the chosen elements, once and in order | extends `Selection` |
| `CommandCache` | the idempotency cache as the router drives it | extends `Selection` |
| `CommandCacheProofs` | its invariant and the proofs | extends `CommandCache`, `SelectionProofs` |
| `EventLog` | the replay log | extends `Selection` |
| `ReplicaView` | abstract: a copy that shows one past state and only moves forward | |
| `CompanionSync`, `MCCompanionSync` | desktop state, log, session, connection and phone | extends `EventLog`, instances `ReplicaView` |
| `CompanionSyncProofs` | the invariants of the log and of the phone, the proofs and the refinement | extends `CompanionSync`, `SelectionProofs` |
| `ProjectHomes` | abstract: each project in exactly one window | |
| `ProjectTransfer`, `MCProjectTransfer` | journal, move handler, renderers, stores | extends `Selection`, instances `ProjectHomes` |
| `TerminalStreams`, `MCTerminalStreams` | the phones' shared terminal streams and their observers at the broker | extends `Selection` |
| `TerminalStreamsProofs` | its invariant and the proofs | extends `TerminalStreams`, `SelectionProofs` |
| `SessionBroker` | brokers, apps and the three files by which they meet | |
| `SessionBrokerProofs` | its two invariants and the proofs | extends `SessionBroker` |
| `CompanionAccess` | pairing, handshakes, rights and the device store | |
| `CompanionAccessProofs` | its invariant and the proofs | extends `CompanionAccess` |
| `AgentSessions` | the agents of one thread, their turns, and the windows they belong to | |
| `AgentSessionsProofs` | its inductive invariants and the proofs | extends `AgentSessions` |

The MC modules only define symmetry sets.  Operators marked "mutant" in the
modules are altered copies of the definition below them; no specification uses
one.  They show, one per property, that a plausible mistake in the code breaks
the property.

**TerminalControl.**  `lease` is the terminal's entry of the `leases` map; the
`restores` map is derived (`Restoring`: restores sent and not settled).  Each
session has at most one command, whose `stage` says which await it is at.  The
adapter talks to the broker over an ordered socket: an acquire makes one request
("available"), and write, resize and interrupt two ("list" revalidates the
terminal, "act" does the work).  Continuations whose promise has settled run
before the next timer or socket callback (`EventLoopTurn`).  Kind "input" stands
for both write and interrupt, which take the same path.  `reportsSize` is which
broker runs, one whose list rows carry a size or an older one.  The clock is the
time a lease has left.  `lastLanded`, `reacquired` and `overtaken` are history
variables: the lease of the last command that reached the PTY, whether a phone
has asked again for control it had, and whether an acquire that awaited a restore
went on with a later one under way (`Overtaken`).  Left out: the checks of payload sizes, which end a
command without an effect, and broker requests that time out (5 s) or whose
connection breaks (see section 6).

**CommandCache.**  A caller is one `route()` call.  A run of a handler is kept
for the record in `runs`; `age` and `touched` record what the promise "does not
execute twice" depends on, the receipt's time and the other commands answered
since.  The microtask that clears the in-flight entry is an action of its own.

**Selection.**  The code filters arrays and deletes keys of insertion-ordered
maps in several places (`#purgeExpired`, `replay`, `#acceptsEvent`, the journal).
`Selected` says what is left by the ranks of the places that are kept, which is
what `SelectSeq` computes, but without recursion, so that it can be proved about.

**EventLog.**  The log is a sequence of numbered events with sizes; `Shifted` is
the number of events `#trimToLimits` drops.  Its properties are checked where the
log is used: in `CompanionSync`, where private events have size 2 and the others
size 1, so that either limit trims first, and every restart begins an empty log.

**CompanionSync.**  The desktop's state is a number per item that every change
increments, and `history` holds every state it has had, so a lost, repeated or
reordered change shows.  `Private` events are those `#acceptsEvent` filters out.
`down` and `up` are the frames in flight; what does not fit in the queue closes
the session (`Send`).  A broken connection takes its frames along, and the
desktop may notice later (`lingering`).  A restart of the desktop begins an
epoch; a relaunch of the app forgets everything.

**ProjectTransfer.**  A store is the set of projects in it, and a window exists
on disk exactly when it has one, because `loadWindowManifest` adopts every store
it does not list.  `persist` tells whether a renderer has something to write:
`pagehide` writes what is pending or the last thing written again.  `moves` are
the handlers of `window:detach-project`, one record each, `stage` saying where
they are.  `Homes` is where each project would be if the app crashed at this
moment and was launched again: the stores after the journal's recovery.  The
constant `Disturbances` names what may go wrong besides crashes, quits and
closed windows: a slow target or source renderer, a refusal, a reopened window,
overlapping moves, a failing commit write, another failing write.  Left out: the
fallback to `sourceAfterRaw` on a different persist version, the limit of eight
records, moves of a window onto itself, projects opened during a move, pop-outs.

**TerminalStreams.**  Output is counted in chunks; what a phone shows is a
sequence of chunk numbers, so a gap or a repetition shows.  A stream record has
the promise of its setup (`setup`), of its disposal (`dispose`) and what the
gateway keeps until it is set up (`pending`, `overflow`).  The subscribe and
unsubscribe handlers are cut at their awaits (`stage`); continuations that can
run do so in the order in which they began to wait (`order`, `FirstToRun`), and
before the next frame or broker message (`EventLoopTurn`), since they are
microtasks.  `owner` is the observer table of the app (`observers` in
`terminalHandler.cjs`), `observer` that of the broker.  Stream names are used
again once nothing refers to one, which keeps the state space finite without
bounding how often phones come and go.  Left out: the polling path for brokers
without observers, exit and activity events, resuming from a cursor, redaction.

**SessionBroker.**  `info`, `lock` and `sock` are `broker.json`, `broker.lock`
and the listener the socket's path leads to; none is tied to a process, which is
the point of the module.  A pid stands for the process, its listener and its
token, and is used again once nothing refers to it.  `app` is where `connect()`
is: `try` which of its three `_open` calls, `seen` the info it goes by, `peer`
the other end of its socket.  The unlinking of stale files is three actions,
because the app can be killed between them.  A request and its answer are one
step: a lost request was never sent, and a lost answer is a connection that ends
right after.  `Faults` names what may happen, `MaxFaults` how often.

**CompanionAccess.**  Three parts remember the same pairing: the handler its
`record` (the pairing window), the transport its `socket`, the pairing manager its
`offers` and sessions.  Every frame, click and timer is handled in one go by the
code, so each is one action; the orders in which they come are what is checked.
`devices` is the store in memory, `disk` its file; `told` what the window was
told in the end, and the history variable `stored` which device each code has
brought into the store.  A frame that fails takes its socket down with it, as
in the code.

**AgentSessions.**  `connections`, `connectTasks`, `connectionLeases` and
`idleTimers` are the maps of `acpHandler.cjs`, seen by one thread: a slot per
window.  `sender` is the window an agent belongs to (`entry.sender`); the code
assigns it together with the slot, and an agent that is replaced in its slot
keeps it, so the one conjunct `Bound` of the next-state relation has it for every
action.  Main is one thread, so handlers interleave only at what they await: a
handshake (`Connect` to `Connected`), a prompt (`Prompt` to its settling), the
handover of an agent's terminals during an adoption (`StartAdopting` to
`Adopted`) or a move, and the target of a move (`move.stage`).  Nothing else keeps
handshakes, adoptions and moves apart, and nothing does in the model: a card asks
for the status, and so adopts, at any time and connects meanwhile (as
`ensureAgentConnected` does on every Send), several orphans may be on their way
to several windows (`adopting`), and a project may move while a window of it
adopts.  A second connect waits for the first (`waiting`) and goes on in a
microtask, so before anything else (`ConnectWaited`).  A window is closed or
crashes at any step, and its id is used again once nothing names it.  The turn of
an agent is "running" until the prompt is answered and "flushing" until its
steers are, which an agent that absorbed them never does.  Prompts are made by
the window of the slot or by a phone.  History: `home` is who sent the prompt,
`stop` that it was stopped, `slipped` that something was allowed all the same;
`contested`, `stranded` and `unleased` are the exceptions in section 3.
`contested` is worked out after every step (`Remembered`): the agents one of
whose slots another one has or claims too (`Claims`: it is in the slot, is being
connected, adopted or moved to or from it), and, once they are out of every slot,
those that were.  Left out: agents that cannot resume their session (they are
never parked), several threads, the modes of a read-only turn, the refusal to
close a window with active work (a crash asks nobody), a project closed in one
window and opened in another without a move, and a status call that goes on to a
second orphan after the first handover failed (it walks a snapshot of the map;
the model's goes on by asking again).

## 3. Runs

All bounds are named constants of the modules; a bound is a guard, never a
state constraint.  `CHECK_DEADLOCK FALSE` is set everywhere because every one of
these systems may simply fall idle (and a bounded behaviour ends).  Runs that
check liveness use no symmetry.  `TypeOK` of `CommandCache`, `CompanionSync`
and `ProjectTransfer` holds in the same instances; their runs leave it out.

| Run | Shows | Bounds |
|---|---|---|
| `lease` | `TypeOK`, `DesktopSizeRestored`, `LandsInLeaseOrder`, `CommandAnswered`, `OrphanLeaseEnds`, with a broker that reports sizes and one that does not | 2 phones, 2 leases: enough for a command of one lease to be overtaken by the next; the theorems cover every number.  1 desktop size and no repeated acquires, see the exceptions |
| `receipts` | `ReceiptIsForCommand`, `AtMostOnce`, `CallerAnswered` | 2 callers, 3 ids, 2 contents, 2 entries, 3 runs: one id more than the cache holds |
| `sync` | `NeverRefused`, `ShowsOneMoment` (the phone implements `ReplicaView`), and of the log `ReplayGapFree`, `RetentionBounded` | 2 items and private events, 3 events an epoch, 2 epochs, log of 2 events or 3 bytes, queue of 2, 2 breaks |
| `sync_live` | `CatchesUp` when the retained log fits in the queue | 1 item, log of 2, queue of 2 |
| `moves` | `MovesAtomically` (moving implements `ProjectHomes`) | 2 projects, 3 windows, 2 moves one after the other, 2 crashes, quits or closes, failing writes |
| `moves_live` | `MovesSettle` under every disturbance but failing writes | 2 windows, 2 moves, 1 exit |
| `streams` | `TypeOK`, `MembersSeeOneStretch`, `MembersAreUpToDate`, `OneObserver`, `NeverBack`, `NobodyWaitsForNothing` | 2 sessions of 2 phones, 4 streams, 1 chunk retained, 1 pending event, 2 events of the world (chunks, broken connections, requests given up).  Sessions come and go without a bound.  A larger instance (3 events of the world, 5 streams, 8.1 million states) was checked by hand |
| `broker` | `TypeOK`, `IdleMeansEmpty`, `OneBroker`, `TerminalsAreFound`, `AppGetsBroker`, `ReplacementsAreLeft` | 1 app (launched any number of times), 2 terminals, 4 brokers alive or remembered, 5 faults; the safety of it is proved for every bound |
| `access` | `TypeOK`, `RightsAreCurrent`, `ClientsAreCounted`, `ReportsAreTrue`, `PairedByItsCode`, `PairingEnds` | 2 phones, 2 grants, 2 codes, 3 sockets of which 2 may be in a handshake: both limits of the transport are reached; the safety is proved for every bound |
| `agents` | `TypeOK`, `NoAgentLost`, `TurnsReportHome`, `IdleAgentsGo`, `CardsKeepAgents`, `StopHolds`, `TurnsSettle` | 2 windows, 2 agents and a phone, nothing else bounded: a project moves to and fro, windows come and go, connects overlap adoptions (some 630,000 states).  A move during an adoption needs a third window: the safety of 3 windows and 2 agents and of 2 windows and 3 agents (3.6 and 1 million states, under symmetry and without steers) and random behaviours of 4 windows and 3 agents were checked by hand; all of it is proved for every bound |

Two runs are findings: each checks a statement of the repository that the code
does not keep, and TLC shows how.

| Run | The code | The statement |
|---|---|---|
| `moves_fallback` | the reload that should discard a stale renderer lets it save first (`main.cjs:1476`) | "A source renderer that never sent its completion ACK must not keep a stale in-memory duplicate after main repairs the authoritative store" (`main.cjs:1474-1475`) |
| `broker_empty` | the timer that releases the last terminal does not reevaluate the idle exit (`terminalManager.cjs:595`), so the empty broker stays for as long as no app sends it another request | "Connected Electron main must not pin an otherwise empty ~60 MB helper" (`session-broker.cjs:130-131`) |

In `moves_fallback` the window is edited while it waits, so its renderer has
something to save when it is reloaded; in practice it always has, since the
store is saved all the time.

### Known exceptions

The passing runs state under which conditions a property holds.  Most of these
conditions are constants of the modules, and giving them another value makes TLC
show the behaviour that breaks the property:

| Condition | Breaks | How |
|---|---|---|
| `TerminalControl`, `Reacquires = TRUE` | `DesktopSizeRestored` | a phone that asks again for a lease it holds gets back the one it read before its await, even if that has expired and its size was restored meanwhile (`terminalControl.cjs:62-68`) |
| `TerminalControl`, two `DesktopSizes` | `DesktopSizeRestored` | a restore uses the size captured at acquire, not the desktop's last (`terminalControl.cjs:218`) |
| `TerminalControl`, three leases | the size `DesktopSizeRestored` promises, which therefore excepts `overtaken` | an acquire awaits the one restore it finds (`#waitForRestore`); if another acquire that was in flight is granted and its lease ends meanwhile, a second restore is under way when the first settles.  The acquire is then told the phone's size, and its own restore puts that back (`terminalControl.cjs:62`, `232`; the companion design, lines 357-358, has the desktop's last geometry restored) |
| `TerminalControl`, `Reacquires = TRUE`, three leases | the order of `LandsInLeaseOrder`, which therefore excepts `reacquired` | of two acquires that overlap one is granted a new lease, then the other puts back the earlier lease it had read, and commands of that one land after commands of the later (`terminalControl.cjs:62-80`) |
| `TerminalControl`, two phones | `AcquireOnlyWhenFree` | two acquires that overlap are both granted: each checks for a lease, awaits the broker and installs its own whatever there is by then (`terminalControl.cjs:66`; the companion design, lines 344 and 351-352, has it "granted only when no unexpired lease exists") |
| `CompanionSync`, `QueueCap < MaxEvents` | `CatchesUp` | a replay larger than the queue closes the session, each time (`gateway.cjs:341`); the design, lines 308-309, has it "A bounded replay succeeds or the desktop sends a fresh snapshot" |
| `ProjectTransfer`, `Disturbances = {"overlap"}` | `MovesAtomically` | a window may be the source of one move and the target of another, so a preimage may hold a project that has moved since (`projectTransferJournal.cjs:166`) |
| `{"slow target"}`, `{"uncommitted"}` | `MovesAtomically` | the target adopted, main restores its store, and reloading it writes the adopted project back (`main.cjs:1444`, `store.ts:1808`) |
| `{"slow source"}` | `MovesAtomically` | the same for the source (`moves_fallback`) |
| `{"refusal"}` | `MovesAtomically` | a torn-off window that is reloaded boots blank, and its next save loses what it had (`store.ts:1770`) |
| `{"reopen"}` | `MovesAtomically` | a source window closed and reopened before main repairs its store is not reloaded (`main.cjs:1473`) |
| `TerminalStreams` | `SameOrderedOutput` | a phone that joined a stream while it closed is never told that the stream has ended, and shows what it had (`gateway.cjs:640`; the companion plan, line 134, promises the same ordered output); `MembersSeeOneStretch` is about the members of a stream |
| `TerminalStreams`, `MaxWorld = 2` | `PausedPhonesAreTold` | the slow-consumer event comes while the stream is set up, or before a phone joins (`terminalObservers.cjs:59-60`, the plan's line 128); `MembersAreUpToDate` therefore excepts paused observers |
| `TerminalStreams`, requests given up | an observer nothing routes to | the app gives up a subscribe the broker then carries out (`sessionBrokerClient.cjs:518`); `OneObserver` excepts it |
| `SessionBroker`, `Faults` with "early" or "midway" | `AppGetsBroker` | a broker killed between its lock and its info, or an app killed between the unlinks (`sessionBrokerClient.cjs:312`), leaves a lock without info: every later broker exits at once |
| `SessionBroker`, two `Apps` | `ReplacementsAreLeft`, `OneBroker` | two apps that find the same stale files: the second removes those of the broker the first started (`sessionBrokerClient.cjs:308-314`).  Electron's single-instance lock excludes it (`main.cjs:175`) |
| `SessionBroker` | `IdleExitLosesNothing` | a broker that is shutting down still answers a hello on a socket it accepted before, and a terminal created there goes with it (`session-broker.cjs:346`) |
| `CompanionAccess`, `Faults` with "unsent" | `ReportsAreTrue` | the device is stored, and then the frame that tells the phone does not fit: the window reports a failure for a paired device (`pairing.cjs:340`, `companionHandler.cjs:363`, `bonjourTransport.cjs:548`) |
| `AgentSessions`, `contested` | `NoAgentLost`, `TurnsReportHome` | a slot is checked before an await and filled after it, and a connect, an adoption and a move do not look at each other.  `ensureAgentConnected` (`Assistant.tsx:1495-1514`: every Send, the queue, a change of controls) asks for the status, which passes over an orphan an earlier status is taking over (`acpHandler.cjs:1105`) and so reports no agent, and connects one; whichever of the two ends last replaces the other in the slot (`acpHandler.cjs:1116`, `1343`).  Nobody ends the process of the other ("only one adapter/process ledger entry is ever created for this exact thread", `acpHandler.cjs:1168-1169`), and when it is the connected one that is replaced, during its turn (`StartAdopting`, `Connect`, `Connected`, `Prompt`, `Adopted`), the window that sent the prompt has the other agent.  An orphan whose adoption ends after a move has brought another agent to the window, or the reverse, is the same.  The agents concerned are excepted from the moment two of them claim one slot |
| `AgentSessions`, `stranded` | `IdleAgentsGo` | a move rolled back to a source that was closed, or an adoption by a window closed meanwhile, puts the agent and perhaps a lease in the slot of a window that is gone; `releaseAcpRenderer` has been there before, so with that lease no timer will park it (`acpHandler.cjs:512-516`, `1115-1118`) until another window adopts it.  The watchdog of an agent that was replaced in its slot (`acpHandler.cjs:281-283`), and a move that fails after its agent was (`acpHandler.cjs:531-533`), drop the timer of the agent that is there now |
| `AgentSessions`, `unleased` | `CardsKeepAgents` | a Stop that ran out of time, a disconnect and a failed move drop the lease of a card that stays mounted (`acpHandler.cjs:282`, `1487`, `531`), and a move takes the lease of the source's card to the target with the agent, while an adoption may fill the source again; the agent that is there next is parked when idle although the card is visible ("Visible transcripts stay warm", `Assistant.tsx:1155`) |
| `AgentSessions`, after the turn | `StopHolds` | Stop holds until the stopped prompt has settled; a permission request that comes after that is allowed by autonomy again (`acpSessionService.cjs:491`) |

Four more are visible without a property.  An acquire that is in flight when its
phone disconnects is granted to the closed session (`terminalControl.cjs:80`),
and holds the terminal until its time is up; `OrphanLeaseEnds` says that it then
ends.  When the connection to the broker breaks, a shared terminal stream stays
without output until its last member leaves.  The handshake limit counts
authenticated sessions too (`pairing.cjs:190`, `221`), so connected phones use up
the room for pairing.  And a handshake session's own 30 s never run out before
the 30 s of its socket's timer, which was set first.

## 4. Fairness

* `TerminalControl`: continuations of settled promises run (weak); the broker
  answers and time passes (weak); main gets round to broker responses and the
  expiry timer although newly arriving commands keep running continuations
  first (strong: Node drains microtasks, then takes the next callback).  The
  phones and the desktop's user owe nothing.
* `CommandCache`: handlers settle; every handler the desktop registers is built
  on requests with timeouts.  Microtasks run.
* `CompanionSync`: the queued microtask runs, frames that arrived are handled,
  the phone reads its socket and reconnects (`CompanionTransport` retries while
  a connection is wanted).  Nothing is assumed of publishing, breaking or
  restarting; the bounds end them.
* `ProjectTransfer`: main's handler goes on, by its timers if need be
  (15 s for a preparation and an adoption, 30 s for the source; handing over
  agents is built on broker requests with timeouts).  No renderer is fair.
* `SessionBroker`: processes do what they are about to do, and timers fire.
  Connecting and asking are strongly fair: they take milliseconds, and the idle
  exit that may come in between has a timer of 30 s, so it does not hit every
  attempt.  No fault is fair, and `MaxFaults` ends them: a system that is killed
  for ever owes nothing.
* `CompanionAccess`: time passes and the timer of a pairing record fires.  No
  phone, user or socket is fair.
* `AgentSessions`: the flush timer (2 s) and the watchdog of a Stop (8 s) fire.
  No agent, window, phone or handover is fair: a turn that was neither answered
  nor stopped may last for ever.
* `EventLog`, `TerminalStreams`: none; what could be waited for is stated as an
  invariant (`NobodyWaitsForNothing`: who waits waits for something that is on
  its way, which rules out a circle).

## 5. Proofs

`SelectionProofs` proves `SelectedKeepsOrder`: a selection consists of exactly the
chosen elements, each once and in their order.  It follows from `Ranks` (an
injection of the places into 1 .. their number, which is therefore onto).

`CommandCacheProofs` proves, for any callers, commands, limits and lifetimes:
`CacheInvariant`, `TypeCorrect`, `ReceiptsAnswerTheirCommand`
(`ReceiptIsForCommand`) and `CommandsRunAtMostOnce` (`AtMostOnce`).

That a command does not run twice is a promise about a map that is purged,
reordered by hits and trimmed.  `CacheInv` says why it is kept: there is one
receipt per command (`Distinct`), of a run that was applied, whose time left is
exactly `Ttl` less the age of the command (`IsReceipt`); what is in flight is the
last run of its command (`RunsOK`); and (`Covered`) a command whose last run was
applied, less than `Ttl` ago, either has its receipt with only commands answered
since then behind it, or `MaxEntries` others were answered since.  A hit moves
its own entry behind, and is answered, so it is among those; trimming gives up
the first entry only when `MaxEntries` others are behind it, and being distinct
they are that many commands (`TrimmedEntries`).  The only assumption is
`CommandCacheAssumption`.

`CompanionSyncProofs` proves of the log, for all limits, bodies, clients and lengths:
`LogInvariant`, `TypeCorrect`, `ReplayIsGapFree`, `RetentionIsBounded`.

The three properties are not inductive.  A gap can only be excluded by knowing
that the retained events are numbered consecutively and end at `currentSeq`, and
that the boundary is exactly below the first of them; this is `LogInv`.  The
argument per action: `Record` appends the next number and drops a prefix, so
numbers stay consecutive and the boundary becomes the last dropped number
(`ShiftedFits`: the prefix dropped is the least that leaves the log within its
limits, and one exists because the empty log fits; `FromProperties`: what a
suffix of the log contains); `Invalidate` empties the log and moves the boundary
with the number; the other actions leave all three alone.  `LeastNatural` and
`EmptyBytes` are the facts about naturals and sums it rests on.  (`LeastNatural` is
in `SelectionProofs`.)  The only
assumption is `EventLogAssumption`.

Of the phone it proves, for any items, clients, limits, queue, epochs and breaks: `SyncInvariant`, `SyncTypeCorrect`, `PhoneNeverRefused` (`NeverRefused`)
and `PhoneShowsOneMoment` (`ShowsOneMoment`), the refinement of `ReplicaView`.

What the phone shows when it applies an event is right only if nothing else had
changed since what it shows, and that was decided when the frame was sent, by a
cursor the phone had then, from a log that has since been trimmed, invalidated or
begun anew.  `SyncInv` therefore places everything in `history`: every cursor and
every frame names a place its epoch reached (`Reached`, `At`), the phone shows the
state at its cursor (`PhoneOK`), a retained event says all that changed at its
number (`EventsOK`), and frames come in the order of their places (`InOrder`).
`NoGaps` says what a frame under way promises: from *any* state the phone may show
when it gets there (not before what it shows now, nor before the frames ahead of
it), the event's item is all that differs at its place.  It is stated without
the sender, so it survives the end of the session that sent it, and a connection
that is cut anywhere (`Prefix`).  `CaughtUp` does the same for a stream: who has
read all of its frames shows the state at `lastSentSeq`, up to changes that were
not for it, so the next replay can be appended (`Extends`, whose core is
`SentFrames`: between two events a replay sends, only filtered ones lie, which
change nothing, `QuietEvents`, `QuietStretch`).  Changes of the desktop only add
to the history (`Grows`), which leaves all of that where it was (`Grown`,
`GrownFrames`, `GrownPhone`); `ReceivesKeeps` is the step that moves the phone.
The assumptions are `CompanionSyncAssumption` and `EventLogAssumption`.

`TerminalControlProofs` proves, for any phones, sizes, ttl and number of leases:
`OrderInvariant`, `TypeCorrect`, `LandsInOrder` (`LandsInLeaseOrder`) and, for a
desktop that keeps one size (section 3), `DesktopSizeComesBack`
(`DesktopSizeRestored`).

That a step never lets an earlier lease's command land says nothing of what is
still on its way, so the inductive invariant `OrderInv` orders that: along the
way to the PTY (acts on the wire, then list responses main has yet to handle,
then lists on the wire) the ids of the leases never decrease, and none is below
`lastLanded` (`LandingOrder`).  A new command is sent under the lease held, so it
stays last in that order because nothing on its way belongs to a lease still to
be granted (`NoneAhead`) and the lease held is the last one granted
(`LeaseIsLast`).  The latter needs that no acquire in flight reinstalls a lease
it read earlier, which is what a phone that asks again for control it has breaks:
the order is claimed until one does (`reacquired`), type correctness always.
The lemmas `AppendKeeps` and `TailKeepsBounds`, `TailKeepsOrder`,
`TailKeepsPrecedence` say what sending and receiving do to those orders.

`DesktopSizeRestored` speaks of a terminal with nothing on its way; the inductive
`SizeInv` says what must be on its way before that.  Taken in the order in which
it will reach the PTY, the last thing to change the size puts the desktop's back
(`RestoresLast`), except while a lease is held, when a phone's resize may be
last; the lease then remembers the desktop's size, so that its end sends a
restore after everything else (`DropSized`).  What a lease remembers is what its
acquire was told, so nobody may ask for the size with a change of it still before
the question (`AsksInTime`): an acquire asks with no lease and no restore under
way, and then `RestoresLast` leaves only one case, in which nothing on its way
changes the size (`NoneRestoring`).  The two conditions are where that fails: an
`overtaken` acquire asks with a restore under way, and a phone that asks again
(`reacquired`) asks under a lease.  A broker that reports no sizes never sees a
change.  The assumptions are `TerminalControlAssumption` and `NoLeaseAssumption`
(the constant for no lease is not a lease).

`SessionBrokerProofs` proves, for any terminals, number of processes and faults
of every kind: `BrokerInvariant`, `TypeCorrect` and `IdleExitTakesNothing`
(`IdleMeansEmpty`) for any apps, and, with one app, `OneAppInvariant`,
`BrokersDoNotCompete` (`OneBroker`), `TerminalsStayFound` (`TerminalsAreFound`)
and `ReplacementsAreKept` (`ReplacementsAreLeft`).

`BrokerInv` is what holds whoever competes: whoever an app is connected to is
there and listens or is closing, what is named in `broker.json` has published
itself, and the idle timer is armed only without terminals, release timers only
with them.  It is not enough for the files, since an app removes them by what it
has read some steps earlier.  `OneAppInv` closes that gap: the lock is held by at
most one broker, the files belong to it, and the only app knows of every broker
there is, so that when it has found the one it saw dead and goes about the
unlinking, there is nothing alive the files could name.  Each action of an app
is a step of `NextOneAppInv`, with one step per part of the invariant.  The
assumption `OneApp` stands for the single-instance lock.

`CompanionAccessProofs` proves, for any devices, grants, codes and limits, and
any finite set of sockets: `AccessInvariant`, `TypeCorrect`, `RightsStayCurrent`,
`CountIsRight`, `ReportsStayTrue` (assuming "unsent" is not among the faults) and
`PairedOnlyByItsCode`.

`AccessInv` says how the parts that remember a pairing fit: the window waits for
a code only before the code has brought a device and before the window was told
how it ended, and memory and file agree between steps (`Codes`); a socket in a
handshake for a code is one the window still waits for, with a code that is no
longer open (`Phones`), and there is one such socket per code (`Alone`); the
counter equals the number of sockets in a handshake, which needs the finiteness
of `Sockets` and the cardinality lemmas (`ClosesCounted`, `StaysCounted`,
`AuthenticatedCounted`).  The properties need these at once: that a code brings
no second device follows from `Codes` only because nothing but the socket of
`Alone` can finish it.

`AgentSessionsProofs` proves, for any windows and agents and with no assumption on
what overlaps: `SessionInvariant`, `TypeCorrect` and `StopAlwaysHolds`
(`StopHolds`), `KeepingInvariant`, `NoAgentIsLost` (`NoAgentLost`),
`TurnsKeepTheirHome` (`TurnsReportHome`), `CardsStayWarm` (`CardsKeepAgents`),
`IdleInvariant` and `IdleAgentsDoGo` (`IdleAgentsGo`).

`SessionInv` adds to the types that while a stopped turn lasts its agent's requests
are cancelled and nothing it asked before is open (`Stopped`): of the two ways to
allow something, one asks for the former and the other for the latter.

`OneSlot` is what survives every overlap.  Slots may be fought over, but no agent
is in two of them: a handshake, an adoption and a move each take up an agent that
no other has (`terminalOwnerMoves`, and a new process), so what is replaced is
always another agent.  It is inductive with `SessionInv` alone.

`KeepingInv` is about who leaves a slot.  `StepPlaces` shows that an agent that
lives on and loses its slot had not the only claim to it, so `Rivalled \subseteq
contested` has it on record before, and `NoAgentLost` follows for the others.
A turn cannot begin with an agent that moves or is being connected, and those two
have none (`Turns`); `Senders` says that an agent in a slot belongs to its window,
`Orphans` that one that is adopted belongs to the window that is gone, and `Homes`
that the window a turn reports to, if it lives, is the one its agent belongs to.
So an adoption, which alone takes an agent with a turn to another window, never
takes it from a living listener, and an agent that is not contested, and hence in
a slot, is in the one of its turn's home.  The lease of a card is lost only by
what `unleased` records, because the slot of an orphan never has a card.

`IdleInv` is about timers.  An agent loses its timer when a lease, a move or
another's watchdog drops it, and would then be kept for ever, so that each of
these has to leave something that will set it again.  `LeasedTimers` says that a
timer and a lease are together only in a slot whose window will drop the lease
when it is destroyed, or that has no agent to park (`Gone`); `SeenTo` adds to the
property what a rollback needs, that what is in the target of a move without an
agent does not depend on the card the rollback takes away.  It rests on
`OneSlot`, for what happens to one slot cannot take the timer of another's agent,
and on `Orphans`, for the slot of an orphan is of a window that is gone.

`TerminalStreamsProofs` proves, for any sessions, phones, streams and limits:
`TypeCorrect` (`TypeOK`), `StreamsInvariant`, `MembersOneStretch`
(`MembersSeeOneStretch`), `TextNeverBack` (`NeverBack`), `NobodyWaitsTheorem`
(`NobodyWaitsForNothing`), `OneObserverTheorem` (`OneObserver`) and
`MembersUpToDateTheorem` (`MembersAreUpToDate`).

Each step of the model writes half a dozen variables, so it is first shown what
each does to the streams (`CommandsClose`, `SubscribedRead`, `SetupGoesOn` and the
like, from which `StepsOfStreams`), and the invariants are proved from that.
`OneOpen` says that only the terminal's stream is open or being set up, so an
event that is passed on is its; `Belong` that members are in streams that were
set up or are closing, and that who waits for a disposal has one to wait for.
`Stretch` is `MembersSeeOneStretch` and what makes it inductive: the text of who
watches ends where the snapshot of the stream does, which the next event must
follow.  `NeverBack` is about time: a phone that leaves a stream and comes back
must be given no less than it has shown, by a stream that was set up before, by
one that is being set up, or by one that does not exist yet.  `NeverBeyond` says
so of all of them at once: whatever text a phone may still be given (`IsTop`: the
snapshot of a stream it can join, an answer on its way, or all that is written)
no phone has shown more.  A step may make a phone show more only if there is
then no other such text, which is what `Burst` is for: sessions that wait for a
stream and can go on do so in one run of microtasks, and all of them for the same
stream, so none of them is still there when another stream gets its answer.
`Happened` bounds all of it by what was written.  `UnderWay` says that a stream
that waits for the broker has its request or the answer in a queue; a command
waits for a stream, so with empty queues nothing waits.  For `OneObserver`,
`Wanted` says that a stream that is not being disposed of has members, sessions
interested in it or one about to be, so when all have left none is open; and
`Sole` that, until a request is given up, requests and answers come one at a
time: a new stream asks only after the last one's disposal was answered, so the
broker observes for nobody else (`Observed`).  For `MembersAreUpToDate`, `Fed`
says of a stream whose observer is live what is still on its way for it: behind
the answer it waits for, or else in the whole queue, output only, in order, and
each chunk from the one after what it has (with what it keeps for later) to the
last one written (`Since`).  The lemmas on `Since` say what each way to change
the queue does to it: an event is read, an answer is put behind, or a chunk.
`Routed` says that an observer's events reach the stream it was created for;
`LastAsk` that behind a stream's request no other makes an observer live, so that
one that is live was so since its answer; and `Seen` that a phone is not left
without text by a stream that has some.  With empty queues `Fed` leaves nothing
the stream does not have, and `Stretch`, `Newest` and `NeverBeyond` carry that to
the phone.  The only assumption is `TerminalStreamsAssumption`.

Only model-checked: `ProjectTransfer`; and liveness throughout, since TLAPS does
not reach fairness and `ENABLED`.
Induction over data with a theorem that takes a predicate is out of its reach as
well, so what `Bytes` sums to is used only through its value on the empty log;
where a least counterexample does (`QuietStretch`), `LeastNatural` stands in.  No module declares a recursive
operator: `Bytes`, `Recovered` and the events that `WithPending` applies are recursive
functions; `PendingSteps` and `PendingApplied` are proved from a least counterexample.

## 6. Not modelled, and why

* Broker requests of a phone's command that time out after they were sent
  (`terminalHandler.cjs:566`): the handler throws, the connection closes, and
  the request may still land.  `TerminalControl` assumes that the broker
  answers; every property of it would have to say what an abandoned request may
  still do.
* Of agent sessions, besides what section 2 says is left out: the JSON-RPC wire
  and the terminals agents own (`acp.cjs`), the events subscribers get, and the
  process ledger (`acpProcessLedger.cjs`), which ends what a crash of the app
  left behind by asking the operating system.  `ProjectTransfer` takes the
  handing over of agents as the single step `AgentsMove`, whose inside is
  `AgentSessions`.
* Of the broker's client: retiring protocol 1 brokers
  (`sessionBrokerClient.cjs:318-357`, `384-407`), smoke mode, the reuse of a
  broker's pid by a foreign process.  Of the broker and its terminals: owners and
  project scopes, agent turns and their quiet timer, the disk-backed output
  windows (`terminalSpool.cjs`), whose content is data.
* Of the companion: `replaceDeviceId` (nothing passes one), the retries of the
  listener (`companionHandler.cjs:437-478`), projections and preferences (edited
  by single synchronous calls), agent streams of the gateway.  Of the phone: what
  it does when applying an event throws (`CompanionStore.swift:116`) and a
  subscription sent before the first acknowledgement of a new epoch
  (`CompanionClient.swift:241`).
* Kaisola Link, the relay and the account rendezvous: they carry the sealed
  records that `CompanionSync` and `CompanionAccess` take as frames of a
  connection that may break at any moment; their tickets and retries need a
  model of their own.
* A project opened in a torn-off window after its last project began to move
  (`projectTransferJournal.cjs:215`): `ProjectTransfer` opens no projects.
* Mesh rounds and worktrees, attention, accounts, updates, usage, archives and
  ledgers: requests each by itself, or lists edited by synchronous calls.
* Cryptography, validation and redaction: stateless, or arithmetic out of TLC's
  reach.  Desktop services: I/O.  The user interface and the native client: views.
