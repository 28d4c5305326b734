---------------------------- MODULE SessionBroker ----------------------------
(***************************************************************************)
(* The life of the detached session broker that owns the terminals            *)
(* (electron/session-broker.cjs) and how an app finds, adopts, starts and      *)
(* replaces one (electron/ipc/sessionBrokerClient.cjs).                        *)
(*                                                                         *)
(* They meet in three files: broker.json (`info`), which names the broker and  *)
(* its token, broker.lock, which the broker creates exclusively, and the path   *)
(* of its socket.  None of them is tied to the life of the process that wrote   *)
(* it.  A pid stands for the process, its listener and its token, and is used   *)
(* again once nothing refers to it.                                         *)
(*                                                                         *)
(* A request and its answer are one step: a request that is lost was never      *)
(* sent, and an answer that is lost is a connection that ends after it.         *)
(***************************************************************************)
EXTENDS Naturals, FiniteSets

CONSTANTS
    Apps,        \* app processes that share one user-data directory
    Terminals,
    MaxBrokers,  \* broker processes that exist or are remembered at a time
    Faults,      \* which of AllFaults may happen
    MaxFaults    \* how often, together

(* "broker": a broker is killed.  "early": it is killed after it took the      *)
(* lock and before it published itself.  "app": an app is killed.  "midway":   *)
(* it is killed while it clears the files of a broker.  "slow": a broker is not  *)
(* ready in time.  "reaped": the socket's path is removed.  "terminated":       *)
(* SIGTERM.                                                                 *)
AllFaults == {"broker", "early", "app", "midway", "slow", "reaped", "terminated"}

Pids == 1 .. MaxBrokers
None == 0

ASSUME SessionBrokerAssumption ==
    /\ MaxBrokers \in Nat \ {0} /\ MaxFaults \in Nat
    /\ Faults \subseteq AllFaults

VARIABLES
    info,     \* broker.json: the broker it names
    lock,     \* broker.lock exists
    sock,     \* the broker whose listener the socket's path leads to
    broker,
    app,
    faulted   \* how many faults there have been

vars == <<info, lock, sock, broker, app, faulted>>

-----------------------------------------------------------------------------
(* idle: noClientTimer is armed; releasing: terminals with a release timer.   *)
Broker == [phase : {"gone", "starting", "locked", "up", "closing"}, idle : BOOLEAN,
           terminals : SUBSET Terminals, releasing : SUBSET Terminals]
Gone == [phase |-> "gone", idle |-> FALSE, terminals |-> {}, releasing |-> {}]

(* Where connect() is: "open" a socket, wait for the "hello", "check" whether  *)
(* the files are stale and remove them ("info", "lock", "path"), "poll" for     *)
(* the broker it started, about to send the request it connected for ("asking"), *)
(* or "on".  `try` tells which of the three callers of _open it is in, `seen`    *)
(* is the info it goes by, `peer` the other end of its socket.                 *)
App == [phase : {"off", "open", "hello", "check", "info", "lock", "path", "poll", "asking", "on"},
        try : {"first", "again", "spawned"}, seen : Pids \cup {None}, peer : Pids \cup {None}]
Off == [phase |-> "off", try |-> "first", seen |-> None, peer |-> None]

TypeOK ==
    /\ info \in Pids \cup {None} /\ lock \in BOOLEAN /\ sock \in Pids \cup {None}
    /\ broker \in [Pids -> Broker]
    /\ \A b \in Pids : /\ broker[b].releasing \subseteq broker[b].terminals
                       /\ broker[b].phase \in {"gone", "starting", "locked"}
                             => broker[b].terminals = {} /\ ~broker[b].idle
    /\ app \in [Apps -> App]
    /\ \A a \in Apps : app[a].peer # None <=> app[a].phase \in {"hello", "asking", "on"}
    /\ faulted \in 0 .. MaxFaults

Alive(b) == b # None /\ broker[b].phase # "gone"
Listening(b) == b # None /\ broker[b].phase \in {"locked", "up"}
Greeted(a) == app[a].phase \in {"asking", "on"}
On(a, b) == Greeted(a) /\ app[a].peer = b
Referenced(b) == b \in {info, sock} \/ Alive(b) \/ \E a \in Apps : b \in {app[a].seen, app[a].peer}

Init ==
    /\ info = None /\ lock = FALSE /\ sock = None
    /\ broker = [b \in Pids |-> Gone]
    /\ app = [a \in Apps |-> Off]
    /\ faulted = 0

-----------------------------------------------------------------------------
(* scheduleNoClientExit: rearmed if there is no terminal, else disarmed.      *)
RearmedAlways(b) == [b EXCEPT !.idle = TRUE]        \* mutant
Rearmed(b) == [b EXCEPT !.idle = (b.terminals = {})]

(* What becomes of connect() when its _open fails, `alive` telling whether     *)
(* the pid it goes by is.                                                    *)
AfterFailure(r, alive) ==
    CASE r.try = "first" /\ ~alive -> [r EXCEPT !.phase = "check", !.peer = None]
      [] r.try \in {"first", "again"} /\ (r.try = "first" => alive)
            -> [r EXCEPT !.phase = "open", !.try = "again", !.peer = None]
      [] r.try = "spawned" -> [r EXCEPT !.phase = "poll", !.peer = None]

(* The sockets to `b` close, of those that were greeted or of all.            *)
Disconnected(b, greetedOnly, alive) ==
    [a \in Apps |->
        IF On(a, b) THEN Off
        ELSE IF app[a].peer = b /\ ~greetedOnly THEN AfterFailure(app[a], alive) ELSE app[a]]

(* _spawn: a new process.                                                   *)
FreePid == CHOOSE b \in Pids : ~Referenced(b)
Spawn(a) ==
    /\ \E b \in Pids : ~Referenced(b)
    /\ broker' = [broker EXCEPT ![FreePid] = [Gone EXCEPT !.phase = "starting"]]
    /\ app' = [app EXCEPT ![a] = [phase |-> "poll", try |-> "spawned", seen |-> FreePid, peer |-> None]]

(* A request needs the broker: connect() and _tryExisting.  (Launching an app   *)
(* takes longer than starting the broker a killed app left behind.)           *)
Connect(a) ==
    /\ app[a] = Off
    /\ \A b \in Pids : broker[b].phase = "starting" => \E c \in Apps : app[c].seen = b
    /\ IF info = None THEN Spawn(a)
       ELSE /\ app' = [app EXCEPT ![a] = [phase |-> "open", try |-> "first", seen |-> info, peer |-> None]]
            /\ UNCHANGED broker
    /\ UNCHANGED <<info, lock, sock, faulted>>

(* _open: whoever listens at the path accepts.                              *)
OpenAccepted(a) ==
    /\ app[a].phase = "open" /\ Listening(sock)
    /\ app' = [app EXCEPT ![a].phase = "hello", ![a].peer = sock]
    /\ UNCHANGED <<info, lock, sock, broker, faulted>>

OpenFails(a) ==
    /\ app[a].phase = "open" /\ ~Listening(sock)
    /\ app' = [app EXCEPT ![a] = AfterFailure(@, Alive(@.seen))]
    /\ UNCHANGED <<info, lock, sock, broker, faulted>>

(* The broker handles the hello, also when it is shutting down: a token that   *)
(* is not its own is refused, else its idle timer is cleared.                 *)
Hello(a) ==
    LET b == app[a].peer IN
    /\ app[a].phase = "hello"
    /\ IF b = app[a].seen
       THEN /\ app' = [app EXCEPT ![a].phase = "asking", ![a].try = "first"]
            /\ broker' = [broker EXCEPT ![b].idle = FALSE]
       ELSE /\ app' = [app EXCEPT ![a] = AfterFailure(@, Alive(@.seen))]
            /\ UNCHANGED broker
    /\ UNCHANGED <<info, lock, sock, faulted>>

(* Mutant: a process that does not answer is taken for dead.                 *)
RetriesOverAlways(a) ==
    /\ app[a].phase = "open" /\ app[a].try = "again"
    /\ app' = [app EXCEPT ![a].phase = "check"]
    /\ UNCHANGED <<info, lock, sock, broker, faulted>>

(* Twelve retries are over: a process that is still there is left alone.      *)
RetriesOver(a) ==
    /\ app[a].phase = "open" /\ app[a].try = "again"
    /\ app' = [app EXCEPT ![a] = IF Alive(@.seen) THEN Off ELSE [@ EXCEPT !.phase = "check"]]
    /\ UNCHANGED <<info, lock, sock, broker, faulted>>

(* _clearStaleBroker: it is one run of the app, but not of the file system.    *)
Ours(a) == info = None \/ info = app[a].seen
Check(a) ==
    /\ app[a].phase = "check"
    /\ IF Ours(a) THEN app' = [app EXCEPT ![a].phase = "info"] /\ UNCHANGED broker ELSE Spawn(a)
    /\ UNCHANGED <<info, lock, sock, faulted>>

UnlinkInfo(a) ==
    /\ app[a].phase = "info" /\ app' = [app EXCEPT ![a].phase = "lock"] /\ info' = None
    /\ UNCHANGED <<lock, sock, broker, faulted>>

UnlinkLockNever(a) ==        \* mutant
    /\ app[a].phase = "lock" /\ app' = [app EXCEPT ![a].phase = "path"]
    /\ UNCHANGED <<info, lock, sock, broker, faulted>>

UnlinkLock(a) ==
    /\ app[a].phase = "lock" /\ app' = [app EXCEPT ![a].phase = "path"] /\ lock' = FALSE
    /\ UNCHANGED <<info, sock, broker, faulted>>

UnlinkPath(a) ==
    /\ app[a].phase = "path" /\ sock' = None /\ Spawn(a)
    /\ UNCHANGED <<info, lock, faulted>>

(* _spawn waits for its own broker to publish itself, or to end.               *)
PollFinds(a) ==
    /\ app[a].phase = "poll" /\ Alive(app[a].seen) /\ info = app[a].seen
    /\ app' = [app EXCEPT ![a].phase = "open"]
    /\ UNCHANGED <<info, lock, sock, broker, faulted>>

PollEnds(a) ==
    /\ app[a].phase = "poll" /\ ~Alive(app[a].seen)
    /\ app' = [app EXCEPT ![a] = Off]
    /\ UNCHANGED <<info, lock, sock, broker, faulted>>

-----------------------------------------------------------------------------
(* Requests.  Every one that succeeds reevaluates the idle exit.              *)
Answer(a, terminals, releasing) ==
    LET b == app[a].peer IN
    /\ app' = [app EXCEPT ![a].phase = "on"]
    /\ broker' = [broker EXCEPT ![b] =
                     Rearmed([@ EXCEPT !.terminals = terminals, !.releasing = releasing])]
    /\ UNCHANGED <<info, lock, sock, faulted>>

Create(a, t) ==
    LET b == broker[app[a].peer] IN
    Greeted(a) /\ Answer(a, b.terminals \cup {t}, b.releasing \ {t})
ReleaseKeepsTimer(a, t) ==  \* mutant
    LET b == broker[app[a].peer] IN
    Greeted(a) /\ t \in b.terminals /\ Answer(a, b.terminals \ {t}, b.releasing)
Release(a, t) ==
    LET b == broker[app[a].peer] IN
    Greeted(a) /\ t \in b.terminals /\ Answer(a, b.terminals \ {t}, b.releasing \ {t})
ScheduleRelease(a, t) ==
    LET b == broker[app[a].peer] IN
    Greeted(a) /\ t \in b.terminals /\ Answer(a, b.terminals, b.releasing \cup {t})
CancelRelease(a, t) ==
    LET b == broker[app[a].peer] IN
    Greeted(a) /\ t \in b.releasing /\ Answer(a, b.terminals, b.releasing \ {t})
OtherRequest(a) ==
    LET b == broker[app[a].peer] IN
    Greeted(a) /\ Answer(a, b.terminals, b.releasing)

(* The app ends its connection: detachInstance.                             *)
Disconnect(a) ==
    /\ app[a].phase = "on"
    /\ app' = [app EXCEPT ![a] = Off]
    /\ broker' = [broker EXCEPT ![app[a].peer] = Rearmed(@)]
    /\ UNCHANGED <<info, lock, sock, faulted>>

-----------------------------------------------------------------------------
(* Mutant: the lock file is opened whether or not it exists.                 *)
TakeLockAnyway(b) ==
    /\ broker[b].phase = "starting"
    /\ broker' = [broker EXCEPT ![b].phase = "locked"]
    /\ lock' = TRUE /\ sock' = b
    /\ UNCHANGED <<info, app, faulted>>

(* A broker starts: only one gets the lock.  It takes the path over at once   *)
(* and publishes itself when it listens.                                     *)
TakeLock(b) ==
    /\ broker[b].phase = "starting"
    /\ IF lock THEN broker' = [broker EXCEPT ![b] = Gone] /\ UNCHANGED <<lock, sock>>
       ELSE /\ broker' = [broker EXCEPT ![b].phase = "locked"]
            /\ lock' = TRUE /\ sock' = b
    /\ UNCHANGED <<info, app, faulted>>

Publish(b) ==
    /\ broker[b].phase = "locked"
    /\ broker' = [broker EXCEPT ![b] = Rearmed([@ EXCEPT !.phase = "up"])]
    /\ info' = b
    /\ UNCHANGED <<lock, sock, app, faulted>>

(* scheduleRelease's timer releases the terminal, and nothing else.          *)
ReleaseTimer(b, t) ==
    /\ t \in broker[b].releasing /\ broker[b].phase \in {"up", "closing"}
    /\ broker' = [broker EXCEPT ![b].terminals = @ \ {t}, ![b].releasing = @ \ {t}]
    /\ UNCHANGED <<info, lock, sock, app, faulted>>

(* gracefulExit: the listener goes, and with it the path, whoever it leads to  *)
(* by now; sockets that were greeted are destroyed, others are not.           *)
Closes(b, terminals) ==
    /\ broker' = [broker EXCEPT ![b].phase = "closing", ![b].idle = FALSE,
                                ![b].terminals = terminals, ![b].releasing = @ \cap terminals]
    /\ sock' = None
    /\ app' = Disconnected(b, TRUE, TRUE)
    /\ UNCHANGED <<info, lock>>

(* The timer of thirty seconds; a process starts in far less.                *)
IdleExit(b) ==
    /\ broker[b].phase = "up" /\ broker[b].idle
    /\ \A c \in Pids : broker[c].phase # "starting"
    /\ Closes(b, broker[b].terminals)
    /\ UNCHANGED faulted

(* cleanupFiles and exit: after the last connection, or 1.5 s at most.        *)
Exited(b) ==
    /\ broker[b].phase = "closing"
    /\ broker' = [broker EXCEPT ![b] = Gone]
    /\ info' = None /\ lock' = FALSE /\ sock' = None
    /\ app' = Disconnected(b, FALSE, FALSE)
    /\ UNCHANGED faulted

(* recoverMissingSocketPath, once a second.                                  *)
Recover(b) ==
    /\ broker[b].phase = "up" /\ sock = None
    /\ sock' = b /\ info' = b
    /\ UNCHANGED <<lock, broker, app, faulted>>

-----------------------------------------------------------------------------
Fault(kind) == kind \in Faults /\ faulted < MaxFaults /\ faulted' = faulted + 1

(* The app gives up, and a process that has not read its launch file yet will   *)
(* not find it any more.                                                    *)
PollTimesOut(a) ==
    /\ app[a].phase = "poll" /\ Fault("slow")
    /\ app' = [app EXCEPT ![a] = Off]
    /\ broker' = IF broker[app[a].seen].phase = "starting"
                 THEN [broker EXCEPT ![app[a].seen] = Gone] ELSE broker
    /\ UNCHANGED <<info, lock, sock>>

BrokerKilled(b) ==
    /\ \/ broker[b].phase \in {"starting", "up", "closing"} /\ Fault("broker")
       \/ broker[b].phase = "locked" /\ Fault("early")
    /\ broker' = [broker EXCEPT ![b] = Gone]
    /\ app' = Disconnected(b, FALSE, FALSE)
    /\ UNCHANGED <<info, lock, sock>>

AppKilled(a) ==
    /\ app[a] # Off
    /\ IF app[a].phase \in {"lock", "path"} THEN Fault("midway") ELSE Fault("app")
    /\ app' = [app EXCEPT ![a] = Off]
    /\ broker' = IF Greeted(a)
                 THEN [broker EXCEPT ![app[a].peer] = Rearmed(@)] ELSE broker
    /\ UNCHANGED <<info, lock, sock>>

PathReaped ==
    /\ sock # None /\ Fault("reaped")
    /\ sock' = None
    /\ UNCHANGED <<info, lock, broker, app>>

Terminated(b) ==
    /\ broker[b].phase = "up" /\ Fault("terminated")
    /\ Closes(b, {})

-----------------------------------------------------------------------------
Connecting(a) ==
    \/ OpenAccepted(a) \/ OpenFails(a) \/ Hello(a) \/ RetriesOver(a) \/ Check(a)
    \/ UnlinkInfo(a) \/ UnlinkLock(a) \/ UnlinkPath(a) \/ PollFinds(a) \/ PollEnds(a)
Request(a) ==
    \/ \E t \in Terminals : Create(a, t) \/ Release(a, t) \/ ScheduleRelease(a, t) \/ CancelRelease(a, t)
    \/ OtherRequest(a)
Starts(b) == TakeLock(b) \/ Publish(b) \/ Exited(b) \/ Recover(b)
TimerFires(b) == IdleExit(b) \/ \E t \in Terminals : ReleaseTimer(b, t)
AnyFault ==
    \/ \E b \in Pids : BrokerKilled(b) \/ Terminated(b)
    \/ \E a \in Apps : AppKilled(a) \/ PollTimesOut(a)
    \/ PathReaped

Next ==
    \/ \E a \in Apps : Connect(a) \/ Connecting(a) \/ Request(a) \/ Disconnect(a)
    \/ \E b \in Pids : Starts(b) \/ TimerFires(b)
    \/ AnyFault

Spec == Init /\ [][Next]_vars

(* Processes go on, the request an app connected for is sent, and timers fire.  *)
(* Connecting takes milliseconds where the idle exit takes thirty seconds: an   *)
(* app that tries again and again gets through (strong).                       *)
FairSpec ==
    /\ Spec
    /\ \A a \in Apps :
        /\ SF_vars(OpenAccepted(a)) /\ SF_vars(Hello(a)) /\ SF_vars(Listening(sock) /\ PollFinds(a))
        /\ SF_vars(app[a].phase = "asking" /\ Request(a))
        /\ WF_vars(OpenFails(a) \/ RetriesOver(a)) /\ WF_vars(PollEnds(a))
        /\ WF_vars(Check(a) \/ UnlinkInfo(a) \/ UnlinkLock(a) \/ UnlinkPath(a))
    /\ \A b \in Pids : WF_vars(Starts(b)) /\ WF_vars(TimerFires(b))

-----------------------------------------------------------------------------
(* The idle exit never takes a terminal with it: its timer is armed only while *)
(* there is none, through every request, release, disconnection and crash.    *)
IdleMeansEmpty == \A b \in Pids : broker[b].idle => broker[b].terminals = {}

(* Brokers do not compete: one at a time has the lock and the path.           *)
OneBroker == Cardinality({b \in Pids : broker[b].phase \in {"locked", "up"}}) <= 1

(* Terminals that outlive their app are found by the next: the files name      *)
(* their broker, and the path leads to it unless it has been removed.         *)
TerminalsAreFound ==
    \A b \in Pids : broker[b].phase = "up" /\ broker[b].terminals # {}
                        => info = b /\ lock /\ sock \in {b, None}

(* "A later terminal request transparently starts/adopts a broker again"      *)
(* (electron/session-broker.cjs:131): an app that keeps asking gets one.       *)
AppGetsBroker ==
    \A a \in Apps : []<>(app[a] # Off) => []<>(app[a].phase = "on")

(* "Connected Electron main must not pin an otherwise empty ~60 MB helper"    *)
(* (electron/session-broker.cjs:130): a broker without terminals goes or gets  *)
(* one.                                                                    *)
EmptyBrokerExits ==
    \A b \in Pids : (broker[b].phase = "up" /\ broker[b].terminals = {})
                        ~> (broker[b].phase # "up" \/ broker[b].terminals # {})

(* "Never unlink a replacement broker another app instance installed"          *)
(* (electron/ipc/sessionBrokerClient.cjs:308): what an app removes belongs to   *)
(* no broker that lives.                                                    *)
ReplacementsAreLeft ==
    [][\A a \in Apps : UnlinkInfo(a) \/ UnlinkLock(a) \/ UnlinkPath(a)
           => \A b \in Pids : broker[b].phase \notin {"locked", "up"}]_vars

(* A broker that leaves because it was idle leaves no terminal behind.        *)
IdleExitLosesNothing ==
    [][\A b \in Pids : Exited(b) => broker[b].terminals = {}]_vars
=============================================================================
