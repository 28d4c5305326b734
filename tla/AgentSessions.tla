----------------------------- MODULE AgentSessions -----------------------------
(***************************************************************************)
(* The agent of one thread and the windows that show its project             *)
(* (electron/ipc/acpHandler.cjs, acpSessionService.cjs, acp.cjs, main.cjs):   *)
(* agents are connected, prompted, steered, stopped and parked when idle, and *)
(* follow the project from window to window, or are taken over from a window  *)
(* that was destroyed.  Main is one thread: only what it awaits (a handshake, *)
(* a prompt, a handover of terminals, the target of a move) is interleaved.   *)
(*                                                                         *)
(* `connections` has a slot for the thread in every window.  A handshake, an   *)
(* adoption and a move fill a slot they found free before they awaited        *)
(* something, and nothing keeps two of them apart: the later one replaces the *)
(* agent of the earlier.  All agents can resume their sessions.              *)
(***************************************************************************)
EXTENDS FiniteSets

CONSTANTS
    Windows,       \* ids of windows; one is used again when nothing names it
    Agents,        \* bound: agent processes at a time; used again likewise
    Phone, None

ASSUME AgentSessionsAssumption ==
    Phone \notin Windows /\ None \notin Windows \cup Agents \cup {Phone}

VARIABLES
    \* the windows
    open,             \* renderers that live
    homes,            \* windows that show the project
    cards,            \* windows with a mounted card of the thread
    \* acpHandler
    connections,      \* the agent in each window's slot
    connectTasks,     \* the agent each window is connecting
    waiting,          \* windows with a second connect that waits for the first
    connectionLeases, \* windows whose slot is leased
    idleTimers,       \* windows whose slot has an idle timer
    adopting,         \* orphans being taken over: by which window, from which slot
    move,             \* the move under way, while its terminals or its target are awaited
    \* the agents
    live,             \* those whose conn is alive
    sender,           \* the window each of them belongs to (entry.sender)
    session,          \* their turns and permission requests
    \* history
    unleased,         \* cards whose lease main took away, until they mount again
    stranded,         \* agents left without a timer, or given to a window that was gone
    contested,        \* agents that another is about to replace, or has replaced
    slipped           \* something was allowed after Stop, within the turn

windows == <<open, homes, cards>>
slots == <<connections, connectTasks, waiting>>
keeping == <<connectionLeases, idleTimers>>
moves == <<adopting, move>>
history == <<unleased, stranded, slipped>>
vars == <<windows, slots, keeping, moves, live, session, history, sender, contested>>

-----------------------------------------------------------------------------
Actors == Windows \cup {Phone}
Stages == {"none", "handover", "returning", "applied", "rollback"}

Idle == [turn |-> "none", current |-> FALSE, cancelRequested |-> FALSE, steer |-> FALSE,
         watchdog |-> None, asks |-> FALSE, home |-> None, stop |-> FALSE]

Session == [turn : {"none", "running", "flushing"}, current : BOOLEAN, cancelRequested : BOOLEAN,
            steer : BOOLEAN, watchdog : Windows \cup {None}, asks : BOOLEAN,
            home : Actors \cup {None}, stop : BOOLEAN]

Adoptions == [window : Windows, agent : Agents, slot : Windows]
NoMove == [stage |-> "none", from |-> None, to |-> None, agent |-> None]

TypeOK ==
    /\ open \subseteq Windows /\ homes \subseteq open /\ cards \subseteq homes
    /\ connections \in [Windows -> Agents \cup {None}]
    /\ connectTasks \in [Windows -> Agents \cup {None}]
    /\ waiting \subseteq Windows
    /\ connectionLeases \subseteq Windows /\ idleTimers \subseteq Windows
    /\ adopting \subseteq Adoptions
    /\ move \in [stage : Stages, from : Windows \cup {None}, to : Windows \cup {None},
                 agent : Agents \cup {None}]
    /\ live \subseteq Agents
    /\ session \in [Agents -> Session]
    /\ \A a \in Agents \ live : session[a] = Idle
    /\ sender \in [Agents -> Windows \cup {None}]
    /\ unleased \subseteq cards /\ stranded \subseteq Agents /\ slipped \in BOOLEAN
    /\ contested \subseteq live

Init ==
    /\ open = {} /\ homes = {} /\ cards = {}
    /\ connections = [w \in Windows |-> None] /\ connectTasks = connections
    /\ adopting = {} /\ waiting = {} /\ connectionLeases = {} /\ idleTimers = {}
    /\ move = NoMove
    /\ live = {} /\ session = [a \in Agents |-> Idle]
    /\ sender = [a \in Agents |-> None]
    /\ unleased = {} /\ stranded = {} /\ slipped = FALSE /\ contested = {}

(* What main knows of an agent.                                              *)
IsConnected(a) == \E w \in Windows : connections[w] = a
IsConnecting(a) == \E w \in Windows : connectTasks[w] = a
Owner(a) == CHOOSE w \in Windows : connections[w] = a
terminalOwnerMoves == ({move.agent} \ {None}) \cup {r.agent : r \in adopting}
projectMoves == {move.from, move.to}

Named(a) == a \in terminalOwnerMoves \/ \E w \in Windows : a \in {connections[w], connectTasks[w]}
Unused == {a \in Agents \ live : ~Named(a)}

Busy(a) == session[a].turn # "none" \/ session[a].current

(* The idle timer of a slot is set only while no lease keeps it.              *)
Leased(w) == connectionLeases' = connectionLeases \cup {w} /\ idleTimers' = idleTimers \ {w}
Unleased(w) == connectionLeases' = connectionLeases \ {w} /\ idleTimers' = idleTimers \cup {w}
Dropped(w) == connectionLeases' = connectionLeases \ {w} /\ idleTimers' = idleTimers \ {w}

(* Mutant: the requests of an agent that ends are left pending.               *)
EndQuietly(as) == live' = live \ as /\ UNCHANGED session

(* An agent is disposed or exits: its requests are rejected, which ends its   *)
(* turn, and its permission request is cancelled.                            *)
End(as) ==
    /\ live' = live \ as
    /\ session' = [a \in Agents |-> IF a \in as THEN Idle ELSE session[a]]

(* The same, and what another agent asks is cancelled (cancelPendingFor).     *)
EndAndCancel(as, b) ==
    /\ live' = live \ as
    /\ session' = [a \in Agents |-> IF a \in as THEN Idle
                                    ELSE IF a = b THEN [session[a] EXCEPT !.asks = FALSE] ELSE session[a]]

-----------------------------------------------------------------------------
(* Windows and their cards.                                                  *)
OpenWindow(w) ==
    /\ w \notin open \cup waiting \cup projectMoves
    /\ connections[w] = None /\ connectTasks[w] = None
    /\ \A r \in adopting : w \notin {r.window, r.slot}
    /\ \A a \in Agents : w \notin {sender[a], session[a].watchdog, session[a].home}
    /\ open' = open \cup {w}
    /\ Dropped(w)
    /\ UNCHANGED <<homes, cards, slots, moves, live, session, history>>

OpenProject(w) ==
    /\ w \in open /\ homes = {} /\ move = NoMove
    /\ homes' = {w}
    /\ UNCHANGED <<open, cards, slots, keeping, moves, live, session, history>>

Mount(w) ==
    /\ w \in homes \ cards
    /\ cards' = cards \cup {w} /\ unleased' = unleased \ {w}
    /\ Leased(w)
    /\ UNCHANGED <<open, homes, slots, moves, live, session, stranded, slipped>>

Unmount(w) ==
    /\ w \in cards
    /\ cards' = cards \ {w} /\ unleased' = unleased \ {w}
    /\ Unleased(w)
    /\ UNCHANGED <<open, homes, slots, moves, live, session, stranded, slipped>>

(* Mutant: the leases of a destroyed window go, and no timer is set.          *)
DestroyQuietly(w) ==
    /\ w \in open
    /\ open' = open \ {w} /\ homes' = homes \ {w} /\ cards' = cards \ {w} /\ unleased' = unleased \ {w}
    /\ Dropped(w)
    /\ EndAndCancel({connectTasks[w]}, connections[w])
    /\ UNCHANGED <<slots, moves, stranded, slipped>>

(* A window is closed or crashes: releaseAcpRenderer cancels what nobody can  *)
(* answer, starts the idle timer of its agent and stops one being connected.  *)
Destroy(w) ==
    /\ w \in open
    /\ open' = open \ {w} /\ homes' = homes \ {w} /\ cards' = cards \ {w} /\ unleased' = unleased \ {w}
    /\ IF connections[w] = None THEN UNCHANGED keeping ELSE Unleased(w)
    /\ EndAndCancel({connectTasks[w]}, connections[w])
    /\ UNCHANGED <<slots, moves, stranded, slipped>>

-----------------------------------------------------------------------------
(* Connecting.                                                               *)
(* Mutant: a new agent is started beside the one in the slot.                 *)
ConnectBeside(w, forceReconnect) ==
    IF connections[w] \in live /\ ~forceReconnect
      THEN UNCHANGED <<connections, connectTasks, live, session, stranded>>
      ELSE \E a \in Unused :
              /\ connections' = [connections EXCEPT ![w] = None]
              /\ connectTasks' = [connectTasks EXCEPT ![w] = a]
              /\ live' = live \cup {a}
              /\ stranded' = stranded \ {a}
              /\ UNCHANGED session

(* Past the checks of acp:connect: the agent in the slot stays or is replaced *)
(* by a new one.                                                             *)
ConnectNow(w, forceReconnect) ==
    IF connections[w] \in live /\ ~forceReconnect
      THEN UNCHANGED <<connections, connectTasks, live, session, stranded>>
      ELSE \E a \in Unused :
              /\ connections' = [connections EXCEPT ![w] = None]
              /\ connectTasks' = [connectTasks EXCEPT ![w] = a]
              /\ live' = (live \ {connections[w]}) \cup {a}
              /\ session' = [b \in Agents |-> IF b = connections[w] THEN Idle ELSE session[b]]
              /\ stranded' = stranded \ {a}

Connect(w, forceReconnect) ==
    /\ w \in cards
    /\ w \notin projectMoves
    /\ IF connectTasks[w] # None
         THEN w \notin waiting /\ waiting' = waiting \cup {w} /\ UNCHANGED <<connections, connectTasks, live, session, stranded>>
         ELSE ConnectNow(w, forceReconnect) /\ UNCHANGED waiting
    /\ UNCHANGED <<windows, keeping, moves, unleased, slipped>>

(* The connect that waited goes on in the microtask after the first ended,    *)
(* whatever became of its window.                                            *)
ConnectWaited(w, forceReconnect) ==
    /\ w \in waiting /\ connectTasks[w] = None
    /\ waiting' = waiting \ {w}
    /\ ConnectNow(w, forceReconnect)
    /\ UNCHANGED <<windows, keeping, moves, unleased, slipped>>

(* The handshake succeeds with an agent that lives; if its window is gone, it *)
(* is disposed.                                                              *)
Connected(w) ==
    /\ connectTasks[w] \in live
    /\ connectTasks' = [connectTasks EXCEPT ![w] = None]
    /\ IF w \in open
         THEN /\ connections' = [connections EXCEPT ![w] = connectTasks[w]]
              /\ idleTimers' = IF w \in connectionLeases THEN idleTimers ELSE idleTimers \cup {w}
              /\ UNCHANGED <<live, session>>
         ELSE End({connectTasks[w]}) /\ UNCHANGED <<connections, idleTimers>>
    /\ UNCHANGED <<windows, waiting, connectionLeases, moves, history>>

ConnectFails(w) ==
    /\ connectTasks[w] # None
    /\ connectTasks' = [connectTasks EXCEPT ![w] = None]
    /\ End({connectTasks[w]})
    /\ UNCHANGED <<windows, connections, waiting, keeping, moves, history>>

(* acp:disconnect: drops the lease and the timer even when it is then refused *)
(* because the agent is moving.                                              *)
Disconnect(w) ==
    /\ w \in cards
    /\ Dropped(w) /\ unleased' = unleased \cup {w}
    /\ IF connections[w] \in terminalOwnerMoves
         THEN End({connectTasks[w]}) /\ UNCHANGED connections
         ELSE /\ End({connectTasks[w], connections[w]})
              /\ connections' = [connections EXCEPT ![w] = None]
    /\ UNCHANGED <<windows, connectTasks, waiting, moves, stranded, slipped>>

(* The agent process exits by itself.                                        *)
Exit(a) ==
    /\ a \in live
    /\ End({a})
    /\ UNCHANGED <<windows, slots, keeping, moves, history>>

(* The idle timer of a slot: an agent that is moving or at work is examined   *)
(* again later.                                                              *)
IdlePark(w) ==
    /\ w \in idleTimers
    /\ LET a == connections[w]
           again == w \notin connectionLeases /\ a \in live
                    /\ (a \in terminalOwnerMoves \/ Busy(a) \/ session[a].asks)
       IN /\ ~again
          /\ idleTimers' = idleTimers \ {w}
          /\ IF w \in connectionLeases \/ a \notin live
               THEN UNCHANGED <<connections, live, session>>
               ELSE End({a}) /\ connections' = [connections EXCEPT ![w] = None]
    /\ UNCHANGED <<windows, connectTasks, waiting, connectionLeases, moves, history>>

-----------------------------------------------------------------------------
(* Turns.                                                                    *)
(* The agent an actor reaches: a window that of its slot, a phone the only    *)
(* one of the project.                                                       *)
Reaches(actor, a) ==
    /\ a \in live
    /\ IF actor \in Windows THEN actor \in cards /\ connections[actor] = a
       ELSE {connections[w] : w \in Windows} \ {None} = {a}

InSession(a, s) ==
    /\ session' = [session EXCEPT ![a] = s]
    /\ UNCHANGED <<windows, slots, keeping, moves, live, unleased, stranded>>

(* A turn that has settled leaves only a permission request it made.          *)
Settled(s) == [Idle EXCEPT !.asks = s.asks]

(* Mutant: an agent that is moving takes prompts.                            *)
PromptMoving(actor, a) ==
    /\ Reaches(actor, a) /\ ~Busy(a)
    /\ InSession(a, [Settled(session[a]) EXCEPT !.turn = "running", !.current = TRUE, !.home = actor])
    /\ UNCHANGED slipped

Prompt(actor, a) ==
    /\ Reaches(actor, a)
    /\ a \notin terminalOwnerMoves /\ ~Busy(a)
    /\ InSession(a, [Settled(session[a]) EXCEPT !.turn = "running", !.current = TRUE, !.home = actor])
    /\ UNCHANGED slipped

(* A steer the agent may answer, or absorb into the turn and never answer.    *)
Steer(actor, a) ==
    /\ Reaches(actor, a)
    /\ session[a].current /\ session[a].turn = "running"
    /\ InSession(a, [session[a] EXCEPT !.steer = TRUE])
    /\ UNCHANGED slipped

(* The agent answers the prompt; the turn then waits for its steers, but only *)
(* until the flush timer.                                                    *)
Answered(s) == IF s.steer THEN [s EXCEPT !.turn = "flushing"] ELSE Settled(s)

PromptAnswered(a) ==
    /\ session[a].turn = "running"
    /\ InSession(a, Answered(session[a]))
    /\ UNCHANGED slipped

SteerAnswered(a) ==
    /\ session[a].steer
    /\ InSession(a, IF session[a].turn = "flushing" THEN Settled(session[a]) ELSE [session[a] EXCEPT !.steer = FALSE])
    /\ UNCHANGED slipped

(* Mutant: no grace time, every steer is waited for.                          *)
FlushWhenAnswered(a) ==
    /\ session[a].turn = "flushing" /\ ~session[a].steer
    /\ InSession(a, Settled(session[a]))
    /\ UNCHANGED slipped

FlushTimer(a) ==
    /\ session[a].turn = "flushing"
    /\ InSession(a, Settled(session[a]))
    /\ UNCHANGED slipped

(* Mutant: a second Stop finds no active turn and forgets the first.          *)
CancelRequestedIfActive(s) == s.current
CancelRequested(s) == s.turn # "none" \/ s.current

(* Stop: what the agent asked is cancelled, and so will be what it asks until *)
(* the turn has settled, for which it has the time of a watchdog.            *)
Cancel(actor, a) ==
    /\ Reaches(actor, a)
    /\ InSession(a, [session[a] EXCEPT
            !.cancelRequested = CancelRequested(session[a]),
            !.asks = FALSE, !.current = FALSE,
            !.watchdog = IF session[a].turn # "none" /\ @ = None THEN Owner(a) ELSE @,
            !.stop = session[a].turn # "none"])
    /\ UNCHANGED slipped

CancelTimeout(a) ==
    /\ session[a].watchdog # None
    /\ LET w == session[a].watchdog
       IN /\ connections' = IF connections[w] = a THEN [connections EXCEPT ![w] = None] ELSE connections
          /\ Dropped(w)
          /\ unleased' = unleased \cup (cards \cap {w})
          /\ stranded' = stranded \cup ({connections'[w]} \ {None})
    /\ End({a})
    /\ UNCHANGED <<windows, connectTasks, waiting, moves, slipped>>

(* The agent asks for permission while it works: cancelled after Stop, else   *)
(* allowed at once (its autonomy), or asked of whoever is there.              *)
Ask(a) ==
    /\ a \in live /\ ~IsConnecting(a)
    /\ ~session[a].asks /\ ~session[a].cancelRequested
    /\ InSession(a, [session[a] EXCEPT !.asks = TRUE])
    /\ UNCHANGED slipped

AllowAtOnce(a) ==
    /\ a \in live /\ ~IsConnecting(a)
    /\ ~session[a].cancelRequested
    /\ slipped' = (slipped \/ session[a].stop)
    /\ InSession(a, session[a])

(* It is answered by somebody or its time runs out.                           *)
Respond(a, allowed) ==
    /\ session[a].asks
    /\ slipped' = (slipped \/ (allowed /\ session[a].stop))
    /\ InSession(a, [session[a] EXCEPT !.asks = FALSE])

-----------------------------------------------------------------------------
(* acp:status takes over an agent of a window that is gone.                   *)
Orphan(a) == IsConnected(a) /\ Owner(a) \notin open

StartAdopting(w, a) ==
    /\ w \in cards
    /\ Orphan(a) /\ a \notin terminalOwnerMoves
    /\ connections[w] = None
    /\ adopting' = adopting \cup {[window |-> w, agent |-> a, slot |-> Owner(a)]}
    /\ UNCHANGED <<windows, slots, keeping, move, live, session, history>>

(* Mutant: the lease of the orphan's slot replaces the one of the new slot.   *)
AdoptedWithItsLease(r) ==
    /\ adopting' = adopting \ {r}
    /\ connections' = [connections EXCEPT ![r.slot] = None, ![r.window] = r.agent]
    /\ connectionLeases' = (connectionLeases \ {r.slot, r.window}) \cup IF r.slot \in connectionLeases THEN {r.window} ELSE {}
    /\ idleTimers' = (idleTimers \ {r.slot}) \cup IF r.window \in connectionLeases' THEN {} ELSE {r.window}
    /\ stranded' = IF r.window \in open THEN stranded \ {r.agent} ELSE stranded \cup {r.agent}
    /\ UNCHANGED <<windows, connectTasks, waiting, move, live, session, unleased, slipped>>

(* The terminals of the orphan are handed over: its slot and its lease move,  *)
(* whatever became of the window, and of its slot, since.                     *)
Adopted(r) ==
    /\ adopting' = adopting \ {r}
    /\ connections' = [connections EXCEPT ![r.slot] = None, ![r.window] = r.agent]
    /\ connectionLeases' = (connectionLeases \ {r.slot}) \cup IF r.slot \in connectionLeases THEN {r.window} ELSE {}
    /\ idleTimers' = (idleTimers \ {r.slot}) \cup IF r.window \in connectionLeases' THEN {} ELSE {r.window}
    /\ stranded' = IF r.window \in open THEN stranded \ {r.agent} ELSE stranded \cup {r.agent}
    /\ UNCHANGED <<windows, connectTasks, waiting, move, live, session, unleased, slipped>>

AdoptionFails(r) ==
    /\ adopting' = adopting \ {r}
    /\ UNCHANGED <<windows, slots, keeping, move, live, session, history>>

-----------------------------------------------------------------------------
(* Moving the project (transferAcpProject).                                  *)
Safe(w) ==
    /\ connectTasks[w] = None
    /\ connections[w] # None => ~Busy(connections[w])
    /\ \A a \in Agents : sender[a] = w => ~session[a].asks

StartMove(from, to) ==
    /\ move = NoMove /\ homes = {from} /\ to \in open \ {from}
    /\ Safe(from)
    /\ connections[from] # None => connections[to] = None /\ connections[from] \notin terminalOwnerMoves
    /\ move' = [stage |-> IF connections[from] = None THEN "applied" ELSE "handover",
                from |-> from, to |-> to, agent |-> connections[from]]
    /\ UNCHANGED <<windows, slots, keeping, adopting, live, session, history>>

(* The agent, its leases or its timer go from one slot to the other.          *)
Apply(from, to) ==
    /\ connections' = [connections EXCEPT ![from] = None, ![to] = move.agent]
    /\ connectionLeases' = (connectionLeases \ {from}) \cup IF from \in connectionLeases THEN {to} ELSE {}
    /\ idleTimers' = (idleTimers \ {from, to}) \cup IF from \in connectionLeases THEN {} ELSE {to}

HandedOver ==
    /\ move.stage = "handover"
    /\ IF Safe(move.from) /\ connections[move.from] = move.agent
         THEN /\ Apply(move.from, move.to) /\ unleased' = unleased \cup (cards \cap {move.from})
              /\ move' = [move EXCEPT !.stage = "applied"]
         ELSE move' = [move EXCEPT !.stage = "returning"] /\ UNCHANGED <<connections, keeping, unleased>>
    /\ UNCHANGED <<windows, connectTasks, waiting, adopting, live, session, stranded, slipped>>

HandoverFails ==
    /\ move.stage = "handover"
    /\ move' = NoMove
    /\ UNCHANGED <<windows, slots, keeping, adopting, live, session, history>>

Returned ==
    /\ move.stage = "returning"
    /\ move' = NoMove
    /\ UNCHANGED <<windows, slots, keeping, adopting, live, session, history>>

(* The target shows the project, acknowledges, and main commits; the source   *)
(* drops it afterwards.                                                      *)
TargetShows ==
    /\ move.stage = "applied" /\ move.to \in open \ homes
    /\ homes' = homes \cup {move.to}
    /\ UNCHANGED <<open, cards, slots, keeping, moves, live, session, history>>

Commit ==
    /\ move.stage = "applied" /\ move.to \in homes
    /\ homes' = homes \ {move.from} /\ cards' = cards \ {move.from} /\ unleased' = unleased \ {move.from}
    /\ IF move.from \in cards THEN Unleased(move.from) ELSE UNCHANGED keeping
    /\ move' = NoMove
    /\ UNCHANGED <<open, slots, adopting, live, session, stranded, slipped>>

(* No acknowledgement, or the move cannot be committed: it is rolled back,    *)
(* unless the source has another agent by now.                               *)
Disposed ==
    /\ connections' = IF connections[move.to] = move.agent
                      THEN [connections EXCEPT ![move.to] = None] ELSE connections
    /\ Dropped(move.to)
    /\ unleased' = unleased \ {move.to}
    /\ stranded' = stranded \cup ({connections'[move.to]} \ {None})
    /\ End({move.agent})

(* The target is reloaded without the project.                               *)
TargetDrops == homes' = homes \ {move.to} /\ cards' = cards \ {move.to}

Rollback ==
    /\ move.stage = "applied" /\ move.agent # None
    /\ IF connections[move.from] \notin {None, move.agent}
         THEN Disposed /\ TargetDrops /\ move' = NoMove
         ELSE /\ move' = [move EXCEPT !.stage = "rollback"]
              /\ UNCHANGED <<connections, keeping, unleased, stranded, live, session, homes, cards>>
    /\ UNCHANGED <<open, connectTasks, waiting, adopting, slipped>>

(* Without an agent there is nothing to hand back.                           *)
RollbackEmpty ==
    /\ move.stage = "applied" /\ move.agent = None
    /\ TargetDrops /\ unleased' = unleased \ {move.to} /\ move' = NoMove
    /\ UNCHANGED <<open, slots, keeping, adopting, live, session, stranded, slipped>>

RolledBack ==
    /\ move.stage = "rollback"
    /\ Apply(move.to, move.from) /\ TargetDrops
    /\ unleased' = unleased \ ({move.to} \cup (connectionLeases' \cap {move.from}))
    /\ stranded' = IF move.from \in open THEN stranded ELSE stranded \cup {move.agent}
    /\ move' = NoMove
    /\ UNCHANGED <<open, connectTasks, waiting, adopting, live, session, slipped>>

RollbackFails ==
    /\ move.stage = "rollback"
    /\ Disposed /\ TargetDrops /\ move' = NoMove
    /\ UNCHANGED <<open, connectTasks, waiting, adopting, slipped>>

-----------------------------------------------------------------------------
Waited == {w \in waiting : connectTasks[w] = None}

WindowStep(w) ==
    \/ OpenWindow(w) \/ OpenProject(w) \/ Mount(w) \/ Unmount(w) \/ Destroy(w)
    \/ Connected(w) \/ ConnectFails(w) \/ Disconnect(w) \/ IdlePark(w)
    \/ \E forceReconnect \in BOOLEAN : Connect(w, forceReconnect)
    \/ \E to \in Windows : StartMove(w, to)
    \/ \E a \in Agents : StartAdopting(w, a)

AgentStep(a) ==
    \/ Exit(a) \/ PromptAnswered(a) \/ SteerAnswered(a) \/ FlushTimer(a) \/ CancelTimeout(a)
    \/ Ask(a) \/ AllowAtOnce(a) \/ \E allowed \in BOOLEAN : Respond(a, allowed)
    \/ \E actor \in Actors : Prompt(actor, a) \/ Steer(actor, a) \/ Cancel(actor, a)

MoveStep ==
    \/ HandedOver \/ HandoverFails \/ Returned \/ TargetShows \/ Commit
    \/ Rollback \/ RollbackEmpty \/ RolledBack \/ RollbackFails

AdoptionStep == \E r \in adopting : Adopted(r) \/ AdoptionFails(r)

Others ==
    (\E w \in Windows : WindowStep(w)) \/ (\E a \in Agents : AgentStep(a)) \/ AdoptionStep \/ MoveStep

Step ==
    \/ \E w \in Waited, forceReconnect \in BOOLEAN : ConnectWaited(w, forceReconnect)
    \/ Waited = {} /\ Others

(* An agent belongs to the window of the slot it is put in, and still does    *)
(* when another one replaces it there.                                       *)
Bound ==
    sender' = [a \in Agents |->
        IF a \notin live' THEN None
        ELSE IF IsConnected(a)' THEN Owner(a)'
        ELSE IF IsConnecting(a)' THEN CHOOSE w \in Windows : connectTasks'[w] = a
        ELSE sender[a]]

(* The agents that are in a slot, or are about to be put in it or taken out.  *)
Claims(w) ==
    ({connections[w], connectTasks[w]} \ {None})
        \cup {r.agent : r \in {q \in adopting : w \in {q.window, q.slot}}}
        \cup IF w \in projectMoves THEN {move.agent} \ {None} ELSE {}

Rivalled == {a \in live : \E w \in Windows : a \in Claims(w) /\ Claims(w) # {a}}

(* An agent is contested while another has a claim to one of its slots, and   *)
(* once it has lost the slot.                                                *)
Remembered ==
    contested' = Rivalled' \cup {a \in contested : a \in live' /\ ~IsConnected(a)' /\ ~IsConnecting(a)'}

Next == Step /\ Bound /\ Remembered

Spec == Init /\ [][Next]_vars

(* Timers fire.                                                              *)
FairSpec ==
    /\ Spec
    /\ \A a \in Agents : /\ WF_vars(FlushTimer(a) /\ Bound /\ Remembered)
                        /\ WF_vars(CancelTimeout(a) /\ Bound /\ Remembered)

-----------------------------------------------------------------------------
(* Every agent that runs is in a slot or being connected to one, so somebody   *)
(* can reach and end it, unless it is contested: of two agents with a claim to *)
(* one slot (a handshake, an adoption and a move do not look at each other)   *)
(* the later replaces the earlier, whose process nobody ends.                 *)
NoAgentLost == \A a \in live \ contested : \E w \in Windows : a \in {connections[w], connectTasks[w]}

(* The window that sent the prompt of a turn under way, if it lives, still has *)
(* its agent: neither a move nor an adoption takes an agent away from the      *)
(* listener its stream is bound to.  A contested one may be replaced there.   *)
TurnsReportHome ==
    \A a \in live \ contested : session[a].home \in open => connections[session[a].home] = a

(* An agent that is connected is seen by a card, leased by a window that lives *)
(* or has an idle timer that will park it, contested or not; only a stranded   *)
(* one may stay for ever.                                                    *)
IdleAgentsGo ==
    \A w \in Windows : connections[w] \in live \ (stranded \cup {move.agent}) =>
        w \in idleTimers \/ w \in cards \/ w \in connectionLeases \cap open

(* "Visible transcripts stay warm": a mounted card has its agent leased, save  *)
(* after main itself took the lease away (a disconnect, a Stop that ran out of *)
(* time, a move, with whose agent it goes), which no card learns of.          *)
CardsKeepAgents ==
    \A w \in cards \ unleased : connections[w] \in live => w \in connectionLeases

(* After Stop nothing the agent asks is allowed before the turn has settled,   *)
(* by its autonomy, by a window or by a phone, however often Stop is pressed. *)
StopHolds == ~slipped

(* A turn that was answered or stopped settles, whether or not the agent ever  *)
(* answers a steer it absorbed, or the Stop: the flush timer and the watchdog  *)
(* see to it, through adoptions and moves.                                   *)
TurnsSettle ==
    \A a \in Agents :
        (session[a].turn = "flushing" \/ session[a].stop) ~> session[a].turn = "none"
=============================================================================
