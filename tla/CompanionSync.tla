----------------------------- MODULE CompanionSync -----------------------------
(***************************************************************************)
(* How a phone keeps up with the desktop: the desktop's state and replay log  *)
(* (companion/desktopState.cjs, stateHub.cjs and module EventLog), one        *)
(* phone's session on the gateway (gateway.cjs), the connection, and the      *)
(* phone's store (mobile/.../CompanionClient.swift, CompanionStore.swift).    *)
(*                                                                         *)
(* The state is a number per item that every change of the item increments,  *)
(* so a change that is lost or applied out of turn shows.  A connection may   *)
(* break at any step and take the frames on it with it; the desktop may       *)
(* restart, which begins a new epoch, and so may the phone's app.             *)
(***************************************************************************)
EXTENDS EventLog

CONSTANTS
    QueueCap,    \* frames the connection queues before it is a slow consumer
    MaxEpochs,   \* bound: epochs
    MaxBreaks    \* bound: lost connections or acknowledgements, relaunches of the app

Private == "private"        \* an event for another connection or terminal subscriber
Items == Bodies \ {Private} \* things a projection shows; MaxSeq is a bound per epoch
NoCursor == [epoch |-> 0, seq |-> 0]

ASSUME CompanionSyncAssumption ==
    /\ Private \in Bodies /\ "phone" \in Clients
    /\ QueueCap \in Nat \ {0} /\ MaxEpochs \in Nat \ {0} /\ MaxBreaks \in Nat

VARIABLES
    \* the desktop, whose log is that of module EventLog
    state, epoch,
    syncQueued,    \* a synchronization of all sessions is queued as a microtask
    session,       \* the phone's session: none, attached, or connected after its hello
    lastSentSeq,   \* where that session's stream is
    lingering,     \* a dead session the desktop has not noticed yet
    \* the connection
    socket,        \* down, open, or closing: closed by the desktop, not read out
    down, up,      \* frames to the phone, frames to the desktop
    \* the phone
    cursor,        \* CompanionStore.lastAckCursor
    ackCursor,     \* CompanionClient.ackCursor
    replica,       \* what the store shows
    \* bookkeeping
    breaks,        \* bound
    refused,       \* history: the desktop refused a frame of the phone
    history,       \* history: every state of the desktop
    base           \* history: where in it each epoch's number 0 is

desktop == <<state, epoch, currentSeq, droppedThrough, events, acknowledgements,
             syncQueued, history, base>>
stream == <<session, lastSentSeq, lingering>>
wire == <<socket, down, up>>
phone == <<cursor, ackCursor, replica>>
vars == <<desktop, stream, wire, phone, breaks, refused>>

-----------------------------------------------------------------------------
States == [Items -> 0 .. MaxSeq * MaxEpochs]
Blank == [i \in Items |-> 0]
Cursor == [epoch : 1 .. MaxEpochs, seq : 0 .. MaxSeq]

DownFrame == [kind : {"hello", "snapshot", "event"}, epoch : 1 .. MaxEpochs,
              seq : 0 .. MaxSeq, item : Bodies, state : States]
UpFrame == [kind : {"hello", "ack"}, cursor : Cursor \cup {NoCursor}]

(* What a sequence of frames weighs in the socket's queue; a hello is small. *)
Load(frames) == Cardinality({i \in DOMAIN frames : frames[i].kind # "hello"})

TypeOK ==
    /\ LogTypeOK
    /\ state \in States /\ epoch \in 1 .. MaxEpochs
    /\ syncQueued \in BOOLEAN /\ lingering \in BOOLEAN /\ refused \in BOOLEAN
    /\ session \in {"none", "attached", "connected"}
    /\ lastSentSeq \in 0 .. currentSeq
    /\ socket \in {"down", "open", "closing"}
    /\ down \in Seq(DownFrame) /\ Load(down) <= QueueCap
    /\ up \in Seq(UpFrame)
    /\ cursor \in Cursor \cup {NoCursor} /\ ackCursor \in Cursor \cup {NoCursor}
    /\ replica \in States
    /\ breaks \in 0 .. MaxBreaks

(* Frames; `state` is a snapshot's projection or an event's payload.         *)
Hello == [kind |-> "hello", epoch |-> epoch, seq |-> 0, item |-> Private, state |-> Blank]
Snapshot == [kind |-> "snapshot", epoch |-> epoch, seq |-> currentSeq, item |-> Private,
             state |-> state]
EventFrame(event) ==
    [kind |-> "event", epoch |-> epoch, seq |-> event.seq, item |-> event.body,
     state |-> history[base[epoch] + event.seq]]

IsForPhone(event) == event.body # Private

(* stateHub.synchronize: replay what the cursor has not seen, or a snapshot. *)
ReplaysDespiteGap(from) == from.epoch = epoch /\ from.seq <= currentSeq    \* mutant
Replays(from) == from.epoch = epoch /\ Replayable(from.seq)
Replay(from) ==
    LET later == ReplayFrom(from.seq)
        own == Selected(later, {i \in DOMAIN later : IsForPhone(later[i])})
    IN [i \in DOMAIN own |-> EventFrame(own[i])]

SynchronizationFrames(from) == IF Replays(from) THEN Replay(from) ELSE <<Snapshot>>

(* Closing a session discards what its socket had queued; what the kernel    *)
(* took before may still arrive.                                             *)
CloseSocket(queued) ==
    /\ socket' = "closing"
    /\ \E k \in 0 .. Len(queued) :
          Load(SubSeq(queued, 1, k)) <= QueueCap /\ down' = SubSeq(queued, 1, k)

EndSession == session' = "none" /\ lastSentSeq' = 0

(* #send of a burst of frames: the first that does not fit in the queue      *)
(* closes the session as a slow consumer.                                    *)
Send(frames) ==
    IF Load(down \o frames) <= QueueCap
      THEN /\ down' = down \o frames
           /\ session' = "connected" /\ lastSentSeq' = currentSeq
           /\ UNCHANGED <<socket, acknowledgements>>
      ELSE /\ CloseSocket(down \o frames)
           /\ EndSession
           /\ acknowledgements' = [acknowledgements EXCEPT !["phone"] = 0]

Init ==
    /\ state = Blank /\ epoch = 1
    /\ LogInit
    /\ syncQueued = FALSE
    /\ session = "none" /\ lastSentSeq = 0 /\ lingering = FALSE
    /\ socket = "down" /\ down = <<>> /\ up = <<>>
    /\ cursor = NoCursor /\ ackCursor = NoCursor /\ replica = Blank
    /\ breaks = 0 /\ refused = FALSE
    /\ history = <<Blank>> /\ base = <<1>>

-----------------------------------------------------------------------------
(* The desktop's state changes, and desktopState appends the event for it,   *)
(* which queues a synchronization.                                          *)
Changed(item) ==
    /\ state' = IF item = Private THEN state ELSE [state EXCEPT ![item] = @ + 1]
    /\ history' = Append(history, state')
    /\ UNCHANGED <<epoch, base>>

(* The events of others weigh twice what a change does: either limit trims.   *)
Size(item) == IF item = Private THEN 2 ELSE 1

(* A projection, attention or ledger update, or (Private) another client's    *)
(* terminal event: always recorded.                                          *)
Publish(item) ==
    /\ Record(item, Size(item))
    /\ Changed(item)
    /\ syncQueued' = TRUE
    /\ UNCHANGED <<stream, wire, phone, breaks, refused>>

(* An agent's event while no session is attached is not recorded: the log     *)
(* is invalidated instead.                                                   *)
AgentEvent(item) ==
    /\ session = "none" /\ ~lingering
    /\ Invalidate
    /\ Changed(item)
    /\ UNCHANGED <<syncQueued, stream, wire, phone, breaks, refused>>

(* Mutant: the microtask runs but the session is not brought up to date.     *)
SynchronizeNothing ==
    /\ syncQueued /\ syncQueued' = FALSE
    /\ UNCHANGED <<state, epoch, currentSeq, droppedThrough, events, acknowledgements>>
    /\ UNCHANGED <<history, base, stream, wire, phone, breaks, refused>>

(* The queued microtask: every connected session continues its stream.       *)
Synchronize ==
    /\ syncQueued /\ syncQueued' = FALSE
    /\ IF session = "connected"
         THEN Send(SynchronizationFrames([epoch |-> epoch, seq |-> lastSentSeq])) /\ UNCHANGED up
         ELSE UNCHANGED <<session, lastSentSeq, wire, acknowledgements>>
    /\ UNCHANGED <<state, epoch, currentSeq, droppedThrough, events, history, base>>
    /\ UNCHANGED <<lingering, phone, breaks, refused>>

(* #hello: answer, and start the stream at the phone's cursor.               *)
ReceiveHello ==
    /\ session = "attached"
    /\ up # <<>> /\ Head(up).kind = "hello"
    /\ up' = Tail(up)
    /\ Send(<<Hello>> \o SynchronizationFrames(Head(up).cursor))
    /\ UNCHANGED <<state, epoch, currentSeq, droppedThrough, events, history, base>>
    /\ UNCHANGED <<syncQueued, lingering, phone, breaks, refused>>

(* An ack names a cursor; one of another epoch or ahead of the log is         *)
(* refused, and refusing a frame closes the connection.                      *)
ReceiveAck ==
    /\ session = "connected"
    /\ up # <<>> /\ Head(up).kind = "ack"
    /\ up' = Tail(up)
    /\ LET ack == Head(up).cursor
       IN IF ack.epoch = epoch /\ ack.seq <= currentSeq
            THEN /\ Acknowledge("phone", ack.seq)
                 /\ UNCHANGED <<session, lastSentSeq, socket, down, refused>>
            ELSE /\ refused' = TRUE
                 /\ CloseSocket(down) /\ EndSession
                 /\ DropClient("phone")
    /\ UNCHANGED <<state, epoch, history, base, syncQueued, lingering, phone, breaks>>

(* The desktop notices that an earlier connection of the phone is dead;       *)
(* close forgets the device's acknowledgement, whichever session made it.     *)
NoticeDead ==
    /\ lingering /\ lingering' = FALSE
    /\ DropClient("phone")
    /\ UNCHANGED <<state, epoch, history, base, syncQueued, session, lastSentSeq>>
    /\ UNCHANGED <<wire, phone, breaks, refused>>

(* The desktop app restarts: a new epoch with an empty log.                  *)
Restart ==
    /\ epoch < MaxEpochs
    /\ epoch' = epoch + 1
    /\ currentSeq' = 0 /\ droppedThrough' = 0 /\ events' = <<>>
    /\ acknowledgements' = [c \in Clients |-> 0]
    /\ history' = Append(history, state) /\ base' = Append(base, Len(history'))
    /\ syncQueued' = FALSE
    /\ EndSession /\ lingering' = FALSE
    /\ IF socket = "open" THEN CloseSocket(down) ELSE UNCHANGED <<socket, down>>
    /\ UNCHANGED <<state, up, phone, breaks, refused>>

-----------------------------------------------------------------------------
IsNew(frame) ==
    cursor = NoCursor \/ (frame.epoch = cursor.epoch /\ frame.seq > cursor.seq)

(* Mutant: the epoch of the cursor acknowledged before is kept.              *)
AckWithOldEpoch(old, new) == IF old = NoCursor THEN new ELSE [new EXCEPT !.epoch = old.epoch]

(* acknowledge names the cursor that was just reached, epoch and number.      *)
AckOf(old, new) == new

(* CompanionStore.apply: a snapshot replaces everything, a new event is       *)
(* applied, and both move the cursor.                                        *)
Apply(frame) ==
    CASE frame.kind = "snapshot" ->
            /\ replica' = frame.state
            /\ cursor' = [epoch |-> frame.epoch, seq |-> frame.seq]
      [] frame.kind = "event" /\ IsNew(frame) ->
            /\ replica' = [replica EXCEPT ![frame.item] = frame.state[frame.item]]
            /\ cursor' = [epoch |-> frame.epoch, seq |-> frame.seq]
      [] OTHER -> UNCHANGED <<replica, cursor>>

(* The phone takes a frame and acknowledges what it applied; on a closing     *)
(* connection the acknowledgement may already fail to be sent, and then the   *)
(* client keeps its older cursor.                                            *)
PhoneReceives ==
    /\ socket # "down" /\ down # <<>>
    /\ down' = Tail(down)
    /\ Apply(Head(down))
    /\ IF cursor' = cursor /\ Head(down).kind # "snapshot"
         THEN UNCHANGED <<ackCursor, up, breaks>>
         ELSE \/ /\ ackCursor' = cursor'
                 /\ up' = IF socket = "open" THEN Append(up, [kind |-> "ack", cursor |-> AckOf(cursor, cursor')])
                          ELSE up
                 /\ UNCHANGED breaks
              \/ /\ socket = "closing" /\ breaks < MaxBreaks /\ breaks' = breaks + 1
                 /\ UNCHANGED <<ackCursor, up>>
    /\ UNCHANGED <<desktop, stream, socket, refused>>

PhoneSeesClose ==
    /\ socket = "closing" /\ down = <<>>
    /\ socket' = "down" /\ up' = <<>>
    /\ UNCHANGED <<desktop, stream, down, phone, breaks, refused>>

(* The phone connects again, with its store's cursor (configureResume) or     *)
(* with the one its client still has.                                        *)
Connect ==
    /\ socket = "down"
    /\ socket' = "open"
    /\ \E from \in {cursor, ackCursor} :
          ackCursor' = from /\ up' = <<[kind |-> "hello", cursor |-> from]>>
    /\ session' = "attached" /\ lastSentSeq' = 0
    /\ UNCHANGED <<desktop, lingering, down, cursor, replica, breaks, refused>>

(* The connection is lost with everything on it; the desktop may not notice.  *)
Lost ==
    /\ breaks < MaxBreaks /\ breaks' = breaks + 1
    /\ socket' = "down" /\ down' = <<>> /\ up' = <<>>
    /\ EndSession
    /\ lingering' = (lingering \/ session # "none")
    /\ UNCHANGED <<desktop, refused>>

Break == socket # "down" /\ Lost /\ UNCHANGED phone

(* The app is killed and launched again: the store starts empty.             *)
Relaunch ==
    /\ Lost
    /\ cursor' = NoCursor /\ ackCursor' = NoCursor /\ replica' = Blank

Next ==
    \/ \E item \in Bodies : Publish(item)
    \/ \E item \in Items : AgentEvent(item)
    \/ Synchronize \/ ReceiveHello \/ ReceiveAck \/ NoticeDead \/ Restart
    \/ PhoneReceives \/ PhoneSeesClose \/ Connect \/ Break \/ Relaunch

Spec == Init /\ [][Next]_vars

(* Microtasks run, frames that arrived are handled, the phone reconnects.     *)
FairSpec ==
    /\ Spec
    /\ WF_vars(Synchronize) /\ WF_vars(ReceiveHello) /\ WF_vars(ReceiveAck)
    /\ WF_vars(PhoneReceives) /\ WF_vars(PhoneSeesClose) /\ WF_vars(Connect)

-----------------------------------------------------------------------------
View == IF cursor = NoCursor THEN 0 ELSE base[cursor.epoch] + cursor.seq

Abstract == INSTANCE ReplicaView WITH view <- View, shown <- replica

(* The phone implements ReplicaView: it shows the desktop as it was at one    *)
(* moment, never a mixture, and never goes back to an earlier one, whatever   *)
(* was trimmed, invalidated, lost, filtered, restarted or sent twice.        *)
ShowsOneMoment == Abstract!Spec

(* A phone that follows the protocol is never refused: what it acknowledges   *)
(* is always of the desktop's epoch and within its log.                      *)
NeverRefused == ~refused

(* "A bounded replay succeeds or the desktop sends a fresh snapshot": once    *)
(* nothing changes and nothing breaks any more, the phone shows the desktop's *)
(* state and keeps showing it.                                               *)
CatchesUp == <>[](replica = state)
=============================================================================
