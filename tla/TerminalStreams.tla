--------------------------- MODULE TerminalStreams ---------------------------
(***************************************************************************)
(* How the output of one terminal reaches the phones: the gateway's shared   *)
(* terminal streams (electron/companion/gateway.cjs), the broker observer    *)
(* each of them holds (subscribeTerminalObserver in                          *)
(* electron/ipc/terminalHandler.cjs) and the broker's side of it             *)
(* (electron/ipc/terminalObservers.cjs, subscribe in terminalManager.cjs).   *)
(*                                                                         *)
(* All phones that watch a terminal share one stream, which one observer at   *)
(* the broker feeds; the last to leave disposes of it, and a phone that comes *)
(* while that is going on waits for its end.  The subscribe and unsubscribe   *)
(* handlers, the stream's setup and its disposal are asynchronous functions:  *)
(* each step below is the code from one await to the next.                   *)
(*                                                                         *)
(* Output is counted in chunks, and a phone's text is the sequence of chunks   *)
(* it shows.  What is sent to a session it takes in the same step: the order  *)
(* on its connection is kept, and a phone's commands do not depend on it.     *)
(***************************************************************************)
EXTENDS Selection, SequencesExt

CONSTANTS
    Sessions,     \* connections of phones
    Devices,      \* paired phones; the observer is named after the one that created it
    MaxStreams,   \* streams that are referred to at a time; names are used again
    Retained,     \* chunks a snapshot holds
    MaxMembers,   \* sessions one stream takes (MAX_TERMINAL_OBSERVERS)
    MaxPending,   \* events kept while a stream is set up
    MaxWorld      \* bound: chunks written, connections to the broker broken, requests
                  \* given up and the terminal's end, all counted

StreamIds == 1 .. MaxStreams
NoStream == 0
NoDevice == "none"
NoSnapshot == [from |-> 0, to |-> -1]

ASSUME TerminalStreamsAssumption ==
    /\ Retained \in Nat \ {0} /\ MaxMembers \in Nat \ {0} /\ MaxPending \in Nat
    /\ MaxStreams \in Nat \ {0}
    /\ MaxWorld \in Nat

VARIABLES
    up,        \* sessions that are open
    device,    \* the phone whose connection each session is; it never changes
    task,      \* the stream command each session's frame handler is in
    order,     \* sessions with a command in flight, in the order they began to wait
    marker,    \* terminalSubscriptions: the stream each session is a member of
    view,      \* the chunks each phone shows
    reached,   \* history: the newest chunk each session has shown
    streams,
    current,   \* terminalStreams: the stream of this terminal
    owner,     \* the stream the events of each observer are handed to
    observer,  \* the broker's observers of the terminal
    produced,  \* chunks written so far
    alive,     \* the broker still has the terminal
    toBroker, toMain,
    faults     \* how many connections broke and requests were given up

vars == <<up, device, task, order, marker, view, reached, streams, current, owner, observer,
          produced, alive, toBroker, toMain, faults>>

-----------------------------------------------------------------------------
Chunks == 1 .. MaxWorld
Snapshot == [from : 0 .. MaxWorld, to : 0 .. MaxWorld]
Event == [kind : {"output", "required"}, device : Devices, at : 0 .. MaxWorld]

(* `setup` is the promise a stream is set up by: "answered" until the code   *)
(* behind the broker's answer has run, "dropping" while it takes back an     *)
(* observer that overflowed.  `dispose` is disposePromise, and the stream is *)
(* closing once it is not "no".                                             *)
Stream == [setup : {"asking", "answered", "dropping", "ready", "failed"},
           snapshot : Snapshot \cup {NoSnapshot}, answer : Snapshot \cup {NoSnapshot},
           device : Devices \cup {NoDevice}, pending : Seq(Event), overflow : BOOLEAN,
           interests : SUBSET Sessions, dispose : {"no", "setup", "unsubscribe", "done"}]
Unused == [setup |-> "failed", snapshot |-> NoSnapshot, answer |-> NoSnapshot,
           device |-> NoDevice, pending |-> <<>>, overflow |-> FALSE,
           interests |-> {}, dispose |-> "done"]

(* detach: the stream left is being disposed of; find: terminalStreamFor;    *)
(* await: another's disposal; got: the stream is returned;                   *)
(* setup: waiting for the stream to be set up; undo: a last disposal.        *)
Task == [command : {"none", "subscribe", "unsubscribe"},
         stage : {"idle", "detach", "find", "await", "got", "setup", "undo"},
         stream : StreamIds \cup {NoStream}]
Idle == [command |-> "none", stage |-> "idle", stream |-> NoStream]

Ask == [ask : {"subscribe", "unsubscribe"}, stream : StreamIds, device : Devices]
Answer == [kind : {"subscribed", "unsubscribed"}, stream : StreamIds,
           ok : BOOLEAN, snapshot : Snapshot \cup {NoSnapshot}]

TypeOK ==
    /\ up \subseteq Sessions
    /\ device \in [Sessions -> Devices]
    /\ task \in [Sessions -> Task]
    /\ order \in Seq(Sessions)
    /\ marker \in [Sessions -> StreamIds \cup {NoStream}]
    /\ view \in [Sessions -> Seq(Chunks)]
    /\ reached \in [Sessions -> 0 .. MaxWorld]
    /\ streams \in [StreamIds -> Stream]
    /\ \A n \in StreamIds :
          /\ Len(streams[n].pending) <= MaxPending
          /\ streams[n].snapshot.to - streams[n].snapshot.from <= Retained
    /\ \A n \in StreamIds : Cardinality({s \in Sessions : marker[s] = n}) <= MaxMembers
    /\ current \in StreamIds \cup {NoStream}
    /\ owner \in [Devices -> StreamIds \cup {NoStream}]
    /\ observer \in [Devices -> {"none", "live", "paused"}]
    /\ produced \in 0 .. MaxWorld
    /\ alive \in BOOLEAN
    /\ toBroker \in Seq(Ask)
    /\ toMain \in Seq(Event \cup Answer)
    /\ faults \in [breaks : 0 .. MaxWorld, timeouts : 0 .. MaxWorld]

SettledWhenReady(n) == streams[n].setup = "ready"    \* mutant
Settled(n) == streams[n].setup \in {"ready", "failed"}
Closing(n) == streams[n].dispose # "no"

(* Microtasks that can run: all of them do before the next phone frame,      *)
(* broker data or timer, commands in the order they began to wait.  Data may   *)
(* hold several frames, which matters between the broker's answer and the     *)
(* rest of the setup only.                                                  *)
Before(s, t) == s = t \/ \E i, j \in DOMAIN order : i < j /\ order[i] = s /\ order[j] = t
TaskRuns(s) ==
    \/ task[s].stage \in {"find", "got"}
    \/ task[s].stage \in {"detach", "await", "undo"} /\ streams[task[s].stream].dispose = "done"
    \/ task[s].stage = "setup" /\ Settled(task[s].stream)
FirstToRun(s) == TaskRuns(s) /\ \A t \in Sessions : TaskRuns(t) => Before(s, t)
DisposesAtOnce(n) == streams[n].dispose = "setup"       \* mutant
DisposeRuns(n) == streams[n].dispose = "setup" /\ Settled(n)
FrameTurn == (\A s \in Sessions : ~TaskRuns(s)) /\ (\A n \in StreamIds : ~DisposeRuns(n))
EventLoopTurn == FrameTurn /\ \A n \in StreamIds : streams[n].setup # "answered"

WorldGoesOn ==
    produced + faults.breaks + faults.timeouts + (IF alive THEN 0 ELSE 1) < MaxWorld

Referenced(n) ==
    \/ n = current \/ \E s \in Sessions : marker[s] = n \/ task[s].stream = n
    \/ streams[n].dispose \in {"setup", "unsubscribe"}
    \/ \E i \in DOMAIN toBroker : toBroker[i].stream = n
    \/ \E i \in DOMAIN toMain : toMain[i] \in Answer /\ toMain[i].stream = n

(* #maybeDisposeTerminalStream, once `members` are its sessions.             *)
MaybeDisposed(strs, n, members) ==
    IF n \in StreamIds /\ members = {} /\ strs[n].interests = {} /\ strs[n].dispose = "no"
    THEN [strs EXCEPT ![n].dispose = "setup"] ELSE strs

Members(n) == {s \in Sessions : marker[s] = n}

Waits(s) ==
    order' = Selected(order, {i \in DOMAIN order : order[i] # s}) \o (IF task'[s] = Idle THEN <<>> ELSE <<s>>)

Init ==
    /\ up = {}
    /\ device \in [Sessions -> Devices]
    /\ task = [s \in Sessions |-> Idle]
    /\ order = <<>>
    /\ marker = [s \in Sessions |-> NoStream]
    /\ view = [s \in Sessions |-> <<>>]
    /\ reached = [s \in Sessions |-> 0]
    /\ streams = [n \in StreamIds |-> Unused]
    /\ current = NoStream
    /\ owner = [d \in Devices |-> NoStream]
    /\ observer = [d \in Devices |-> "none"]
    /\ produced = 0
    /\ alive = TRUE
    /\ toBroker = <<>> /\ toMain = <<>>
    /\ faults = [breaks |-> 0, timeouts |-> 0]

-----------------------------------------------------------------------------
(* stream.subscribe: the session leaves the stream it is in, and if it was   *)
(* the last one waits for its disposal.  The sender's frames are handled one  *)
(* after the other, so no other command of it is in flight.                  *)
Leave(s, command, next) ==
    LET n == marker[s]
        left == MaybeDisposed(streams, n, Members(n) \ {s}) IN
    /\ marker' = [marker EXCEPT ![s] = NoStream]
    /\ streams' = left
    /\ task' = [task EXCEPT ![s] =
                    IF n # NoStream /\ left[n].dispose # "no"
                    THEN [command |-> command, stage |-> "detach", stream |-> n] ELSE next]

Subscribe(s) ==
    /\ EventLoopTurn /\ s \in up /\ task[s] = Idle
    /\ Leave(s, "subscribe", [command |-> "subscribe", stage |-> "find", stream |-> NoStream])
    /\ Waits(s)
    /\ UNCHANGED <<up, device, view, reached, current, owner, observer, produced, alive,
                   toBroker, toMain, faults>>

Unsubscribe(s) ==
    /\ EventLoopTurn /\ s \in up /\ task[s] = Idle
    /\ Leave(s, "unsubscribe", Idle)
    /\ Waits(s)
    /\ UNCHANGED <<up, device, view, reached, current, owner, observer, produced, alive,
                   toBroker, toMain, faults>>

(* The stream the session left has been disposed of.                         *)
Detached(s) ==
    /\ FirstToRun(s) /\ task[s].stage = "detach"
    /\ task' = [task EXCEPT ![s] = IF @.command = "unsubscribe" THEN Idle
                                   ELSE [@ EXCEPT !.stage = "find", !.stream = NoStream]]
    /\ Waits(s)
    /\ UNCHANGED <<up, device, marker, view, reached, streams, current, owner, observer,
                   produced, alive, toBroker, toMain, faults>>

(* terminalStreamFor.  Only the stream found first is asked whether it is     *)
(* closing.  A new one has the lowest name that nothing refers to.           *)
Create(s) == \E n \in StreamIds :
    /\ ~Referenced(n) /\ \A m \in StreamIds : m < n => Referenced(m)
    /\ streams' = [streams EXCEPT ![n] =
                      [Unused EXCEPT !.setup = "asking", !.device = device[s], !.dispose = "no"]]
    /\ current' = n
    /\ owner' = [owner EXCEPT ![device[s]] = n]
    /\ toBroker' = Append(toBroker, [ask |-> "subscribe", stream |-> n, device |-> device[s]])
    /\ task' = [task EXCEPT ![s].stage = "got", ![s].stream = n]

Take(s) ==
    IF current = NoStream THEN Create(s)
    ELSE /\ task' = [task EXCEPT ![s].stage = "got", ![s].stream = current]
         /\ UNCHANGED <<streams, current, owner, toBroker>>

FindStream(s) ==
    /\ FirstToRun(s) /\ task[s].stage = "find"
    /\ IF current # NoStream /\ Closing(current)
       THEN /\ task' = [task EXCEPT ![s].stage = "await", ![s].stream = current]
            /\ UNCHANGED <<streams, current, owner, toBroker>>
       ELSE Take(s)
    /\ Waits(s)
    /\ UNCHANGED <<up, device, marker, view, reached, observer, produced, alive, toMain, faults>>

TakeAfterDisposal(s) ==
    /\ FirstToRun(s) /\ task[s].stage = "await"
    /\ Take(s)
    /\ Waits(s)
    /\ UNCHANGED <<up, device, marker, view, reached, observer, produced, alive, toMain, faults>>

(* A subscription that comes to nothing disposes of a stream nobody else has *)
(* and waits for it.                                                        *)
GiveUp(s, n, strs) ==
    LET gone == MaybeDisposed(strs, n, Members(n)) IN
    /\ streams' = gone
    /\ task' = [task EXCEPT ![s] =
                    IF gone[n].dispose = "no" THEN Idle ELSE [@ EXCEPT !.stage = "undo"]]

(* The stream is there: the session has it kept while it is set up.          *)
Got(s) ==
    /\ FirstToRun(s) /\ task[s].stage = "got"
    /\ LET n == task[s].stream IN
       IF s \in up
       THEN /\ streams' = [streams EXCEPT ![n].interests = @ \cup {s}]
            /\ task' = [task EXCEPT ![s].stage = "setup"]
       ELSE GiveUp(s, n, streams)
    /\ Waits(s)
    /\ UNCHANGED <<up, device, marker, view, reached, current, owner, observer, produced,
                   alive, toBroker, toMain, faults>>

(* The stream is set up, or could not be: the session joins it and is sent    *)
(* its snapshot, which replaces what the phone showed.                       *)
Later(a, b) == IF a > b THEN a ELSE b
TextAfter(shown, snapshot) ==             \* mutant
    shown \o [i \in 1 .. snapshot.to - snapshot.from |-> snapshot.from + i]
Shown(shown, snapshot) == [i \in 1 .. snapshot.to - snapshot.from |-> snapshot.from + i]

Join(s) ==
    LET n == task[s].stream
        strs == [streams EXCEPT ![n].interests = @ \ {s}] IN
    /\ FirstToRun(s) /\ task[s].stage = "setup"
    /\ IF s \in up /\ streams[n].setup = "ready" /\ Cardinality(Members(n)) < MaxMembers
       THEN /\ streams' = strs
            /\ marker' = [marker EXCEPT ![s] = n]
            /\ view' = [view EXCEPT ![s] = Shown(@, streams[n].snapshot)]
            /\ reached' = [reached EXCEPT ![s] = Later(@, streams[n].snapshot.to)]
            /\ task' = [task EXCEPT ![s] = Idle]
       ELSE /\ GiveUp(s, n, strs)
            /\ UNCHANGED <<marker, view, reached>>
    /\ Waits(s)
    /\ UNCHANGED <<up, device, current, owner, observer, produced, alive, toBroker, toMain, faults>>

Undone(s) ==
    /\ FirstToRun(s) /\ task[s].stage = "undo"
    /\ task' = [task EXCEPT ![s] = Idle]
    /\ Waits(s)
    /\ UNCHANGED <<up, device, marker, view, reached, streams, current, owner, observer,
                   produced, alive, toBroker, toMain, faults>>

(* A phone connects: a new session, with nothing shown yet.                  *)
Connect(s) ==
    /\ EventLoopTurn /\ s \notin up /\ task[s] = Idle
    /\ up' = up \cup {s}
    /\ UNCHANGED <<device, view, reached, task, order, marker, streams, current, owner, observer, produced, alive,
                   toBroker, toMain, faults>>

(* releaseSession: the session leaves its stream and takes its interest back; *)
(* a command it has in flight finds it closed when it goes on.               *)
Close(s) ==
    LET without == [n \in StreamIds |-> [streams[n] EXCEPT
                       !.interests = IF n = current THEN @ \ {s} ELSE @]]
        left == MaybeDisposed(without, marker[s], Members(marker[s]) \ {s}) IN
    /\ EventLoopTurn /\ s \in up
    /\ up' = up \ {s}
    /\ marker' = [marker EXCEPT ![s] = NoStream]
    /\ view' = [view EXCEPT ![s] = <<>>]
    /\ reached' = [reached EXCEPT ![s] = 0]
    /\ streams' = MaybeDisposed(left, current, Members(current) \ {s})
    /\ UNCHANGED <<device, task, order, current, owner, observer, produced, alive,
                   toBroker, toMain, faults>>

-----------------------------------------------------------------------------
(* makeBoundedSnapshot: output that is appended pushes the oldest out.       *)
Unbounded(from, to) == [from |-> from, to |-> to]     \* mutant
Bounded(from, to) == [from |-> IF to - from > Retained THEN to - Retained ELSE from, to |-> to]

(* #applyTerminalStreamEvent: what is known is skipped, what does not follow  *)
(* is an error, and a marker changes nothing.                               *)
Follows(snapshot, event) == event.kind = "output" /\ event.at = snapshot.to + 1
NotApplied(snapshot, event) == snapshot      \* mutant
Applied(snapshot, event) ==
    IF Follows(snapshot, event) THEN Bounded(snapshot.from, event.at) ELSE snapshot

(* #acceptsEvent: an event of the terminal goes to every session that is     *)
(* subscribed to the terminal.                                              *)
OnPhones(event) ==
    LET shown == {s \in up : marker[s] # NoStream} IN
    /\ view' = [s \in Sessions |-> IF s \notin shown THEN view[s]
                   ELSE IF event.kind = "output" THEN Append(view[s], event.at) ELSE <<>>]
    /\ reached' = [s \in Sessions |-> IF s \in shown /\ event.kind = "output"
                                      THEN Later(reached[s], event.at) ELSE reached[s]]

NextFrame == FrameTurn /\ toMain' = Tail(toMain)

(* #handleTerminalStreamEvent, for the stream the observer's owner routes to. *)
ReadEvent ==
    /\ toMain # <<>> /\ Head(toMain) \in Event
    /\ LET event == Head(toMain)
           n == owner[event.device] IN
       IF n = NoStream \/ n # current \/ Closing(n)
       THEN UNCHANGED <<streams, view, reached>>
       ELSE IF streams[n].snapshot = NoSnapshot
       THEN /\ streams' = [streams EXCEPT
                  ![n].pending = IF Len(@) < MaxPending THEN Append(@, event) ELSE @,
                  ![n].overflow = @ \/ Len(streams[n].pending) >= MaxPending]
            /\ UNCHANGED <<view, reached>>
       ELSE /\ streams' = [streams EXCEPT ![n].snapshot = Applied(@, event)]
            /\ IF Members(n) # {} /\ (event.kind = "output" => Follows(streams[n].snapshot, event))
               THEN OnPhones(event) ELSE UNCHANGED <<view, reached>>
    /\ NextFrame
    /\ UNCHANGED <<up, device, task, order, marker, current, owner, observer, produced, alive,
                   toBroker, faults>>

(* The request failed, was refused or was given up: nothing routes to the    *)
(* stream any more that it would look at.                                   *)
Unrouted(n) == [d \in Devices |-> IF owner[d] = n THEN NoStream ELSE owner[d]]

Failed(strs, n) == [strs EXCEPT ![n].setup = "failed"]

(* The end of a disposal, successful or not.                                *)
Disposed(n) ==
    LET inUse == \E s \in Sessions : task[s].stream = n /\ task[s].stage \in {"got", "setup"} IN
    /\ streams' = [streams EXCEPT ![n] = IF inUse THEN [@ EXCEPT !.dispose = "done"] ELSE Unused]
    /\ current' = IF current = n THEN NoStream ELSE current

ReadSubscribed ==
    /\ toMain # <<>> /\ Head(toMain) \in Answer /\ Head(toMain).kind = "subscribed"
    /\ LET answer == Head(toMain)
           n == answer.stream IN
       IF streams[n].setup # "asking" THEN UNCHANGED <<streams, owner>>
       ELSE IF answer.ok
       THEN /\ streams' = [streams EXCEPT ![n].setup = "answered", ![n].answer = answer.snapshot]
            /\ UNCHANGED owner
       ELSE /\ streams' = Failed(streams, n)
            /\ owner' = Unrouted(n)
    /\ NextFrame
    /\ UNCHANGED <<up, device, task, order, marker, view, reached, current, observer, produced, alive,
                   toBroker, faults>>

(* The unsubscription of a disposal, or of an observer that overflowed, ends. *)
Unsubscribed(n) ==
    IF streams[n].dispose = "unsubscribe"
    THEN Disposed(n) /\ owner' = Unrouted(n)
    ELSE IF streams[n].setup = "dropping"
    THEN /\ streams' = Failed(streams, n) /\ owner' = Unrouted(n)
         /\ UNCHANGED current
    ELSE UNCHANGED <<streams, owner, current>>

ReadUnsubscribed ==
    /\ toMain # <<>> /\ Head(toMain) \in Answer /\ Head(toMain).kind = "unsubscribed"
    /\ Unsubscribed(Head(toMain).stream)
    /\ NextFrame
    /\ UNCHANGED <<up, device, task, order, marker, view, reached, observer, produced, alive,
                   toBroker, faults>>

(* The setup goes on with the broker's answer: the events that came before it *)
(* are applied to the snapshot, or there were too many.                      *)
PendingLost(snapshot, pending) == snapshot      \* mutant
WithPending(snapshot, pending) ==
    LET upTo[i \in 0 .. Len(pending)] == IF i = 0 THEN snapshot ELSE Applied(upTo[i - 1], pending[i])
    IN upTo[Len(pending)]

SetupContinues(n) ==
    LET stream == streams[n] IN
    /\ stream.setup = "answered"
    /\ streams' = [streams EXCEPT ![n] =
          [stream EXCEPT !.setup = IF stream.overflow THEN "dropping" ELSE "ready",
             !.answer = NoSnapshot, !.pending = <<>>,
             !.snapshot = IF stream.overflow THEN stream.answer
                          ELSE WithPending(stream.answer, stream.pending)]]
    /\ toBroker' = IF ~stream.overflow THEN toBroker
                   ELSE Append(toBroker, [ask |-> "unsubscribe", stream |-> n, device |-> stream.device])
    /\ UNCHANGED <<up, device, task, order, marker, view, reached, current, owner, observer, produced,
                   alive, toMain, faults>>

(* The disposal goes on once the setup is settled.                           *)
DisposeContinues(n) ==
    /\ DisposeRuns(n)
    /\ IF streams[n].setup = "ready"
       THEN /\ streams' = [streams EXCEPT ![n].dispose = "unsubscribe"]
            /\ toBroker' = Append(toBroker,
                   [ask |-> "unsubscribe", stream |-> n, device |-> streams[n].device])
            /\ UNCHANGED current
       ELSE Disposed(n) /\ UNCHANGED toBroker
    /\ UNCHANGED <<up, device, task, order, marker, view, reached, owner, observer, produced, alive,
                   toMain, faults>>

-----------------------------------------------------------------------------
(* The broker, whose steps touch nothing a microtask does and are taken when  *)
(* none can run.  A subscription adds the observer and takes the snapshot in  *)
(* one step, and makes a paused observer live again.                         *)
BrokerSubscribes ==
    /\ EventLoopTurn /\ toBroker # <<>> /\ Head(toBroker).ask = "subscribe"
    /\ LET ask == Head(toBroker) IN
       /\ observer' = [observer EXCEPT ![ask.device] = IF alive THEN "live" ELSE @]
       /\ toMain' = Append(toMain, [kind |-> "subscribed", stream |-> ask.stream, ok |-> alive,
              snapshot |-> IF alive THEN Bounded(0, produced) ELSE NoSnapshot])
    /\ toBroker' = Tail(toBroker)
    /\ UNCHANGED <<up, device, task, order, marker, view, reached, streams, current, owner, produced,
                   alive, faults>>

BrokerUnsubscribes ==
    /\ EventLoopTurn /\ toBroker # <<>> /\ Head(toBroker).ask = "unsubscribe"
    /\ LET ask == Head(toBroker) IN
       /\ observer' = [observer EXCEPT ![ask.device] = "none"]
       /\ toMain' = Append(toMain, [kind |-> "unsubscribed", stream |-> ask.stream, ok |-> TRUE,
                                    snapshot |-> NoSnapshot])
    /\ toBroker' = Tail(toBroker)
    /\ UNCHANGED <<up, device, task, order, marker, view, reached, streams, current, owner, produced,
                   alive, faults>>

(* The terminal writes a chunk.  An observer whose socket is full is paused:  *)
(* the chunk was still queued ("late") or dropped, and one marker is forced.  *)
Outcome == {"sent", "late", "dropped"}
Frames(d, outcome) ==
    LET output == [kind |-> "output", device |-> d, at |-> produced + 1]
        required == [kind |-> "required", device |-> d, at |-> produced + 1] IN
    CASE outcome = "sent" -> <<output>>
      [] outcome = "late" -> <<output, required>>
      [] outcome = "dropped" -> <<required>>

Produce ==
    /\ EventLoopTurn /\ alive /\ WorldGoesOn
    /\ produced' = produced + 1
    /\ LET live == {d \in Devices : observer[d] = "live"} IN
       \E outcome \in [live -> Outcome], sent \in SetToSeqs(live) :
          /\ observer' = [d \in Devices |-> IF d \in live /\ outcome[d] # "sent" THEN "paused"
                                            ELSE observer[d]]
          /\ toMain' = toMain \o FlattenSeq([i \in DOMAIN sent |->
                                                Frames(sent[i], outcome[sent[i]])])
    /\ UNCHANGED <<up, device, task, order, marker, view, reached, streams, current, owner, alive,
                   toBroker, faults>>

(* release: the terminal goes with its observers.                           *)
TerminalGoes ==
    /\ EventLoopTurn /\ alive /\ WorldGoesOn
    /\ alive' = FALSE
    /\ observer' = [d \in Devices |-> "none"]
    /\ UNCHANGED <<up, device, task, order, marker, view, reached, streams, current, owner, produced,
                   toBroker, toMain, faults>>

(* The socket to the broker breaks: what is on it is lost, every request      *)
(* waiting fails, and the broker drops this app's observers.                 *)
Break ==
    /\ EventLoopTurn /\ WorldGoesOn
    /\ faults' = [faults EXCEPT !.breaks = @ + 1]
    /\ toBroker' = <<>> /\ toMain' = <<>>
    /\ observer' = [d \in Devices |-> "none"]
    /\ LET waits == {n \in StreamIds : streams[n].setup \in {"asking", "dropping"}}
           ends == {n \in StreamIds : streams[n].dispose = "unsubscribe"} IN
       /\ streams' = [n \in StreamIds |-> [streams[n] EXCEPT
              !.setup = IF n \in waits THEN "failed" ELSE @,
              !.dispose = IF n \in ends THEN "done" ELSE @]]
       /\ current' = IF current \in ends THEN NoStream ELSE current
       /\ owner' = [d \in Devices |-> IF owner[d] \in waits \cup ends THEN NoStream ELSE owner[d]]
    /\ UNCHANGED <<up, device, task, order, marker, view, reached, produced, alive>>

(* The app gives a request up; the broker may still carry it out.            *)
TimeOut(n) ==
    /\ EventLoopTurn /\ WorldGoesOn
    /\ faults' = [faults EXCEPT !.timeouts = @ + 1]
    /\ \/ /\ streams[n].setup = "asking"
          /\ streams' = Failed(streams, n) /\ owner' = Unrouted(n)
          /\ UNCHANGED current
       \/ /\ streams[n].dispose = "unsubscribe" \/ streams[n].setup = "dropping"
          /\ Unsubscribed(n)
    /\ UNCHANGED <<up, device, task, order, marker, view, reached, observer, produced, alive,
                   toBroker, toMain>>

-----------------------------------------------------------------------------
GatewayStep ==
    \/ \E s \in Sessions : \/ Detached(s) \/ FindStream(s) \/ TakeAfterDisposal(s)
                            \/ Got(s) \/ Join(s) \/ Undone(s)
    \/ \E n \in StreamIds : SetupContinues(n) \/ DisposeContinues(n)
BrokerStep == BrokerSubscribes \/ BrokerUnsubscribes
ReadFrame == ReadEvent \/ ReadSubscribed \/ ReadUnsubscribed
Phone == \E s \in Sessions :
            Subscribe(s) \/ Unsubscribe(s) \/ Close(s) \/ Connect(s)
Fault == Break \/ \E n \in StreamIds : TimeOut(n)

Next == GatewayStep \/ BrokerStep \/ ReadFrame \/ Phone \/ Produce \/ TerminalGoes \/ Fault

Spec == Init /\ [][Next]_vars

-----------------------------------------------------------------------------
Quiet == EventLoopTurn /\ toBroker = <<>> /\ toMain = <<>> /\ \A s \in Sessions : task[s] = Idle
Watches(s, n) == marker[s] = n /\ ~Closing(n)
Uninterrupted(text) == \A i \in 1 .. Len(text) - 1 : text[i + 1] = text[i] + 1

(* Every phone shows the terminal's own output: one stretch of it, in order,  *)
(* nothing left out and nothing twice (docs/superpowers/plans/                *)
(* 2026-07-17-mobile-companion.md:134).                                      *)
SameOrderedOutput == \A s \in up : Uninterrupted(view[s])

(* The same for every phone whose stream is not being disposed of, through    *)
(* shared streams, setups, disposals, pauses, broken connections and          *)
(* requests given up.                                                       *)
MembersSeeOneStretch ==
    \A s \in up, n \in StreamIds : Watches(s, n) => Uninterrupted(view[s])

(* When everything has settled, a phone whose stream's observer is live shows *)
(* the terminal up to its last chunk: an event that came during the setup,    *)
(* or was skipped as known, was not lost.                                    *)
MembersAreUpToDate ==
    Quiet => \A s \in up, n \in StreamIds :
        Watches(s, n) /\ observer[streams[n].device] = "live" =>
            /\ reached[s] = produced
            /\ produced > 0 => view[s] # <<>>

(* However phones come, go and reconnect, the gateway has one observer at the *)
(* broker (docs/superpowers/reviews/2026-07-17-phase0-dual-review.md:78), and *)
(* none once nobody watches, unless a request was given up.                  *)
OneObserver ==
    faults.timeouts = 0 =>
        /\ Cardinality({d \in Devices : observer[d] # "none"}) <= 1
        /\ Quiet /\ (\A s \in up : marker[s] = NoStream)
              => current = NoStream /\ \A d \in Devices : observer[d] = "none"

(* What a phone shows never goes back: a text it is sent, after a marker and   *)
(* a resubscription too, ends no earlier than any it showed before.          *)
NeverBack == \A s \in up : view[s] # <<>> => view[s][Len(view[s])] = reached[s]

(* Subscriptions that wait for a setup and disposals that wait for it or for  *)
(* each other do not wait for ever: a command waits only while a microtask    *)
(* can run or a request or an answer is on its way, each of which ends.      *)
NobodyWaitsForNothing ==
    EventLoopTurn /\ toBroker = <<>> /\ toMain = <<>> =>
        /\ \A s \in Sessions : task[s] = Idle
        /\ \A n \in StreamIds : streams[n].setup \in {"ready", "failed"}
                                  /\ streams[n].dispose \in {"no", "done"}

(* A phone whose observer the broker has paused is told                       *)
(* (docs/superpowers/plans/2026-07-17-mobile-companion.md:128): once everything *)
(* has settled it does not show a text as if it were the current one.         *)
PausedPhonesAreTold ==
    Quiet => \A s \in up, n \in StreamIds :
        Watches(s, n) /\ observer[streams[n].device] = "paused" => view[s] = <<>>

=============================================================================
