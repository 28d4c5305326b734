--------------------------- MODULE TerminalControl ---------------------------
(***************************************************************************)
(* The companion's terminal control lease, for one terminal                *)
(* (electron/companion/terminalControl.cjs) and the main-owned adapter it   *)
(* drives (companionTerminalControl in electron/ipc/terminalHandler.cjs).   *)
(*                                                                         *)
(* A session is one authenticated phone connection.  Its frames are handled *)
(* strictly one after the other (bonjourTransport.cjs chains them), so it   *)
(* has at most one command in flight; commands of different sessions, the   *)
(* expiry timer and disconnects interleave at every await.                  *)
(*                                                                         *)
(* An adapter call is one or two requests on the ordered socket to the       *)
(* session broker: acquire only asks whether the terminal is "available" and *)
(* how large it is; write, resize and interrupt "list" it to revalidate it   *)
(* and then "act".  The clock is kept as the time a lease has left, so no     *)
(* clock bound is needed.                                                   *)
(***************************************************************************)
EXTENDS Integers, Sequences, FiniteSets

CONSTANTS
    Sessions,        \* phone connections
    Ttl,             \* ticks a lease lives after it is armed
    MaxLeases,       \* bound: lease ids handed out in a behaviour
    DesktopSizes,    \* sizes the desktop renderer may give the PTY
    Brokers,         \* whether list rows carry a size: TRUE new, FALSE old broker
    Reacquires,      \* TRUE: a phone may ask again for control it still has
    Restorer,        \* the caller of the geometry restores
    NoLease,
    NoSize

ASSUME TerminalControlAssumption ==
    /\ Ttl \in Nat \ {0}
    /\ MaxLeases \in Nat
    /\ DesktopSizes # {}
    /\ Brokers \subseteq BOOLEAN /\ Brokers # {}
    /\ Reacquires \in BOOLEAN
    /\ Restorer \notin Sessions
    /\ NoSize \notin DesktopSizes \cup Sessions

VARIABLES
    open,       \* sessions whose transport is up
    op,         \* the command each session has in flight
    lease,      \* this terminal's entry in the leases map
    wire,       \* requests on their way to the broker, in order
    replies,    \* broker responses main has not handled yet, in order
    alive,      \* the PTY is in the broker's inventory
    geom,       \* the PTY's size at the broker
    desk,       \* the size the desktop last asked for
    nextId,     \* the next lease id
    reportsSize,\* which broker it is: a PTY never outlives its broker
    lastLanded, \* history: lease id under which something last reached the PTY
    reacquired, \* history: a phone has asked again for control it still had
    overtaken   \* history: a restore began while an acquire awaited an earlier one

vars == <<open, op, lease, wire, replies, alive, geom, desk, nextId, reportsSize, lastLanded,
          reacquired, overtaken>>

-----------------------------------------------------------------------------
Ids == Nat \ {0}
Sizes == DesktopSizes \cup Sessions      \* a phone's own viewport is named by its session
AdapterKinds == {"input", "resize"}       \* write and interrupt take the same path
LeaseKinds == AdapterKinds \cup {"renew", "release"}
Phases == {"available", "list", "act"}

Lease == [id : Ids, holder : Sessions, left : 0 .. Ttl, original : Sizes \cup {NoSize}]
ASSUME NoLeaseAssumption == NoLease \notin Lease

Idle == [kind |-> "idle", stage |-> "none", wait |-> 0, id |-> 0, current |-> NoLease]

(* `wait` counts the restores a command still has to see settled, `current`  *)
(* is the lease an acquire read before it asked the broker.                  *)
Command == [kind : LeaseKinds \cup {"acquire", "idle"},
            stage : {"none", "expire", "restore", "list", "act", "drop"},
            wait : Nat, id : Nat, current : Lease \cup {NoLease}]

Call == [who : Sessions \cup {Restorer}, phase : Phases, id : Nat, size : Sizes \cup {NoSize}]
Reply == [who : Sessions \cup {Restorer}, phase : Phases, ok : BOOLEAN,
          id : Nat, size : Sizes \cup {NoSize}]

TypeOK ==
    /\ open \subseteq Sessions
    /\ op \in [Sessions -> Command]
    /\ lease \in Lease \cup {NoLease}
    /\ wire \in Seq(Call)
    /\ replies \in Seq(Reply)
    /\ alive \in BOOLEAN
    /\ geom \in Sizes
    /\ desk \in DesktopSizes
    /\ nextId \in Ids
    /\ reportsSize \in Brokers
    /\ lastLanded \in Nat
    /\ reacquired \in BOOLEAN /\ overtaken \in BOOLEAN

(* Restores that have been started and not settled: the `restores` map has  *)
(* an entry for the terminal exactly when there is one, and because broker  *)
(* traffic is ordered, awaiting that entry is awaiting all of them.         *)
IsRestore(call) == call.who = Restorer
Restoring ==
    Cardinality({i \in DOMAIN wire : IsRestore(wire[i])})
        + Cardinality({i \in DOMAIN replies : IsRestore(replies[i])})

Expired == lease # NoLease /\ lease.left = 0

(* A command whose awaited restores have settled continues in the same      *)
(* microtask drain, before any timer, socket or broker callback.            *)
Runnable == {s \in Sessions :
                op[s].stage \in {"expire", "restore", "drop"} /\ op[s].wait = 0}
EventLoopTurn == Runnable = {}

ListCall(who, id, size) == [who |-> who, phase |-> "list", id |-> id, size |-> size]
AvailableCall(who) == [who |-> who, phase |-> "available", id |-> 0, size |-> NoSize]

(* #drop: forget the lease and, if the desktop's size was known, start      *)
(* putting it back.  RestoresAfterDrop is what the caller then awaits.      *)
DropLease ==
    /\ lease' = NoLease
    /\ wire' = IF lease.original = NoSize THEN wire
               ELSE Append(wire, ListCall(Restorer, lease.id, lease.original))
RestoresAfterDrop == IF lease.original = NoSize THEN 0 ELSE Restoring + 1

(* #arm: a full ttl from now.                                               *)
Armed(l) == [l EXCEPT !.left = Ttl]

(* Bound: every acquire in flight could still take an id.                   *)
Acquiring == {s \in Sessions : op[s].kind = "acquire"}
LeaseIdLeft == nextId + Cardinality(Acquiring) <= MaxLeases

Init ==
    /\ open = Sessions
    /\ op = [s \in Sessions |-> Idle]
    /\ lease = NoLease
    /\ wire = <<>> /\ replies = <<>>
    /\ alive = TRUE
    /\ desk \in DesktopSizes /\ geom = desk
    /\ nextId = 1
    /\ reportsSize \in Brokers
    /\ lastLanded = 0
    /\ reacquired = FALSE /\ overtaken = FALSE

-----------------------------------------------------------------------------
Holding(s) == lease # NoLease /\ ~Expired /\ lease.holder = s

(* A phone's command reaches its handler, which first awaits                *)
(* #expireIfNeeded.  The lease id presented may be any id ever granted.      *)
Start(s, kind, id) ==
    /\ EventLoopTurn
    /\ s \in open
    /\ op[s] = Idle
    /\ IF kind = "acquire"
         THEN id = 0 /\ LeaseIdLeft /\ (Reacquires \/ ~Holding(s))
         ELSE id \in 1 .. nextId - 1
    /\ IF Expired
         THEN /\ DropLease
              /\ op' = [op EXCEPT ![s] = [kind |-> kind, stage |-> "expire",
                            wait |-> RestoresAfterDrop, id |-> id, current |-> NoLease]]
         ELSE /\ op' = [op EXCEPT ![s] = [kind |-> kind, stage |-> "expire",
                            wait |-> 0, id |-> id, current |-> NoLease]]
              /\ UNCHANGED <<lease, wire>>
    /\ reacquired' = (reacquired \/ (kind = "acquire" /\ Holding(s)))
    /\ UNCHANGED <<open, replies, alive, geom, desk, nextId, reportsSize, lastLanded, overtaken>>

(* acquire after #waitForRestore: read the current lease, refuse another    *)
(* holder, and ask the broker whether the terminal is available.  The lease  *)
(* read here is used only when the answer comes back.                        *)
ReadCurrent(s) ==
    IF lease # NoLease /\ lease.holder # s
      THEN /\ op' = [op EXCEPT ![s] = Idle]
           /\ wire' = wire
      ELSE /\ op' = [op EXCEPT ![s].stage = "list", ![s].current = lease]
           /\ wire' = Append(wire, AvailableCall(s))

(* Mutant: acquire does not wait for the geometry restore.                  *)
AcquireAtOnce(s) == ReadCurrent(s)

AwaitRestore(s) ==
    IF Restoring > 0
      THEN /\ op' = [op EXCEPT ![s].stage = "restore", ![s].wait = Restoring]
           /\ wire' = wire
      ELSE ReadCurrent(s)

(* It awaited one restore, and by now another one is under way.              *)
Overtaken(s) == op[s].stage # "expire" /\ lease = NoLease /\ Restoring > 0

ContinueAcquire(s) ==
    /\ s \in Runnable
    /\ op[s].kind = "acquire"
    /\ IF op[s].stage = "expire" THEN AwaitRestore(s) ELSE ReadCurrent(s)
    /\ overtaken' = (overtaken \/ Overtaken(s))
    /\ UNCHANGED <<open, lease, replies, alive, geom, desk, nextId, reportsSize, lastLanded, reacquired>>

(* Mutant: any lease of the holder will do, whatever id it presents.         *)
HoldsAnyLease(s, id) == lease # NoLease /\ lease.holder = s

(* #requireLease's check, after its own await of #expireIfNeeded.           *)
HoldsLease(s, id) == lease # NoLease /\ lease.id = id /\ lease.holder = s

RefuseStale(s) ==
    /\ s \in Runnable
    /\ op[s].kind \in LeaseKinds /\ op[s].stage = "expire"
    /\ ~HoldsLease(s, op[s].id)
    /\ op' = [op EXCEPT ![s] = Idle]
    /\ UNCHANGED <<open, lease, wire, replies, alive, geom, desk, nextId, reportsSize, lastLanded, reacquired, overtaken>>

Renew(s) ==
    /\ s \in Runnable
    /\ op[s].kind = "renew"
    /\ HoldsLease(s, op[s].id)
    /\ lease' = Armed(lease)
    /\ op' = [op EXCEPT ![s] = Idle]
    /\ UNCHANGED <<open, wire, replies, alive, geom, desk, nextId, reportsSize, lastLanded, reacquired, overtaken>>

(* write, resize and interrupt hand over to the adapter; a resize is        *)
(* refused while the desktop's size is unknown.                             *)
CallAdapter(s) ==
    /\ s \in Runnable
    /\ op[s].kind \in AdapterKinds
    /\ HoldsLease(s, op[s].id)
    /\ IF op[s].kind = "resize" /\ lease.original = NoSize
         THEN /\ op' = [op EXCEPT ![s] = Idle]
              /\ wire' = wire
         ELSE /\ op' = [op EXCEPT ![s].stage = "list"]
              /\ wire' = Append(wire, ListCall(s, op[s].id, IF op[s].kind = "resize" THEN s ELSE NoSize))
    /\ UNCHANGED <<open, lease, replies, alive, geom, desk, nextId, reportsSize, lastLanded, reacquired, overtaken>>

Release(s) ==
    /\ s \in Runnable
    /\ op[s].kind = "release" /\ op[s].stage = "expire"
    /\ HoldsLease(s, op[s].id)
    /\ DropLease
    /\ op' = [op EXCEPT ![s].stage = "drop", ![s].wait = RestoresAfterDrop]
    /\ UNCHANGED <<open, replies, alive, geom, desk, nextId, reportsSize, lastLanded, reacquired, overtaken>>

Released(s) ==
    /\ s \in Runnable
    /\ op[s].stage = "drop"
    /\ op' = [op EXCEPT ![s] = Idle]
    /\ UNCHANGED <<open, lease, wire, replies, alive, geom, desk, nextId, reportsSize, lastLanded, reacquired, overtaken>>

-----------------------------------------------------------------------------
(* The broker takes one request.  It answers the first two from its          *)
(* inventory; act writes to or resizes the PTY.                              *)
ServeAvailable ==
    /\ wire # <<>> /\ Head(wire).phase = "available"
    /\ replies' = Append(replies, [who |-> Head(wire).who, phase |-> "available", ok |-> alive,
                                   id |-> 0, size |-> IF reportsSize THEN geom ELSE NoSize])
    /\ wire' = Tail(wire)
    /\ UNCHANGED <<open, op, lease, alive, geom, desk, nextId, reportsSize, lastLanded, reacquired, overtaken>>

ServeList ==
    /\ wire # <<>> /\ Head(wire).phase = "list"
    /\ LET call == Head(wire)
       IN replies' = Append(replies, [who |-> call.who, phase |-> "list", ok |-> alive,
                                      id |-> call.id, size |-> call.size])
    /\ wire' = Tail(wire)
    /\ UNCHANGED <<open, op, lease, alive, geom, desk, nextId, reportsSize, lastLanded, reacquired, overtaken>>

ServeAct ==
    /\ wire # <<>> /\ Head(wire).phase = "act"
    /\ LET call == Head(wire)
       IN /\ replies' = Append(replies, [who |-> call.who, phase |-> "act", ok |-> alive,
                                         id |-> call.id, size |-> call.size])
          /\ geom' = IF alive /\ call.size # NoSize THEN call.size ELSE geom
          /\ lastLanded' = IF alive THEN call.id ELSE lastLanded
    /\ wire' = Tail(wire)
    /\ UNCHANGED <<open, op, lease, alive, desk, nextId, reportsSize, reacquired, overtaken>>

(* Main handles a response: the adapter goes on from list to act.           *)
AdapterActs ==
    /\ EventLoopTurn
    /\ replies # <<>>
    /\ LET reply == Head(replies)
       IN /\ reply.phase = "list" /\ reply.ok
          /\ wire' = Append(wire, [who |-> reply.who, phase |-> "act",
                                   id |-> reply.id, size |-> reply.size])
          /\ op' = IF reply.who = Restorer THEN op ELSE [op EXCEPT ![reply.who].stage = "act"]
    /\ replies' = Tail(replies)
    /\ UNCHANGED <<open, lease, alive, geom, desk, nextId, reportsSize, lastLanded, reacquired, overtaken>>

(* The terminal is available: install the lease read before the await, or   *)
(* a new one, armed, whatever the leases map holds by now.                  *)
Grant(s, current, original) ==
    IF current # NoLease
      THEN /\ lease' = Armed(current)
           /\ nextId' = nextId
      ELSE /\ lease' = [id |-> nextId, holder |-> s, left |-> Ttl, original |-> original]
           /\ nextId' = nextId + 1

AcquireGranted ==
    /\ EventLoopTurn
    /\ replies # <<>>
    /\ LET reply == Head(replies)
       IN /\ reply.who # Restorer
          /\ reply.phase = "available" /\ reply.ok
          /\ Grant(reply.who, op[reply.who].current, reply.size)
          /\ op' = [op EXCEPT ![reply.who] = Idle]
    /\ replies' = Tail(replies)
    /\ UNCHANGED <<open, wire, alive, geom, desk, reportsSize, lastLanded, reacquired, overtaken>>

(* A session's adapter call ends: acted, or the terminal was not there.     *)
CallEnds ==
    /\ EventLoopTurn
    /\ replies # <<>>
    /\ LET reply == Head(replies)
       IN /\ reply.who # Restorer
          /\ reply.phase = "act" \/ ~reply.ok
          /\ op' = [op EXCEPT ![reply.who] = Idle]
    /\ replies' = Tail(replies)
    /\ UNCHANGED <<open, lease, wire, alive, geom, desk, nextId, reportsSize, lastLanded, reacquired, overtaken>>

(* Mutant: a restore the broker refuses never settles.                       *)
RestoreSettlesIfApplied ==
    /\ EventLoopTurn
    /\ replies # <<>>
    /\ LET reply == Head(replies)
       IN /\ reply.who = Restorer /\ (reply.phase = "act" \/ ~reply.ok)
          /\ op' = [s \in Sessions |->
                IF reply.ok /\ op[s].wait > 0 THEN [op[s] EXCEPT !.wait = op[s].wait - 1] ELSE op[s]]
    /\ replies' = Tail(replies)
    /\ UNCHANGED <<open, lease, wire, alive, geom, desk, nextId, reportsSize, lastLanded, reacquired, overtaken>>

(* A restore settles, whether or not it reached the PTY.                    *)
RestoreSettles ==
    /\ EventLoopTurn
    /\ replies # <<>>
    /\ LET reply == Head(replies)
       IN reply.who = Restorer /\ (reply.phase = "act" \/ ~reply.ok)
    /\ op' = [s \in Sessions |->
                IF op[s].wait > 0 THEN [op[s] EXCEPT !.wait = op[s].wait - 1] ELSE op[s]]
    /\ replies' = Tail(replies)
    /\ UNCHANGED <<open, lease, wire, alive, geom, desk, nextId, reportsSize, lastLanded, reacquired, overtaken>>

-----------------------------------------------------------------------------
(* Mutant: the timer looks only after leases of connected phones.            *)
ExpireConnected ==
    /\ EventLoopTurn
    /\ Expired
    /\ lease.holder \in open
    /\ DropLease
    /\ UNCHANGED <<open, op, replies, alive, geom, desk, nextId, reportsSize, lastLanded, reacquired, overtaken>>

(* The lease's timer, or a stats() sweep, after the ttl has passed.         *)
Expire ==
    /\ EventLoopTurn
    /\ Expired
    /\ DropLease
    /\ UNCHANGED <<open, op, replies, alive, geom, desk, nextId, reportsSize, lastLanded, reacquired, overtaken>>

(* Mutant: the clock runs on past the expiry.                                *)
TickPast ==
    /\ lease # NoLease
    /\ lease' = [lease EXCEPT !.left = lease.left - 1]
    /\ UNCHANGED <<open, op, wire, replies, alive, geom, desk, nextId, reportsSize, lastLanded, reacquired, overtaken>>

Tick ==
    /\ lease # NoLease /\ lease.left > 0
    /\ lease' = [lease EXCEPT !.left = lease.left - 1]
    /\ UNCHANGED <<open, op, wire, replies, alive, geom, desk, nextId, reportsSize, lastLanded, reacquired, overtaken>>

(* A session's transport closes: releaseSession drops its lease at once.    *)
(* A command it has in flight is not cancelled.                             *)
Close(s) ==
    /\ EventLoopTurn
    /\ s \in open
    /\ open' = open \ {s}
    /\ IF lease # NoLease /\ lease.holder = s
         THEN DropLease
         ELSE UNCHANGED <<lease, wire>>
    /\ UNCHANGED <<op, replies, alive, geom, desk, nextId, reportsSize, lastLanded, reacquired, overtaken>>

(* The gateway is disposed: every session closes and every lease is dropped.*)
Dispose ==
    /\ EventLoopTurn
    /\ open # {}
    /\ open' = {}
    /\ IF lease # NoLease THEN DropLease ELSE UNCHANGED <<lease, wire>>
    /\ UNCHANGED <<op, replies, alive, geom, desk, nextId, reportsSize, lastLanded, reacquired, overtaken>>

(* The desktop renderer is never gated by a lease.                          *)
DesktopResize(size) ==
    /\ alive
    /\ desk' = size /\ geom' = size
    /\ UNCHANGED <<open, op, lease, wire, replies, alive, nextId, reportsSize, lastLanded, reacquired, overtaken>>

PtyExits ==
    /\ alive
    /\ alive' = FALSE
    /\ UNCHANGED <<open, op, lease, wire, replies, geom, desk, nextId, reportsSize, lastLanded, reacquired, overtaken>>

Handler(s) ==
    \/ ContinueAcquire(s) \/ RefuseStale(s) \/ Renew(s)
    \/ CallAdapter(s) \/ Release(s) \/ Released(s)

Broker == ServeAvailable \/ ServeList \/ ServeAct
Main == AdapterActs \/ AcquireGranted \/ CallEnds \/ RestoreSettles

Next ==
    \/ \E s \in Sessions, kind \in LeaseKinds \cup {"acquire"}, id \in 0 .. MaxLeases :
          Start(s, kind, id)
    \/ \E s \in Sessions : Handler(s) \/ Close(s)
    \/ Broker \/ Main
    \/ Expire \/ Tick \/ Dispose \/ PtyExits
    \/ \E size \in DesktopSizes : DesktopResize(size)

Spec == Init /\ [][Next]_vars

(* The broker answers and time passes; the event loop gets round to every    *)
(* response and timer although command continuations keep pre-empting them   *)
(* (strong fairness: a queued callback waits for the microtasks to drain).   *)
FairSpec ==
    /\ Spec
    /\ \A s \in Sessions : WF_vars(Handler(s))
    /\ WF_vars(Broker) /\ WF_vars(Tick)
    /\ SF_vars(Main) /\ SF_vars(Expire)

-----------------------------------------------------------------------------
(* Input, resizes and restores reach the PTY in the order their leases were *)
(* granted: a command that passed its lease check and then waited on the     *)
(* broker never lands behind one of a later lease.  (Unless a phone has asked *)
(* again for control it had: that can bring an earlier lease back.)          *)
LandsInLeaseOrder == [][~reacquired' => lastLanded' >= lastLanded]_vars

(* With no lease and nothing on its way, the PTY has the desktop's size      *)
(* again, whichever of release, expiry, disconnect and dispose ended the     *)
(* leases and however acquires overlapped the restores.  A phone may only     *)
(* change a size that is known well enough to be put back.  (Unless a phone   *)
(* asked again for control it had, or awaited one restore when two were due:  *)
(* it is then told a size that the second has yet to put back.)              *)
DesktopSizeRestored ==
    ~reacquired /\ ~overtaken /\ alive /\ lease = NoLease /\ wire = <<>> /\ replies = <<>>
        => geom = desk

(* Every command gets an answer, even one that awaits a restore the broker   *)
(* refuses.                                                                  *)
CommandAnswered == \A s \in Sessions : (op[s] # Idle) ~> (op[s] = Idle)

(* A lease granted to a session that has disconnected does not lock the      *)
(* other phones out for ever.                                                *)
OrphanLeaseEnds ==
    \A s \in Sessions :
        (lease # NoLease /\ lease.holder = s /\ s \notin open)
            ~> (lease = NoLease \/ lease.holder # s)

(* "Acquisition is granted only when no unexpired lease exists": one lease   *)
(* takes another's place only once that one has expired.                     *)
AcquireOnlyWhenFree ==
    [][lease # NoLease /\ lease' # NoLease /\ lease'.id # lease.id => lease.left = 0]_vars
=============================================================================
