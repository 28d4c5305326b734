------------------------------- MODULE EventLog -------------------------------
(***************************************************************************)
(* The companion's bounded replay log (electron/companion/eventLog.cjs): a   *)
(* numbered sequence of events of which the most recent are retained, a      *)
(* boundary below which a client needs a snapshot, and what each client has  *)
(* acknowledged.  One epoch: a new log is a new epoch.                       *)
(***************************************************************************)
EXTENDS Selection

CONSTANTS
    Bodies,     \* what an event says
    Clients,    \* devices that acknowledge
    MaxEvents,  \* events retained
    MaxBytes,   \* bytes retained
    MaxSeq      \* bound: events numbered in a behaviour

ASSUME EventLogAssumption ==
    /\ MaxEvents \in Nat \ {0}
    /\ MaxBytes \in Nat \ {0}
    /\ MaxSeq \in Nat

VARIABLES
    currentSeq,      \* number of the last event
    droppedThrough,  \* last number that can no longer be replayed
    events,          \* retained events, oldest first
    acknowledgements \* last number each client acknowledged, 0 for none

logVars == <<currentSeq, droppedThrough, events, acknowledgements>>

Event == [seq : 1 .. MaxSeq, body : Bodies, bytes : 1 .. MaxBytes]

(* Everything is typed, and no acknowledgement is ahead of the log.         *)
LogTypeOK ==
    /\ currentSeq \in 0 .. MaxSeq
    /\ droppedThrough \in 0 .. currentSeq
    /\ events \in Seq(Event)
    /\ acknowledgements \in [Clients -> 0 .. currentSeq]

-----------------------------------------------------------------------------
Bytes(log) ==
    LET upTo[i \in 0 .. Len(log)] == IF i = 0 THEN 0 ELSE upTo[i - 1] + log[i].bytes
    IN upTo[Len(log)]

From(log, k) == SubSeq(log, k + 1, Len(log))

(* Mutant: only the number of events is limited.                            *)
FitsCount(log) == Len(log) <= MaxEvents

Fits(log) == Len(log) <= MaxEvents /\ Bytes(log) <= MaxBytes

(* #trimToLimits shifts the fewest events that leave a log within limits.   *)
Shifted(log) ==
    LET enough == {k \in 0 .. Len(log) : Fits(From(log, k))}
    IN CHOOSE k \in enough : \A j \in enough : k <= j

LogMax(a, b) == IF a >= b THEN a ELSE b

LogInit ==
    /\ currentSeq = 0
    /\ droppedThrough = 0
    /\ events = <<>>
    /\ acknowledgements = [c \in Clients |-> 0]

(* append; an event over the byte limit is refused before it is numbered.   *)
Record(body, bytes) ==
    /\ bytes <= MaxBytes
    /\ currentSeq < MaxSeq
    /\ currentSeq' = currentSeq + 1
    /\ LET log == Append(events, [seq |-> currentSeq + 1, body |-> body, bytes |-> bytes])
           k == Shifted(log)
       IN /\ events' = From(log, k)
          /\ droppedThrough' = IF k = 0 THEN droppedThrough
                               ELSE LogMax(droppedThrough, log[k].seq)
    /\ UNCHANGED acknowledgements

(* Mutant: the boundary does not move with the numbers.                     *)
InvalidateOnly ==
    /\ currentSeq < MaxSeq
    /\ currentSeq' = currentSeq + 1
    /\ events' = <<>>
    /\ UNCHANGED <<droppedThrough, acknowledgements>>

(* invalidate: a number is used up and nothing before it can be replayed.   *)
Invalidate ==
    /\ currentSeq < MaxSeq
    /\ currentSeq' = currentSeq + 1
    /\ droppedThrough' = currentSeq + 1
    /\ events' = <<>>
    /\ UNCHANGED acknowledgements

(* replay: whether a cursor of this epoch can be served, and with what.     *)
Replayable(afterSeq) == droppedThrough <= afterSeq /\ afterSeq <= currentSeq
ReplayFrom(afterSeq) == Selected(events, {i \in DOMAIN events : events[i].seq > afterSeq})

Acknowledge(client, seq) ==
    /\ seq <= currentSeq
    /\ acknowledgements' = [acknowledgements EXCEPT ![client] = LogMax(@, seq)]
    /\ UNCHANGED <<currentSeq, droppedThrough, events>>

DropClient(client) ==
    /\ acknowledgements' = [acknowledgements EXCEPT ![client] = 0]
    /\ UNCHANGED <<currentSeq, droppedThrough, events>>

LogNext ==
    \/ \E body \in Bodies, bytes \in 1 .. MaxBytes + 1 : Record(body, bytes)
    \/ Invalidate
    \/ \E client \in Clients : DropClient(client) \/ \E seq \in 0 .. MaxSeq : Acknowledge(client, seq)

LogSpec == LogInit /\ [][LogNext]_logVars

-----------------------------------------------------------------------------
(* A replay misses nothing: for every cursor the log agrees to replay from,   *)
(* each later number is still there, once and in its place, however trims    *)
(* and invalidations alternated with the appends.                            *)
ReplayGapFree ==
    \A afterSeq \in 0 .. currentSeq : Replayable(afterSeq) =>
        \A seq \in afterSeq + 1 .. currentSeq :
            \E i \in 1 .. Len(events) :
                /\ events[i].seq = seq
                /\ \A j \in 1 .. Len(events) : events[j].seq = seq => j = i

(* The retained log stays within both limits.                               *)
RetentionBounded == Len(events) <= MaxEvents /\ Bytes(events) <= MaxBytes
=============================================================================
