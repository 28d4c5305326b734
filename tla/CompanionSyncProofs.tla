-------------------------- MODULE CompanionSyncProofs --------------------------
(***************************************************************************)
(* That the replay log is contiguous, for every retention limit (LogInv), and *)
(* that the phone that reads it implements ReplicaView and is never refused,  *)
(* for any items, retention, queue, epochs and breaks (SyncInv).             *)
(***************************************************************************)
EXTENDS CompanionSync, SelectionProofs

-----------------------------------------------------------------------------
(* The log by itself.                                                       *)

(* The retained events are numbered from droppedThrough + 1 to currentSeq.   *)
Contiguous ==
    /\ currentSeq = droppedThrough + Len(events)
    /\ \A i \in 1 .. Len(events) : events[i].seq = droppedThrough + i

LogInv ==
    /\ LogTypeOK
    /\ Contiguous
    /\ RetentionBounded

-----------------------------------------------------------------------------
(* An empty log has no bytes.                                               *)
LEMMA EmptyBytes == ASSUME NEW log, Len(log) = 0 PROVE Bytes(log) = 0
<1> DEFINE Step(upTo) == [i \in 0 .. 0 |-> IF i = 0 THEN 0 ELSE upTo[i - 1] + log[i].bytes]
           zero == [i \in 0 .. 0 |-> 0]
<1>1. \A upTo : Step(upTo) = zero
  OBVIOUS
<1>2. Bytes(log) = (CHOOSE upTo : upTo = Step(upTo))[0]
  BY DEF Bytes
<1>3. (CHOOSE upTo : upTo = Step(upTo)) = zero
  BY <1>1
<1>4. QED
  BY <1>2, <1>3

(* What is left of a log after shifting k events.                            *)
LEMMA FromProperties ==
    ASSUME NEW S, NEW log \in Seq(S), NEW k \in 0 .. Len(log)
    PROVE  /\ From(log, k) \in Seq(S)
           /\ Len(From(log, k)) = Len(log) - k
           /\ \A i \in 1 .. Len(log) - k : From(log, k)[i] = log[k + i]
<1>1. Len(log) \in Nat /\ \A i \in 1 .. Len(log) : log[i] \in S
  BY LenProperties, ElementOfSeq
<1>2. k + 1 \in Int /\ Len(log) \in Int /\ \A i \in k + 1 .. Len(log) : log[i] \in S
  BY <1>1
<1> DEFINE rest == SubSeq(log, k + 1, Len(log))
<1>3. /\ rest \in Seq(S)
      /\ Len(rest) = IF k + 1 <= Len(log) THEN Len(log) - (k + 1) + 1 ELSE 0
      /\ \A i \in 1 .. Len(log) - (k + 1) + 1 : rest[i] = log[(k + 1) + i - 1]
  <2> HIDE DEF rest
  <2>1. \A m, n \in Int : (\A i \in m .. n : log[i] \in S) =>
            /\ SubSeq(log, m, n) \in Seq(S)
            /\ Len(SubSeq(log, m, n)) = IF m <= n THEN n - m + 1 ELSE 0
            /\ \A i \in 1 .. n - m + 1 : SubSeq(log, m, n)[i] = log[m + i - 1]
    BY SubSeqProperties
  <2>2. QED
    BY <1>2, <2>1 DEF rest
<1> HIDE DEF rest
<1>4. Len(rest) = Len(log) - k
  BY <1>1, <1>3
<1>5. \A i \in 1 .. Len(log) - k : rest[i] = log[k + i]
  BY <1>1, <1>3
<1>6. QED
  BY <1>3, <1>4, <1>5 DEF rest, From

(* Trimming shifts a number of events the log has, and leaves a log that     *)
(* fits.                                                                    *)
LEMMA ShiftedFits ==
    ASSUME NEW S, NEW log \in Seq(S)
    PROVE  Shifted(log) \in 0 .. Len(log) /\ Fits(From(log, Shifted(log)))
<1> DEFINE enough == {k \in 0 .. Len(log) : Fits(From(log, k))}
<1>1. Len(log) \in Nat
  BY LenProperties
<1>2. Len(From(log, Len(log))) = 0
  BY <1>1, SubSeqEmpty, EmptySeq DEF From
<1>3. Bytes(From(log, Len(log))) = 0
  BY <1>2, EmptyBytes
<1>4. Len(log) \in enough
  BY <1>1, <1>2, <1>3, EventLogAssumption DEF Fits
<1>5. enough \subseteq Nat
  BY <1>1
<1>6. \E k \in enough : \A j \in enough : k <= j
  BY <1>4, <1>5, LeastNatural
<1>7. Shifted(log) \in enough
  BY <1>6 DEF Shifted
<1>8. QED
  BY <1>7

-----------------------------------------------------------------------------
LEMMA InitLogInv == LogInit => LogInv
<1> SUFFICES ASSUME LogInit PROVE LogInv
  OBVIOUS
<1>1. LogTypeOK
  BY EventLogAssumption, EmptySeq DEF LogInit, LogTypeOK
<1>2. Contiguous
  BY EmptySeq DEF LogInit, Contiguous
<1>3. RetentionBounded
  BY EmptySeq, EmptyBytes, EventLogAssumption DEF LogInit, RetentionBounded
<1>4. QED
  BY <1>1, <1>2, <1>3 DEF LogInv

(* An append moves the boundary by as many numbers as it shifts events.      *)
LEMMA RecordLogInv ==
    ASSUME LogInv, NEW body \in Bodies, NEW bytes \in 1 .. MaxBytes + 1, Record(body, bytes)
    PROVE  LogInv'
<1> DEFINE event == [seq |-> currentSeq + 1, body |-> body, bytes |-> bytes]
           log == Append(events, event)
           k == Shifted(log)
<1>1. /\ currentSeq \in 0 .. MaxSeq
      /\ droppedThrough \in 0 .. currentSeq
      /\ events \in Seq(Event)
      /\ Len(events) \in Nat
      /\ currentSeq = droppedThrough + Len(events)
      /\ \A i \in 1 .. Len(events) : events[i].seq = droppedThrough + i
  BY LenProperties DEF LogInv, LogTypeOK, Contiguous
<1>2. /\ currentSeq' = currentSeq + 1 /\ currentSeq < MaxSeq /\ bytes <= MaxBytes
      /\ events' = From(log, k)
      /\ droppedThrough' = IF k = 0 THEN droppedThrough ELSE LogMax(droppedThrough, log[k].seq)
      /\ acknowledgements' = acknowledgements
  BY DEF Record
<1>3. event \in Event
  BY <1>1, <1>2, EventLogAssumption DEF Event
<1>4. /\ log \in Seq(Event)
      /\ Len(log) = Len(events) + 1
      /\ \A i \in 1 .. Len(log) : log[i].seq = droppedThrough + i
  BY <1>1, <1>3
<1>5. k \in 0 .. Len(log) /\ Fits(From(log, k))
  BY <1>4, ShiftedFits
<1> HIDE DEF event, log, k
<1>7. /\ events' \in Seq(Event)
      /\ Len(events') = Len(log) - k
      /\ \A i \in 1 .. Len(log) - k : events'[i] = log[k + i]
  BY <1>2, <1>4, <1>5, FromProperties
<1>8. droppedThrough' = droppedThrough + k
  <2>1. CASE k = 0
    BY <2>1, <1>1, <1>2
  <2>2. CASE k # 0
    <3>1. log[k].seq = droppedThrough + k
      BY <2>2, <1>4, <1>5
    <3>2. QED
      BY <2>2, <3>1, <1>1, <1>2, <1>5 DEF LogMax
  <2>3. QED
    BY <2>1, <2>2
<1>9. Contiguous'
  <2>1. currentSeq' = droppedThrough' + Len(events')
    BY <1>1, <1>2, <1>4, <1>5, <1>7, <1>8
  <2>2. ASSUME NEW i \in 1 .. Len(events')
        PROVE  events'[i].seq = droppedThrough' + i
    <3>1. i \in 1 .. Len(log) - k /\ k + i \in 1 .. Len(log)
      BY <1>1, <1>4, <1>5, <1>7
    <3>2. log[k + i].seq = droppedThrough + (k + i)
      BY <1>4, <3>1
    <3>3. droppedThrough' + i = droppedThrough + (k + i)
      BY <1>1, <1>4, <1>5, <1>8, <3>1
    <3>4. QED
      BY <1>7, <3>1, <3>2, <3>3
  <2>3. QED
    BY <2>1, <2>2 DEF Contiguous
<1>10. LogTypeOK'
  <2>1. currentSeq' \in 0 .. MaxSeq /\ droppedThrough' \in 0 .. currentSeq'
    BY <1>1, <1>2, <1>4, <1>5, <1>8, EventLogAssumption
  <2>2. acknowledgements' \in [Clients -> 0 .. currentSeq']
    BY <1>1, <1>2 DEF LogInv, LogTypeOK
  <2>3. QED
    BY <1>7, <2>1, <2>2 DEF LogTypeOK
<1>11. RetentionBounded'
  BY <1>2, <1>5 DEF RetentionBounded, Fits
<1>12. QED
  BY <1>9, <1>10, <1>11 DEF LogInv

LEMMA InvalidateLogInv == ASSUME LogInv, Invalidate PROVE LogInv'
<1>1. LogTypeOK'
  BY EventLogAssumption, EmptySeq DEF LogInv, LogTypeOK, Invalidate
<1>2. Contiguous'
  BY EmptySeq DEF LogInv, LogTypeOK, Contiguous, Invalidate
<1>3. RetentionBounded'
  BY EmptySeq, EmptyBytes, EventLogAssumption DEF Invalidate, RetentionBounded
<1>4. QED
  BY <1>1, <1>2, <1>3 DEF LogInv

(* Acknowledgements leave the log alone and stay behind it.                  *)
LEMMA AcknowledgeLogInv ==
    ASSUME LogInv, NEW client \in Clients, NEW seq \in 0 .. MaxSeq,
           DropClient(client) \/ Acknowledge(client, seq)
    PROVE  LogInv'
<1>1. UNCHANGED <<currentSeq, droppedThrough, events>>
  BY DEF DropClient, Acknowledge
<1>2. acknowledgements' \in [Clients -> 0 .. currentSeq]
  <2>1. CASE DropClient(client)
    BY <2>1 DEF DropClient, LogInv, LogTypeOK
  <2>2. CASE Acknowledge(client, seq)
    BY <2>2 DEF Acknowledge, LogInv, LogTypeOK, LogMax
  <2>3. QED
    BY <2>1, <2>2
<1>3. LogTypeOK' /\ Contiguous' /\ RetentionBounded'
  BY <1>1, <1>2 DEF LogInv, LogTypeOK, Contiguous, RetentionBounded
<1>4. QED
  BY <1>3 DEF LogInv

(* Every step of the log preserves its invariant.                           *)
LEMMA NextLogInv == LogInv /\ [LogNext]_logVars => LogInv'
<1> SUFFICES ASSUME LogInv, [LogNext]_logVars PROVE LogInv'
  OBVIOUS
<1>1. ASSUME NEW body \in Bodies, NEW bytes \in 1 .. MaxBytes + 1, Record(body, bytes)
      PROVE  LogInv'
  BY <1>1, RecordLogInv
<1>2. CASE Invalidate
  BY <1>2, InvalidateLogInv
<1>3. ASSUME NEW client \in Clients, DropClient(client)
      PROVE  LogInv'
  <2>1. 0 \in 0 .. MaxSeq
    BY EventLogAssumption
  <2>2. QED
    BY <1>3, <2>1, AcknowledgeLogInv
<1>4. ASSUME NEW client \in Clients, NEW seq \in 0 .. MaxSeq, Acknowledge(client, seq)
      PROVE  LogInv'
  BY <1>4, AcknowledgeLogInv
<1>5. CASE UNCHANGED logVars
  BY <1>5 DEF logVars, LogInv, LogTypeOK, Contiguous, RetentionBounded
<1>6. QED
  BY <1>1, <1>2, <1>3, <1>4, <1>5 DEF LogNext

-----------------------------------------------------------------------------
(* The log is typed, contiguous and within its limits in every state.        *)
THEOREM LogInvariant == LogSpec => []LogInv
<1>1. LogInit => LogInv
  BY InitLogInv
<1>2. LogInv /\ [LogNext]_logVars => LogInv'
  BY NextLogInv
<1>3. QED
  BY <1>1, <1>2, PTL DEF LogSpec

(* Type correctness: in particular no client's acknowledgement is ever ahead  *)
(* of the log.                                                              *)
THEOREM TypeCorrect == LogSpec => []LogTypeOK
<1>1. LogInv => LogTypeOK
  BY DEF LogInv
<1>2. QED
  BY <1>1, LogInvariant, PTL

(* Whatever cursor the log agrees to replay from, the replay misses nothing   *)
(* and repeats nothing.                                                     *)
THEOREM ReplayIsGapFree == LogSpec => []ReplayGapFree
<1>1. LogInv => ReplayGapFree
  <2> SUFFICES ASSUME LogInv, NEW afterSeq \in 0 .. currentSeq, Replayable(afterSeq),
                      NEW seq \in afterSeq + 1 .. currentSeq
               PROVE  \E i \in 1 .. Len(events) :
                          /\ events[i].seq = seq
                          /\ \A j \in 1 .. Len(events) : events[j].seq = seq => j = i
    BY DEF ReplayGapFree
  <2>1. /\ droppedThrough \in Nat /\ currentSeq \in Nat /\ Len(events) \in Nat
        /\ droppedThrough <= afterSeq
    BY LenProperties DEF LogInv, LogTypeOK, Replayable
  <2>2. seq - droppedThrough \in 1 .. Len(events)
    BY <2>1 DEF LogInv, Contiguous
  <2>3. \A j \in 1 .. Len(events) : events[j].seq = droppedThrough + j
    BY DEF LogInv, Contiguous
  <2>4. events[seq - droppedThrough].seq = seq
    BY <2>1, <2>2, <2>3
  <2>5. \A j \in 1 .. Len(events) : events[j].seq = seq => j = seq - droppedThrough
    BY <2>1, <2>3
  <2>6. QED
    BY <2>2, <2>4, <2>5
<1>2. QED
  BY <1>1, LogInvariant, PTL

(* The log keeps within its event and byte limits, whatever the events weigh. *)
THEOREM RetentionIsBounded == LogSpec => []RetentionBounded
<1>1. LogInv => RetentionBounded
  BY DEF LogInv
<1>2. QED
  BY <1>1, LogInvariant, PTL

-----------------------------------------------------------------------------
(* The phone that reads the log.                                            *)

(* The last place in the history an epoch reached is before this one.        *)
End(e) == IF e < epoch THEN base[e + 1] ELSE Len(history) + 1

(* A cursor, or a frame, names a place its epoch reached.                    *)
Reached(c) == c.epoch \in 1 .. epoch /\ base[c.epoch] + c.seq < End(c.epoch)
At(c) == base[c.epoch] + c.seq

(* The history is that of the current state, one more for every number; the   *)
(* epochs follow each other in it.                                          *)
HistoryOK ==
    /\ history \in Seq(States) /\ base \in Seq(Nat \ {0}) /\ Len(base) = epoch
    /\ \A d, e \in 1 .. epoch : d < e => base[d] < base[e]
    /\ Len(history) = base[epoch] + currentSeq
    /\ state = history[Len(history)]
    /\ \A i \in Items : state[i] <= MaxSeq * (epoch - 1) + currentSeq

(* Moving from one state to the next, only the item of the event changes.     *)
Changes(before, after, item) ==
    IF item = Private THEN after = before ELSE after = [before EXCEPT ![item] = after[item]]

(* A retained event says what changed when its number was used up.           *)
EventsOK == \A i \in 1 .. Len(events) :
    LET n == base[epoch] + events[i].seq
    IN Changes(history[n - 1], history[n], events[i].body)

(* The phone shows the state its cursor names; the client's cursor is older.  *)
PhoneOK ==
    /\ cursor # NoCursor => Reached(cursor)
    /\ replica = IF cursor = NoCursor THEN Blank ELSE history[View]
    /\ ackCursor # NoCursor => cursor # NoCursor /\ Reached(ackCursor) /\ At(ackCursor) <= View

(* The ends of a connection agree on whether it is there, and everything the  *)
(* phone sent on it names a place of this epoch.                             *)
SessionOK ==
    /\ socket = "open" <=> session # "none"
    /\ socket = "down" => down = <<>>
    /\ session = "attached" =>
          /\ down = <<>> /\ Len(up) = 1 /\ up[1].kind = "hello"
          /\ \/ up[1].cursor = NoCursor
             \/ cursor # NoCursor /\ Reached(up[1].cursor) /\ At(up[1].cursor) <= View
    /\ session = "connected" => \A i \in 1 .. Len(up) :
          up[i].kind = "ack" /\ up[i].cursor.epoch = epoch /\ up[i].cursor.seq <= currentSeq

Says(frame) == frame.kind # "hello"

(* Frames of one epoch that say what the desktop was like at places it         *)
(* reached, in the order of these places; a snapshot is never older than what  *)
(* the phone shows.                                                         *)
InOrder(frames) ==
    /\ \A i \in 1 .. Len(frames) :
          Says(frames[i]) => Reached(frames[i]) /\ frames[i].state = history[At(frames[i])]
    /\ \A i, j \in 1 .. Len(frames) :
          Says(frames[i]) /\ Says(frames[j]) => frames[i].epoch = frames[j].epoch
    /\ \A i, j \in 1 .. Len(frames) :
          i < j /\ Says(frames[i]) /\ Says(frames[j]) => At(frames[i]) <= At(frames[j])
    /\ \A i \in 1 .. Len(frames) : frames[i].kind = "snapshot" => View <= At(frames[i])
    /\ \A i \in 1 .. Len(frames) : frames[i].kind = "event" => frames[i].item \in Items

(* When the phone gets to place i of these frames, it may show the state at n; *)
(* and it is in the epoch e.                                                *)
Ahead(frames, i, n) == View <= n /\ \A j \in 1 .. i - 1 : Says(frames[j]) => At(frames[j]) <= n
Known(frames, i, e) ==
    \/ cursor # NoCursor /\ cursor.epoch = e
    \/ \E j \in 1 .. i - 1 : frames[j].kind = "snapshot" /\ frames[j].epoch = e

(* An event leads from whatever the phone shows before it to the state at its *)
(* place: all that was filtered out between them changed nothing.            *)
NoGaps(frames) == \A i \in 1 .. Len(frames) : frames[i].kind = "event" =>
    /\ Known(frames, i, frames[i].epoch)
    /\ \A n \in 1 .. Len(history) : Ahead(frames, i, n) /\ n < At(frames[i]) =>
          Changes(history[n], history[At(frames[i])], frames[i].item)

FramesOK ==
    /\ InOrder(down) /\ NoGaps(down)
    /\ session # "none" => \A i \in 1 .. Len(down) : Says(down[i]) => down[i].epoch = epoch

(* Who has read all these frames shows what the desktop was like at `upTo`.    *)
CaughtUp(frames, upTo) ==
    /\ Known(frames, Len(frames) + 1, epoch)
    /\ Ahead(frames, Len(frames) + 1, upTo)
    /\ \A n \in 1 .. upTo : Ahead(frames, Len(frames) + 1, n) => history[n] = history[upTo]

StreamOK == session = "connected" => CaughtUp(down, base[epoch] + lastSentSeq)

SyncInv ==
    /\ TypeOK /\ LogInv /\ HistoryOK /\ EventsOK
    /\ PhoneOK /\ SessionOK /\ FramesOK /\ StreamOK
    /\ NeverRefused

-----------------------------------------------------------------------------
(* The places of the history: every epoch's are after those before it.       *)
LEMMA Places ==
    ASSUME TypeOK, HistoryOK
    PROVE  /\ epoch \in 1 .. MaxEpochs /\ epoch \in Nat /\ currentSeq \in 0 .. MaxSeq
           /\ Len(history) \in Nat /\ DOMAIN history = 1 .. Len(history)
           /\ base[epoch] \in Nat \ {0} /\ DOMAIN base = 1 .. epoch
           /\ Len(history) = base[epoch] + currentSeq
           /\ \A e \in 1 .. epoch : base[e] \in Nat \ {0} /\ base[e] <= base[epoch]
           /\ \A n \in 1 .. Len(history) : history[n] \in States
<1>1. /\ epoch \in 1 .. MaxEpochs /\ epoch \in Nat /\ currentSeq \in 0 .. MaxSeq
      /\ history \in Seq(States) /\ base \in Seq(Nat \ {0}) /\ Len(base) = epoch
      /\ Len(history) = base[epoch] + currentSeq
      /\ \A d, e \in 1 .. epoch : d < e => base[d] < base[e]
  BY CompanionSyncAssumption DEF TypeOK, LogTypeOK, HistoryOK
<1>2. /\ Len(history) \in Nat /\ DOMAIN history = 1 .. Len(history)
      /\ DOMAIN base = 1 .. epoch
      /\ \A n \in 1 .. Len(history) : history[n] \in States
      /\ \A e \in 1 .. epoch : base[e] \in Nat \ {0}
  BY <1>1, LenProperties, ElementOfSeq
<1>3. epoch \in 1 .. epoch
  BY <1>1
<1>4. \A e \in 1 .. epoch : base[e] <= base[epoch]
  <2> SUFFICES ASSUME NEW e \in 1 .. epoch PROVE base[e] <= base[epoch]
    OBVIOUS
  <2>1. base[e] \in Nat /\ base[epoch] \in Nat
    BY <1>2, <1>3
  <2>2. e = epoch \/ e < epoch
    BY <1>1
  <2> QED
    BY <1>1, <1>3, <2>1, <2>2
<1> QED
  BY <1>1, <1>2, <1>3, <1>4

(* What an epoch reached is in the history; in this epoch, up to currentSeq.  *)
LEMMA ReachedIsThere ==
    ASSUME TypeOK, HistoryOK, NEW c, Reached(c), c.seq \in Nat
    PROVE  /\ At(c) \in 1 .. Len(history)
           /\ c.epoch = epoch => c.seq <= currentSeq
           /\ base[epoch] <= At(c) => c.epoch = epoch
<1>1. /\ epoch \in Nat /\ currentSeq \in Nat /\ Len(history) \in Nat
      /\ Len(history) = base[epoch] + currentSeq
      /\ \A e \in 1 .. epoch : base[e] \in Nat \ {0} /\ base[e] <= base[epoch]
  BY Places
<1>2. c.epoch \in 1 .. epoch /\ At(c) = base[c.epoch] + c.seq /\ At(c) < End(c.epoch)
  BY DEF Reached, At
<1>3. base[c.epoch] \in Nat \ {0} /\ base[epoch] \in Nat
  BY <1>1, <1>2
<1>4. CASE c.epoch = epoch
  <2>1. End(c.epoch) = Len(history) + 1
    BY <1>1, <1>4 DEF End
  <2> QED
    BY <1>1, <1>2, <1>3, <1>4, <2>1
<1>5. CASE c.epoch < epoch
  <2>1. c.epoch + 1 \in 1 .. epoch /\ End(c.epoch) = base[c.epoch + 1]
    BY <1>1, <1>2, <1>5 DEF End
  <2>2. At(c) < base[epoch] /\ At(c) >= 1 /\ At(c) \in Nat
    <3>1. base[c.epoch + 1] \in Nat /\ base[c.epoch + 1] <= base[epoch]
      BY <1>1, <2>1
    <3>2. /\ At(c) = base[c.epoch] + c.seq /\ At(c) < base[c.epoch + 1]
          /\ base[c.epoch] \in Nat \ {0} /\ c.seq \in Nat
      BY <1>2, <1>3, <2>1
    <3>3. At(c) \in Nat /\ At(c) >= 1
      BY <3>2
    <3> QED
      BY <1>3, <3>1, <3>2, <3>3
  <2> QED
    BY <1>1, <1>3, <1>5, <2>2
<1> QED
  BY <1>1, <1>2, <1>4, <1>5

(* A place of this epoch is reached.                                         *)
LEMMA NowReached ==
    ASSUME TypeOK, HistoryOK, NEW c, c.epoch = epoch, c.seq \in 0 .. currentSeq
    PROVE  Reached(c) /\ At(c) = base[epoch] + c.seq /\ At(c) <= Len(history)
BY Places DEF Reached, At, End

(* What the phone shows is in the history.                                   *)
LEMMA ViewIsThere ==
    ASSUME SyncInv
    PROVE  /\ View \in 0 .. Len(history)
           /\ cursor # NoCursor => View = At(cursor) /\ View >= 1
           /\ cursor = NoCursor => View = 0
           /\ cursor # NoCursor => cursor \in Cursor
<1>1. cursor # NoCursor => cursor \in Cursor /\ cursor.seq \in Nat /\ Reached(cursor)
  BY DEF SyncInv, TypeOK, PhoneOK, Cursor
<1>2. cursor # NoCursor => At(cursor) \in 1 .. Len(history)
  BY <1>1, ReachedIsThere DEF SyncInv
<1>3. Len(history) \in Nat
  BY Places DEF SyncInv
<1> QED
  BY <1>1, <1>2, <1>3 DEF View, At

(* A stretch of the history in which nothing changes.                        *)
LEMMA QuietStretch ==
    ASSUME NEW h, NEW a \in Nat, NEW b \in Nat,
           \A n \in a + 1 .. b : h[n] = h[n - 1]
    PROVE  \A n \in a .. b : h[n] = h[b]
<1> DEFINE other == {k \in 0 .. b - a : h[b - k] # h[b]}
<1>1. CASE other = {}
  <2> SUFFICES ASSUME NEW n \in a .. b PROVE h[n] = h[b]
    OBVIOUS
  <2>1. b - n \in 0 .. b - a /\ b - (b - n) = n
    OBVIOUS
  <2> QED
    BY <1>1, <2>1
<1>2. CASE other # {}
  <2>1. other \subseteq Nat
    OBVIOUS
  <2>2. PICK k \in other : \A j \in other : k <= j
    BY <1>2, <2>1, LeastNatural
  <2>3. k \in 0 .. b - a /\ h[b - k] # h[b]
    BY <2>2
  <2>4. k # 0
    BY <2>3
  <2>5. k - 1 \in 0 .. b - a /\ k - 1 \notin other
    <3>1. k - 1 \in 0 .. b - a /\ ~(k <= k - 1)
      BY <2>3, <2>4
    <3> QED
      BY <2>2, <3>1
  <2>6. h[b - (k - 1)] = h[b]
    BY <2>5
  <2>7. b - (k - 1) \in a + 1 .. b /\ b - (k - 1) - 1 = b - k
    BY <2>3, <2>4
  <2>8. h[b - (k - 1)] = h[b - k]
    BY <2>7
  <2> QED
    BY <2>3, <2>6, <2>8
<1> QED
  BY <1>1, <1>2

-----------------------------------------------------------------------------
Rising(log) == \A i, j \in 1 .. Len(log) : i < j => log[i].seq < log[j].seq

(* Selecting events of a log keeps the order of their numbers.               *)
LEMMA SelectedEvents ==
    ASSUME NEW log \in Seq(Event), Rising(log), NEW places \in SUBSET (1 .. Len(log))
    PROVE  /\ Selected(log, places) \in Seq(Event)
           /\ Rising(Selected(log, places))
           /\ \A i \in 1 .. Len(Selected(log, places)) : \E k \in places : Selected(log, places)[i] = log[k]
           /\ \A k \in places : \E i \in 1 .. Len(Selected(log, places)) : Selected(log, places)[i] = log[k]
<1> DEFINE kept == Selected(log, places)
<1>1. kept \in Seq(Event) /\ KeepsOrder(kept, log, places)
  BY SelectedKeepsOrder
<1> HIDE DEF kept
<1>2. PICK from \in [1 .. Len(kept) -> places], to \in [places -> 1 .. Len(kept)] :
          /\ \A i \in 1 .. Len(kept) : kept[i] = log[from[i]] /\ to[from[i]] = i
          /\ \A k \in places : from[to[k]] = k
          /\ \A i, j \in 1 .. Len(kept) : i < j => from[i] < from[j]
          /\ \A j, k \in places : j < k => to[j] < to[k]
  BY <1>1 DEF KeepsOrder
<1>3. \A i \in 1 .. Len(kept) : \E k \in places : kept[i] = log[k]
  BY <1>2
<1>4. \A k \in places : \E i \in 1 .. Len(kept) : kept[i] = log[k]
  BY <1>2
<1>5. Rising(kept)
  <2> SUFFICES ASSUME NEW i \in 1 .. Len(kept), NEW j \in 1 .. Len(kept), i < j
               PROVE  kept[i].seq < kept[j].seq
    BY DEF Rising
  <2>1. from[i] \in 1 .. Len(log) /\ from[j] \in 1 .. Len(log) /\ from[i] < from[j]
    BY <1>2
  <2> QED
    BY <1>2, <2>1 DEF Rising
<1> QED
  BY <1>1, <1>3, <1>4, <1>5 DEF kept

(* The events a replay sends.                                                *)
Own(seq) ==
    LET later == ReplayFrom(seq)
    IN Selected(later, {i \in DOMAIN later : IsForPhone(later[i])})

(* They are the later events for the phone, all of them, in their order.      *)
LEMMA OwnEvents ==
    ASSUME LogInv, NEW seq \in Nat
    PROVE  /\ Own(seq) \in Seq(Event) /\ Len(Own(seq)) \in Nat
           /\ Rising(Own(seq))
           /\ \A i \in 1 .. Len(Own(seq)) : \E k \in 1 .. Len(events) :
                 Own(seq)[i] = events[k] /\ events[k].seq > seq /\ events[k].body # Private
           /\ \A k \in 1 .. Len(events) : events[k].seq > seq /\ events[k].body # Private =>
                 \E i \in 1 .. Len(Own(seq)) : Own(seq)[i] = events[k]
<1> DEFINE late == {i \in DOMAIN events : events[i].seq > seq}
           later == ReplayFrom(seq)
           own == {i \in DOMAIN later : IsForPhone(later[i])}
<1>1. /\ events \in Seq(Event) /\ DOMAIN events = 1 .. Len(events) /\ Len(events) \in Nat
      /\ droppedThrough \in Nat
      /\ \A i \in 1 .. Len(events) : events[i].seq = droppedThrough + i
  BY DEF LogInv, LogTypeOK, Contiguous
<1>2. Rising(events)
  BY <1>1 DEF Rising
<1>3. late \in SUBSET (1 .. Len(events)) /\ later = Selected(events, late)
  BY <1>1 DEF ReplayFrom
<1>4. \A k \in 1 .. Len(events) : k \in late <=> events[k].seq > seq
  BY <1>1
<1> HIDE DEF late, later
<1>5. /\ later \in Seq(Event)
      /\ Rising(later)
      /\ \A i \in 1 .. Len(later) : \E k \in late : later[i] = events[k]
      /\ \A k \in late : \E i \in 1 .. Len(later) : later[i] = events[k]
  BY <1>1, <1>2, <1>3, SelectedEvents
<1>6. own \in SUBSET (1 .. Len(later)) /\ Own(seq) = Selected(later, own)
  BY <1>5 DEF Own, later
<1>7. \A i \in 1 .. Len(later) : i \in own <=> later[i].body # Private
  BY <1>5 DEF IsForPhone
<1> HIDE DEF own
<1>8. /\ Own(seq) \in Seq(Event)
      /\ Rising(Own(seq))
      /\ \A i \in 1 .. Len(Own(seq)) : \E k \in own : Own(seq)[i] = later[k]
      /\ \A k \in own : \E i \in 1 .. Len(Own(seq)) : Own(seq)[i] = later[k]
  BY <1>5, <1>6, SelectedEvents
<1>9. \A i \in 1 .. Len(Own(seq)) : \E k \in 1 .. Len(events) :
          Own(seq)[i] = events[k] /\ events[k].seq > seq /\ events[k].body # Private
  <2> SUFFICES ASSUME NEW i \in 1 .. Len(Own(seq))
               PROVE  \E k \in 1 .. Len(events) :
                          Own(seq)[i] = events[k] /\ events[k].seq > seq /\ events[k].body # Private
    OBVIOUS
  <2>1. PICK j \in own : Own(seq)[i] = later[j]
    BY <1>8
  <2>2. j \in 1 .. Len(later) /\ later[j].body # Private
    BY <1>6, <1>7
  <2>3. PICK k \in late : later[j] = events[k]
    BY <1>5, <2>2
  <2> QED
    BY <1>3, <1>4, <2>1, <2>2, <2>3
<1>10. \A k \in 1 .. Len(events) : events[k].seq > seq /\ events[k].body # Private =>
          \E i \in 1 .. Len(Own(seq)) : Own(seq)[i] = events[k]
  <2> SUFFICES ASSUME NEW k \in 1 .. Len(events), events[k].seq > seq, events[k].body # Private
               PROVE  \E i \in 1 .. Len(Own(seq)) : Own(seq)[i] = events[k]
    OBVIOUS
  <2>1. PICK j \in 1 .. Len(later) : later[j] = events[k]
    BY <1>4, <1>5
  <2> QED
    BY <1>7, <1>8, <2>1
<1> QED
  BY <1>8, <1>9, <1>10

(* An append retains no event but the new one and some of the old.           *)
LEMMA RecordedEvents ==
    ASSUME LogInv, NEW body \in Bodies, NEW bytes \in 1 .. MaxBytes + 1, Record(body, bytes)
    PROVE  \A i \in 1 .. Len(events') :
              \/ events'[i] = [seq |-> currentSeq + 1, body |-> body, bytes |-> bytes]
              \/ \E j \in 1 .. Len(events) : events'[i] = events[j]
<1> DEFINE event == [seq |-> currentSeq + 1, body |-> body, bytes |-> bytes]
           log == Append(events, event)
           k == Shifted(log)
<1>1. events \in Seq(Event) /\ currentSeq \in Nat /\ currentSeq < MaxSeq /\ bytes <= MaxBytes
  BY DEF LogInv, LogTypeOK, Record
<1>2. event \in Event
  BY <1>1, EventLogAssumption DEF Event
<1>3. events' = From(log, k)
  BY DEF Record
<1> HIDE DEF event
<1>4. /\ log \in Seq(Event) /\ Len(log) = Len(events) + 1 /\ Len(events) \in Nat
      /\ \A i \in 1 .. Len(log) : log[i] = event \/ \E j \in 1 .. Len(events) : log[i] = events[j]
  BY <1>1, <1>2
<1> HIDE DEF log
<1>5. k \in 0 .. Len(log)
  BY <1>4, ShiftedFits
<1> HIDE DEF k
<1>6. Len(events') = Len(log) - k /\ \A i \in 1 .. Len(log) - k : events'[i] = log[k + i]
  BY <1>3, <1>4, <1>5, FromProperties
<1>7. \A i \in 1 .. Len(events') : k + i \in 1 .. Len(log) /\ events'[i] = log[k + i]
  <2> SUFFICES ASSUME NEW i \in 1 .. Len(events')
               PROVE  k + i \in 1 .. Len(log) /\ events'[i] = log[k + i]
    OBVIOUS
  <2>1. i \in 1 .. Len(log) - k /\ k \in Nat /\ Len(log) \in Nat
    BY <1>4, <1>5, <1>6
  <2> QED
    BY <1>6, <2>1
<1>8. ASSUME NEW i \in 1 .. Len(events')
      PROVE  events'[i] = event \/ \E j \in 1 .. Len(events) : events'[i] = events[j]
  <2>1. k + i \in 1 .. Len(log) /\ events'[i] = log[k + i]
    BY <1>7
  <2> PICK n \in 1 .. Len(log) : n = k + i
    BY <2>1
  <2>2. log[n] = event \/ \E j \in 1 .. Len(events) : log[n] = events[j]
    BY <1>4
  <2> QED
    BY <2>1, <2>2
<1> QED
  BY <1>8 DEF event

(* The place of a number of this epoch, and the one before it.               *)
LEMMA InBetween ==
    ASSUME NEW b \in Nat \ {0}, NEW c \in Nat, NEW q \in Nat, 1 <= q, q <= c
    PROVE  b + q \in 1 .. b + c /\ (b + q) - 1 \in 1 .. b + c
OBVIOUS

(* Every place of the retained part of the history is that of an event.       *)
LEMMA EventAt ==
    ASSUME SyncInv, NEW p \in Nat,
           base[epoch] + droppedThrough < p, p <= base[epoch] + currentSeq
    PROVE  \E k \in 1 .. Len(events) : base[epoch] + events[k].seq = p
<1>1. /\ base[epoch] \in Nat /\ droppedThrough \in Nat /\ Len(events) \in Nat
      /\ currentSeq = droppedThrough + Len(events)
  BY Places DEF SyncInv, LogInv, LogTypeOK, Contiguous
<1>2. PICK low \in Nat, len \in Nat : low = base[epoch] + droppedThrough /\ len = Len(events)
  BY <1>1
<1>3. low < p /\ p <= low + len
  BY <1>1, <1>2
<1>4. PICK k \in 1 .. len : low + k = p
  <2>1. p - low \in 1 .. len /\ low + (p - low) = p
    BY <1>3
  <2> QED
    BY <2>1
<1>5. k \in 1 .. Len(events) /\ events[k].seq = droppedThrough + k
  BY <1>2 DEF SyncInv, LogInv, Contiguous
<1>6. base[epoch] + events[k].seq = p
  BY <1>1, <1>2, <1>4, <1>5
<1> QED
  BY <1>5, <1>6

(* While the retained events are for others, the state does not change.      *)
LEMMA QuietEvents ==
    ASSUME SyncInv, NEW seq \in droppedThrough .. currentSeq, NEW n \in base[epoch] + seq .. Len(history),
           NEW m \in n .. Len(history),
           \A k \in 1 .. Len(events) :
              base[epoch] + events[k].seq \in n + 1 .. m => events[k].body = Private
    PROVE  history[n] = history[m]
<1>1. /\ epoch \in Nat /\ base[epoch] \in Nat /\ Len(history) \in Nat
      /\ Len(history) = base[epoch] + currentSeq
      /\ currentSeq \in Nat /\ droppedThrough \in Nat /\ Len(events) \in Nat
      /\ currentSeq = droppedThrough + Len(events)
      /\ \A i \in 1 .. Len(events) : events[i].seq = droppedThrough + i
  BY Places DEF SyncInv, LogInv, LogTypeOK, Contiguous
<1>2. /\ n \in Nat /\ m \in Nat /\ n <= m /\ seq \in Nat
      /\ droppedThrough <= seq /\ base[epoch] + seq <= n
      /\ m <= base[epoch] + droppedThrough + Len(events)
  <2>1. seq \in Nat /\ droppedThrough <= seq
    BY <1>1
  <2>2. n \in Nat /\ base[epoch] + seq <= n
    BY <1>1, <2>1
  <2> QED
    BY <1>1, <2>1, <2>2
<1>3. \A p \in n + 1 .. m : history[p] = history[p - 1]
  <2> SUFFICES ASSUME NEW p \in n + 1 .. m PROVE history[p] = history[p - 1]
    OBVIOUS
  <2>0. p \in Nat /\ n + 1 <= p /\ p <= m
    BY <1>2
  <2>1. base[epoch] + droppedThrough < p /\ p <= base[epoch] + currentSeq
    <3>1. /\ n \in Nat /\ m \in Nat /\ seq \in Nat /\ droppedThrough <= seq /\ base[epoch] + seq <= n
          /\ m <= base[epoch] + currentSeq
      BY <1>1, <1>2
    <3>2. base[epoch] \in Nat /\ droppedThrough \in Nat /\ currentSeq \in Nat
      BY <1>1
    <3> QED
      BY <2>0, <3>1, <3>2
  <2>2. PICK k \in 1 .. Len(events) : base[epoch] + events[k].seq = p
    BY <2>0, <2>1, EventAt
  <2>3. events[k].body = Private
    BY <2>1, <2>2
  <2>4. Changes(history[p - 1], history[p], Private)
    BY <2>1, <2>2, <2>3 DEF SyncInv, EventsOK
  <2> QED
    BY <2>4 DEF Changes
<1>4. \A p \in n .. m : history[p] = history[m]
  BY <1>2, <1>3, QuietStretch
<1> QED
  BY <1>2, <1>4

-----------------------------------------------------------------------------
(* What a synchronization sends: either one snapshot of now, or the later      *)
(* events for the phone, each of which leads from any state that can be shown  *)
(* before it to the one at its place.                                        *)
LEMMA SentFrames ==
    ASSUME SyncInv, NEW from \in Cursor \cup {NoCursor}
    PROVE  LET sent == SynchronizationFrames(from)
           IN /\ sent \in Seq(DownFrame) /\ Len(sent) \in Nat
              /\ \A i \in 1 .. Len(sent) :
                    /\ Says(sent[i]) /\ sent[i].epoch = epoch /\ sent[i].seq \in 0 .. currentSeq
                    /\ sent[i].state = history[At(sent[i])]
                    /\ sent[i].kind \in {"snapshot", "event"}
              /\ \A i, j \in 1 .. Len(sent) : i < j => At(sent[i]) < At(sent[j])
              /\ ~Replays(from) =>
                    Len(sent) = 1 /\ sent[1].kind = "snapshot" /\ At(sent[1]) = Len(history)
              /\ Replays(from) =>
                    /\ \A i \in 1 .. Len(sent) :
                          /\ sent[i].kind = "event" /\ sent[i].item \in Items
                          /\ base[epoch] + from.seq < At(sent[i])
                          /\ \A n \in base[epoch] + from.seq .. At(sent[i]) - 1 :
                                (\A j \in 1 .. i - 1 : At(sent[j]) <= n) =>
                                   Changes(history[n], history[At(sent[i])], sent[i].item)
                    /\ \A n \in base[epoch] + from.seq .. Len(history) :
                          (\A j \in 1 .. Len(sent) : At(sent[j]) <= n) => history[n] = history[Len(history)]
<1> DEFINE sent == SynchronizationFrames(from)
<1>1. /\ epoch \in 1 .. MaxEpochs /\ epoch \in Nat /\ base[epoch] \in Nat \ {0} /\ Len(history) \in Nat
      /\ Len(history) = base[epoch] + currentSeq
      /\ currentSeq \in 0 .. MaxSeq /\ MaxSeq \in Nat
      /\ \A n \in 1 .. Len(history) : history[n] \in States
      /\ state = history[Len(history)] /\ Private \in Bodies
  BY Places, CompanionSyncAssumption, EventLogAssumption DEF SyncInv, HistoryOK
<1>2. CASE ~Replays(from)
  <2>1. sent = <<Snapshot>>
    BY <1>2 DEF SynchronizationFrames
  <2>2. Snapshot \in DownFrame
    BY <1>1 DEF Snapshot, DownFrame, SyncInv, TypeOK
  <2>3. /\ Snapshot.kind = "snapshot" /\ Snapshot.epoch = epoch /\ Snapshot.seq = currentSeq
        /\ Snapshot.state = state
    BY DEF Snapshot
  <2>4. At(Snapshot) = Len(history)
    BY <1>1, <2>3 DEF At
  <2> HIDE DEF sent
  <2>5. sent \in Seq(DownFrame) /\ Len(sent) = 1 /\ sent[1] = Snapshot
    BY <2>1, <2>2
  <2> QED
    BY <1>1, <1>2, <2>3, <2>4, <2>5 DEF sent, Says
<1>3. CASE Replays(from)
  <2> DEFINE own == Own(from.seq)
  <2>1. from.epoch = epoch /\ from.seq \in droppedThrough .. currentSeq /\ from.seq \in Nat
    BY <1>1, <1>3 DEF Replays, Replayable, SyncInv, TypeOK, LogTypeOK, Cursor, NoCursor
  <2>2. /\ own \in Seq(Event) /\ Len(own) \in Nat
        /\ Rising(own)
        /\ \A i \in 1 .. Len(own) : \E k \in 1 .. Len(events) :
              own[i] = events[k] /\ events[k].seq > from.seq /\ events[k].body # Private
        /\ \A k \in 1 .. Len(events) : events[k].seq > from.seq /\ events[k].body # Private =>
              \E i \in 1 .. Len(own) : own[i] = events[k]
    BY <2>1, OwnEvents DEF SyncInv
  <2>3. sent = [i \in DOMAIN own |-> EventFrame(own[i])]
    BY <1>3 DEF SynchronizationFrames, Replay, Own
  <2> HIDE DEF own, sent
  <2>4. /\ events \in Seq(Event) /\ Len(events) \in Nat /\ droppedThrough \in Nat
        /\ \A k \in 1 .. Len(events) :
              /\ events[k] \in Event /\ events[k].seq \in 1 .. currentSeq
              /\ Changes(history[(base[epoch] + events[k].seq) - 1], history[base[epoch] + events[k].seq],
                         events[k].body)
    <3>1. /\ events \in Seq(Event) /\ Len(events) \in Nat /\ droppedThrough \in Nat /\ currentSeq \in Nat
          /\ currentSeq = droppedThrough + Len(events)
          /\ \A i \in 1 .. Len(events) : events[i].seq = droppedThrough + i
      BY DEF SyncInv, LogInv, LogTypeOK, Contiguous
    <3>2. \A k \in 1 .. Len(events) : events[k] \in Event /\ events[k].seq \in 1 .. currentSeq
      BY <3>1
    <3>3. ASSUME NEW k \in 1 .. Len(events)
          PROVE  Changes(history[(base[epoch] + events[k].seq) - 1], history[base[epoch] + events[k].seq],
                         events[k].body)
      BY DEF SyncInv, EventsOK
    <3> QED
      BY <3>1, <3>2, <3>3
  <2>5. \A i \in 1 .. Len(own) :
            /\ own[i] \in Event /\ own[i].body \in Items
            /\ own[i].seq \in 1 .. currentSeq /\ own[i].seq > from.seq
            /\ Changes(history[(base[epoch] + own[i].seq) - 1], history[base[epoch] + own[i].seq], own[i].body)
    BY <2>2, <2>4 DEF Items, Event
  <2>6. /\ DOMAIN sent = 1 .. Len(own)
        /\ \A i \in 1 .. Len(own) :
              /\ sent[i].kind = "event" /\ sent[i].epoch = epoch /\ sent[i].seq = own[i].seq
              /\ sent[i].item = own[i].body
              /\ sent[i].state = history[base[epoch] + own[i].seq]
              /\ At(sent[i]) = base[epoch] + own[i].seq
              /\ sent[i] \in DownFrame
    <3>1. DOMAIN own = 1 .. Len(own)
      BY <2>2
    <3>2. \A i \in 1 .. Len(own) : sent[i] = EventFrame(own[i])
      BY <2>3, <3>1
    <3>3. ASSUME NEW i \in 1 .. Len(own)
          PROVE  /\ sent[i].kind = "event" /\ sent[i].epoch = epoch /\ sent[i].seq = own[i].seq
                 /\ sent[i].item = own[i].body
                 /\ sent[i].state = history[base[epoch] + own[i].seq]
                 /\ At(sent[i]) = base[epoch] + own[i].seq
                 /\ sent[i] \in DownFrame
      <4>0. sent[i] = EventFrame(own[i])
        BY <3>2
      <4>1. /\ sent[i].kind = "event" /\ sent[i].epoch = epoch /\ sent[i].seq = own[i].seq
            /\ sent[i].item = own[i].body
            /\ sent[i].state = history[base[epoch] + own[i].seq]
            /\ At(sent[i]) = base[epoch] + own[i].seq
        BY <4>0 DEF EventFrame, At
      <4>2. own[i].seq \in 0 .. MaxSeq /\ own[i].body \in Bodies
        BY <1>1, <2>5 DEF Items
      <4>3. base[epoch] + own[i].seq \in 1 .. Len(history)
        <5>1. /\ base[epoch] \in Nat \ {0} /\ currentSeq \in Nat
              /\ Len(history) = base[epoch] + currentSeq /\ own[i].seq \in 1 .. currentSeq
          BY <1>1, <2>5
        <5> QED
          BY <5>1
      <4>4. EventFrame(own[i]) \in DownFrame
        BY <1>1, <4>2, <4>3 DEF EventFrame, DownFrame
      <4> QED
        BY <3>2, <4>1, <4>4
    <3> QED
      BY <2>3, <3>1, <3>3
  <2>7. sent \in Seq(DownFrame) /\ Len(sent) = Len(own)
    <3>1. sent = [i \in 1 .. Len(own) |-> sent[i]]
      BY <2>3, <2>6
    <3>2. \A i \in 1 .. Len(own) : sent[i] \in DownFrame
      BY <2>6
    <3>3. sent \in [1 .. Len(own) -> DownFrame]
      BY <3>1, <3>2
    <3>4. Len(own) \in Nat
      BY <2>2
    <3> QED
      BY <3>3, <3>4
  <2>8. \A i \in 1 .. Len(sent) :
            /\ Says(sent[i]) /\ sent[i].epoch = epoch /\ sent[i].seq \in 0 .. currentSeq
            /\ sent[i].state = history[At(sent[i])]
            /\ sent[i].kind = "event" /\ sent[i].item \in Items
            /\ base[epoch] + from.seq < At(sent[i])
            /\ At(sent[i]) \in 1 .. Len(history)
    <3> SUFFICES ASSUME NEW i \in 1 .. Len(own)
                 PROVE  /\ Says(sent[i]) /\ sent[i].epoch = epoch /\ sent[i].seq \in 0 .. currentSeq
                        /\ sent[i].state = history[At(sent[i])]
                        /\ sent[i].kind = "event" /\ sent[i].item \in Items
                        /\ base[epoch] + from.seq < At(sent[i])
                        /\ At(sent[i]) \in 1 .. Len(history)
      BY <2>7
    <3>1. own[i].seq \in 1 .. currentSeq /\ own[i].seq > from.seq /\ own[i].body \in Items
      BY <2>5
    <3>2. /\ sent[i].kind = "event" /\ sent[i].epoch = epoch /\ sent[i].seq = own[i].seq
          /\ sent[i].item = own[i].body /\ At(sent[i]) = base[epoch] + own[i].seq
          /\ sent[i].state = history[base[epoch] + own[i].seq]
      BY <2>6
    <3>3. base[epoch] + from.seq < At(sent[i]) /\ At(sent[i]) \in 1 .. Len(history)
      <4>1. /\ Len(history) = base[epoch] + currentSeq /\ base[epoch] \in Nat /\ currentSeq \in Nat
            /\ from.seq \in Nat /\ own[i].seq \in Nat /\ own[i].seq >= 1 /\ own[i].seq <= currentSeq
        BY <1>1, <2>1, <3>1
      <4>2. own[i].seq > from.seq
        BY <3>1
      <4>3. base[epoch] + from.seq < base[epoch] + own[i].seq
        BY <4>1, <4>2
      <4>4. base[epoch] + own[i].seq \in 1 .. base[epoch] + currentSeq
        <5>1. base[epoch] \in Nat \ {0} /\ 1 <= own[i].seq
          BY <1>1, <4>1
        <5> QED
          BY <4>1, <5>1, InBetween, Zenon
      <4> QED
        BY <3>2, <4>1, <4>3, <4>4
    <3>4. own[i].seq \in 0 .. currentSeq
      BY <1>1, <3>1
    <3> QED
      BY <3>1, <3>2, <3>3, <3>4 DEF Says
  <2>9. \A i, j \in 1 .. Len(sent) : i < j => At(sent[i]) < At(sent[j])
    <3> SUFFICES ASSUME NEW i \in 1 .. Len(own), NEW j \in 1 .. Len(own), i < j
                 PROVE  At(sent[i]) < At(sent[j])
      BY <2>7
    <3>1. own[i].seq < own[j].seq
      BY <2>2 DEF Rising
    <3>2. own[i].seq \in Nat /\ own[j].seq \in Nat /\ base[epoch] \in Nat
      BY <1>1, <2>5
    <3>3. At(sent[i]) = base[epoch] + own[i].seq /\ At(sent[j]) = base[epoch] + own[j].seq
      BY <2>6
    <3> QED
      BY <3>1, <3>2, <3>3
  <2>10. ASSUME NEW i \in 1 .. Len(sent), NEW n \in base[epoch] + from.seq .. At(sent[i]) - 1,
                \A j \in 1 .. i - 1 : At(sent[j]) <= n
         PROVE  Changes(history[n], history[At(sent[i])], sent[i].item)
    <3> DEFINE m == At(sent[i]) - 1
    <3>1. At(sent[i]) \in 1 .. Len(history) /\ n \in Nat /\ n <= m /\ m \in Nat /\ i \in 1 .. Len(own)
            /\ base[epoch] + from.seq <= n
      <4>1. At(sent[i]) \in 1 .. Len(history) /\ i \in 1 .. Len(own)
        BY <2>7, <2>8
      <4>2. base[epoch] \in Nat /\ from.seq \in Nat /\ Len(history) \in Nat
        BY <1>1, <2>1
      <4>3. At(sent[i]) \in Nat /\ At(sent[i]) >= 1 /\ n \in Int /\ base[epoch] + from.seq <= n /\ n <= At(sent[i]) - 1
        BY <4>1, <4>2
      <4>4. n \in Nat
        <5>1. base[epoch] + from.seq \in Nat
          BY <4>2
        <5> QED
          BY <4>3, <5>1
      <4>5. n <= m /\ m \in Nat
        <5>1. m = At(sent[i]) - 1
          BY DEF m
        <5> HIDE DEF m
        <5> QED
          BY <4>3, <4>4, <5>1
      <4> QED
        BY <4>1, <4>3, <4>4, <4>5
    <3>2. n \in base[epoch] + from.seq .. Len(history) /\ m \in n .. Len(history)
      BY <1>1, <2>1, <3>1
    <3>3. ASSUME NEW k \in 1 .. Len(events), base[epoch] + events[k].seq \in n + 1 .. m
          PROVE  events[k].body = Private
      <4> SUFFICES ASSUME events[k].body # Private PROVE FALSE
        OBVIOUS
      <4>0. events[k].seq \in Nat /\ base[epoch] \in Nat /\ from.seq \in Nat
        <5>1. events[k].seq \in 1 .. currentSeq
          BY <2>4
        <5> QED
          BY <1>1, <2>1, <5>1
      <4>1. events[k].seq > from.seq
        <5>1. n + 1 <= base[epoch] + events[k].seq /\ base[epoch] + from.seq <= n /\ n \in Nat
          BY <3>1, <3>3
        <5> QED
          BY <4>0, <5>1
      <4>2. PICK j \in 1 .. Len(own) : own[j] = events[k]
        BY <2>2, <4>1
      <4>3. At(sent[j]) = base[epoch] + events[k].seq
        BY <2>6, <4>2
      <4>4. At(sent[j]) < At(sent[i]) /\ n < At(sent[j])
        <5>1. /\ n + 1 <= base[epoch] + events[k].seq /\ base[epoch] + events[k].seq <= m
              /\ n \in Nat /\ m \in Nat /\ At(sent[i]) \in Int
          BY <3>1, <3>3
        <5>2. base[epoch] + events[k].seq \in Nat
          BY <4>0
        <5>3. m = At(sent[i]) - 1
          BY DEF m
        <5> HIDE DEF m
        <5> QED
          BY <4>3, <5>1, <5>2, <5>3
      <4>5. At(sent[j]) \in Nat /\ At(sent[i]) \in Nat
        <5>1. At(sent[j]) \in Nat
          BY <4>0, <4>3
        <5>2. At(sent[i]) \in Nat
          BY <3>1
        <5> QED
          BY <5>1, <5>2
      <4>6. ~(i < j) /\ i # j
        BY <2>7, <2>9, <3>1, <4>2, <4>4, <4>5
      <4>7. j \in 1 .. i - 1
        BY <2>2, <3>1, <4>2, <4>6
      <4> QED
        BY <2>10, <3>1, <4>4, <4>5, <4>7
    <3> HIDE DEF m
    <3>4. history[n] = history[m]
      BY <2>1, <3>2, <3>3, QuietEvents
    <3>5. Changes(history[m], history[At(sent[i])], sent[i].item)
      <4>1. At(sent[i]) = base[epoch] + own[i].seq /\ sent[i].item = own[i].body
        BY <2>6, <3>1
      <4>2. m = (base[epoch] + own[i].seq) - 1
        <5>1. m = At(sent[i]) - 1
          BY DEF m
        <5> QED
          BY <4>1, <5>1
      <4> QED
        BY <2>5, <3>1, <4>1, <4>2
    <3> QED
      BY <3>4, <3>5
  <2>11. ASSUME NEW n \in base[epoch] + from.seq .. Len(history), \A j \in 1 .. Len(sent) : At(sent[j]) <= n
         PROVE  history[n] = history[Len(history)]
    <3>1. n \in Nat /\ base[epoch] + from.seq <= n /\ n <= Len(history) /\ Len(history) \in n .. Len(history)
      BY <1>1, <2>1
    <3>2. ASSUME NEW k \in 1 .. Len(events), base[epoch] + events[k].seq \in n + 1 .. Len(history)
          PROVE  events[k].body = Private
      <4> SUFFICES ASSUME events[k].body # Private PROVE FALSE
        OBVIOUS
      <4>0. events[k].seq \in Nat /\ base[epoch] \in Nat /\ from.seq \in Nat
        <5>1. events[k].seq \in 1 .. currentSeq
          BY <2>4
        <5> QED
          BY <1>1, <2>1, <5>1
      <4>1. events[k].seq > from.seq
        <5>1. n + 1 <= base[epoch] + events[k].seq /\ base[epoch] + from.seq <= n /\ n \in Nat
          BY <3>1, <3>2
        <5> QED
          BY <4>0, <5>1
      <4>2. PICK j \in 1 .. Len(own) : own[j] = events[k]
        BY <2>2, <4>1
      <4>3. At(sent[j]) = base[epoch] + events[k].seq
        BY <2>6, <4>2
      <4> QED
        BY <1>1, <2>7, <2>11, <3>1, <3>2, <4>0, <4>1, <4>2, <4>3
    <3> QED
      BY <2>1, <3>1, <3>2, QuietEvents
  <2> QED
    BY <1>3, <2>7, <2>8, <2>9, <2>10, <2>11 DEF sent
<1> QED
  BY <1>2, <1>3


-----------------------------------------------------------------------------
(* What is left of a burst that was cut off still makes sense.               *)
LEMMA Prefix ==
    ASSUME NEW frames \in Seq(DownFrame), NEW k \in 0 .. Len(frames), InOrder(frames), NoGaps(frames)
    PROVE  LET cut == SubSeq(frames, 1, k)
           IN /\ cut \in Seq(DownFrame) /\ Len(cut) = k
              /\ \A i \in 1 .. k : cut[i] = frames[i]
              /\ InOrder(cut) /\ NoGaps(cut)
<1> DEFINE cut == SubSeq(frames, 1, k)
<1>1. Len(frames) \in Nat /\ k \in Nat /\ \A i \in 1 .. k : i \in 1 .. Len(frames)
  BY LenProperties
<1>2. cut \in Seq(DownFrame) /\ Len(cut) = k /\ \A i \in 1 .. k : cut[i] = frames[i]
  <2> HIDE DEF cut
  <2>1. \A i \in 1 .. k : frames[i] \in DownFrame
    BY <1>1, ElementOfSeq
  <2>2. \A m, n \in Int : (\A i \in m .. n : frames[i] \in DownFrame) =>
            /\ SubSeq(frames, m, n) \in Seq(DownFrame)
            /\ Len(SubSeq(frames, m, n)) = IF m <= n THEN n - m + 1 ELSE 0
            /\ \A i \in 1 .. n - m + 1 : SubSeq(frames, m, n)[i] = frames[m + i - 1]
    BY SubSeqProperties
  <2>3. /\ cut \in Seq(DownFrame)
        /\ Len(cut) = IF 1 <= k THEN k - 1 + 1 ELSE 0
        /\ \A i \in 1 .. k - 1 + 1 : cut[i] = frames[1 + i - 1]
    BY <1>1, <2>1, <2>2 DEF cut
  <2>4. k - 1 + 1 = k /\ \A i \in 1 .. k : 1 + i - 1 = i
    BY <1>1
  <2> QED
    BY <1>1, <2>3, <2>4
<1> HIDE DEF cut
<1>3. InOrder(cut)
  BY <1>1, <1>2 DEF InOrder
<1>4. ASSUME NEW i \in 1 .. k PROVE \A j \in 1 .. i - 1 : j \in 1 .. k /\ j \in 1 .. Len(frames)
  BY <1>1
<1>5. ASSUME NEW i \in 1 .. k, NEW n PROVE Ahead(cut, i, n) => Ahead(frames, i, n)
  BY <1>2, <1>4 DEF Ahead
<1>6. ASSUME NEW i \in 1 .. k, NEW e PROVE Known(frames, i, e) => Known(cut, i, e)
  BY <1>2, <1>4 DEF Known
<1>7. NoGaps(cut)
  BY <1>1, <1>2, <1>5, <1>6 DEF NoGaps
<1> QED
  BY <1>2, <1>3, <1>7 DEF cut

(* Frames after which a replay from this place of the epoch misses nothing.   *)
Linked(frames, place) ==
    /\ Known(frames, Len(frames) + 1, epoch)
    /\ \A i \in 1 .. Len(frames) : Says(frames[i]) => At(frames[i]) <= place
    /\ \A n \in 1 .. place : Ahead(frames, Len(frames) + 1, n) => history[n] = history[place]

(* After frames it is linked to, a synchronization brings the phone to now.   *)
LEMMA Extends ==
    ASSUME SyncInv, NEW from \in Cursor \cup {NoCursor}, NEW before \in Seq(DownFrame),
           InOrder(before), NoGaps(before),
           \A i \in 1 .. Len(before) : Says(before[i]) => before[i].epoch = epoch,
           Replays(from) => Linked(before, base[epoch] + from.seq)
    PROVE  LET all == before \o SynchronizationFrames(from)
           IN /\ all \in Seq(DownFrame)
              /\ InOrder(all) /\ NoGaps(all)
              /\ \A i \in 1 .. Len(all) : Says(all[i]) => all[i].epoch = epoch
              /\ CaughtUp(all, Len(history))
<1> DEFINE sent == SynchronizationFrames(from)
           all == before \o sent
           b == Len(before)
           s == Len(sent)
           place == base[epoch] + from.seq
<1>1. /\ sent \in Seq(DownFrame) /\ s \in Nat
      /\ \A k \in 1 .. s :
            /\ Says(sent[k]) /\ sent[k].epoch = epoch /\ sent[k].seq \in 0 .. currentSeq
            /\ sent[k].state = history[At(sent[k])]
            /\ sent[k].kind \in {"snapshot", "event"}
      /\ \A j, k \in 1 .. s : j < k => At(sent[j]) < At(sent[k])
  BY SentFrames
<1>2. ~Replays(from) => s = 1 /\ sent[1].kind = "snapshot" /\ At(sent[1]) = Len(history)
  BY SentFrames
<1>3. Replays(from) =>
         /\ \A k \in 1 .. s :
               /\ sent[k].kind = "event" /\ sent[k].item \in Items
               /\ place < At(sent[k])
               /\ \A n \in place .. At(sent[k]) - 1 :
                     (\A j \in 1 .. k - 1 : At(sent[j]) <= n) =>
                        Changes(history[n], history[At(sent[k])], sent[k].item)
         /\ \A n \in place .. Len(history) :
               (\A j \in 1 .. s : At(sent[j]) <= n) => history[n] = history[Len(history)]
  BY SentFrames
<1> HIDE DEF sent
<1>4. /\ Len(history) \in Nat /\ View \in 0 .. Len(history)
      /\ base[epoch] \in Nat /\ currentSeq \in Nat /\ Len(history) = base[epoch] + currentSeq
  BY Places, ViewIsThere DEF SyncInv
<1>5. b \in Nat /\ all \in Seq(DownFrame) /\ Len(all) = b + s
  BY <1>1, LenProperties
<1>6. \A i \in 1 .. b : i \in 1 .. b + s /\ all[i] = before[i]
  BY <1>1, <1>5
<1>7. \A k \in 1 .. s : b + k \in 1 .. b + s /\ all[b + k] = sent[k]
  <2> SUFFICES ASSUME NEW k \in 1 .. s PROVE b + k \in 1 .. b + s /\ all[b + k] = sent[k]
    OBVIOUS
  <2>1. b + k \in 1 .. b + s /\ b + k > b /\ b + k - b = k
    BY <1>1, <1>5
  <2> QED
    BY <1>1, <1>5, <2>1
<1>8. \A i \in 1 .. b + s : i \in 1 .. b \/ \E k \in 1 .. s : i = b + k
  <2> SUFFICES ASSUME NEW i \in 1 .. b + s, i \notin 1 .. b PROVE \E k \in 1 .. s : i = b + k
    OBVIOUS
  <2>1. i - b \in 1 .. s /\ i = b + (i - b)
    BY <1>1, <1>5
  <2> QED
    BY <2>1
<1> HIDE DEF all
<1>9. /\ b + 1 \in Nat
      /\ \A k \in 1 .. s : /\ \A j \in 1 .. b : j \in 1 .. (b + k) - 1
                           /\ \A j \in 1 .. k - 1 : b + j \in 1 .. (b + k) - 1 /\ j \in 1 .. s
      /\ \A j \in 1 .. b : j \in 1 .. (b + 1) - 1 /\ j \in 1 .. (b + s + 1) - 1
      /\ \A j \in 1 .. s : b + j \in 1 .. (b + s + 1) - 1
      /\ \A j \in 1 .. (b + 1) - 1 : j \in 1 .. b
      /\ \A j \in 1 .. (b + s + 1) - 1 : j \in 1 .. b + s
  BY <1>1, <1>5
<1> HIDE DEF b, s
<1>10. \A k \in 1 .. s : /\ Reached(sent[k]) /\ At(sent[k]) \in Nat /\ At(sent[k]) <= Len(history)
                         /\ At(sent[k]) >= 1
  <2> SUFFICES ASSUME NEW k \in 1 .. s
               PROVE  /\ Reached(sent[k]) /\ At(sent[k]) \in Nat /\ At(sent[k]) <= Len(history)
                      /\ At(sent[k]) >= 1
    OBVIOUS
  <2>1. sent[k].epoch = epoch /\ sent[k].seq \in 0 .. currentSeq /\ sent[k].seq \in Nat
    BY <1>1, <1>4
  <2>2. Reached(sent[k])
    BY <2>1, NowReached DEF SyncInv
  <2>3. At(sent[k]) \in 1 .. Len(history)
    BY <2>1, <2>2, ReachedIsThere DEF SyncInv
  <2> QED
    BY <1>4, <2>2, <2>3
<1>11. \A i \in 1 .. b : Says(before[i]) =>
          Reached(before[i]) /\ At(before[i]) \in Nat /\ At(before[i]) <= Len(history)
  <2> SUFFICES ASSUME NEW i \in 1 .. b, Says(before[i])
               PROVE  Reached(before[i]) /\ At(before[i]) \in Nat /\ At(before[i]) <= Len(history)
    OBVIOUS
  <2>1. Reached(before[i]) /\ before[i] \in DownFrame
    BY ElementOfSeq DEF InOrder, b
  <2>2. before[i].seq \in Nat
    BY <2>1 DEF DownFrame
  <2>3. At(before[i]) \in 1 .. Len(history)
    BY <2>1, <2>2, ReachedIsThere DEF SyncInv
  <2> QED
    BY <1>4, <2>1, <2>3
<1>12. \A i \in 1 .. b, k \in 1 .. s : Says(before[i]) => At(before[i]) <= At(sent[k])
  <2> SUFFICES ASSUME NEW i \in 1 .. b, NEW k \in 1 .. s, Says(before[i])
               PROVE  At(before[i]) <= At(sent[k])
    OBVIOUS
  <2>1. CASE ~Replays(from)
    <3>1. k = 1
      BY <1>2, <2>1
    <3> QED
      BY <1>2, <1>11, <2>1, <3>1
  <2>2. CASE Replays(from)
    <3>1. from.seq \in Nat
      BY DEF Cursor, NoCursor
    <3>2. place \in Nat
      BY <1>4, <3>1
    <3>3. At(before[i]) <= place /\ place < At(sent[k])
      BY <1>3, <2>2 DEF Linked, b
    <3>4. At(before[i]) \in Nat /\ At(sent[k]) \in Nat
      BY <1>10, <1>11
    <3> QED
      BY <3>2, <3>3, <3>4
  <2> QED
    BY <2>1, <2>2
<1>13. InOrder(all)
  <2>1. \A i \in 1 .. b + s :
            /\ Says(all[i]) =>
                  /\ Reached(all[i]) /\ all[i].epoch = epoch /\ all[i].state = history[At(all[i])]
                  /\ At(all[i]) \in Nat
            /\ all[i].kind = "snapshot" => View <= At(all[i])
            /\ all[i].kind = "event" => all[i].item \in Items
    <3>1. ASSUME NEW i \in 1 .. b
          PROVE  /\ Says(before[i]) =>
                       /\ Reached(before[i]) /\ before[i].epoch = epoch
                       /\ before[i].state = history[At(before[i])] /\ At(before[i]) \in Nat
                 /\ before[i].kind = "snapshot" => View <= At(before[i])
                 /\ before[i].kind = "event" => before[i].item \in Items
      BY <1>11 DEF InOrder, b
    <3>2. ASSUME NEW k \in 1 .. s
          PROVE  /\ Reached(sent[k]) /\ sent[k].epoch = epoch
                 /\ sent[k].state = history[At(sent[k])] /\ At(sent[k]) \in Nat
                 /\ sent[k].kind = "snapshot" => View <= At(sent[k])
                 /\ sent[k].kind = "event" => sent[k].item \in Items
      <4>1. Reached(sent[k]) /\ sent[k].epoch = epoch
            /\ sent[k].state = history[At(sent[k])] /\ At(sent[k]) \in Nat
        BY <1>1, <1>10
      <4>2. CASE Replays(from)
        BY <1>3, <4>1, <4>2
      <4>3. CASE ~Replays(from)
        BY <1>2, <1>4, <4>1, <4>3
      <4> QED
        BY <4>1, <4>2, <4>3
    <3> QED
      BY <1>6, <1>7, <1>8, <3>1, <3>2
  <2>2. \A i, j \in 1 .. b + s : i < j /\ Says(all[i]) /\ Says(all[j]) => At(all[i]) <= At(all[j])
    <3> SUFFICES ASSUME NEW i \in 1 .. b + s, NEW j \in 1 .. b + s,
                        i < j, Says(all[i]), Says(all[j])
                 PROVE  At(all[i]) <= At(all[j])
      OBVIOUS
    <3>1. CASE i \in 1 .. b /\ j \in 1 .. b
      <4>1. Says(before[i]) /\ Says(before[j])
        BY <1>6, <3>1
      <4>2. At(before[i]) <= At(before[j])
        BY <3>1, <4>1 DEF InOrder, b
      <4> QED
        BY <1>6, <3>1, <4>2
    <3>2. CASE i \in 1 .. b /\ j \notin 1 .. b
      <4>1. PICK k \in 1 .. s : j = b + k
        BY <1>8, <3>2
      <4>2. Says(before[i]) /\ all[i] = before[i] /\ all[j] = sent[k]
        BY <1>6, <1>7, <3>2, <4>1
      <4> QED
        BY <1>12, <3>2, <4>2
    <3>3. CASE i \notin 1 .. b
      <4>1. PICK k \in 1 .. s : i = b + k
        BY <1>8, <3>3
      <4>2. j \notin 1 .. b /\ k \in Nat
        BY <1>5, <4>1
      <4>3. PICK m \in 1 .. s : j = b + m
        BY <1>8, <4>2
      <4>4. k < m
        BY <1>5, <4>1, <4>3
      <4>5. At(sent[k]) < At(sent[m]) /\ At(sent[k]) \in Nat /\ At(sent[m]) \in Nat
        BY <1>1, <1>10, <4>4
      <4>6. all[i] = sent[k] /\ all[j] = sent[m]
        BY <1>7, <4>1, <4>3
      <4> QED
        BY <4>5, <4>6
    <3> QED
      BY <3>1, <3>2, <3>3
  <2> QED
    BY <1>5, <2>1, <2>2 DEF InOrder
<1>14. \A k \in 1 .. s, n \in Nat :
          Ahead(all, b + k, n) => Ahead(before, b + 1, n) /\ \A j \in 1 .. k - 1 : At(sent[j]) <= n
  <2> SUFFICES ASSUME NEW k \in 1 .. s, NEW n \in Nat, Ahead(all, b + k, n)
               PROVE  Ahead(before, b + 1, n) /\ \A j \in 1 .. k - 1 : At(sent[j]) <= n
    OBVIOUS
  <2>1. View <= n /\ \A j \in 1 .. (b + k) - 1 : Says(all[j]) => At(all[j]) <= n
    BY DEF Ahead
  <2>2. \A j \in 1 .. b : Says(before[j]) => At(before[j]) <= n
    BY <1>6, <1>9, <2>1
  <2>3. \A j \in 1 .. k - 1 : At(sent[j]) <= n
    BY <1>1, <1>7, <1>9, <2>1
  <2> QED
    BY <1>9, <2>1, <2>2, <2>3 DEF Ahead
<1>15. \A n \in Nat :
          Ahead(all, b + s + 1, n) => Ahead(before, b + 1, n) /\ \A j \in 1 .. s : At(sent[j]) <= n
  <2> SUFFICES ASSUME NEW n \in Nat, Ahead(all, b + s + 1, n)
               PROVE  Ahead(before, b + 1, n) /\ \A j \in 1 .. s : At(sent[j]) <= n
    OBVIOUS
  <2>1. View <= n /\ \A j \in 1 .. (b + s + 1) - 1 : Says(all[j]) => At(all[j]) <= n
    BY DEF Ahead
  <2>2. \A j \in 1 .. b : Says(before[j]) => At(before[j]) <= n
    BY <1>6, <1>9, <2>1
  <2>3. \A j \in 1 .. s : At(sent[j]) <= n
    BY <1>1, <1>7, <1>9, <2>1
  <2> QED
    BY <1>9, <2>1, <2>2, <2>3 DEF Ahead
<1>16. \A e : Known(before, b + 1, e) =>
          Known(all, b + s + 1, e) /\ \A k \in 1 .. s : Known(all, b + k, e)
  BY <1>6, <1>9 DEF Known
<1>17. Replays(from) =>
          /\ Known(before, b + 1, epoch) /\ place \in 1 .. Len(history)
          /\ \A n \in 1 .. place : Ahead(before, b + 1, n) => history[n] = history[place]
  <2> SUFFICES ASSUME Replays(from)
               PROVE  /\ Known(before, b + 1, epoch) /\ place \in 1 .. Len(history)
                      /\ \A n \in 1 .. place : Ahead(before, b + 1, n) => history[n] = history[place]
    OBVIOUS
  <2>1. from.seq \in Nat /\ from.seq <= currentSeq /\ base[epoch] \in Nat \ {0}
    BY Places DEF Cursor, NoCursor, Replays, Replayable, SyncInv
  <2>2. place \in 1 .. Len(history)
    BY <1>4, <2>1
  <2> QED
    BY <2>2 DEF Linked, b
<1>18. NoGaps(all)
  <2>1. ASSUME NEW i \in 1 .. b, all[i].kind = "event"
        PROVE  /\ Known(all, i, all[i].epoch)
               /\ \A n \in 1 .. Len(history) : Ahead(all, i, n) /\ n < At(all[i]) =>
                     Changes(history[n], history[At(all[i])], all[i].item)
    <3>1. all[i] = before[i] /\ \A j \in 1 .. i - 1 : j \in 1 .. b /\ all[j] = before[j]
      BY <1>5, <1>6
    <3>2. \A e : Known(before, i, e) => Known(all, i, e)
      BY <3>1 DEF Known
    <3>3. \A n : Ahead(all, i, n) => Ahead(before, i, n)
      BY <3>1 DEF Ahead
    <3> QED
      BY <2>1, <3>1, <3>2, <3>3 DEF NoGaps, b
  <2>2. ASSUME NEW k \in 1 .. s, sent[k].kind = "event"
        PROVE  /\ Known(all, b + k, epoch)
               /\ \A n \in 1 .. Len(history) : Ahead(all, b + k, n) /\ n < At(sent[k]) =>
                     Changes(history[n], history[At(sent[k])], sent[k].item)
    <3>1. Replays(from)
      BY <1>1, <1>2, <2>2
    <3>2. Known(all, b + k, epoch)
      BY <1>16, <1>17, <3>1
    <3> SUFFICES ASSUME NEW n \in 1 .. Len(history), Ahead(all, b + k, n), n < At(sent[k])
                 PROVE  Changes(history[n], history[At(sent[k])], sent[k].item)
      BY <3>2
    <3>3. n \in Nat /\ place \in Nat /\ At(sent[k]) \in Nat /\ place < At(sent[k])
      BY <1>3, <1>4, <1>10, <1>17, <3>1
    <3>4. Ahead(before, b + 1, n) /\ \A j \in 1 .. k - 1 : At(sent[j]) <= n
      BY <1>14, <3>3
    <3>5. CASE place <= n
      <4>1. n \in place .. At(sent[k]) - 1
        BY <3>3, <3>5
      <4> QED
        BY <1>3, <3>1, <3>4, <4>1
    <3>6. CASE n < place
      <4>1. n \in 1 .. place /\ place \in place .. At(sent[k]) - 1
        BY <3>3, <3>6
      <4>2. history[n] = history[place]
        BY <1>17, <3>1, <3>4, <4>1
      <4>3. \A j \in 1 .. k - 1 : At(sent[j]) <= place
        <5> SUFFICES ASSUME NEW j \in 1 .. k - 1 PROVE At(sent[j]) <= place
          OBVIOUS
        <5>1. At(sent[j]) \in Nat /\ At(sent[j]) <= n
          BY <1>9, <1>10, <3>4
        <5> QED
          BY <3>3, <3>6, <5>1
      <4>4. Changes(history[place], history[At(sent[k])], sent[k].item)
        BY <1>3, <3>1, <4>1, <4>3
      <4> QED
        BY <4>2, <4>4
    <3> QED
      BY <3>3, <3>5, <3>6
  <2>3. ASSUME NEW i \in 1 .. b + s, all[i].kind = "event"
        PROVE  /\ Known(all, i, all[i].epoch)
               /\ \A n \in 1 .. Len(history) : Ahead(all, i, n) /\ n < At(all[i]) =>
                     Changes(history[n], history[At(all[i])], all[i].item)
    <3>1. CASE i \in 1 .. b
      BY <2>1, <2>3, <3>1
    <3>2. CASE i \notin 1 .. b
      <4>1. PICK k \in 1 .. s : i = b + k
        BY <1>8, <3>2
      <4>2. all[i] = sent[k] /\ sent[k].epoch = epoch
        BY <1>1, <1>7, <4>1
      <4> QED
        BY <2>2, <2>3, <4>1, <4>2
    <3> QED
      BY <3>1, <3>2
  <2> QED
    BY <1>5, <2>3 DEF NoGaps
<1>19. CaughtUp(all, Len(history))
  <2>1. Known(all, b + s + 1, epoch)
    <3>1. CASE Replays(from)
      BY <1>16, <1>17, <3>1
    <3>2. CASE ~Replays(from)
      <4>1. 1 \in 1 .. s /\ sent[1].kind = "snapshot" /\ sent[1].epoch = epoch
        BY <1>1, <1>2, <3>2
      <4> QED
        BY <1>7, <1>9, <4>1 DEF Known
    <3> QED
      BY <3>1, <3>2
  <2>2. Ahead(all, b + s + 1, Len(history))
    <3>1. \A j \in 1 .. b + s : Says(all[j]) => At(all[j]) <= Len(history)
      BY <1>6, <1>7, <1>8, <1>10, <1>11
    <3>2. View <= Len(history)
      BY <1>4
    <3> QED
      BY <1>9, <3>1, <3>2 DEF Ahead
  <2>3. ASSUME NEW n \in 1 .. Len(history), Ahead(all, b + s + 1, n)
        PROVE  history[n] = history[Len(history)]
    <3>1. n \in Nat /\ n <= Len(history) /\ Len(history) \in Nat
      BY <1>4
    <3>2. Ahead(before, b + 1, n) /\ \A j \in 1 .. s : At(sent[j]) <= n
      BY <1>15, <2>3, <3>1
    <3>3. CASE ~Replays(from)
      <4>1. 1 \in 1 .. s
        BY <1>2, <3>3
      <4>2. Len(history) <= n
        BY <1>2, <3>2, <3>3, <4>1
      <4>3. n = Len(history)
        BY <3>1, <4>2
      <4> QED
        BY <4>3
    <3>4. CASE Replays(from) /\ place <= n
      <4>1. n \in place .. Len(history)
        BY <1>17, <3>1, <3>4
      <4> QED
        BY <1>3, <3>2, <3>4, <4>1
    <3>5. CASE Replays(from) /\ n < place
      <4>1. n \in 1 .. place /\ place \in place .. Len(history) /\ place \in Nat
        BY <1>17, <3>1, <3>5
      <4>2. history[n] = history[place]
        BY <1>17, <3>2, <3>5, <4>1
      <4>3. \A j \in 1 .. s : At(sent[j]) <= place
        <5> SUFFICES ASSUME NEW j \in 1 .. s PROVE At(sent[j]) <= place
          OBVIOUS
        <5>1. At(sent[j]) \in Nat /\ At(sent[j]) <= n
          BY <1>10, <3>2
        <5> QED
          BY <3>1, <3>5, <4>1, <5>1
      <4>4. history[place] = history[Len(history)]
        BY <1>3, <3>5, <4>1, <4>3
      <4> QED
        BY <4>2, <4>4
    <3>6. Replays(from) => place \in Nat
      BY <1>4, <1>17
    <3> QED
      BY <3>1, <3>3, <3>4, <3>5, <3>6
  <2> QED
    BY <1>5, <2>1, <2>2, <2>3 DEF CaughtUp
<1>20. \A i \in 1 .. Len(all) : Says(all[i]) => all[i].epoch = epoch
  <2>1. \A i \in 1 .. b : Says(before[i]) => before[i].epoch = epoch
    BY DEF b
  <2> SUFFICES ASSUME NEW i \in 1 .. b + s, Says(all[i]) PROVE all[i].epoch = epoch
    BY <1>5
  <2>2. CASE i \in 1 .. b
    BY <1>6, <2>1, <2>2
  <2>3. CASE i \notin 1 .. b
    BY <1>1, <1>7, <1>8, <2>3
  <2> QED
    BY <2>2, <2>3
<1> QED
  BY <1>5, <1>13, <1>18, <1>19, <1>20 DEF all, sent

-----------------------------------------------------------------------------
(* No frames weigh nothing, and a frame that is taken away adds no weight.    *)
LEMMA LoadTail ==
    /\ Load(<<>>) = 0
    /\ \A frames \in Seq(DownFrame) : frames # <<>> => \A cap \in Nat :
          Load(frames) <= cap => Load(Tail(frames)) <= cap
<1>1. Load(<<>>) = 0
  BY FS_EmptySet DEF Load
<1>2. ASSUME NEW frames \in Seq(DownFrame), frames # <<>>, NEW cap \in Nat, Load(frames) <= cap
      PROVE  Load(Tail(frames)) <= cap
  <2> DEFINE rest == Tail(frames)
             loud == {i \in DOMAIN frames : frames[i].kind # "hello"}
             left == {i \in DOMAIN rest : rest[i].kind # "hello"}
             shift == [i \in left |-> i + 1]
  <2>1. /\ DOMAIN frames = 1 .. Len(frames) /\ DOMAIN rest = 1 .. Len(rest)
        /\ Len(frames) \in Nat /\ Len(rest) \in Nat /\ Len(rest) = Len(frames) - 1
        /\ \A i \in 1 .. Len(rest) : rest[i] = frames[i + 1]
    BY <1>2, HeadTailProperties
  <2> HIDE DEF rest
  <2>2. \A i \in 1 .. Len(rest) : i + 1 \in 1 .. Len(frames) /\ i \in Nat
    BY <2>1
  <2>3. shift \in Injection(left, loud)
    BY <2>1, <2>2 DEF Injection, IsInjective
  <2>4. IsFiniteSet(1 .. Len(frames))
    <3>1. \A n \in Nat : IsFiniteSet(1 .. n)
      BY FS_Interval
    <3> QED
      BY <2>1, <3>1
  <2>5. loud \in SUBSET (1 .. Len(frames))
    BY <2>1
  <2>6. IsFiniteSet(loud) /\ Cardinality(loud) \in Nat
    BY <2>4, <2>5, FS_Subset, FS_CardinalityType
  <2> HIDE DEF shift, left, loud
  <2>7. IsFiniteSet(left) /\ Cardinality(left) <= Cardinality(loud)
    BY <2>3, <2>6, FS_Injection
  <2>8. Cardinality(left) \in Nat
    BY <2>7, FS_CardinalityType
  <2>9. Load(frames) = Cardinality(loud) /\ Load(Tail(frames)) = Cardinality(left)
    BY DEF Load, loud, left, rest
  <2> QED
    BY <1>2, <2>6, <2>7, <2>8, <2>9
<1> QED
  BY <1>1, <1>2

(* No frames are in order.                                                   *)
LEMMA NoFrames == InOrder(<<>>) /\ NoGaps(<<>>)
BY DEF InOrder, NoGaps

(* What stays true of the desktop while it does nothing but note numbers.     *)
LEMMA Still ==
    ASSUME SyncInv, UNCHANGED <<state, epoch, currentSeq, droppedThrough, events, history, base>>,
           acknowledgements' \in [Clients -> 0 .. currentSeq]
    PROVE  /\ LogInv' /\ HistoryOK' /\ EventsOK'
           /\ \A c : (Reached(c)' <=> Reached(c)) /\ At(c)' = At(c)
<1>1. LogInv'
  BY DEF SyncInv, LogInv, LogTypeOK, Contiguous, RetentionBounded
<1>2. HistoryOK'
  BY DEF SyncInv, HistoryOK
<1>3. EventsOK'
  BY DEF SyncInv, EventsOK
<1>4. \A c : (Reached(c)' <=> Reached(c)) /\ At(c)' = At(c)
  BY DEF Reached, At, End
<1> QED
  BY <1>1, <1>2, <1>3, <1>4

(* What stays true of frames and of the phone while neither the history nor    *)
(* what the phone shows changes.                                             *)
LEMMA StillFrames ==
    ASSUME UNCHANGED <<epoch, history, base, cursor>>, NEW frames
    PROVE  /\ View' = View
           /\ InOrder(frames) => InOrder(frames)'
           /\ NoGaps(frames) => NoGaps(frames)'
           /\ \A place : CaughtUp(frames, place) => CaughtUp(frames, place)'
<1>1. View' = View
  BY DEF View
<1>2. \A c : (Reached(c)' <=> Reached(c)) /\ At(c)' = At(c)
  BY DEF Reached, At, End
<1>3. InOrder(frames) => InOrder(frames)'
  BY <1>1, <1>2 DEF InOrder
<1>4. \A i, n : Ahead(frames, i, n)' <=> Ahead(frames, i, n)
  BY <1>1, <1>2 DEF Ahead
<1>5. \A i, e : Known(frames, i, e)' <=> Known(frames, i, e)
  BY DEF Known
<1>6. NoGaps(frames) => NoGaps(frames)'
  BY <1>2, <1>4, <1>5 DEF NoGaps
<1>7. \A place : CaughtUp(frames, place) => CaughtUp(frames, place)'
  BY <1>4, <1>5 DEF CaughtUp
<1> QED
  BY <1>1, <1>3, <1>6, <1>7

(* The phone stands still while the desktop's history does.                  *)
LEMMA StillPhone ==
    ASSUME PhoneOK, UNCHANGED <<epoch, history, base, phone>>
    PROVE  PhoneOK'
BY DEF PhoneOK, phone, Reached, At, End, View

(* A burst that brings the phone to now is sent whole, or the session ends.    *)
LEMMA SendKeeps ==
    ASSUME SyncInv, NEW frames, session # "none", Send(frames),
           down \o frames \in Seq(DownFrame), InOrder(down \o frames), NoGaps(down \o frames),
           \A i \in 1 .. Len(down \o frames) :
              Says((down \o frames)[i]) => (down \o frames)[i].epoch = epoch,
           CaughtUp(down \o frames, Len(history)),
           UNCHANGED <<state, epoch, currentSeq, droppedThrough, events, history, base>>,
           UNCHANGED <<lingering, phone, breaks, refused>>,
           syncQueued' \in BOOLEAN, up' \in Seq(UpFrame),
           \A i \in 1 .. Len(up') :
              up'[i].kind = "ack" /\ up'[i].cursor.epoch = epoch /\ up'[i].cursor.seq <= currentSeq
    PROVE  SyncInv'
<1> PICK all : all = down \o frames
  OBVIOUS
<1>1. /\ all \in Seq(DownFrame) /\ InOrder(all) /\ NoGaps(all) /\ CaughtUp(all, Len(history))
      /\ \A i \in 1 .. Len(all) : Says(all[i]) => all[i].epoch = epoch
  OBVIOUS
<1>2. /\ base[epoch] \in Nat /\ currentSeq \in Nat /\ Len(history) = base[epoch] + currentSeq
      /\ acknowledgements \in [Clients -> 0 .. currentSeq]
  BY Places DEF SyncInv, LogInv, LogTypeOK
<1>3. acknowledgements' \in [Clients -> 0 .. currentSeq]
  BY <1>2 DEF Send
<1>4. LogInv' /\ HistoryOK' /\ EventsOK'
  BY <1>3, Still
<1>5. PhoneOK'
  BY StillPhone DEF SyncInv
<1>6. socket = "open" /\ socket # "down"
  BY DEF SyncInv, SessionOK
<1> PICK sent : sent = down'
  OBVIOUS
<1>7. /\ InOrder(sent) => InOrder(sent)'
      /\ NoGaps(sent) => NoGaps(sent)'
      /\ \A place : CaughtUp(sent, place) => CaughtUp(sent, place)'
  BY StillFrames DEF phone
<1>8. NeverRefused'
  BY DEF SyncInv, NeverRefused
<1>9. CASE Load(all) <= QueueCap
  <2>1. /\ sent = all /\ session' = "connected" /\ lastSentSeq' = currentSeq
        /\ socket' = socket
    BY <1>9 DEF Send
  <2>2. TypeOK'
    <3>1. lastSentSeq' \in 0 .. currentSeq'
      BY <1>2, <2>1
    <3> QED
      BY <1>1, <1>4, <1>9, <2>1, <3>1 DEF SyncInv, TypeOK, LogInv, phone
  <2>3. SessionOK'
    BY <1>6, <2>1 DEF SessionOK
  <2>4. FramesOK'
    BY <1>1, <1>7, <2>1 DEF FramesOK
  <2>5. StreamOK'
    BY <1>1, <1>2, <1>7, <2>1 DEF StreamOK
  <2> QED
    BY <1>4, <1>5, <1>8, <2>2, <2>3, <2>4, <2>5 DEF SyncInv
<1>10. CASE ~(Load(all) <= QueueCap)
  <2>1. PICK k \in 0 .. Len(all) : Load(SubSeq(all, 1, k)) <= QueueCap /\ down' = SubSeq(all, 1, k)
    BY <1>10 DEF Send, CloseSocket
  <2>2. socket' = "closing" /\ session' = "none" /\ lastSentSeq' = 0
    BY <1>10 DEF Send, CloseSocket, EndSession
  <2>3. sent \in Seq(DownFrame) /\ InOrder(sent) /\ NoGaps(sent) /\ Load(sent) <= QueueCap
    BY <1>1, <2>1, Prefix
  <2>4. TypeOK'
    <3>1. lastSentSeq' \in 0 .. currentSeq'
      BY <1>2, <2>2
    <3> QED
      BY <1>4, <2>2, <2>3, <3>1 DEF SyncInv, TypeOK, LogInv, phone
  <2>5. SessionOK' /\ StreamOK'
    BY <2>2 DEF SessionOK, StreamOK
  <2>6. FramesOK'
    BY <1>7, <2>2, <2>3 DEF FramesOK
  <2> QED
    BY <1>4, <1>5, <1>8, <2>4, <2>5, <2>6 DEF SyncInv
<1> QED
  BY <1>9, <1>10

-----------------------------------------------------------------------------
(* What the desktop notes about acknowledgements disturbs nothing.           *)
LEMMA NoteKeeps ==
    ASSUME SyncInv,
           UNCHANGED <<state, epoch, currentSeq, droppedThrough, events, history, base>>,
           acknowledgements' \in [Clients -> 0 .. currentSeq],
           UNCHANGED <<session, lastSentSeq, socket, down, phone, breaks, refused>>,
           syncQueued' \in BOOLEAN, lingering' \in BOOLEAN, up' \in Seq(UpFrame),
           session = "attached" => up' = up,
           session = "connected" => \A i \in 1 .. Len(up') :
              up'[i].kind = "ack" /\ up'[i].cursor.epoch = epoch /\ up'[i].cursor.seq <= currentSeq
    PROVE  SyncInv'
<1>1. LogInv' /\ HistoryOK' /\ EventsOK'
  BY Still
<1>2. PhoneOK'
  BY StillPhone DEF SyncInv
<1>3. TypeOK'
  BY <1>1 DEF SyncInv, TypeOK, LogInv, phone
<1>4. SessionOK'
  <2>1. View' = View /\ \A c : (Reached(c)' <=> Reached(c)) /\ At(c)' = At(c)
    BY Still DEF View, phone
  <2>2. SessionOK /\ UNCHANGED <<cursor, session, socket, down, epoch, currentSeq>>
    BY DEF SyncInv, phone
  <2> QED
    BY <2>1, <2>2 DEF SessionOK
<1>5. FramesOK' /\ StreamOK'
  <2> PICK sent : sent = down
    OBVIOUS
  <2>1. /\ InOrder(sent) => InOrder(sent)'
        /\ NoGaps(sent) => NoGaps(sent)'
        /\ \A place : CaughtUp(sent, place) => CaughtUp(sent, place)'
    BY StillFrames DEF phone
  <2>2. FramesOK /\ StreamOK /\ down' = sent
    BY DEF SyncInv
  <2> QED
    BY <2>1, <2>2 DEF FramesOK, StreamOK
<1>6. NeverRefused'
  BY DEF SyncInv, NeverRefused
<1> QED
  BY <1>1, <1>2, <1>3, <1>4, <1>5, <1>6 DEF SyncInv

(* The queued microtask: the stream goes on where it is, without a gap.      *)
LEMMA SynchronizeKeeps == ASSUME SyncInv, Synchronize PROVE SyncInv'
<1>1. /\ UNCHANGED <<state, epoch, currentSeq, droppedThrough, events, history, base>>
      /\ UNCHANGED <<lingering, phone, breaks, refused>>
      /\ syncQueued' = FALSE
  BY DEF Synchronize
<1>2. CASE session = "connected"
  <2> DEFINE from == [epoch |-> epoch, seq |-> lastSentSeq]
             frames == SynchronizationFrames(from)
  <2>1. from \in Cursor /\ from.seq = lastSentSeq
    BY EventLogAssumption DEF SyncInv, TypeOK, LogTypeOK, Cursor
  <2>2. Send(frames) /\ up' = up
    BY <1>2 DEF Synchronize
  <2>3. CaughtUp(down, base[epoch] + lastSentSeq)
    BY <1>2 DEF SyncInv, StreamOK
  <2> HIDE DEF from
  <2>4. Linked(down, base[epoch] + from.seq)
    <3>1. \A j \in 1 .. Len(down) : j \in 1 .. (Len(down) + 1) - 1
      BY LenProperties DEF SyncInv, TypeOK
    <3> QED
      BY <2>1, <2>3, <3>1 DEF CaughtUp, Linked, Ahead
  <2>5. /\ down \in Seq(DownFrame) /\ InOrder(down) /\ NoGaps(down)
        /\ \A i \in 1 .. Len(down) : Says(down[i]) => down[i].epoch = epoch
    BY <1>2 DEF SyncInv, TypeOK, FramesOK
  <2>6. /\ down \o frames \in Seq(DownFrame) /\ InOrder(down \o frames) /\ NoGaps(down \o frames)
        /\ \A i \in 1 .. Len(down \o frames) :
              Says((down \o frames)[i]) => (down \o frames)[i].epoch = epoch
        /\ CaughtUp(down \o frames, Len(history))
    BY <2>1, <2>4, <2>5, Extends
  <2>7. up' \in Seq(UpFrame) /\ \A i \in 1 .. Len(up') :
           up'[i].kind = "ack" /\ up'[i].cursor.epoch = epoch /\ up'[i].cursor.seq <= currentSeq
    BY <1>2, <2>2 DEF SyncInv, TypeOK, SessionOK
  <2> HIDE DEF frames
  <2> QED
    BY <1>1, <1>2, <2>2, <2>6, <2>7, SendKeeps
<1>3. CASE session # "connected"
  <2>1. UNCHANGED <<session, lastSentSeq, wire, acknowledgements>>
    BY <1>3 DEF Synchronize
  <2>2. acknowledgements' \in [Clients -> 0 .. currentSeq] /\ up' \in Seq(UpFrame) /\ lingering' \in BOOLEAN
    BY <1>1, <2>1 DEF SyncInv, LogInv, LogTypeOK, TypeOK, wire
  <2> QED
    BY <1>1, <1>3, <2>1, <2>2, NoteKeeps DEF wire
<1> QED
  BY <1>2, <1>3

(* A hello starts the stream at a cursor that is not ahead of what the phone   *)
(* shows, so that what is sent leads on from there.                          *)
LEMMA ReceiveHelloKeeps == ASSUME SyncInv, ReceiveHello PROVE SyncInv'
<1> DEFINE from == Head(up).cursor
           hello == <<Hello>>
           frames == hello \o SynchronizationFrames(from)
<1>1. /\ UNCHANGED <<state, epoch, currentSeq, droppedThrough, events, history, base>>
      /\ UNCHANGED <<lingering, phone, breaks, refused>>
      /\ syncQueued' = syncQueued /\ session = "attached" /\ up' = Tail(up)
      /\ Send(frames) /\ up # <<>>
  BY DEF ReceiveHello
<1>2. /\ down = <<>> /\ Len(up) = 1
      /\ \/ from = NoCursor
         \/ cursor # NoCursor /\ Reached(from) /\ At(from) <= View
  <2>1. up \in Seq(UpFrame) /\ Head(up) = up[1]
    BY <1>1 DEF SyncInv, TypeOK
  <2> QED
    BY <1>1, <2>1 DEF SyncInv, SessionOK
<1>3. from \in Cursor \cup {NoCursor} /\ up' \in Seq(UpFrame) /\ Len(up') = 0
  <2>1. up \in Seq(UpFrame)
    BY DEF SyncInv, TypeOK
  <2>2. Head(up) \in UpFrame /\ Tail(up) \in Seq(UpFrame) /\ Len(Tail(up)) = Len(up) - 1
    BY <1>1, <2>1, HeadTailProperties
  <2> QED
    BY <1>1, <1>2, <2>2 DEF UpFrame
<1> HIDE DEF from
<1>4. Hello \in DownFrame /\ ~Says(Hello) /\ Hello.kind = "hello"
  <2>1. Blank \in States
    BY CompanionSyncAssumption, EventLogAssumption DEF Blank, States
  <2> QED
    BY <2>1, CompanionSyncAssumption, EventLogAssumption DEF Hello, DownFrame, SyncInv, TypeOK, Says
<1>5. hello \in Seq(DownFrame) /\ Len(hello) = 1 /\ hello[1] = Hello
  BY <1>4
<1> HIDE DEF hello
<1>6. \A i \in 1 .. Len(hello) : hello[i] = Hello
  BY <1>5
<1>7. InOrder(hello) /\ NoGaps(hello)
  BY <1>4, <1>6 DEF InOrder, NoGaps
<1>8. ASSUME Replays(from) PROVE Linked(hello, base[epoch] + from.seq)
  <2>1. from.epoch = epoch /\ epoch \in Nat /\ epoch # 0 /\ base[epoch] \in Nat
    BY <1>8, Places DEF Replays, SyncInv
  <2>2. from # NoCursor
    BY <2>1 DEF NoCursor
  <2>3. /\ cursor # NoCursor /\ Reached(from) /\ At(from) <= View /\ from.seq \in Nat
        /\ At(from) = base[epoch] + from.seq
    BY <1>2, <1>3, <2>1, <2>2 DEF Cursor, At
  <2>4. View = At(cursor) /\ View \in Nat /\ cursor.seq \in Nat /\ Reached(cursor)
    BY <2>3, ViewIsThere, Places DEF Cursor, SyncInv, PhoneOK
  <2>5. base[epoch] <= At(cursor)
    BY <2>1, <2>3, <2>4
  <2>6. cursor.epoch = epoch
    BY <2>4, <2>5, ReachedIsThere DEF SyncInv
  <2>7. \A n \in 1 .. At(from) : View <= n => n = At(from)
    BY <2>1, <2>3, <2>4
  <2> QED
    BY <1>4, <1>6, <2>3, <2>6, <2>7 DEF Linked, Known, Ahead
<1>9. /\ frames \in Seq(DownFrame) /\ InOrder(frames) /\ NoGaps(frames)
      /\ \A i \in 1 .. Len(frames) : Says(frames[i]) => frames[i].epoch = epoch
      /\ CaughtUp(frames, Len(history))
  BY <1>3, <1>4, <1>5, <1>6, <1>7, <1>8, Extends
<1> HIDE DEF frames
<1>10. down \o frames = frames
  BY <1>2, <1>9
<1>11. syncQueued' \in BOOLEAN /\ session # "none"
  BY <1>1 DEF SyncInv, TypeOK
<1>12. \A i \in 1 .. Len(up') :
          up'[i].kind = "ack" /\ up'[i].cursor.epoch = epoch /\ up'[i].cursor.seq <= currentSeq
  BY <1>3
<1> QED
  BY <1>1, <1>3, <1>9, <1>10, <1>11, <1>12, SendKeeps

(* What the phone acknowledges is always of this epoch and in the log.       *)
LEMMA ReceiveAckKeeps == ASSUME SyncInv, ReceiveAck PROVE SyncInv'
<1> DEFINE ack == Head(up).cursor
<1>1. session = "connected" /\ up # <<>> /\ up' = Tail(up) /\ up \in Seq(UpFrame)
  BY DEF ReceiveAck, SyncInv, TypeOK
<1>2. /\ up' \in Seq(UpFrame) /\ Len(up') = Len(up) - 1 /\ Len(up) \in Nat /\ Len(up) # 0
      /\ \A i \in 1 .. Len(up') : up'[i] = up[i + 1]
      /\ Head(up) = up[1] /\ Head(up) \in UpFrame
  BY <1>1, HeadTailProperties, EmptySeq, LenProperties
<1>3. \A i \in 1 .. Len(up) :
         up[i].kind = "ack" /\ up[i].cursor.epoch = epoch /\ up[i].cursor.seq <= currentSeq
  BY <1>1 DEF SyncInv, SessionOK
<1>4. \A i \in 1 .. Len(up') : i + 1 \in 1 .. Len(up)
  BY <1>2
<1>5. 1 \in 1 .. Len(up)
  BY <1>2
<1>6. ack.epoch = epoch /\ ack.seq <= currentSeq
  BY <1>2, <1>3, <1>5
<1>7. ack.seq \in 0 .. MaxSeq
  <2>1. ack \in Cursor \cup {NoCursor}
    BY <1>2 DEF UpFrame
  <2> QED
    BY <2>1, EventLogAssumption DEF Cursor, NoCursor
<1>8. /\ Acknowledge("phone", ack.seq)
      /\ UNCHANGED <<session, lastSentSeq, socket, down, refused>>
      /\ UNCHANGED <<state, epoch, history, base, syncQueued, lingering, phone, breaks>>
  BY <1>6 DEF ReceiveAck
<1> HIDE DEF ack
<1>9. acknowledgements' \in [Clients -> 0 .. currentSeq] /\ UNCHANGED <<currentSeq, droppedThrough, events>>
  <2>1. UNCHANGED <<currentSeq, droppedThrough, events>>
    BY <1>8 DEF Acknowledge
  <2>2. LogInv'
    BY <1>7, <1>8, CompanionSyncAssumption, AcknowledgeLogInv DEF SyncInv
  <2> QED
    BY <2>1, <2>2 DEF LogInv, LogTypeOK
<1>10. \A i \in 1 .. Len(up') :
          up'[i].kind = "ack" /\ up'[i].cursor.epoch = epoch /\ up'[i].cursor.seq <= currentSeq
  BY <1>2, <1>3, <1>4
<1>11. syncQueued' \in BOOLEAN /\ lingering' \in BOOLEAN
  BY <1>8 DEF SyncInv, TypeOK
<1> QED
  BY <1>1, <1>2, <1>8, <1>9, <1>10, <1>11, NoteKeeps

(* Noticing a dead connection forgets an acknowledgement, no more.           *)
LEMMA NoticeDeadKeeps == ASSUME SyncInv, NoticeDead PROVE SyncInv'
<1>1. acknowledgements' \in [Clients -> 0 .. currentSeq] /\ UNCHANGED <<currentSeq, droppedThrough, events>>
  <2>1. UNCHANGED <<currentSeq, droppedThrough, events>>
    BY DEF NoticeDead, DropClient
  <2>2. 0 \in 0 .. MaxSeq /\ DropClient("phone")
    BY EventLogAssumption DEF NoticeDead
  <2>3. LogInv'
    BY <2>2, CompanionSyncAssumption, AcknowledgeLogInv DEF SyncInv
  <2> QED
    BY <2>1, <2>3 DEF LogInv, LogTypeOK
<1>2. /\ UNCHANGED <<state, epoch, history, base, syncQueued, session, lastSentSeq>>
      /\ UNCHANGED <<wire, phone, breaks, refused>>
      /\ lingering' = FALSE
  BY DEF NoticeDead
<1>3. syncQueued' \in BOOLEAN /\ up' \in Seq(UpFrame)
  BY <1>2 DEF SyncInv, TypeOK, wire
<1>4. session = "connected" => \A i \in 1 .. Len(up') :
         up'[i].kind = "ack" /\ up'[i].cursor.epoch = epoch /\ up'[i].cursor.seq <= currentSeq
  BY <1>2 DEF SyncInv, SessionOK, wire
<1> QED
  BY <1>1, <1>2, <1>3, <1>4, NoteKeeps DEF wire

-----------------------------------------------------------------------------
(* A connection that begins or ends has nothing on its way to the phone.     *)
LEMMA CutKeeps ==
    ASSUME SyncInv, UNCHANGED <<desktop, refused>>,
           breaks' \in 0 .. MaxBreaks, lingering' \in BOOLEAN, down' = <<>>,
           session' \in {"none", "attached"}, lastSentSeq' \in 0 .. currentSeq,
           socket' \in {"down", "open"}, socket' = "open" <=> session' # "none",
           up' \in Seq(UpFrame), cursor' \in Cursor \cup {NoCursor},
           ackCursor' \in Cursor \cup {NoCursor}, replica' \in States, PhoneOK',
           (session = "attached" =>
              /\ Len(up) = 1 /\ up[1].kind = "hello"
              /\ \/ up[1].cursor = NoCursor
                 \/ cursor # NoCursor /\ Reached(up[1].cursor) /\ At(up[1].cursor) <= View)'
    PROVE  SyncInv'
<1>1. UNCHANGED <<state, epoch, currentSeq, droppedThrough, events, history, base, syncQueued, acknowledgements>>
  BY DEF desktop
<1>2. acknowledgements' \in [Clients -> 0 .. currentSeq]
  BY <1>1 DEF SyncInv, LogInv, LogTypeOK
<1>3. LogInv' /\ HistoryOK' /\ EventsOK'
  BY <1>1, <1>2, Still
<1>4. TypeOK'
  <2>1. Load(down') <= QueueCap
    BY LoadTail, CompanionSyncAssumption
  <2> QED
    BY <1>1, <1>3, <2>1 DEF SyncInv, TypeOK, LogInv
<1>5. SessionOK'
  BY DEF SessionOK
<1>6. FramesOK' /\ StreamOK'
  BY DEF FramesOK, StreamOK, InOrder, NoGaps
<1>7. NeverRefused'
  BY DEF SyncInv, NeverRefused
<1> QED
  BY <1>3, <1>4, <1>5, <1>6, <1>7 DEF SyncInv

(* The phone reads that the connection was closed, when nothing is left.     *)
LEMMA SeesCloseKeeps == ASSUME SyncInv, PhoneSeesClose PROVE SyncInv'
<1>1. /\ UNCHANGED <<desktop, stream, phone, breaks, refused>>
      /\ socket = "closing" /\ socket' = "down" /\ down = <<>> /\ down' = <<>> /\ up' = <<>>
  BY DEF PhoneSeesClose
<1>2. session = "none"
  BY <1>1 DEF SyncInv, SessionOK
<1>3. PhoneOK'
  BY <1>1, StillPhone DEF SyncInv, desktop
<1>4. /\ breaks' \in 0 .. MaxBreaks /\ lingering' \in BOOLEAN /\ lastSentSeq' \in 0 .. currentSeq
      /\ cursor' \in Cursor \cup {NoCursor} /\ ackCursor' \in Cursor \cup {NoCursor} /\ replica' \in States
      /\ session' = "none" /\ up' \in Seq(UpFrame)
  BY <1>1, <1>2 DEF SyncInv, TypeOK, stream, phone
<1> QED
  BY <1>1, <1>3, <1>4, CutKeeps

(* The phone connects with a cursor that is not ahead of what it shows.      *)
LEMMA ConnectKeeps == ASSUME SyncInv, Connect PROVE SyncInv'
<1>1. PICK from \in {cursor, ackCursor} :
         ackCursor' = from /\ up' = <<[kind |-> "hello", cursor |-> from]>>
  BY DEF Connect
<1>2. /\ socket = "down" /\ socket' = "open" /\ session' = "attached" /\ lastSentSeq' = 0
      /\ UNCHANGED <<desktop, lingering, down, cursor, replica, breaks, refused>>
  BY DEF Connect
<1>3. /\ from \in Cursor \cup {NoCursor}
      /\ from # NoCursor => cursor # NoCursor /\ Reached(from) /\ At(from) <= View
  <2>1. PhoneOK /\ cursor \in Cursor \cup {NoCursor} /\ ackCursor \in Cursor \cup {NoCursor}
    BY DEF SyncInv, TypeOK
  <2>2. cursor # NoCursor => View = At(cursor) /\ View \in Nat
    BY ViewIsThere, Places DEF SyncInv
  <2> QED
    BY <2>1, <2>2 DEF PhoneOK
<1>4. View' = View /\ \A c : (Reached(c)' <=> Reached(c)) /\ At(c)' = At(c)
  <2>1. UNCHANGED <<epoch, history, base, cursor>>
    BY <1>2 DEF desktop
  <2> QED
    BY <2>1 DEF View, Reached, At, End
<1>5. PhoneOK'
  <2>1. PhoneOK /\ UNCHANGED <<cursor, replica, history>>
    BY <1>2 DEF SyncInv, desktop
  <2> QED
    BY <1>1, <1>3, <1>4, <2>1 DEF PhoneOK
<1>6. up' \in Seq(UpFrame)
  BY <1>1, <1>3 DEF UpFrame
<1>7. /\ breaks' \in 0 .. MaxBreaks /\ lingering' \in BOOLEAN /\ lastSentSeq' \in 0 .. currentSeq
      /\ cursor' \in Cursor \cup {NoCursor} /\ ackCursor' \in Cursor \cup {NoCursor} /\ replica' \in States
      /\ down' = <<>>
  BY <1>1, <1>2, <1>3, EventLogAssumption DEF SyncInv, TypeOK, LogTypeOK, SessionOK
<1>8. (session = "attached" =>
              /\ Len(up) = 1 /\ up[1].kind = "hello"
              /\ \/ up[1].cursor = NoCursor
                 \/ cursor # NoCursor /\ Reached(up[1].cursor) /\ At(up[1].cursor) <= View)'
  <2>1. Len(up') = 1 /\ up'[1].kind = "hello" /\ up'[1].cursor = from /\ cursor' = cursor
    BY <1>1, <1>2
  <2> QED
    BY <1>3, <1>4, <2>1
<1> QED
  BY <1>2, <1>5, <1>6, <1>7, <1>8, CutKeeps

(* A connection breaks, and may take the app with it.                        *)
LEMMA LostKeeps == ASSUME SyncInv, Break \/ Relaunch PROVE SyncInv'
<1>1. /\ breaks < MaxBreaks /\ breaks' = breaks + 1 /\ socket' = "down" /\ down' = <<>> /\ up' = <<>>
      /\ session' = "none" /\ lastSentSeq' = 0 /\ lingering' = (lingering \/ session # "none")
      /\ UNCHANGED <<desktop, refused>>
  BY DEF Break, Relaunch, Lost, EndSession
<1>2. /\ breaks' \in 0 .. MaxBreaks /\ lingering' \in BOOLEAN /\ lastSentSeq' \in 0 .. currentSeq
      /\ up' \in Seq(UpFrame)
  BY <1>1, CompanionSyncAssumption, EventLogAssumption DEF SyncInv, TypeOK, LogTypeOK
<1>3. CASE UNCHANGED phone
  <2>1. PhoneOK'
    BY <1>1, <1>3, StillPhone DEF SyncInv, desktop
  <2>2. /\ cursor' \in Cursor \cup {NoCursor} /\ ackCursor' \in Cursor \cup {NoCursor}
        /\ replica' \in States
    BY <1>3 DEF SyncInv, TypeOK, phone
  <2> QED
    BY <1>1, <1>2, <2>1, <2>2, CutKeeps
<1>4. CASE cursor' = NoCursor /\ ackCursor' = NoCursor /\ replica' = Blank
  <2>1. PhoneOK'
    BY <1>4 DEF PhoneOK, Blank
  <2>2. replica' \in States
    BY <1>4, CompanionSyncAssumption, EventLogAssumption DEF Blank, States
  <2> QED
    BY <1>1, <1>2, <1>4, <2>1, <2>2, CutKeeps
<1> QED
  BY <1>3, <1>4 DEF Break, Relaunch

-----------------------------------------------------------------------------
(* What the phone shows after a frame is not older than before, and is what    *)
(* the frame said if it was new.                                            *)
LEMMA Applied ==
    ASSUME SyncInv, PhoneReceives, NEW f, f = down[1], f \in DownFrame, 1 \in 1 .. Len(down)
    PROVE  /\ UNCHANGED <<history, base, epoch, currentSeq>>
           /\ cursor' \in Cursor \cup {NoCursor} /\ replica' \in States
           /\ View' \in Nat /\ View \in Nat /\ View <= View'
           /\ Says(f) => At(f) \in Nat /\ At(f) <= View' /\ Reached(f)
           /\ View' = View \/ (Says(f) /\ View' = At(f))
           /\ cursor' # NoCursor => Reached(cursor)'
           /\ replica' = IF cursor' = NoCursor THEN Blank ELSE history[View']
           /\ cursor' = cursor \/ (Says(f) /\ cursor' = [epoch |-> f.epoch, seq |-> f.seq])
           /\ f.kind = "snapshot" => cursor' = [epoch |-> f.epoch, seq |-> f.seq]
<1>1. /\ UNCHANGED <<history, base, epoch, currentSeq>>
      /\ Apply(f) /\ down \in Seq(DownFrame)
  BY DEF PhoneReceives, desktop, SyncInv, TypeOK
<1>2. f.epoch \in 1 .. MaxEpochs /\ f.seq \in 0 .. MaxSeq /\ f.seq \in Nat /\ f.epoch # 0 /\ f.state \in States
  BY EventLogAssumption, CompanionSyncAssumption DEF DownFrame
<1>3. /\ View \in 0 .. Len(history) /\ View \in Nat /\ Len(history) \in Nat
      /\ cursor # NoCursor => View = At(cursor) /\ View >= 1
      /\ cursor = NoCursor => View = 0
  BY ViewIsThere, Places DEF SyncInv
<1>4. Says(f) => Reached(f) /\ At(f) \in 1 .. Len(history) /\ f.state = history[At(f)]
  <2>1. Says(f) => Reached(f) /\ f.state = history[At(f)]
    BY DEF SyncInv, FramesOK, InOrder
  <2> QED
    BY <1>2, <2>1, ReachedIsThere DEF SyncInv
<1>5. Says(f) => At(f) \in Nat /\ At(f) >= 1
  BY <1>3, <1>4
<1> DEFINE c == [epoch |-> f.epoch, seq |-> f.seq]
<1>6. c # NoCursor /\ c \in Cursor /\ c.epoch = f.epoch /\ c.seq = f.seq
  BY <1>2 DEF NoCursor, Cursor
<1>7. ASSUME Says(f), cursor' = c, View <= At(f), replica' = history[At(f)]
      PROVE  /\ cursor' \in Cursor \cup {NoCursor} /\ replica' \in States
             /\ View' = At(f)
             /\ Reached(cursor)'
             /\ replica' = IF cursor' = NoCursor THEN Blank ELSE history[View']
  <2>1. View' = At(f)
    BY <1>1, <1>6, <1>7 DEF View, At
  <2>2. Reached(cursor)'
    BY <1>1, <1>4, <1>6, <1>7 DEF Reached, End
  <2>3. replica' \in States
    BY <1>4, <1>7, <1>2
  <2> QED
    BY <1>6, <1>7, <2>1, <2>2, <2>3
<1>8. CASE f.kind = "snapshot"
  <2>1. Says(f) /\ cursor' = c /\ replica' = f.state
    BY <1>1, <1>8 DEF Apply, Says
  <2>2. View <= At(f)
    BY <1>8 DEF SyncInv, FramesOK, InOrder
  <2> QED
    BY <1>1, <1>3, <1>4, <1>5, <1>7, <2>1, <2>2
<1>9. CASE f.kind = "event" /\ IsNew(f)
  <2>1. /\ Says(f) /\ cursor' = c
        /\ replica' = [replica EXCEPT ![f.item] = f.state[f.item]]
    BY <1>1, <1>9 DEF Apply, Says
  <2>2. cursor # NoCursor /\ cursor.epoch = f.epoch
    <3>1. Known(down, 1, f.epoch)
      BY <1>9 DEF SyncInv, FramesOK, NoGaps
    <3> QED
      BY <3>1 DEF Known
  <2>3. f.seq > cursor.seq /\ cursor.seq \in Nat /\ base[f.epoch] \in Nat /\ At(cursor) = base[f.epoch] + cursor.seq
    <3>1. cursor.seq \in Nat
      BY <2>2 DEF SyncInv, TypeOK, Cursor
    <3>2. base[f.epoch] \in Nat
      BY <1>4, <2>1, Places DEF Reached, SyncInv
    <3> QED
      BY <1>9, <2>2, <3>1, <3>2 DEF IsNew, At
  <2>4. View < At(f) /\ View \in 1 .. Len(history)
    BY <1>2, <1>3, <2>2, <2>3 DEF At
  <2>5. Changes(history[View], history[At(f)], f.item)
    <3>1. Ahead(down, 1, View)
      BY <1>3 DEF Ahead
    <3> QED
      BY <1>9, <2>4, <3>1 DEF SyncInv, FramesOK, NoGaps
  <2>6. f.item \in Items /\ f.item # Private
    BY <1>9 DEF SyncInv, FramesOK, InOrder, Items
  <2>7. replica = history[View]
    BY <2>2 DEF SyncInv, PhoneOK
  <2>8. replica' = history[At(f)]
    BY <1>4, <2>1, <2>5, <2>6, <2>7 DEF Changes
  <2>9. View <= At(f)
    BY <1>3, <1>5, <2>1, <2>4
  <2>10. /\ cursor' \in Cursor \cup {NoCursor} /\ replica' \in States
         /\ View' = At(f)
         /\ Reached(cursor)'
         /\ replica' = IF cursor' = NoCursor THEN Blank ELSE history[View']
    BY <1>7, <2>1, <2>8, <2>9
  <2>11. f.kind # "snapshot" /\ View' \in Nat /\ View <= View'
    BY <1>5, <1>9, <2>1, <2>9, <2>10
  <2>12. At(f) \in Nat /\ At(f) <= View' /\ Reached(f)
    BY <1>4, <1>5, <2>1, <2>10
  <2>13. Says(f) /\ cursor' = [epoch |-> f.epoch, seq |-> f.seq]
    BY <2>1
  <2>14. View \in Nat /\ UNCHANGED <<history, base, epoch, currentSeq>>
    BY <1>1, <1>3
  <2> HIDE DEF c
  <2> QED
    BY <2>10, <2>11, <2>12, <2>13, <2>14
<1>10. CASE f.kind # "snapshot" /\ ~(f.kind = "event" /\ IsNew(f))
  <2>1. cursor' = cursor /\ replica' = replica
    BY <1>1, <1>10 DEF Apply
  <2>2. View' = View
    BY <1>1, <2>1 DEF View
  <2>3. Says(f) => At(f) <= View
    <3> SUFFICES ASSUME Says(f) PROVE At(f) <= View
      OBVIOUS
    <3>1. f.kind = "event" /\ ~IsNew(f)
      BY <1>10 DEF Says, DownFrame
    <3>2. cursor # NoCursor /\ cursor.epoch = f.epoch
      <4>1. Known(down, 1, f.epoch)
        BY <3>1 DEF SyncInv, FramesOK, NoGaps
      <4> QED
        BY <4>1 DEF Known
    <3>3. cursor.seq \in Nat /\ base[f.epoch] \in Nat
      <4>1. cursor.seq \in Nat
        BY <3>2 DEF SyncInv, TypeOK, Cursor
      <4>2. base[f.epoch] \in Nat
        BY <1>4, Places DEF Reached, SyncInv
      <4> QED
        BY <4>1, <4>2
    <3>4. f.seq <= cursor.seq
      BY <1>2, <3>1, <3>2, <3>3 DEF IsNew
    <3> QED
      BY <1>2, <1>3, <3>2, <3>3, <3>4 DEF At
  <2>4. cursor \in Cursor \cup {NoCursor} /\ replica \in States /\ PhoneOK
    BY DEF SyncInv, TypeOK
  <2>5. cursor' # NoCursor => Reached(cursor)'
    BY <1>1, <2>1, <2>4 DEF PhoneOK, Reached, End
  <2> QED
    BY <1>1, <1>3, <1>4, <1>5, <1>10, <2>1, <2>2, <2>3, <2>4, <2>5 DEF PhoneOK
<1> QED
  BY <1>8, <1>9, <1>10

(* After a frame, the frames behind it still make sense to the phone.        *)
LEMMA ReceivesKeeps == ASSUME SyncInv, PhoneReceives PROVE SyncInv' /\ View <= View'
<1> PICK before, rest, f : before = down /\ rest = Tail(down) /\ f = down[1]
  OBVIOUS
<1>1. /\ before \in Seq(DownFrame) /\ Len(before) \in Nat
      /\ rest \in Seq(DownFrame) /\ Len(rest) \in Nat /\ Len(before) = Len(rest) + 1
      /\ \A i \in 1 .. Len(rest) : rest[i] = before[i + 1] /\ i + 1 \in 1 .. Len(before)
      /\ 1 \in 1 .. Len(before) /\ before[1] = f /\ f \in DownFrame /\ Head(down) = f
  <2>1. down \in Seq(DownFrame) /\ down # <<>>
    BY DEF PhoneReceives, SyncInv, TypeOK
  <2>2. /\ Head(down) \in DownFrame /\ Tail(down) \in Seq(DownFrame)
        /\ Len(Tail(down)) = Len(down) - 1
        /\ \A i \in 1 .. Len(Tail(down)) : Tail(down)[i] = down[i + 1]
    BY <2>1, HeadTailProperties
  <2>3. Len(down) \in Nat /\ Len(down) # 0 /\ Head(down) = down[1]
    BY <2>1, EmptySeq
  <2>4. Len(rest) \in Nat
    BY <2>2, LenProperties
  <2> QED
    BY <2>1, <2>2, <2>3, <2>4
<1>2. /\ down' = rest
      /\ UNCHANGED <<desktop, stream, socket, refused>>
      /\ UNCHANGED <<state, epoch, currentSeq, droppedThrough, events, history, base>>
      /\ UNCHANGED <<syncQueued, acknowledgements, session, lastSentSeq, lingering>>
  BY DEF PhoneReceives, desktop, stream
<1>3. /\ cursor' \in Cursor \cup {NoCursor} /\ replica' \in States
      /\ View' \in Nat /\ View \in Nat /\ View <= View'
      /\ Says(f) => At(f) \in Nat /\ At(f) <= View' /\ Reached(f)
      /\ View' = View \/ (Says(f) /\ View' = At(f))
      /\ cursor' # NoCursor => Reached(cursor)'
      /\ replica' = IF cursor' = NoCursor THEN Blank ELSE history[View']
      /\ cursor' = cursor \/ (Says(f) /\ cursor' = [epoch |-> f.epoch, seq |-> f.seq])
      /\ f.kind = "snapshot" => cursor' = [epoch |-> f.epoch, seq |-> f.seq]
  BY <1>1, Applied
<1>4. \A c : (Reached(c)' <=> Reached(c)) /\ At(c)' = At(c)
  BY <1>2 DEF Reached, At, End
<1>5. InOrder(before) /\ NoGaps(before) /\ SessionOK /\ StreamOK /\ TypeOK /\ PhoneOK
  BY DEF SyncInv, FramesOK
<1>6. /\ acknowledgements' \in [Clients -> 0 .. currentSeq]
      /\ f.epoch \in 1 .. MaxEpochs /\ f.epoch # 0 /\ f.seq \in Nat
  BY <1>1, <1>2, EventLogAssumption, CompanionSyncAssumption DEF SyncInv, LogInv, LogTypeOK, DownFrame
<1>7. LogInv' /\ HistoryOK' /\ EventsOK'
  BY <1>2, <1>6, Still
<1>8. \A i \in 1 .. Len(before) : Says(before[i]) => At(before[i]) \in Nat
  <2> SUFFICES ASSUME NEW i \in 1 .. Len(before), Says(before[i]) PROVE At(before[i]) \in Nat
    OBVIOUS
  <2>1. Reached(before[i]) /\ before[i] \in DownFrame
    BY <1>1, <1>5, ElementOfSeq DEF InOrder
  <2>2. before[i].seq \in Nat
    BY <2>1, EventLogAssumption DEF DownFrame
  <2>3. At(before[i]) \in 1 .. Len(history)
    BY <2>1, <2>2, ReachedIsThere DEF SyncInv
  <2> QED
    BY <2>3
<1>9. InOrder(rest)'
  <2>1. \A i \in 1 .. Len(rest) : rest[i].kind = "snapshot" => View' <= At(rest[i])
    <3> SUFFICES ASSUME NEW i \in 1 .. Len(rest), rest[i].kind = "snapshot" PROVE View' <= At(rest[i])
      OBVIOUS
    <3>1. rest[i] = before[i + 1] /\ i + 1 \in 1 .. Len(before) /\ Says(before[i + 1]) /\ 1 < i + 1
      BY <1>1 DEF Says
    <3>2. CASE View' = View
      BY <1>5, <3>1, <3>2 DEF InOrder
    <3>3. CASE Says(f) /\ View' = At(f)
      BY <1>1, <1>5, <3>1, <3>3 DEF InOrder
    <3> QED
      BY <1>3, <3>2, <3>3
  <2>2. /\ \A i \in 1 .. Len(rest) :
             Says(rest[i]) => Reached(rest[i]) /\ rest[i].state = history[At(rest[i])]
        /\ \A i, j \in 1 .. Len(rest) :
             Says(rest[i]) /\ Says(rest[j]) => rest[i].epoch = rest[j].epoch
        /\ \A i \in 1 .. Len(rest) : rest[i].kind = "event" => rest[i].item \in Items
    BY <1>1, <1>5 DEF InOrder
  <2>3. \A i, j \in 1 .. Len(rest) :
             i < j /\ Says(rest[i]) /\ Says(rest[j]) => At(rest[i]) <= At(rest[j])
    <3> SUFFICES ASSUME NEW i \in 1 .. Len(rest), NEW j \in 1 .. Len(rest),
                        i < j, Says(rest[i]), Says(rest[j])
                 PROVE  At(rest[i]) <= At(rest[j])
      OBVIOUS
    <3>1. i + 1 < j + 1
      OBVIOUS
    <3>2. /\ rest[i] = before[i + 1] /\ i + 1 \in 1 .. Len(before)
          /\ rest[j] = before[j + 1] /\ j + 1 \in 1 .. Len(before)
      BY <1>1
    <3> QED
      BY <1>5, <3>1, <3>2 DEF InOrder
  <2> QED
    BY <1>2, <1>4, <2>1, <2>2, <2>3 DEF InOrder
<1>10. \A i \in 1 .. Len(rest) + 1, n \in Nat : Ahead(rest, i, n)' => Ahead(before, i + 1, n)
  <2> SUFFICES ASSUME NEW i \in 1 .. Len(rest) + 1, NEW n \in Nat, Ahead(rest, i, n)'
               PROVE  Ahead(before, i + 1, n)
    OBVIOUS
  <2>1. View' <= n /\ \A j \in 1 .. i - 1 : Says(rest[j]) => At(rest[j]) <= n
    BY <1>4 DEF Ahead
  <2>2. View <= n
    BY <1>3, <2>1
  <2>3. ASSUME NEW j \in 1 .. (i + 1) - 1, Says(before[j]) PROVE At(before[j]) <= n
    <3>1. CASE j = 1
      BY <1>1, <1>3, <2>1, <2>3, <3>1
    <3>2. CASE j # 1
      <4>1. j - 1 \in 1 .. i - 1 /\ j - 1 \in 1 .. Len(rest) /\ (j - 1) + 1 = j
        BY <1>1, <3>2
      <4>2. rest[j - 1] = before[j]
        BY <1>1, <4>1
      <4> QED
        BY <2>1, <2>3, <4>1, <4>2
    <3> QED
      BY <3>1, <3>2
  <2> QED
    BY <2>2, <2>3 DEF Ahead
<1>11. \A i \in 1 .. Len(rest) + 1, e \in 1 .. MaxEpochs :
          Known(before, i + 1, e) /\ (Says(f) => f.epoch = e) => Known(rest, i, e)'
  <2> SUFFICES ASSUME NEW i \in 1 .. Len(rest) + 1, NEW e \in 1 .. MaxEpochs,
                      Known(before, i + 1, e), Says(f) => f.epoch = e
               PROVE  Known(rest, i, e)'
    OBVIOUS
  <2>0. e # 0
    BY CompanionSyncAssumption
  <2>1. CASE cursor # NoCursor /\ cursor.epoch = e
    <3>1. cursor'.epoch = e /\ cursor' # NoCursor
      BY <1>3, <2>0, <2>1 DEF NoCursor
    <3> QED
      BY <3>1 DEF Known
  <2>2. ASSUME NEW j \in 1 .. (i + 1) - 1, before[j].kind = "snapshot", before[j].epoch = e
        PROVE  Known(rest, i, e)'
    <3>1. CASE j = 1
      <4>1. cursor' = [epoch |-> f.epoch, seq |-> f.seq] /\ f.epoch = e
        BY <1>1, <1>3, <2>2, <3>1
      <4>2. cursor'.epoch = e /\ cursor' # NoCursor
        BY <2>0, <4>1 DEF NoCursor
      <4> QED
        BY <4>2 DEF Known
    <3>2. CASE j # 1
      <4>1. j - 1 \in 1 .. i - 1 /\ j - 1 \in 1 .. Len(rest) /\ (j - 1) + 1 = j
        BY <1>1, <3>2
      <4>2. rest[j - 1] = before[j]
        BY <1>1, <4>1
      <4> QED
        BY <2>2, <4>1, <4>2 DEF Known
    <3> QED
      BY <3>1, <3>2
  <2> QED
    BY <2>1, <2>2 DEF Known
<1>12. NoGaps(rest)'
  <2> SUFFICES ASSUME NEW i \in 1 .. Len(rest), rest[i].kind = "event"
               PROVE  /\ Known(rest, i, rest[i].epoch)'
                      /\ \A n \in 1 .. Len(history) : Ahead(rest, i, n)' /\ n < At(rest[i]) =>
                            Changes(history[n], history[At(rest[i])], rest[i].item)
    BY <1>2, <1>4 DEF NoGaps
  <2>1. rest[i] = before[i + 1] /\ i + 1 \in 1 .. Len(before) /\ i \in 1 .. Len(rest) + 1
    BY <1>1
  <2>2. /\ Known(before, i + 1, rest[i].epoch)
        /\ \A n \in 1 .. Len(history) : Ahead(before, i + 1, n) /\ n < At(rest[i]) =>
              Changes(history[n], history[At(rest[i])], rest[i].item)
    BY <1>5, <2>1 DEF NoGaps
  <2>3. rest[i].epoch \in 1 .. MaxEpochs
    <3>1. rest[i] \in DownFrame
      BY <1>1, ElementOfSeq
    <3> QED
      BY <3>1 DEF DownFrame
  <2>4. Says(f) => f.epoch = rest[i].epoch
    BY <1>1, <1>5, <2>1 DEF InOrder, Says
  <2>5. Known(rest, i, rest[i].epoch)'
    BY <1>11, <2>1, <2>2, <2>3, <2>4
  <2>6. \A n \in 1 .. Len(history) : Ahead(rest, i, n)' => Ahead(before, i + 1, n)
    BY <1>10, <2>1
  <2> QED
    BY <2>2, <2>5, <2>6
<1>13. /\ breaks' \in 0 .. MaxBreaks /\ (ackCursor' = ackCursor \/ ackCursor' = cursor')
       /\ \/ up' = up
          \/ /\ up' = Append(up, [kind |-> "ack", cursor |-> cursor']) /\ socket = "open"
             /\ Says(f) /\ cursor' = [epoch |-> f.epoch, seq |-> f.seq]
  <2>1. breaks \in 0 .. MaxBreaks /\ MaxBreaks \in Nat
    BY <1>5, CompanionSyncAssumption DEF TypeOK
  <2>2. CASE cursor' = cursor /\ f.kind # "snapshot"
    <3>1. UNCHANGED <<ackCursor, up, breaks>>
      BY <1>1, <2>2 DEF PhoneReceives
    <3> QED
      BY <2>1, <3>1
  <2>3. CASE ~(cursor' = cursor /\ f.kind # "snapshot")
    <3>1. Says(f) /\ cursor' = [epoch |-> f.epoch, seq |-> f.seq]
      BY <1>3, <2>3 DEF Says
    <3>2. \/ /\ ackCursor' = cursor'
             /\ up' = IF socket = "open" THEN Append(up, [kind |-> "ack", cursor |-> AckOf(cursor, cursor')])
                      ELSE up
             /\ UNCHANGED breaks
          \/ /\ socket = "closing" /\ breaks < MaxBreaks /\ breaks' = breaks + 1
             /\ UNCHANGED <<ackCursor, up>>
      BY <1>1, <2>3 DEF PhoneReceives
    <3>3. AckOf(cursor, cursor') = cursor'
      BY DEF AckOf
    <3> QED
      BY <2>1, <3>1, <3>2, <3>3
  <2> QED
    BY <2>2, <2>3
<1>14. up' \in Seq(UpFrame) /\ ackCursor' \in Cursor \cup {NoCursor}
  <2>1. [kind |-> "ack", cursor |-> cursor'] \in UpFrame
    BY <1>3 DEF UpFrame
  <2>2. up \in Seq(UpFrame) /\ ackCursor \in Cursor \cup {NoCursor}
    BY <1>5 DEF TypeOK
  <2>3. Append(up, [kind |-> "ack", cursor |-> cursor']) \in Seq(UpFrame)
    BY <2>1, <2>2, AppendProperties
  <2>4. up' = up \/ up' = Append(up, [kind |-> "ack", cursor |-> cursor'])
    BY <1>13
  <2>5. up' \in Seq(UpFrame)
    BY <2>2, <2>3, <2>4
  <2>6. ackCursor' \in Cursor \cup {NoCursor}
    <3>1. ackCursor' = ackCursor \/ ackCursor' = cursor'
      BY <1>13
    <3> QED
      BY <1>3, <2>2, <3>1
  <2> QED
    BY <2>5, <2>6
<1>15. PhoneOK'
  <2>1. ackCursor' # NoCursor => cursor' # NoCursor /\ Reached(ackCursor)' /\ At(ackCursor)' <= View'
    <3>1. CASE ackCursor' = cursor'
      <4>1. cursor' # NoCursor => View' = At(cursor)'
        BY DEF View, At
      <4> QED
        BY <1>3, <3>1, <4>1 DEF Reached, At
    <3>2. CASE ackCursor' = ackCursor
      <4>1. ackCursor # NoCursor => cursor # NoCursor /\ Reached(ackCursor) /\ At(ackCursor) <= View
        BY <1>5 DEF PhoneOK
      <4>2. cursor # NoCursor => cursor' # NoCursor
        BY <1>3, <1>6 DEF NoCursor
      <4>3. ackCursor # NoCursor => At(ackCursor) \in Nat
        <5>1. ackCursor # NoCursor => ackCursor.seq \in Nat
          BY <1>5, EventLogAssumption DEF TypeOK, Cursor
        <5>2. ackCursor # NoCursor => At(ackCursor) \in 1 .. Len(history)
          BY <4>1, <5>1, ReachedIsThere DEF SyncInv
        <5> QED
          BY <5>2
      <4>4. Reached(ackCursor)' = Reached(ackCursor) /\ At(ackCursor)' = At(ackCursor)
        BY <1>2, <3>2 DEF Reached, At, End
      <4> QED
        BY <1>3, <3>2, <4>1, <4>2, <4>3, <4>4
    <3> QED
      BY <1>13, <3>1, <3>2
  <2> QED
    BY <1>2, <1>3, <2>1 DEF PhoneOK
<1>16. session # "attached" /\ (socket = "open" => session = "connected") /\ socket # "down"
  BY <1>1, <1>5, EmptySeq DEF SessionOK, TypeOK, PhoneReceives
<1>17. SessionOK'
  <2>1. ASSUME session = "connected", NEW i \in 1 .. Len(up')
        PROVE  up'[i].kind = "ack" /\ up'[i].cursor.epoch = epoch /\ up'[i].cursor.seq <= currentSeq
    <3>1. up \in Seq(UpFrame) /\ Len(up) \in Nat /\ \A j \in 1 .. Len(up) :
             up[j].kind = "ack" /\ up[j].cursor.epoch = epoch /\ up[j].cursor.seq <= currentSeq
      BY <1>5, <2>1 DEF SessionOK, TypeOK
    <3>2. CASE up' = up
      BY <2>1, <3>1, <3>2
    <3>3. CASE /\ up' = Append(up, [kind |-> "ack", cursor |-> cursor'])
               /\ Says(f) /\ cursor' = [epoch |-> f.epoch, seq |-> f.seq]
      <4>1. f.epoch = epoch /\ Reached(f)
        BY <1>1, <1>3, <2>1, <3>3 DEF SyncInv, FramesOK
      <4>2. f.seq <= currentSeq
        BY <1>6, <4>1, ReachedIsThere DEF SyncInv
      <4>3. \/ i \in 1 .. Len(up) /\ up'[i] = up[i]
            \/ up'[i] = [kind |-> "ack", cursor |-> cursor']
        BY <2>1, <3>1, <3>3
      <4> QED
        BY <3>1, <3>3, <4>1, <4>2, <4>3
    <3> QED
      BY <1>13, <3>2, <3>3
  <2> QED
    BY <1>2, <1>5, <1>16, <2>1 DEF SessionOK
<1>18. FramesOK'
  <2>1. session # "none" => \A i \in 1 .. Len(rest) : Says(rest[i]) => rest[i].epoch = epoch
    BY <1>1 DEF SyncInv, FramesOK
  <2> QED
    BY <1>2, <1>9, <1>12, <2>1 DEF FramesOK
<1>19. StreamOK'
  <2> SUFFICES ASSUME session = "connected" PROVE CaughtUp(down, base[epoch] + lastSentSeq)'
    BY <1>2 DEF StreamOK
  <2> PICK place : place = base[epoch] + lastSentSeq
    OBVIOUS
  <2>1. /\ Known(before, Len(before) + 1, epoch)
        /\ Ahead(before, Len(before) + 1, place)
        /\ \A n \in 1 .. place : Ahead(before, Len(before) + 1, n) => history[n] = history[place]
    BY <1>5 DEF StreamOK, CaughtUp
  <2>2. Says(f) => f.epoch = epoch
    BY <1>1 DEF SyncInv, FramesOK
  <2>3. place \in Nat /\ epoch \in 1 .. MaxEpochs
    BY Places, <1>5 DEF SyncInv, TypeOK
  <2>4. Len(rest) + 1 \in 1 .. Len(rest) + 1 /\ Len(before) + 1 = (Len(rest) + 1) + 1
    BY <1>1
  <2>5. Known(rest, Len(rest) + 1, epoch)'
    <3>1. Known(rest, Len(rest) + 1, epoch)' <=> \E e : e = epoch /\ Known(rest, Len(rest) + 1, e)'
      BY <1>2 DEF Known
    <3> QED
      BY <1>11, <2>1, <2>2, <2>3, <2>4, <3>1
  <2>6. Ahead(rest, Len(rest) + 1, place)'
    <3>1. View <= place /\ \A j \in 1 .. (Len(before) + 1) - 1 : Says(before[j]) => At(before[j]) <= place
      BY <2>1 DEF Ahead
    <3>2. \A j \in 1 .. (Len(rest) + 1) - 1 :
             rest[j] = before[j + 1] /\ j + 1 \in 1 .. (Len(before) + 1) - 1
      BY <1>1
    <3>3. 1 \in 1 .. (Len(before) + 1) - 1
      BY <1>1
    <3>4. View' <= place
      BY <1>1, <1>3, <3>1, <3>3
    <3> QED
      BY <1>4, <3>1, <3>2, <3>4 DEF Ahead
  <2>7. \A n \in 1 .. place : Ahead(rest, Len(rest) + 1, n)' => history[n] = history[place]
    <3>1. \A n \in 1 .. place : n \in Nat
      BY <2>3
    <3> QED
      BY <1>10, <2>1, <2>4, <3>1
  <2>8. CaughtUp(rest, place)'
    BY <1>2, <2>5, <2>6, <2>7 DEF CaughtUp
  <2>9. (base[epoch] + lastSentSeq)' = place
    BY <1>2
  <2> QED
    BY <1>2, <2>8, <2>9
<1>20. TypeOK'
  <2>1. Load(rest) <= QueueCap
    <3>1. before # <<>> /\ Load(before) <= QueueCap /\ QueueCap \in Nat
      BY <1>1, <1>5, CompanionSyncAssumption DEF TypeOK
    <3> QED
      BY <1>1, <3>1, LoadTail
  <2> QED
    BY <1>1, <1>2, <1>3, <1>5, <1>7, <1>13, <1>14, <2>1 DEF TypeOK, LogInv
<1>21. NeverRefused'
  BY <1>2 DEF SyncInv, NeverRefused
<1> QED
  BY <1>3, <1>7, <1>15, <1>17, <1>18, <1>19, <1>20, <1>21 DEF SyncInv

-----------------------------------------------------------------------------
(* Epochs do not run into each other.                                        *)
LEMMA Room ==
    ASSUME NEW m \in Nat, NEW e \in Nat \ {0}, NEW last \in Nat, e <= last
    PROVE  /\ m * (e - 1) + m = m * e /\ m * e <= m * last
           /\ m * (e - 1) \in Nat /\ m * e \in Nat /\ m * last \in Nat
<1>1. PICK d \in Nat : last = e + d
  <2>1. last - e \in Nat /\ last = e + (last - e)
    OBVIOUS
  <2> QED
    BY <2>1
<1>2. m * last = m * e + m * d
  BY <1>1
<1>3. m * d \in Nat /\ m * e \in Nat /\ m * (e - 1) \in Nat
  OBVIOUS
<1>4. m * (e - 1) + m = m * e
  OBVIOUS
<1> QED
  BY <1>2, <1>3, <1>4

(* The history grows, in this epoch or into the next one.                    *)
Grows ==
    /\ state' \in States /\ history' = Append(history, state')
    /\ \/ epoch' = epoch /\ base' = base
       \/ epoch' = epoch + 1 /\ base' = Append(base, Len(history'))

(* What was reached stays where it is.                                       *)
LEMMA Grown ==
    ASSUME SyncInv, Grows
    PROVE  /\ Len(history') = Len(history) + 1 /\ Len(history) \in Nat
           /\ \A n \in 1 .. Len(history) : history'[n] = history[n]
           /\ history'[Len(history) + 1] = state'
           /\ \A e \in 1 .. epoch : base'[e] = base[e]
           /\ \A c : c.seq \in Nat /\ Reached(c) =>
                 Reached(c)' /\ At(c)' = At(c) /\ At(c) \in 1 .. Len(history)
<1>1. /\ epoch \in Nat /\ Len(history) \in Nat /\ base \in Seq(Nat \ {0}) /\ Len(base) = epoch
      /\ history \in Seq(States) /\ epoch >= 1
  BY Places DEF SyncInv, HistoryOK
<1>2. /\ Len(history') = Len(history) + 1
      /\ \A n \in 1 .. Len(history) : history'[n] = history[n]
      /\ history'[Len(history) + 1] = state'
  BY <1>1, AppendProperties DEF Grows
<1>3. \A e \in 1 .. epoch : base'[e] = base[e]
  BY <1>1, <1>2 DEF Grows
<1>4. ASSUME NEW c, c.seq \in Nat, Reached(c)
      PROVE  Reached(c)' /\ At(c)' = At(c) /\ At(c) \in 1 .. Len(history)
  <2>1. At(c) \in 1 .. Len(history) /\ c.epoch \in 1 .. epoch /\ At(c) < End(c.epoch)
    BY <1>4, ReachedIsThere DEF SyncInv, Reached, At
  <2>2. At(c)' = At(c)
    BY <1>3, <2>1 DEF At
  <2>3. c.epoch \in 1 .. epoch'
    BY <1>1, <2>1 DEF Grows
  <2>4. At(c) < End(c.epoch)'
    <3>1. CASE c.epoch < epoch
      <4>1. End(c.epoch) = base[c.epoch + 1] /\ c.epoch + 1 \in 1 .. epoch
        BY <1>1, <2>1, <3>1 DEF End
      <4>2. c.epoch < epoch'
        BY <1>1, <2>1, <3>1 DEF Grows
      <4>3. End(c.epoch)' = base'[c.epoch + 1]
        BY <4>2 DEF End
      <4> QED
        BY <1>3, <2>1, <4>1, <4>3
    <3>2. CASE c.epoch = epoch /\ epoch' = epoch
      <4>1. End(c.epoch)' = Len(history') + 1
        BY <1>1, <3>2 DEF End
      <4> QED
        BY <1>1, <1>2, <2>1, <4>1
    <3>3. CASE c.epoch = epoch /\ epoch' = epoch + 1 /\ base' = Append(base, Len(history'))
      <4>1. End(c.epoch)' = base'[epoch + 1]
        BY <1>1, <3>3 DEF End
      <4>2. base'[epoch + 1] = Len(history) + 1
        BY <1>1, <1>2, <3>3
      <4> QED
        BY <1>1, <2>1, <4>1, <4>2
    <3> QED
      BY <1>1, <2>1, <3>1, <3>2, <3>3 DEF Grows
  <2>5. Reached(c)'
    BY <2>2, <2>3, <2>4 DEF Reached, At
  <2> QED
    BY <2>1, <2>2, <2>5
<1> QED
  BY <1>1, <1>2, <1>3, <1>4

(* So frames on their way still make sense.                                  *)
LEMMA GrownFrames ==
    ASSUME SyncInv, Grows, cursor' = cursor, NEW frames \in Seq(DownFrame), InOrder(frames), NoGaps(frames)
    PROVE  /\ View' = View
           /\ InOrder(frames)' /\ NoGaps(frames)'
           /\ epoch' = epoch => \A place \in 1 .. Len(history) :
                 CaughtUp(frames, place) => CaughtUp(frames, place)'
<1>1. /\ Len(history') = Len(history) + 1 /\ Len(history) \in Nat
      /\ \A n \in 1 .. Len(history) : history'[n] = history[n]
      /\ \A e \in 1 .. epoch : base'[e] = base[e]
      /\ \A c : c.seq \in Nat /\ Reached(c) =>
            Reached(c)' /\ At(c)' = At(c) /\ At(c) \in 1 .. Len(history)
  BY Grown
<1>2. View' = View
  <2>1. cursor # NoCursor => Reached(cursor)
    BY DEF SyncInv, PhoneOK
  <2>2. cursor # NoCursor => base'[cursor.epoch] = base[cursor.epoch]
    BY <1>1, <2>1 DEF Reached
  <2> QED
    BY <2>2 DEF View
<1>3. \A i \in 1 .. Len(frames) : Says(frames[i]) =>
         Reached(frames[i]) /\ Reached(frames[i])' /\ At(frames[i])' = At(frames[i])
         /\ At(frames[i]) \in 1 .. Len(history)
  <2> SUFFICES ASSUME NEW i \in 1 .. Len(frames), Says(frames[i])
               PROVE  Reached(frames[i]) /\ Reached(frames[i])' /\ At(frames[i])' = At(frames[i])
                      /\ At(frames[i]) \in 1 .. Len(history)
    OBVIOUS
  <2>1. frames[i] \in DownFrame /\ Reached(frames[i])
    BY ElementOfSeq DEF InOrder
  <2>2. frames[i].seq \in Nat
    BY <2>1, EventLogAssumption DEF DownFrame
  <2> QED
    BY <1>1, <2>1, <2>2
<1>4. \A i \in 1 .. Len(frames) :
         /\ frames[i].kind = "snapshot" => Says(frames[i])
         /\ frames[i].kind = "event" => Says(frames[i])
  BY DEF Says
<1>5. InOrder(frames)'
  BY <1>1, <1>2, <1>3, <1>4 DEF InOrder
<1>6. \A i \in 1 .. Len(frames) + 1 : \A n : Ahead(frames, i, n)' <=> Ahead(frames, i, n)
  <2> SUFFICES ASSUME NEW i \in 1 .. Len(frames) + 1, NEW n
               PROVE  Ahead(frames, i, n)' <=> Ahead(frames, i, n)
    OBVIOUS
  <2>1. \A j \in 1 .. i - 1 : j \in 1 .. Len(frames)
    BY LenProperties
  <2>2. \A j \in 1 .. i - 1 : Says(frames[j]) => At(frames[j])' = At(frames[j])
    BY <1>3, <2>1
  <2> QED
    BY <1>2, <2>2 DEF Ahead
<1>7. \A i, e : Known(frames, i, e)' <=> Known(frames, i, e)
  BY DEF Known
<1>8. NoGaps(frames)'
  <2> SUFFICES ASSUME NEW i \in 1 .. Len(frames), frames[i].kind = "event"
               PROVE  /\ Known(frames, i, frames[i].epoch)'
                      /\ \A n \in 1 .. Len(history') : Ahead(frames, i, n)' /\ n < At(frames[i])' =>
                            Changes(history'[n], history'[At(frames[i])'], frames[i].item)
    BY DEF NoGaps
  <2>1. /\ Known(frames, i, frames[i].epoch)
        /\ \A n \in 1 .. Len(history) : Ahead(frames, i, n) /\ n < At(frames[i]) =>
              Changes(history[n], history[At(frames[i])], frames[i].item)
    BY DEF NoGaps
  <2>2. At(frames[i])' = At(frames[i]) /\ At(frames[i]) \in 1 .. Len(history)
    BY <1>3, <1>4
  <2>3. \A n \in 1 .. Len(history') : n < At(frames[i]) => n \in 1 .. Len(history)
    BY <1>1, <2>2
  <2>4. i \in 1 .. Len(frames) + 1
    BY LenProperties
  <2> QED
    BY <1>1, <1>6, <1>7, <2>1, <2>2, <2>3, <2>4
<1>9. ASSUME epoch' = epoch, NEW place \in 1 .. Len(history), CaughtUp(frames, place)
      PROVE  CaughtUp(frames, place)'
  <2>1. Len(frames) + 1 \in 1 .. Len(frames) + 1
    BY LenProperties
  <2>2. \A n \in 1 .. place : n \in 1 .. Len(history)
    BY <1>1
  <2> QED
    BY <1>1, <1>6, <1>7, <1>9, <2>1, <2>2 DEF CaughtUp
<1> QED
  BY <1>2, <1>5, <1>8, <1>9

(* And so does what the phone shows.                                         *)
LEMMA GrownPhone ==
    ASSUME SyncInv, Grows, UNCHANGED phone
    PROVE  View' = View /\ PhoneOK'
<1>1. /\ \A n \in 1 .. Len(history) : history'[n] = history[n]
      /\ \A c : c.seq \in Nat /\ Reached(c) =>
            Reached(c)' /\ At(c)' = At(c) /\ At(c) \in 1 .. Len(history)
  BY Grown
<1>2. /\ cursor' = cursor /\ ackCursor' = ackCursor /\ replica' = replica
      /\ cursor # NoCursor => cursor.seq \in Nat
      /\ ackCursor # NoCursor => ackCursor.seq \in Nat
      /\ PhoneOK
  BY EventLogAssumption DEF SyncInv, TypeOK, Cursor, phone
<1>3. View' = View
  <2>1. <<>> \in Seq(DownFrame)
    OBVIOUS
  <2> QED
    BY <1>2, <2>1, NoFrames, GrownFrames
<1>4. cursor # NoCursor => View \in 1 .. Len(history)
  <2>1. cursor # NoCursor => View = At(cursor)
    BY ViewIsThere
  <2> QED
    BY <1>1, <1>2, <2>1 DEF PhoneOK
<1>5. cursor # NoCursor => Reached(cursor)'
  BY <1>1, <1>2 DEF PhoneOK
<1>6. ackCursor # NoCursor => cursor # NoCursor /\ Reached(ackCursor)' /\ At(ackCursor)' <= View'
  <2>1. ackCursor # NoCursor => cursor # NoCursor /\ Reached(ackCursor) /\ At(ackCursor) <= View
    BY <1>2 DEF PhoneOK
  <2> PICK c : c = ackCursor
    OBVIOUS
  <2>2. c # NoCursor => Reached(c)' /\ At(c)' = At(c)
    BY <1>1, <1>2, <2>1
  <2>3. Reached(ackCursor)' = Reached(c)' /\ At(ackCursor)' = At(c)'
    BY <1>2 DEF Reached, At
  <2> QED
    BY <1>3, <2>1, <2>2, <2>3
<1>7. replica = IF cursor = NoCursor THEN Blank ELSE history'[View]
  BY <1>1, <1>2, <1>4 DEF PhoneOK
<1> QED
  BY <1>2, <1>3, <1>5, <1>6, <1>7 DEF PhoneOK

-----------------------------------------------------------------------------
(* A change adds one state to the history, for the number it uses up.        *)
LEMMA ChangeGrows ==
    ASSUME SyncInv, NEW item \in Bodies, Changed(item), currentSeq < MaxSeq, currentSeq' = currentSeq + 1
    PROVE  /\ Grows /\ HistoryOK' /\ Changes(state, state', item)
           /\ epoch' = epoch /\ base' = base
<1>1. /\ epoch \in 1 .. MaxEpochs /\ epoch \in Nat \ {0} /\ MaxEpochs \in Nat /\ MaxSeq \in Nat
      /\ currentSeq \in Nat /\ epoch <= MaxEpochs
      /\ state \in States /\ history \in Seq(States) /\ Len(history) \in Nat
      /\ Len(history) = base[epoch] + currentSeq /\ base[epoch] \in Nat
      /\ \A i \in Items : state[i] <= MaxSeq * (epoch - 1) + currentSeq
  BY Places, CompanionSyncAssumption, EventLogAssumption DEF SyncInv, TypeOK, LogTypeOK, HistoryOK
<1>2. /\ state' = IF item = Private THEN state ELSE [state EXCEPT ![item] = @ + 1]
      /\ history' = Append(history, state') /\ epoch' = epoch /\ base' = base
  BY DEF Changed
<1>3. /\ MaxSeq * (epoch - 1) + MaxSeq = MaxSeq * epoch /\ MaxSeq * epoch <= MaxSeq * MaxEpochs
      /\ MaxSeq * (epoch - 1) \in Nat /\ MaxSeq * epoch \in Nat /\ MaxSeq * MaxEpochs \in Nat
  BY <1>1, Room
<1> DEFINE below == MaxSeq * (epoch - 1)
           top == MaxSeq * MaxEpochs
<1>4. below + (currentSeq + 1) <= top /\ below \in Nat /\ top \in Nat
  BY <1>1, <1>3
<1>5. state \in [Items -> 0 .. top] /\ \A i \in Items : state[i] <= below + currentSeq
  BY <1>1 DEF States
<1>6. below' = below
  BY <1>2
<1> HIDE DEF below, top
<1>7. ASSUME item # Private
      PROVE  /\ state' \in [Items -> 0 .. top]
             /\ \A i \in Items : state'[i] <= below + (currentSeq + 1)
             /\ state' = [state EXCEPT ![item] = state'[item]]
  <2>1. item \in Items /\ state' = [state EXCEPT ![item] = state[item] + 1]
    BY <1>2, <1>7 DEF Items
  <2>2. \A i \in Items : state'[i] = (IF i = item THEN state[i] + 1 ELSE state[i]) /\ state[i] \in Nat
    BY <1>4, <1>5, <2>1
  <2>3. \A i \in Items : state'[i] <= below + (currentSeq + 1) /\ state'[i] \in 0 .. top
    <3> SUFFICES ASSUME NEW i \in Items
                 PROVE  state'[i] <= below + (currentSeq + 1) /\ state'[i] \in 0 .. top
      OBVIOUS
    <3>1. state[i] \in Nat /\ state[i] <= below + currentSeq /\ currentSeq \in Nat
      BY <1>1, <1>5, <2>2
    <3>2. state'[i] = state[i] + 1 \/ state'[i] = state[i]
      BY <2>2
    <3> QED
      BY <1>4, <3>1, <3>2
  <2>4. state' \in [Items -> 0 .. top]
    BY <1>5, <2>1, <2>3
  <2> QED
    BY <1>5, <2>1, <2>2, <2>3, <2>4
<1>8. /\ state' \in [Items -> 0 .. top]
      /\ \A i \in Items : state'[i] <= below + (currentSeq + 1)
      /\ Changes(state, state', item)
  <2>1. CASE item = Private
    <3>1. state' = state
      BY <1>2, <2>1
    <3>2. \A i \in Items : state[i] <= below + (currentSeq + 1)
      BY <1>1, <1>4, <1>5
    <3> QED
      BY <1>5, <2>1, <3>1, <3>2 DEF Changes
  <2>2. CASE item # Private
    BY <1>7, <2>2 DEF Changes
  <2> QED
    BY <2>1, <2>2
<1>9. state' \in States
  BY <1>8 DEF States, top
<1>10. Grows
  BY <1>2, <1>9 DEF Grows
<1>11. HistoryOK'
  <2>1. history' \in Seq(States) /\ Len(history') = Len(history) + 1 /\ history'[Len(history')] = state'
    BY <1>1, <1>2, <1>9, AppendProperties
  <2>2. Len(history') = base'[epoch'] + currentSeq'
    <3>1. /\ Len(history) = base[epoch] + currentSeq /\ base[epoch] \in Nat /\ currentSeq \in Nat
          /\ currentSeq' = currentSeq + 1
      BY <1>1
    <3>2. base'[epoch'] = base[epoch]
      BY <1>2
    <3>3. Len(history') = Len(history) + 1
      BY <2>1
    <3> QED
      BY <3>1, <3>2, <3>3
  <2>3. \A i \in Items : state'[i] <= MaxSeq * (epoch' - 1) + currentSeq'
    BY <1>2, <1>8 DEF below
  <2>4. /\ base' \in Seq(Nat \ {0}) /\ Len(base') = epoch'
        /\ \A d, e \in 1 .. epoch' : d < e => base'[d] < base'[e]
    BY <1>2 DEF SyncInv, HistoryOK
  <2> QED
    BY <2>1, <2>2, <2>3, <2>4 DEF HistoryOK
<1> QED
  BY <1>2, <1>8, <1>10, <1>11

(* A change while the phone and the connection stand still.                  *)
LEMMA ChangeKeeps ==
    ASSUME SyncInv, NEW item \in Bodies, Changed(item), currentSeq < MaxSeq, currentSeq' = currentSeq + 1,
           LogInv', EventsOK', UNCHANGED <<stream, wire, phone, breaks, refused>>,
           syncQueued' \in BOOLEAN
    PROVE  SyncInv'
<1>1. Grows /\ HistoryOK' /\ epoch' = epoch /\ base' = base
  BY ChangeGrows
<1>2. PhoneOK' /\ View' = View
  BY <1>1, GrownPhone
<1>3. /\ UNCHANGED <<session, lastSentSeq, lingering, socket, down, up, cursor, ackCursor, replica>>
      /\ UNCHANGED <<breaks, refused>>
  BY DEF stream, wire, phone
<1>4. /\ down \in Seq(DownFrame) /\ InOrder(down) /\ NoGaps(down) /\ TypeOK /\ SessionOK /\ StreamOK
      /\ lastSentSeq \in 0 .. currentSeq /\ currentSeq \in Nat
  BY EventLogAssumption DEF SyncInv, TypeOK, LogTypeOK, FramesOK
<1> PICK sent : sent = down
  OBVIOUS
<1>5. /\ InOrder(sent)' /\ NoGaps(sent)'
      /\ \A place \in 1 .. Len(history) : CaughtUp(sent, place) => CaughtUp(sent, place)'
  BY <1>1, <1>3, <1>4, GrownFrames
<1>6. TypeOK'
  <2>1. lastSentSeq' \in 0 .. currentSeq'
    BY <1>3, <1>4
  <2>2. state' \in States
    BY <1>1 DEF Grows
  <2> QED
    BY <1>1, <1>3, <1>4, <2>1, <2>2 DEF TypeOK, LogInv
<1>7. SessionOK'
  <2>1. session = "connected" => \A i \in 1 .. Len(up) : up[i].cursor.seq <= currentSeq + 1
    <3> SUFFICES ASSUME session = "connected", NEW i \in 1 .. Len(up)
                 PROVE  up[i].cursor.seq <= currentSeq + 1
      OBVIOUS
    <3>1. up[i].kind = "ack" /\ up[i].cursor.seq <= currentSeq /\ up[i] \in UpFrame
      BY <1>4, ElementOfSeq DEF SessionOK, TypeOK
    <3>2. up[i].cursor.seq \in Nat
      BY <3>1, EventLogAssumption DEF UpFrame, Cursor, NoCursor
    <3> QED
      BY <1>4, <3>1, <3>2
  <2>2. session = "attached" =>
          \/ up[1].cursor = NoCursor
          \/ cursor # NoCursor /\ Reached(up[1].cursor)' /\ At(up[1].cursor)' <= View'
    <3> SUFFICES ASSUME session = "attached", up[1].cursor # NoCursor
                 PROVE  cursor # NoCursor /\ Reached(up[1].cursor)' /\ At(up[1].cursor)' <= View'
      OBVIOUS
    <3> PICK c : c = up[1].cursor
      OBVIOUS
    <3>1. cursor # NoCursor /\ Reached(c) /\ At(c) <= View /\ Len(up) = 1
      BY <1>4 DEF SessionOK
    <3>2. c \in Cursor
      <4>1. up[1] \in UpFrame
        <5>1. up \in Seq(UpFrame) /\ 1 \in 1 .. Len(up)
          BY <1>4, <3>1 DEF TypeOK
        <5> QED
          BY <5>1, ElementOfSeq
      <4> QED
        BY <4>1 DEF UpFrame
    <3>3. c.seq \in Nat
      BY <3>2, EventLogAssumption DEF Cursor
    <3>4. Reached(c)' /\ At(c)' = At(c)
      BY <1>1, <3>1, <3>3, Grown
    <3>5. Reached(up[1].cursor)' = Reached(c)' /\ At(up[1].cursor)' = At(c)'
      BY <1>3 DEF Reached, At
    <3> QED
      BY <1>2, <3>1, <3>4, <3>5
  <2>3. up' = up
    BY <1>3
  <2> QED
    BY <1>1, <1>3, <1>4, <2>1, <2>2 DEF SessionOK, Reached, At, End
<1>8. FramesOK'
  <2>1. session # "none" => \A i \in 1 .. Len(down) : Says(down[i]) => down[i].epoch = epoch
    BY DEF SyncInv, FramesOK
  <2> QED
    BY <1>1, <1>3, <1>5, <2>1 DEF FramesOK
<1>9. StreamOK'
  <2>1. base[epoch] + lastSentSeq \in 1 .. Len(history)
    <3>1. base[epoch] \in Nat \ {0} /\ Len(history) = base[epoch] + currentSeq
      BY Places DEF SyncInv
    <3> QED
      BY <1>4, <3>1
  <2>2. session = "connected" => CaughtUp(sent, base[epoch] + lastSentSeq)'
    <3> PICK place : place = base[epoch] + lastSentSeq
      OBVIOUS
    <3>1. session = "connected" => CaughtUp(sent, place)'
      BY <1>4, <1>5, <2>1 DEF StreamOK
    <3>2. (base[epoch] + lastSentSeq)' = place
      BY <1>1, <1>3
    <3> QED
      BY <3>1, <3>2
  <2> QED
    BY <1>3, <2>2 DEF StreamOK
<1>10. NeverRefused'
  BY <1>3 DEF SyncInv, NeverRefused
<1> QED
  BY <1>1, <1>2, <1>6, <1>7, <1>8, <1>9, <1>10 DEF SyncInv

(* A recorded change leads from the last state to the new one.               *)
LEMMA PublishKeeps == ASSUME SyncInv, NEW item \in Bodies, Publish(item) PROVE SyncInv' /\ Grows
<1>1. /\ Record(item, Size(item)) /\ Changed(item) /\ syncQueued' = TRUE
      /\ UNCHANGED <<stream, wire, phone, breaks, refused>>
  BY DEF Publish
<1>2. Size(item) \in 1 .. MaxBytes + 1
  BY EventLogAssumption DEF Size
<1>3. currentSeq < MaxSeq /\ currentSeq' = currentSeq + 1
  BY <1>1 DEF Record
<1>4. LogInv'
  BY <1>1, <1>2, RecordLogInv DEF SyncInv
<1>5. Grows /\ Changes(state, state', item) /\ epoch' = epoch /\ base' = base
  BY <1>1, <1>3, ChangeGrows
<1>6. /\ \A n \in 1 .. Len(history) : history'[n] = history[n]
      /\ history'[Len(history) + 1] = state'
  BY <1>5, Grown
<1>7. /\ Len(history) = base[epoch] + currentSeq /\ Len(history) \in Nat /\ base[epoch] \in Nat \ {0}
      /\ currentSeq \in Nat /\ state = history[Len(history)] /\ Len(history) >= 1
  BY Places DEF SyncInv, HistoryOK
<1>8. EventsOK'
  <2> SUFFICES ASSUME NEW i \in 1 .. Len(events')
               PROVE  Changes(history'[(base[epoch] + events'[i].seq) - 1],
                              history'[base[epoch] + events'[i].seq], events'[i].body)
    BY <1>5 DEF EventsOK, Changes
  <2>1. CASE events'[i] = [seq |-> currentSeq + 1, body |-> item, bytes |-> Size(item)]
    <3>1. /\ events'[i].seq = currentSeq + 1 /\ events'[i].body = item
          /\ base[epoch] + events'[i].seq = Len(history) + 1
          /\ (base[epoch] + events'[i].seq) - 1 = Len(history)
      BY <1>7, <2>1
    <3>2. history'[Len(history)] = state
      BY <1>6, <1>7
    <3> QED
      BY <1>5, <1>6, <3>1, <3>2
  <2>2. ASSUME NEW j \in 1 .. Len(events), events'[i] = events[j]
        PROVE  Changes(history'[(base[epoch] + events'[i].seq) - 1],
                       history'[base[epoch] + events'[i].seq], events'[i].body)
    <3>1. events[j].seq \in 1 .. currentSeq
      <4>1. /\ droppedThrough \in Nat /\ Len(events) \in Nat /\ currentSeq = droppedThrough + Len(events)
            /\ events[j].seq = droppedThrough + j
        BY DEF SyncInv, LogInv, LogTypeOK, Contiguous
      <4> QED
        BY <4>1
    <3>2. /\ base[epoch] + events[j].seq \in 1 .. Len(history)
          /\ (base[epoch] + events[j].seq) - 1 \in 1 .. Len(history)
      <4>1. /\ Len(history) = base[epoch] + currentSeq /\ base[epoch] \in Nat \ {0}
            /\ currentSeq \in Nat /\ events[j].seq \in Nat
            /\ 1 <= events[j].seq /\ events[j].seq <= currentSeq
        BY <1>7, <3>1
      <4> QED
        BY <4>1, InBetween
    <3>3. Changes(history[(base[epoch] + events[j].seq) - 1], history[base[epoch] + events[j].seq],
                  events[j].body)
      BY DEF SyncInv, EventsOK
    <3> QED
      BY <1>6, <2>2, <3>2, <3>3
  <2>3. \/ events'[i] = [seq |-> currentSeq + 1, body |-> item, bytes |-> Size(item)]
        \/ \E j \in 1 .. Len(events) : events'[i] = events[j]
    BY <1>1, <1>2, RecordedEvents DEF SyncInv
  <2> QED
    BY <2>1, <2>2, <2>3
<1> QED
  BY <1>1, <1>3, <1>4, <1>5, <1>8, ChangeKeeps

(* A change that is not recorded leaves an empty log.                        *)
LEMMA AgentEventKeeps == ASSUME SyncInv, NEW item \in Items, AgentEvent(item) PROVE SyncInv' /\ Grows
<1>1. /\ Invalidate /\ Changed(item) /\ UNCHANGED <<syncQueued, stream, wire, phone, breaks, refused>>
      /\ item \in Bodies
  BY DEF AgentEvent, Items
<1>2. currentSeq < MaxSeq /\ currentSeq' = currentSeq + 1 /\ events' = <<>>
  BY <1>1 DEF Invalidate
<1>3. LogInv'
  BY <1>1, InvalidateLogInv DEF SyncInv
<1>4. EventsOK'
  BY <1>2 DEF EventsOK
<1>5. syncQueued' \in BOOLEAN
  BY <1>1 DEF SyncInv, TypeOK
<1>6. Grows
  BY <1>1, <1>2, ChangeGrows
<1> QED
  BY <1>1, <1>2, <1>3, <1>4, <1>5, <1>6, ChangeKeeps

-----------------------------------------------------------------------------
(* A new epoch begins where the history ends.                                *)
LEMMA RestartKeeps == ASSUME SyncInv, Restart PROVE SyncInv' /\ Grows
<1>1. /\ epoch' = epoch + 1 /\ epoch < MaxEpochs
      /\ currentSeq' = 0 /\ droppedThrough' = 0 /\ events' = <<>>
      /\ acknowledgements' = [c \in Clients |-> 0]
      /\ history' = Append(history, state) /\ base' = Append(base, Len(history'))
      /\ syncQueued' = FALSE /\ session' = "none" /\ lastSentSeq' = 0 /\ lingering' = FALSE
      /\ state' = state /\ up' = up /\ breaks' = breaks /\ refused' = refused
      /\ UNCHANGED phone /\ cursor' = cursor /\ ackCursor' = ackCursor /\ replica' = replica
  BY DEF Restart, EndSession, phone
<1>2. /\ epoch \in 1 .. MaxEpochs /\ epoch \in Nat \ {0} /\ MaxEpochs \in Nat /\ MaxSeq \in Nat
      /\ currentSeq \in Nat /\ currentSeq <= MaxSeq
      /\ state \in States /\ history \in Seq(States) /\ Len(history) \in Nat
      /\ Len(history) = base[epoch] + currentSeq /\ base[epoch] \in Nat \ {0}
      /\ \A e \in 1 .. epoch : base[e] \in Nat \ {0} /\ base[e] <= base[epoch]
      /\ base \in Seq(Nat \ {0}) /\ Len(base) = epoch
      /\ \A i \in Items : state[i] <= MaxSeq * (epoch - 1) + currentSeq
  BY Places, CompanionSyncAssumption, EventLogAssumption DEF SyncInv, TypeOK, LogTypeOK, HistoryOK
<1>3. Grows
  BY <1>1, <1>2 DEF Grows
<1>4. LogInv'
  <2>1. LogTypeOK'
    BY <1>1, EventLogAssumption, EmptySeq DEF LogTypeOK
  <2>2. Contiguous'
    BY <1>1, EmptySeq DEF Contiguous
  <2>3. RetentionBounded'
    BY <1>1, EmptySeq, EmptyBytes, EventLogAssumption DEF RetentionBounded
  <2> QED
    BY <2>1, <2>2, <2>3 DEF LogInv
<1>5. HistoryOK'
  <2>1. history' \in Seq(States) /\ Len(history') = Len(history) + 1 /\ history'[Len(history')] = state'
    BY <1>1, <1>2, AppendProperties
  <2> PICK last \in Nat \ {0} : last = Len(history')
    BY <1>2, <2>1
  <2>2. base' = Append(base, last)
    BY <1>1
  <2>3. /\ base' \in Seq(Nat \ {0}) /\ Len(base') = epoch + 1 /\ base'[epoch + 1] = last
        /\ \A e \in 1 .. epoch : base'[e] = base[e]
    BY <1>2, <2>2, AppendProperties
  <2>4. \A d, e \in 1 .. epoch + 1 : d < e => base'[d] < base'[e]
    <3> SUFFICES ASSUME NEW d \in 1 .. epoch + 1, NEW e \in 1 .. epoch + 1, d < e
                 PROVE  base'[d] < base'[e]
      OBVIOUS
    <3>1. d \in 1 .. epoch
      BY <1>2
    <3>2. CASE e \in 1 .. epoch
      <4>1. base[d] < base[e]
        BY <3>1, <3>2 DEF SyncInv, HistoryOK
      <4> QED
        BY <2>3, <3>1, <3>2, <4>1
    <3>3. CASE e = epoch + 1
      <4>1. /\ base[d] \in Nat /\ base[d] <= base[epoch] /\ base[epoch] \in Nat /\ currentSeq \in Nat
            /\ last = (base[epoch] + currentSeq) + 1
        BY <1>2, <2>1, <3>1
      <4>2. base'[d] = base[d] /\ base'[e] = last
        BY <2>3, <3>1, <3>3
      <4> QED
        BY <4>1, <4>2
    <3> QED
      BY <1>2, <3>2, <3>3
  <2>5. \A i \in Items : state'[i] <= MaxSeq * (epoch' - 1) + currentSeq'
    <3> SUFFICES ASSUME NEW i \in Items PROVE state'[i] <= MaxSeq * (epoch' - 1) + currentSeq'
      OBVIOUS
    <3>1. MaxSeq * (epoch - 1) + MaxSeq = MaxSeq * epoch /\ MaxSeq * (epoch - 1) \in Nat
      BY <1>2, Room
    <3> PICK below \in Nat : below = MaxSeq * (epoch - 1)
      BY <3>1
    <3> PICK top : top = MaxSeq * epoch
      OBVIOUS
    <3>2. state[i] \in Nat /\ state[i] <= below + currentSeq
      <4>1. MaxSeq * MaxEpochs \in Nat
        BY <1>2
      <4> QED
        BY <1>2, <4>1 DEF States
    <3>3. top = below + MaxSeq
      BY <3>1
    <3>4. state[i] <= top + 0
      BY <1>2, <3>2, <3>3
    <3>5. epoch' - 1 = epoch
      BY <1>1, <1>2
    <3> QED
      BY <1>1, <3>4, <3>5
  <2>6. Len(history') = base'[epoch'] + currentSeq'
    BY <1>1, <2>3
  <2> QED
    BY <1>1, <2>1, <2>3, <2>4, <2>5, <2>6 DEF HistoryOK
<1>6. EventsOK'
  BY <1>1, EmptySeq DEF EventsOK
<1>7. PhoneOK'
  BY <1>1, <1>3, GrownPhone
<1>8. PICK rest \in Seq(DownFrame) :
         /\ down' = rest /\ Load(rest) <= QueueCap /\ InOrder(rest) /\ NoGaps(rest)
         /\ socket' = (IF socket = "open" THEN "closing" ELSE socket)
         /\ socket # "open" => rest = down
  <2>1. down \in Seq(DownFrame) /\ Load(down) <= QueueCap /\ InOrder(down) /\ NoGaps(down)
    BY DEF SyncInv, TypeOK, FramesOK
  <2>2. CASE socket = "open"
    <3>1. CloseSocket(down)
      BY <2>2 DEF Restart
    <3>2. PICK k \in 0 .. Len(down) :
             Load(SubSeq(down, 1, k)) <= QueueCap /\ down' = SubSeq(down, 1, k)
      BY <3>1 DEF CloseSocket
    <3>3. /\ SubSeq(down, 1, k) \in Seq(DownFrame)
          /\ InOrder(SubSeq(down, 1, k)) /\ NoGaps(SubSeq(down, 1, k))
      BY <2>1, Prefix
    <3> QED
      BY <2>2, <3>1, <3>2, <3>3 DEF CloseSocket
  <2>3. CASE socket # "open"
    <3>1. socket' = socket /\ down' = down
      BY <2>3 DEF Restart
    <3> QED
      BY <2>1, <2>3, <3>1
  <2> QED
    BY <2>2, <2>3
<1>9. FramesOK'
  <2>1. InOrder(rest)' /\ NoGaps(rest)'
    BY <1>1, <1>3, <1>8, GrownFrames
  <2> QED
    BY <1>1, <1>8, <2>1 DEF FramesOK
<1>10. SessionOK'
  <2>1. socket' # "open"
    BY <1>8
  <2>2. socket' = "down" => down' = <<>>
    BY <1>8 DEF SyncInv, SessionOK
  <2> QED
    BY <1>1, <2>1, <2>2 DEF SessionOK
<1>11. StreamOK' /\ NeverRefused'
  BY <1>1 DEF StreamOK, NeverRefused, SyncInv
<1>12. TypeOK'
  <2>1. LogTypeOK'
    BY <1>4 DEF LogInv
  <2>2. epoch' \in 1 .. MaxEpochs /\ lastSentSeq' \in 0 .. currentSeq'
    BY <1>1, <1>2
  <2>3. /\ socket' \in {"down", "open", "closing"} /\ down' \in Seq(DownFrame)
        /\ Load(down') <= QueueCap
    BY <1>8 DEF SyncInv, TypeOK
  <2> QED
    BY <1>1, <2>1, <2>2, <2>3 DEF SyncInv, TypeOK
<1> QED
  BY <1>3, <1>4, <1>5, <1>6, <1>7, <1>9, <1>10, <1>11, <1>12 DEF SyncInv

(* At the start the phone shows nothing and nothing happened.                *)
LEMMA InitSync == Init => SyncInv
<1> SUFFICES ASSUME Init PROVE SyncInv
  OBVIOUS
<1>1. LogInv
  BY InitLogInv DEF Init
<1>2. /\ state = Blank /\ epoch = 1 /\ currentSeq = 0 /\ events = <<>>
      /\ history = <<Blank>> /\ base = <<1>> /\ cursor = NoCursor /\ ackCursor = NoCursor
      /\ replica = Blank /\ session = "none" /\ lastSentSeq = 0 /\ socket = "down"
      /\ down = <<>> /\ up = <<>> /\ refused = FALSE
  BY DEF Init, LogInit
<1>3. MaxSeq * MaxEpochs \in Nat /\ MaxSeq \in Nat /\ MaxEpochs \in Nat \ {0}
  BY CompanionSyncAssumption, EventLogAssumption
<1>4. Blank \in States
  <2> PICK top \in Nat : top = MaxSeq * MaxEpochs
    BY <1>3
  <2>1. Blank \in [Items -> 0 .. top]
    BY DEF Blank
  <2> QED
    BY <2>1 DEF States
<1>5. TypeOK
  <2>1. Load(down) <= QueueCap
    BY <1>2, LoadTail, CompanionSyncAssumption
  <2>2. LogTypeOK /\ currentSeq = 0 /\ lastSentSeq = 0
    BY <1>1, <1>2 DEF LogInv
  <2>3. /\ state \in States /\ replica \in States /\ epoch \in 1 .. MaxEpochs
        /\ breaks \in 0 .. MaxBreaks /\ lastSentSeq \in 0 .. currentSeq
    BY <1>2, <1>3, <1>4, <2>2, CompanionSyncAssumption DEF Init
  <2>4. /\ syncQueued \in BOOLEAN /\ lingering \in BOOLEAN /\ refused \in BOOLEAN
        /\ session \in {"none", "attached", "connected"}
        /\ socket \in {"down", "open", "closing"}
        /\ cursor \in Cursor \cup {NoCursor} /\ ackCursor \in Cursor \cup {NoCursor}
    BY <1>2 DEF Init
  <2>5. down \in Seq(DownFrame) /\ up \in Seq(UpFrame)
    BY <1>2
  <2> QED
    BY <2>1, <2>2, <2>3, <2>4, <2>5 DEF TypeOK
<1>6. HistoryOK
  <2>1. /\ history \in Seq(States) /\ Len(history) = 1 /\ history[1] = Blank
        /\ base \in Seq(Nat \ {0}) /\ Len(base) = 1 /\ base[1] = 1
    BY <1>2, <1>4
  <2>2. \A i \in Items : state[i] = 0
    BY <1>2 DEF Blank
  <2>3. MaxSeq * (epoch - 1) + currentSeq = 0
    BY <1>2, <1>3
  <2>4. \A i \in Items : state[i] <= MaxSeq * (epoch - 1) + currentSeq
    BY <2>2, <2>3
  <2>5. \A d, e \in 1 .. epoch : d < e => base[d] < base[e]
    <3>1. \A d, e \in 1 .. epoch : ~(d < e)
      BY <1>2
    <3> QED
      BY <3>1
  <2>6. Len(base) = epoch /\ Len(history) = base[epoch] + currentSeq /\ state = history[Len(history)]
    BY <1>2, <2>1
  <2>7. /\ history \in Seq(States) /\ base \in Seq(Nat \ {0})
        /\ \A i \in Items : state[i] <= MaxSeq * (epoch - 1) + currentSeq
        /\ \A d, e \in 1 .. epoch : d < e => base[d] < base[e]
    BY <2>1, <2>4, <2>5
  <2> QED
    BY <2>6, <2>7 DEF HistoryOK
<1>7. EventsOK
  BY <1>2 DEF EventsOK
<1>8. PhoneOK /\ SessionOK /\ StreamOK /\ NeverRefused
  BY <1>2 DEF PhoneOK, SessionOK, StreamOK, NeverRefused
<1>9. FramesOK
  BY <1>2, NoFrames DEF FramesOK
<1> QED
  BY <1>1, <1>5, <1>6, <1>7, <1>8, <1>9 DEF SyncInv

(* Every step keeps the invariant.                                           *)
LEMMA NextSync == SyncInv /\ [Next]_vars => SyncInv'
<1> SUFFICES ASSUME SyncInv, [Next]_vars PROVE SyncInv'
  OBVIOUS
<1>1. ASSUME NEW item \in Bodies, Publish(item) PROVE SyncInv'
  BY <1>1, PublishKeeps
<1>2. ASSUME NEW item \in Items, AgentEvent(item) PROVE SyncInv'
  BY <1>2, AgentEventKeeps
<1>3. CASE Synchronize
  BY <1>3, SynchronizeKeeps
<1>4. CASE ReceiveHello
  BY <1>4, ReceiveHelloKeeps
<1>5. CASE ReceiveAck
  BY <1>5, ReceiveAckKeeps
<1>6. CASE NoticeDead
  BY <1>6, NoticeDeadKeeps
<1>7. CASE Restart
  BY <1>7, RestartKeeps
<1>8. CASE PhoneReceives
  BY <1>8, ReceivesKeeps
<1>9. CASE PhoneSeesClose
  BY <1>9, SeesCloseKeeps
<1>10. CASE Connect
  BY <1>10, ConnectKeeps
<1>11. CASE Break \/ Relaunch
  BY <1>11, LostKeeps
<1>12. CASE UNCHANGED vars
  <2>1. /\ UNCHANGED <<state, epoch, currentSeq, droppedThrough, events, history, base>>
        /\ UNCHANGED <<session, lastSentSeq, socket, down, phone, breaks, refused>>
        /\ acknowledgements' = acknowledgements /\ syncQueued' = syncQueued
        /\ lingering' = lingering /\ up' = up
    BY <1>12 DEF vars, desktop, stream, wire
  <2>2. /\ acknowledgements' \in [Clients -> 0 .. currentSeq] /\ up' \in Seq(UpFrame)
        /\ syncQueued' \in BOOLEAN /\ lingering' \in BOOLEAN
    BY <2>1 DEF SyncInv, TypeOK, LogTypeOK
  <2>3. session = "connected" => \A i \in 1 .. Len(up') :
           up'[i].kind = "ack" /\ up'[i].cursor.epoch = epoch /\ up'[i].cursor.seq <= currentSeq
    BY <2>1 DEF SyncInv, SessionOK
  <2> QED
    BY <2>1, <2>2, <2>3, NoteKeeps
<1> QED
  BY <1>1, <1>2, <1>3, <1>4, <1>5, <1>6, <1>7, <1>8, <1>9, <1>10, <1>11, <1>12 DEF Next

-----------------------------------------------------------------------------
(* What holds of the desktop, of every frame under way and of the phone in    *)
(* every reachable state, whatever breaks or restarts.                       *)
THEOREM SyncInvariant == Spec => []SyncInv
<1>1. Init => SyncInv
  BY InitSync
<1>2. SyncInv /\ [Next]_vars => SyncInv'
  BY NextSync
<1> QED
  BY <1>1, <1>2, PTL DEF Spec

(* Type correctness: in particular a session's stream is never ahead of the   *)
(* log, and a connection never queues more than it may.                      *)
THEOREM SyncTypeCorrect == Spec => []TypeOK
<1>1. SyncInv => TypeOK
  BY DEF SyncInv
<1> QED
  BY <1>1, SyncInvariant, PTL

(* The desktop never refuses what the phone sends: every acknowledgement under *)
(* way is of its epoch and within its log.                                   *)
THEOREM PhoneNeverRefused == Spec => []NeverRefused
<1>1. SyncInv => NeverRefused
  BY DEF SyncInv
<1> QED
  BY <1>1, SyncInvariant, PTL

-----------------------------------------------------------------------------
ViewOK == View \in 0 .. Len(history) /\ Len(history) \in Nat /\ (cursor = NoCursor <=> View = 0)

(* An event appended to the log, an agent's event or a restart changes the    *)
(* desktop; a frame the phone applies catches it up; a relaunch forgets;       *)
(* nothing else can be seen.                                                *)
LEMMA StepRefines ==
    ASSUME SyncInv, SyncInv', ViewOK, ViewOK', [Next]_vars
    PROVE  [Abstract!Change \/ Abstract!CatchUp \/ Abstract!Forget]_<<history, View, replica>>
<1>1. ASSUME Grows, UNCHANGED phone PROVE Abstract!Change
  <2>1. View' = View
    BY <1>1, GrownPhone
  <2> QED
    BY <1>1, <2>1 DEF Grows, phone, Abstract!Change
<1>2. ASSUME UNCHANGED <<history, base, cursor, replica>> PROVE UNCHANGED <<history, View, replica>>
  BY <1>2 DEF View
<1>3. ASSUME NEW item \in Bodies, Publish(item) PROVE Abstract!Change
  <2>1. Grows
    BY <1>3, PublishKeeps
  <2> QED
    BY <1>1, <1>3, <2>1 DEF Publish
<1>4. ASSUME NEW item \in Items, AgentEvent(item) PROVE Abstract!Change
  <2>1. Grows
    BY <1>4, AgentEventKeeps
  <2> QED
    BY <1>1, <1>4, <2>1 DEF AgentEvent
<1>5. CASE Restart
  <2>1. Grows
    BY <1>5, RestartKeeps
  <2> QED
    BY <1>1, <1>5, <2>1 DEF Restart
<1>6. CASE PhoneReceives
  <2>1. history' = history /\ View <= View'
    BY <1>6, ReceivesKeeps DEF PhoneReceives, desktop
  <2>2. /\ replica = (IF cursor = NoCursor THEN Blank ELSE history[View])
        /\ replica' = (IF cursor' = NoCursor THEN Blank ELSE history'[View'])
    BY DEF SyncInv, PhoneOK
  <2>3. CASE View' = View
    BY <2>1, <2>2, <2>3 DEF ViewOK
  <2>4. CASE View' # View
    <3>1. View' \in View + 1 .. Len(history) /\ cursor' # NoCursor
      BY <2>1, <2>4 DEF ViewOK
    <3>2. replica' = history[View']
      BY <2>1, <2>2, <3>1
    <3> QED
      BY <2>1, <3>1, <3>2 DEF Abstract!CatchUp
  <2> QED
    BY <2>3, <2>4
<1>7. CASE Relaunch
  <2>1. history' = history /\ View' = 0 /\ replica' = Blank
    BY <1>7 DEF Relaunch, Lost, desktop, View
  <2> QED
    BY <2>1 DEF Abstract!Forget
<1>8. CASE Synchronize \/ ReceiveHello \/ ReceiveAck \/ NoticeDead
  BY <1>2, <1>8 DEF Synchronize, ReceiveHello, ReceiveAck, NoticeDead, phone
<1>9. CASE PhoneSeesClose \/ Connect \/ Break
  BY <1>2, <1>9 DEF PhoneSeesClose, Connect, Break, Lost, phone, desktop
<1>10. CASE UNCHANGED vars
  BY <1>2, <1>10 DEF vars, desktop, phone
<1> QED
  BY <1>3, <1>4, <1>5, <1>6, <1>7, <1>8, <1>9, <1>10 DEF Next

(* The phone implements ReplicaView: whatever is trimmed, invalidated, lost,   *)
(* filtered, restarted or sent twice, it shows nothing, or the desktop exactly *)
(* as it was at one moment, and never goes back to an earlier one.            *)
THEOREM PhoneShowsOneMoment == Spec => ShowsOneMoment
<1>1. Init => Abstract!Init
  <2> SUFFICES ASSUME Init PROVE Abstract!Init
    OBVIOUS
  <2>1. SyncInv
    BY InitSync
  <2>2. history = <<state>> /\ cursor = NoCursor /\ replica = Blank /\ state \in States
    BY <2>1 DEF Init, SyncInv, TypeOK
  <2> QED
    BY <2>2 DEF Abstract!Init, View
<1>2. SyncInv => ViewOK
  <2> SUFFICES ASSUME SyncInv PROVE ViewOK
    OBVIOUS
  <2>1. Len(history) \in Nat
    BY Places DEF SyncInv
  <2> QED
    BY <2>1, ViewIsThere DEF ViewOK
<1>3. SyncInv /\ SyncInv' /\ ViewOK /\ ViewOK' /\ [Next]_vars =>
         [Abstract!Change \/ Abstract!CatchUp \/ Abstract!Forget]_<<history, View, replica>>
  BY StepRefines
<1> QED
  BY <1>1, <1>2, <1>3, SyncInvariant, PTL DEF Spec, ShowsOneMoment, Abstract!Spec, Abstract!vars

=============================================================================
