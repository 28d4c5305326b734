------------------------- MODULE TerminalStreamsProofs -------------------------
(***************************************************************************)
(* That the members of a stream show one stretch of the terminal's output,     *)
(* which never goes back and ends with its last chunk once all has settled,    *)
(* for any number of phones and streams.                                     *)
(***************************************************************************)
EXTENDS TerminalStreams, SelectionProofs

-----------------------------------------------------------------------------
(* Where a session waits is kept by a sequence of sessions.                   *)
LEMMA WaitsType ==
  ASSUME order \in Seq(Sessions), NEW s \in Sessions, Waits(s)
  PROVE  order' \in Seq(Sessions)
<1> DEFINE places == {i \in DOMAIN order : order[i] # s}
<1>1. places \in SUBSET (1 .. Len(order))
  OBVIOUS
<1> HIDE DEF places
<1>2. Selected(order, places) \in Seq(Sessions)
  BY <1>1, SelectedKeepsOrder
<1>3. order' = Selected(order, places) \o (IF task'[s] = Idle THEN <<>> ELSE <<s>>)
  BY DEF Waits, places
<1> QED
  BY <1>2, <1>3

(* Events that came during the setup are applied one by one.                  *)
LEMMA PendingSteps ==
  ASSUME NEW pending, Len(pending) \in Nat, NEW snapshot
  PROVE  \E upTo : /\ WithPending(snapshot, pending) = upTo[Len(pending)] /\ upTo[0] = snapshot
                  /\ \A k \in 1 .. Len(pending) : upTo[k] = Applied(upTo[k - 1], pending[k])
<1> DEFINE Upto(f, k) == [i \in 0 .. k |-> IF i = 0 THEN snapshot ELSE Applied(f[i - 1], pending[i])]
           bad == {k \in Nat : ~ \E f : f = Upto(f, k)}
<1>1. \A k \in Nat : \E f : f = Upto(f, k)
  <2> SUFFICES ASSUME bad # {} PROVE FALSE
    OBVIOUS
  <2>1. PICK k \in bad : \A j \in bad : k <= j
    BY LeastNatural
  <2>2. k # 0
    <3> DEFINE f == [i \in 0 .. 0 |-> snapshot]
    <3>1. f = Upto(f, 0)
      OBVIOUS
    <3> QED
      BY <2>1, <3>1
  <2>3. k - 1 \in Nat /\ k - 1 \notin bad
    <3>1. k \in Nat /\ \A j \in bad : j \in Nat
      BY <2>1
    <3> HIDE DEF bad
    <3> QED
      BY <2>1, <2>2, <3>1
  <2>4. PICK g : g = Upto(g, k - 1)
    BY <2>3
  <2> DEFINE f == [i \in 0 .. k |-> IF i < k THEN g[i] ELSE Applied(g[k - 1], pending[k])]
  <2>5. f = Upto(f, k)
    <3>1. \A i \in 0 .. k : f[i] = Upto(f, k)[i]
      <4> SUFFICES ASSUME NEW i \in 0 .. k PROVE f[i] = Upto(f, k)[i]
        OBVIOUS
      <4>1. CASE i = 0
        BY <2>2, <2>4, <4>1
      <4>2. CASE i # 0 /\ i < k
        <5>1. i \in 0 .. k - 1 /\ i - 1 \in 0 .. k - 1
          BY <2>1, <4>2
        <5>2. g[i] = Applied(g[i - 1], pending[i])
          BY <2>4, <4>2, <5>1
        <5>3. f[i] = g[i] /\ f[i - 1] = g[i - 1]
          BY <2>1, <4>2, <5>1
        <5> QED
          BY <4>2, <5>2, <5>3
      <4>3. CASE i = k
        <5>1. k - 1 \in 0 .. k /\ k - 1 < k /\ ~(k < k)
          BY <2>1, <2>2
        <5>2. f[k - 1] = g[k - 1] /\ f[k] = Applied(g[k - 1], pending[k])
          BY <2>1, <5>1
        <5> QED
          BY <2>2, <4>3, <5>2
      <4> QED
        BY <2>1, <4>1, <4>2, <4>3
    <3> QED
      BY <3>1
  <2> HIDE DEF f
  <2> QED
    BY <2>1, <2>5
<1> DEFINE upTo == CHOOSE f : f = Upto(f, Len(pending))
<1>2. upTo = Upto(upTo, Len(pending))
  BY <1>1
<1>3. WithPending(snapshot, pending) = upTo[Len(pending)]
  BY DEF WithPending
<1> HIDE DEF upTo
<1>4. /\ upTo[0] = snapshot
      /\ \A k \in 1 .. Len(pending) : upTo[k] = Applied(upTo[k - 1], pending[k])
  BY <1>2
<1> QED
  BY <1>3, <1>4

(* What holds of a snapshot and is kept by each event holds when the events    *)
(* that came during the setup have been applied.                             *)
LEMMA PendingApplied ==
  ASSUME NEW G, NEW pending, Len(pending) \in Nat, NEW snapshot \in G,
         \A x \in G, i \in 1 .. Len(pending) : Applied(x, pending[i]) \in G
  PROVE  WithPending(snapshot, pending) \in G
<1>1. PICK upTo : /\ WithPending(snapshot, pending) = upTo[Len(pending)] /\ upTo[0] = snapshot
                  /\ \A k \in 1 .. Len(pending) : upTo[k] = Applied(upTo[k - 1], pending[k])
  BY PendingSteps
<1>2. \A k \in 0 .. Len(pending) : upTo[k] \in G
  <2> DEFINE wrong == {k \in Nat : k <= Len(pending) /\ upTo[k] \notin G}
  <2> SUFFICES ASSUME wrong # {} PROVE FALSE
    OBVIOUS
  <2>1. PICK k \in wrong : \A j \in wrong : k <= j
    BY LeastNatural
  <2>2. k # 0
    BY <1>1, <2>1
  <2>3. k - 1 \in Nat /\ k - 1 \notin wrong /\ k - 1 <= Len(pending) /\ k \in 1 .. Len(pending)
    BY <2>1, <2>2
  <2>4. upTo[k - 1] \in G
    BY <2>3
  <2> QED
    BY <1>1, <2>1, <2>3, <2>4
<1> QED
  BY <1>1, <1>2

(* ... in the order they came.                                               *)
LEMMA PendingAppended ==
  ASSUME NEW S, NEW pending \in Seq(S), NEW event \in S, NEW snapshot
  PROVE  WithPending(snapshot, Append(pending, event)) = Applied(WithPending(snapshot, pending), event)
<1> DEFINE longer == Append(pending, event)
<1>1. Len(pending) \in Nat /\ Len(longer) = Len(pending) + 1
  BY LenProperties
<1>2. longer[Len(longer)] = event /\ \A k \in 1 .. Len(pending) : longer[k] = pending[k]
  BY <1>1
<1> HIDE DEF longer
<1>3. PICK f : /\ WithPending(snapshot, pending) = f[Len(pending)] /\ f[0] = snapshot
               /\ \A k \in 1 .. Len(pending) : f[k] = Applied(f[k - 1], pending[k])
  BY <1>1, PendingSteps
<1>4. PICK g : /\ WithPending(snapshot, longer) = g[Len(longer)] /\ g[0] = snapshot
               /\ \A k \in 1 .. Len(longer) : g[k] = Applied(g[k - 1], longer[k])
  BY <1>1, PendingSteps
<1>5. \A k \in 0 .. Len(pending) : g[k] = f[k]
  <2> DEFINE wrong == {k \in Nat : k <= Len(pending) /\ g[k] # f[k]}
  <2> SUFFICES ASSUME wrong # {} PROVE FALSE
    BY <1>1
  <2>1. PICK k \in wrong : \A j \in wrong : k <= j
    BY LeastNatural
  <2>2. k # 0
    BY <1>3, <1>4, <2>1
  <2>3. k - 1 \in Nat /\ k - 1 \notin wrong /\ k - 1 <= Len(pending) /\ k \in 1 .. Len(pending) /\ k \in 1 .. Len(longer)
    BY <1>1, <2>1, <2>2
  <2>4. g[k - 1] = f[k - 1] /\ longer[k] = pending[k]
    BY <1>2, <2>3
  <2>5. g[k] = f[k]
    BY <1>3, <1>4, <2>3, <2>4
  <2> QED
    BY <2>1, <2>5
<1>6. Len(longer) \in 1 .. Len(longer) /\ Len(longer) - 1 = Len(pending) /\ Len(pending) \in 0 .. Len(pending)
  BY <1>1
<1> QED
  BY <1>2, <1>3, <1>4, <1>5, <1>6 DEF longer

(* Sequences of frames are put together one by one.                           *)
LEMMA FlattenSteps ==
  ASSUME NEW S, NEW seqs, Len(seqs) \in Nat, \A i \in 1 .. Len(seqs) : seqs[i] \in Seq(S)
  PROVE  \E flat : /\ FlattenSeq(seqs) = IF Len(seqs) = 0 THEN seqs ELSE flat[Len(seqs)]
                  /\ \A k \in 1 .. Len(seqs) :
                        flat[k] \in Seq(S) /\ flat[k] = IF k = 1 THEN seqs[k] ELSE flat[k - 1] \o seqs[k]
<1> DEFINE Upto(f, k) == [i \in 1 .. k |-> IF i = 1 THEN seqs[i] ELSE f[i - 1] \o seqs[i]]
           bad == {k \in Nat : ~ \E f : f = Upto(f, k)}
<1>1. \A k \in Nat : \E f : f = Upto(f, k)
  <2> SUFFICES ASSUME bad # {} PROVE FALSE
    OBVIOUS
  <2>1. PICK k \in bad : \A j \in bad : k <= j
    BY LeastNatural
  <2>2. k # 0
    <3> DEFINE f == [i \in 1 .. 0 |-> seqs]
    <3>1. f = Upto(f, 0)
      OBVIOUS
    <3> QED
      BY <2>1, <3>1
  <2>3. k - 1 \in Nat /\ k - 1 \notin bad
    <3>1. k \in Nat /\ \A j \in bad : j \in Nat
      BY <2>1
    <3> HIDE DEF bad
    <3> QED
      BY <2>1, <2>2, <3>1
  <2>4. PICK g : g = Upto(g, k - 1)
    BY <2>3
  <2> DEFINE f == [i \in 1 .. k |-> IF i < k THEN g[i] ELSE IF k = 1 THEN seqs[1] ELSE g[k - 1] \o seqs[k]]
  <2>5. f = Upto(f, k)
    <3>1. \A i \in 1 .. k : f[i] = Upto(f, k)[i]
      <4> SUFFICES ASSUME NEW i \in 1 .. k PROVE f[i] = Upto(f, k)[i]
        OBVIOUS
      <4>1. CASE i = 1 /\ i < k
        BY <2>1, <2>4, <4>1
      <4>2. CASE i # 1 /\ i < k
        <5>1. i \in 1 .. k - 1 /\ i - 1 \in 1 .. k - 1
          BY <2>1, <4>2
        <5>2. g[i] = g[i - 1] \o seqs[i]
          BY <2>4, <4>2, <5>1
        <5>3. f[i] = g[i] /\ f[i - 1] = g[i - 1]
          BY <2>1, <4>2, <5>1
        <5> QED
          BY <4>2, <5>2, <5>3
      <4>3. CASE i = k /\ k # 1
        <5>1. k - 1 \in 1 .. k /\ k - 1 < k /\ ~(k < k)
          BY <2>1, <2>2, <4>3
        <5>2. f[k - 1] = g[k - 1] /\ f[k] = g[k - 1] \o seqs[k]
          BY <2>1, <4>3, <5>1
        <5> QED
          BY <2>2, <4>3, <5>2
      <4>4. CASE i = 1 /\ k = 1
        BY <4>4
      <4> QED
        BY <2>1, <4>1, <4>2, <4>3, <4>4
    <3> QED
      BY <3>1
  <2> HIDE DEF f
  <2> QED
    BY <2>1, <2>5
<1> DEFINE flat == CHOOSE f : f = Upto(f, Len(seqs))
<1>2. flat = Upto(flat, Len(seqs))
  BY <1>1
<1>3. FlattenSeq(seqs) = IF Len(seqs) = 0 THEN seqs ELSE flat[Len(seqs)]
  BY DEF FlattenSeq
<1> HIDE DEF flat
<1>4. \A k \in 1 .. Len(seqs) : flat[k] = IF k = 1 THEN seqs[k] ELSE flat[k - 1] \o seqs[k]
  BY <1>2
<1>5. \A k \in 1 .. Len(seqs) : flat[k] \in Seq(S)
  <2> DEFINE wrong == {k \in Nat : k >= 1 /\ k <= Len(seqs) /\ flat[k] \notin Seq(S)}
  <2> SUFFICES ASSUME wrong # {} PROVE FALSE
    OBVIOUS
  <2>1. PICK k \in wrong : \A j \in wrong : k <= j
    BY LeastNatural
  <2>2. k # 1
    BY <1>4, <2>1
  <2>3. k - 1 \in Nat /\ k - 1 \notin wrong /\ k - 1 >= 1 /\ k - 1 <= Len(seqs) /\ k \in 1 .. Len(seqs)
    BY <2>1, <2>2
  <2>4. flat[k - 1] \in Seq(S) /\ seqs[k] \in Seq(S)
    BY <2>3
  <2>5. flat[k - 1] \o seqs[k] \in Seq(S)
    BY <2>4
  <2>6. flat[k] \in Seq(S)
    BY <1>4, <2>2, <2>3, <2>5
  <2> QED
    BY <2>1, <2>6
<1> HIDE DEF bad
<1> QED
  BY <1>3, <1>4, <1>5

(* What sequences of frames are put together from frames is one of frames.    *)
LEMMA FlattenType ==
  ASSUME NEW S, NEW seqs, Len(seqs) \in Nat, Len(seqs) = 0 => seqs = <<>>,
         \A i \in 1 .. Len(seqs) : seqs[i] \in Seq(S)
  PROVE  FlattenSeq(seqs) \in Seq(S)
<1>1. PICK flat : /\ FlattenSeq(seqs) = IF Len(seqs) = 0 THEN seqs ELSE flat[Len(seqs)]
                  /\ \A k \in 1 .. Len(seqs) : flat[k] \in Seq(S)
  BY FlattenSteps
<1>2. Len(seqs) # 0 => Len(seqs) \in 1 .. Len(seqs)
  OBVIOUS
<1>3. <<>> \in Seq(S)
  OBVIOUS
<1> QED
  BY <1>1, <1>2, <1>3

-----------------------------------------------------------------------------
(* Snapshots that are text: no longer than a snapshot may be, and not empty   *)
(* once there is output.                                                    *)
Snapshots == {x \in Snapshot : /\ x.from <= x.to /\ x.to - x.from <= Retained
                               /\ x.to > 0 => x.from < x.to}

(* What a stream holds at each stage of its setup.                           *)
StreamRecords == {r \in Stream :
    /\ r.snapshot \in Snapshots \cup {NoSnapshot} /\ r.answer \in Snapshots \cup {NoSnapshot}
    /\ Len(r.pending) <= MaxPending
    /\ r.setup \in {"ready", "dropping"} => r.snapshot # NoSnapshot
    /\ r.setup \in {"asking", "answered"} => r.snapshot = NoSnapshot
    /\ r.setup = "answered" => r.answer # NoSnapshot
    /\ r.setup # "failed" => r.device \in Devices
    /\ r.dispose = "unsubscribe" => r.setup = "ready"}

Answers == {a \in Answer : a.snapshot \in Snapshots \cup {NoSnapshot}
                           /\ (a.kind = "subscribed" /\ a.ok => a.snapshot # NoSnapshot)}

Placed ==
    /\ up \subseteq Sessions /\ device \in [Sessions -> Devices]
    /\ task \in [Sessions -> Task] /\ order \in Seq(Sessions)
    /\ marker \in [Sessions -> StreamIds \cup {NoStream}]
    /\ \A s \in Sessions : /\ task[s].stage \notin {"idle", "find"} => task[s].stream \in StreamIds
                           /\ task[s].stage = "idle" => task[s] = Idle

Streamed ==
    /\ streams \in [StreamIds -> StreamRecords]
    /\ current \in StreamIds \cup {NoStream}
    /\ owner \in [Devices -> StreamIds \cup {NoStream}]

Shows == view \in [Sessions -> Seq(Chunks)] /\ reached \in [Sessions -> 0 .. MaxWorld]

Observers == {d \in Devices : observer[d] # "none"}

Brokered ==
    /\ observer \in [Devices -> {"none", "live", "paused"}]
    /\ IsFiniteSet(Observers)
    /\ produced \in 0 .. MaxWorld /\ alive \in BOOLEAN
    /\ toBroker \in Seq(Ask) /\ toMain \in Seq(Event \cup Answers)
    /\ faults \in [breaks : 0 .. MaxWorld, timeouts : 0 .. MaxWorld]
    /\ produced + faults.breaks + faults.timeouts + (IF alive THEN 0 ELSE 1) <= MaxWorld

Fits == \A n \in StreamIds : IsFiniteSet(Members(n)) /\ Cardinality(Members(n)) <= MaxMembers

TypeInv == Placed /\ Streamed /\ Shows /\ Brokered /\ Fits

(* What is proved of every state says more than its type.                    *)
LEMMA InvImpliesType == TypeInv => TypeOK
<1> SUFFICES ASSUME TypeInv PROVE TypeOK
  OBVIOUS
<1>1. \A n \in StreamIds : /\ streams[n] \in Stream /\ Len(streams[n].pending) <= MaxPending
                           /\ streams[n].snapshot \in Snapshots \cup {NoSnapshot}
  BY DEF TypeInv, Streamed, StreamRecords
<1>2. streams \in [StreamIds -> Stream]
  BY <1>1 DEF TypeInv, Streamed
<1>3. \A n \in StreamIds : streams[n].snapshot.to - streams[n].snapshot.from <= Retained
  BY <1>1, TerminalStreamsAssumption DEF Snapshots, NoSnapshot
<1>4. toMain \in Seq(Event \cup Answer)
  <2>1. Answers \subseteq Answer
    BY DEF Answers
  <2> QED
    BY <2>1 DEF TypeInv, Brokered
<1> QED
  BY <1>1, <1>2, <1>3, <1>4 DEF TypeInv, TypeOK, Placed, Streamed, Shows, Brokered, Fits, Members

(* Nothing is there yet.                                                     *)
LEMMA InitTypes == Init => TypeInv
<1> SUFFICES ASSUME Init PROVE TypeInv
  OBVIOUS
<1> USE TerminalStreamsAssumption
<1>0. NoStream \notin StreamIds
  BY DEF NoStream, StreamIds
<1>1. Placed
  BY DEF Init, Placed, Idle, Task, NoStream
<1>2. Unused \in StreamRecords
  BY DEF Unused, StreamRecords, Stream, NoSnapshot, NoDevice
<1>3. Streamed
  BY <1>2 DEF Init, Streamed
<1>4. Shows
  BY DEF Init, Shows
<1>5. Observers = {} /\ \A n \in StreamIds : Members(n) = {}
  BY <1>0 DEF Init, Observers, Members
<1>6. IsFiniteSet({}) /\ Cardinality({}) = 0
  BY FS_EmptySet
<1>7. Brokered
  BY <1>5, <1>6 DEF Init, Brokered
<1>8. Fits
  BY <1>5, <1>6 DEF Fits
<1> QED
  BY <1>1, <1>3, <1>4, <1>7, <1>8 DEF TypeInv

(* A stream that nobody has or wants begins to close.                         *)
LEMMA MaybeDisposedCloses ==
  ASSUME NEW strs \in [StreamIds -> StreamRecords], NEW n, NEW members
  PROVE  /\ MaybeDisposed(strs, n, members) \in [StreamIds -> StreamRecords]
         /\ \A m \in StreamIds :
               \/ MaybeDisposed(strs, n, members)[m] = strs[m]
               \/ /\ m = n /\ members = {} /\ strs[m].interests = {} /\ strs[m].dispose = "no"
                  /\ MaybeDisposed(strs, n, members)[m] = [strs[m] EXCEPT !.dispose = "setup"]
         /\ n \in StreamIds /\ members = {} /\ strs[n].interests = {}
               => MaybeDisposed(strs, n, members)[n].dispose # "no"
<1>1. CASE n \in StreamIds /\ members = {} /\ strs[n].interests = {} /\ strs[n].dispose = "no"
  <2>1. MaybeDisposed(strs, n, members) = [strs EXCEPT ![n].dispose = "setup"]
    BY <1>1 DEF MaybeDisposed
  <2>2. [strs[n] EXCEPT !.dispose = "setup"] \in StreamRecords
    BY <1>1 DEF StreamRecords, Stream
  <2>3. \A m \in StreamIds : MaybeDisposed(strs, n, members)[m]
                              = IF m = n THEN [strs[m] EXCEPT !.dispose = "setup"] ELSE strs[m]
    BY <2>1
  <2>4. [strs[n] EXCEPT !.dispose = "setup"].dispose = "setup"
    BY <1>1 DEF StreamRecords, Stream
  <2> QED
    BY <1>1, <2>1, <2>2, <2>3, <2>4
<1>2. CASE ~(n \in StreamIds /\ members = {} /\ strs[n].interests = {} /\ strs[n].dispose = "no")
  BY <1>2 DEF MaybeDisposed
<1> QED
  BY <1>1, <1>2

-----------------------------------------------------------------------------
(* Types, action by action.                                                  *)
(* A session whose command is at a stage it can be at.                        *)
TaskOK(t) == /\ t \in Task
             /\ t.stage \notin {"idle", "find"} => t.stream \in StreamIds
             /\ t.stage = "idle" => t = Idle

(* A command moves on to a stage it can be at, and nothing else is moved.    *)
LEMMA TaskKept ==
  ASSUME Placed, NEW s \in Sessions, NEW t, TaskOK(t), task' = [task EXCEPT ![s] = t], Waits(s),
         UNCHANGED <<up, device>>, marker' \in [Sessions -> StreamIds \cup {NoStream}]
  PROVE  Placed'
<1>1. order' \in Seq(Sessions)
  BY WaitsType DEF Placed
<1>2. \A r \in Sessions : TaskOK(task[r])
  BY DEF Placed, TaskOK
<1>3. \A r \in Sessions : TaskOK(task'[r])
  BY <1>2 DEF Placed
<1>4. task' \in [Sessions -> Task]
  BY <1>3 DEF Placed, TaskOK
<1> QED
  BY <1>1, <1>3, <1>4 DEF Placed, TaskOK

(* Every step keeps sessions and their commands where they can be.           *)
LEMMA NextPlaced == ASSUME Placed, Streamed, Next PROVE Placed'
<1> USE TerminalStreamsAssumption
<1>0. NoStream \notin StreamIds /\ TaskOK(Idle)
  BY DEF NoStream, StreamIds, TaskOK, Idle, Task
<1>1. ASSUME NEW s \in Sessions, Subscribe(s) \/ Unsubscribe(s) PROVE Placed'
  <2> DEFINE find == [command |-> "subscribe", stage |-> "find", stream |-> NoStream]
  <2>0. Leave(s, "subscribe", find) \/ Leave(s, "unsubscribe", Idle)
    BY <1>1 DEF Subscribe, Unsubscribe
  <2>1. PICK command \in {"subscribe", "unsubscribe"}, next \in {Idle, find} : Leave(s, command, next)
    BY <2>0
  <2>2. TaskOK(next)
    BY <1>0, <2>1 DEF TaskOK, Task
  <2>3. marker[s] \in StreamIds => TaskOK([command |-> command, stage |-> "detach", stream |-> marker[s]])
    BY <2>1 DEF TaskOK, Task
  <2>4. \E t : TaskOK(t) /\ task' = [task EXCEPT ![s] = t]
    BY <1>0, <2>1, <2>2, <2>3 DEF Leave, Placed
  <2>5. Waits(s) /\ UNCHANGED <<up, device>> /\ marker' = [marker EXCEPT ![s] = NoStream]
    BY <1>1 DEF Subscribe, Unsubscribe, Leave
  <2>6. marker' \in [Sessions -> StreamIds \cup {NoStream}]
    BY <2>5 DEF Placed
  <2> QED
    BY <2>4, <2>5, <2>6, TaskKept
<1>2. ASSUME NEW s \in Sessions, Detached(s) PROVE Placed'
  <2> DEFINE find == [task[s] EXCEPT !.stage = "find", !.stream = NoStream]
  <2>1. TaskOK(find)
    BY DEF Placed, TaskOK, Task, NoStream
  <2>2. \E t : TaskOK(t) /\ task' = [task EXCEPT ![s] = t]
    BY <1>0, <1>2, <2>1 DEF Detached
  <2> QED
    BY <1>2, <2>2, TaskKept DEF Detached, Placed
<1>3. ASSUME NEW s \in Sessions, FindStream(s) \/ TakeAfterDisposal(s) PROVE Placed'
  <2>1. \E n \in StreamIds, stage \in {"await", "got"} :
            task' = [task EXCEPT ![s] = [task[s] EXCEPT !.stage = stage, !.stream = n]]
    <3>1. CASE Take(s) /\ current = NoStream
      BY <3>1 DEF Take, Create, Placed
    <3>2. CASE Take(s) /\ current # NoStream
      BY <3>2 DEF Take, Placed, Streamed
    <3>3. CASE FindStream(s) /\ current # NoStream /\ Closing(current)
      BY <3>3 DEF FindStream, Placed, Streamed
    <3> QED
      BY <1>3, <3>1, <3>2, <3>3 DEF FindStream, TakeAfterDisposal
  <2>2. \A n \in StreamIds, stage \in {"await", "got"} :
            TaskOK([task[s] EXCEPT !.stage = stage, !.stream = n])
    BY DEF Placed, TaskOK, Task
  <2> QED
    BY <1>3, <2>1, <2>2, TaskKept DEF FindStream, TakeAfterDisposal, Placed
<1>4. ASSUME NEW s \in Sessions, Got(s) \/ Join(s) \/ Undone(s) PROVE Placed'
  <2>1. task[s].stream \in StreamIds
    BY <1>4 DEF Got, Join, Undone, Placed
  <2>2. \A stage \in {"setup", "undo"} : TaskOK([task[s] EXCEPT !.stage = stage])
    BY <2>1 DEF Placed, TaskOK, Task
  <2>3. \E t : TaskOK(t) /\ task' = [task EXCEPT ![s] = t]
    BY <1>0, <1>4, <2>2 DEF Got, Join, Undone, GiveUp, Placed
  <2>4. Waits(s) /\ UNCHANGED <<up, device>> /\ marker' \in [Sessions -> StreamIds \cup {NoStream}]
    BY <1>4, <2>1 DEF Got, Join, Undone, GiveUp, Placed
  <2> QED
    BY <2>3, <2>4, TaskKept
<1>5. ASSUME NEW s \in Sessions, Connect(s) \/ Close(s) PROVE Placed'
  BY <1>5 DEF Connect, Close, Placed
<1>6. CASE UNCHANGED <<up, device, task, order, marker>>
  BY <1>6 DEF Placed
<1>7. ASSUME NEW n \in StreamIds, SetupContinues(n) \/ DisposeContinues(n) \/ TimeOut(n) PROVE Placed'
  BY <1>7, <1>6 DEF SetupContinues, DisposeContinues, TimeOut
<1>8. CASE BrokerStep \/ ReadFrame \/ Produce \/ TerminalGoes \/ Break
  BY <1>8, <1>6 DEF BrokerStep, BrokerSubscribes, BrokerUnsubscribes, ReadFrame, ReadEvent, ReadSubscribed,
     ReadUnsubscribed, Produce, TerminalGoes, Break
<1> QED
  BY <1>1, <1>2, <1>3, <1>4, <1>5, <1>7, <1>8 DEF Next, GatewayStep, Phone, Fault

(* A stream that at most begins to close.                                    *)
Closes(n) ==
    /\ streams'[n].setup = streams[n].setup /\ streams'[n].device = streams[n].device
    /\ streams'[n].snapshot = streams[n].snapshot /\ streams'[n].answer = streams[n].answer
    /\ streams'[n].pending = streams[n].pending /\ streams'[n].overflow = streams[n].overflow
    /\ \/ streams'[n].dispose = streams[n].dispose
       \/ streams[n].dispose = "no" /\ streams'[n].dispose = "setup"

CommandStep(s) == Subscribe(s) \/ Unsubscribe(s) \/ Detached(s) \/ Got(s) \/ Join(s) \/ Undone(s)
                  \/ Connect(s) \/ Close(s)

(* Commands and sessions that close do no more to the streams.                *)
LEMMA CommandsClose ==
  ASSUME Placed, Streamed, NEW s \in Sessions, CommandStep(s)
  PROVE  /\ streams' \in [StreamIds -> StreamRecords] /\ \A n \in StreamIds : Closes(n)
         /\ UNCHANGED <<current, owner, observer, produced, alive, toBroker, toMain, faults>>
<1> USE TerminalStreamsAssumption
<1> DEFINE Kept == streams' \in [StreamIds -> StreamRecords] /\ \A n \in StreamIds : Closes(n)
<1>1. ASSUME NEW strs \in [StreamIds -> StreamRecords], NEW n, NEW members,
             \A m \in StreamIds : \E i \in SUBSET Sessions : strs[m] = [streams[m] EXCEPT !.interests = i],
             streams' = MaybeDisposed(strs, n, members)
      PROVE  Kept
  <2>1. /\ streams' \in [StreamIds -> StreamRecords]
        /\ \A m \in StreamIds : streams'[m] = strs[m]
                                \/ (strs[m].dispose = "no" /\ streams'[m] = [strs[m] EXCEPT !.dispose = "setup"])
    BY <1>1, MaybeDisposedCloses
  <2>2. \A m \in StreamIds : strs[m] \in StreamRecords /\ streams[m] \in StreamRecords
    BY <1>1 DEF Streamed
  <2>3. \A m \in StreamIds : Closes(m)
    <3> SUFFICES ASSUME NEW m \in StreamIds PROVE Closes(m)
      OBVIOUS
    <3>1. PICK i \in SUBSET Sessions : strs[m] = [streams[m] EXCEPT !.interests = i]
      BY <1>1
    <3>2. streams[m] \in Stream
      BY <2>2 DEF StreamRecords
    <3>3. CASE streams'[m] = strs[m]
      BY <3>1, <3>2, <3>3 DEF Closes, Stream
    <3>4. CASE strs[m].dispose = "no" /\ streams'[m] = [strs[m] EXCEPT !.dispose = "setup"]
      BY <3>1, <3>2, <3>4 DEF Closes, Stream
    <3> QED
      BY <2>1, <3>3, <3>4
  <2> QED
    BY <2>1, <2>3
<1>2. \A r \in StreamRecords, i \in SUBSET Sessions : [r EXCEPT !.interests = i] \in StreamRecords
  BY DEF StreamRecords, Stream
<1>3. \A r \in StreamRecords : r.interests \in SUBSET Sessions /\ r = [r EXCEPT !.interests = r.interests]
  BY DEF StreamRecords, Stream
<1>4. \A n \in StreamIds : streams[n] \in StreamRecords
  BY DEF Streamed
<1>5. ASSUME UNCHANGED streams PROVE Kept
  BY <1>5, <1>4 DEF Closes, Streamed
<1>6. ASSUME NEW strs, NEW n \in StreamIds, NEW i \in SUBSET Sessions,
             strs = [streams EXCEPT ![n].interests = i]
      PROVE  /\ strs \in [StreamIds -> StreamRecords]
             /\ \A m \in StreamIds : \E j \in SUBSET Sessions : strs[m] = [streams[m] EXCEPT !.interests = j]
             /\ streams' = strs => Kept
  <2>1. \A m \in StreamIds : strs[m] = [streams[m] EXCEPT !.interests = IF m = n THEN i ELSE @]
    BY <1>3, <1>4, <1>6 DEF Streamed
  <2>2. \A m \in StreamIds : strs[m] = [streams[m] EXCEPT !.interests = IF m = n THEN i ELSE streams[m].interests]
    BY <2>1
  <2>3. \A m \in StreamIds : \E j \in SUBSET Sessions : strs[m] = [streams[m] EXCEPT !.interests = j]
    BY <1>3, <1>4, <2>2
  <2>4. strs \in [StreamIds -> StreamRecords]
    BY <1>2, <1>3, <1>4, <1>6, <2>2 DEF Streamed
  <2>5. ASSUME streams' = strs PROVE Kept
    <3>1. \A m \in StreamIds : streams[m] \in Stream
      BY <1>4 DEF StreamRecords
    <3> QED
      BY <2>2, <2>4, <2>5, <3>1 DEF Closes, Stream
  <2> QED
    BY <2>3, <2>4, <2>5
<1>7. CASE Subscribe(s) \/ Unsubscribe(s)
  <2>1. streams' = MaybeDisposed(streams, marker[s], Members(marker[s]) \ {s})
    BY <1>7 DEF Subscribe, Unsubscribe, Leave
  <2>2. \A m \in StreamIds : \E i \in SUBSET Sessions : streams[m] = [streams[m] EXCEPT !.interests = i]
    BY <1>3, <1>4
  <2> QED
    BY <1>1, <1>7, <2>1, <2>2 DEF Subscribe, Unsubscribe, Streamed
<1>8. CASE Detached(s) \/ Undone(s) \/ Connect(s)
  BY <1>5, <1>8 DEF Detached, Undone, Connect
<1>9. CASE Got(s)
  <2> DEFINE n == task[s].stream
  <2>1. n \in StreamIds
    BY <1>9 DEF Got, Placed
  <2>2. CASE s \in up
    <3>1. streams' = [streams EXCEPT ![n].interests = streams[n].interests \cup {s}]
      BY <1>9, <2>2 DEF Got
    <3>2. streams[n].interests \cup {s} \in SUBSET Sessions
      BY <1>3, <1>4, <2>1
    <3> QED
      BY <1>6, <1>9, <2>1, <3>1, <3>2 DEF Got
  <2>3. CASE s \notin up
    <3>1. streams' = MaybeDisposed(streams, n, Members(n))
      BY <1>9, <2>3 DEF Got, GiveUp
    <3>2. \A m \in StreamIds : \E i \in SUBSET Sessions : streams[m] = [streams[m] EXCEPT !.interests = i]
      BY <1>3, <1>4
    <3> QED
      BY <1>1, <1>9, <3>1, <3>2 DEF Got, Streamed
  <2> QED
    BY <2>2, <2>3
<1>10. CASE Join(s)
  <2> DEFINE n == task[s].stream
             strs == [streams EXCEPT ![n].interests = streams[n].interests \ {s}]
  <2>1. n \in StreamIds
    BY <1>10 DEF Join, Placed
  <2>2. streams' = strs \/ streams' = MaybeDisposed(strs, n, Members(n))
    BY <1>10 DEF Join, GiveUp
  <2>3. streams[n].interests \ {s} \in SUBSET Sessions
    BY <1>3, <1>4, <2>1
  <2> HIDE DEF n
  <2>4. /\ strs \in [StreamIds -> StreamRecords]
        /\ \A m \in StreamIds : \E j \in SUBSET Sessions : strs[m] = [streams[m] EXCEPT !.interests = j]
        /\ streams' = strs => Kept
    BY <1>6, <2>1, <2>3
  <2> HIDE DEF strs
  <2>5. Kept
    BY <1>1, <2>2, <2>4
  <2> QED
    BY <1>10, <2>5 DEF Join
<1>11. CASE Close(s)
  <2> DEFINE without == [n \in StreamIds |-> [streams[n] EXCEPT
                             !.interests = IF n = current THEN @ \ {s} ELSE @]]
             left == MaybeDisposed(without, marker[s], Members(marker[s]) \ {s})
  <2>1. streams' = MaybeDisposed(left, current, Members(current) \ {s})
    BY <1>11 DEF Close
  <2>2. \A m \in StreamIds : without[m] = [streams[m] EXCEPT !.interests = IF m = current THEN streams[m].interests \ {s}
                                                                          ELSE streams[m].interests]
    OBVIOUS
  <2>3. \A m \in StreamIds : \E i \in SUBSET Sessions : without[m] = [streams[m] EXCEPT !.interests = i]
    <3> SUFFICES ASSUME NEW m \in StreamIds
                 PROVE  \E i \in SUBSET Sessions : without[m] = [streams[m] EXCEPT !.interests = i]
      OBVIOUS
    <3>1. (IF m = current THEN streams[m].interests \ {s} ELSE streams[m].interests) \in SUBSET Sessions
      BY <1>3, <1>4
    <3> HIDE DEF without
    <3> QED
      BY <2>2, <3>1
  <2>4. without \in [StreamIds -> StreamRecords]
    BY <1>2, <1>4, <2>3
  <2> HIDE DEF without
  <2>5. /\ left \in [StreamIds -> StreamRecords]
        /\ \A m \in StreamIds : left[m] = without[m]
                                \/ (without[m].dispose = "no" /\ left[m] = [without[m] EXCEPT !.dispose = "setup"])
    BY <2>4, MaybeDisposedCloses
  <2> HIDE DEF left
  <2>6. /\ streams' \in [StreamIds -> StreamRecords]
        /\ \A m \in StreamIds : streams'[m] = left[m]
                                \/ (left[m].dispose = "no" /\ streams'[m] = [left[m] EXCEPT !.dispose = "setup"])
    BY <2>1, <2>5, MaybeDisposedCloses
  <2>7. \A m \in StreamIds : without[m] \in Stream /\ left[m] \in Stream /\ streams[m] \in Stream
    BY <1>4, <2>4, <2>5 DEF StreamRecords
  <2>8. \A m \in StreamIds : Closes(m)
    <3> SUFFICES ASSUME NEW m \in StreamIds PROVE Closes(m)
      OBVIOUS
    <3>1. PICK i \in SUBSET Sessions : without[m] = [streams[m] EXCEPT !.interests = i]
      BY <2>3
    <3>2. left[m] \in {without[m], [without[m] EXCEPT !.dispose = "setup"]}
          /\ (left[m] = without[m] \/ without[m].dispose = "no")
      BY <2>5
    <3>3. streams'[m] \in {left[m], [left[m] EXCEPT !.dispose = "setup"]}
          /\ (streams'[m] = left[m] \/ left[m].dispose = "no")
      BY <2>6
    <3>4. /\ \A field \in {"setup", "device", "snapshot", "answer", "pending", "overflow"} :
                 /\ without[m][field] = streams[m][field] /\ left[m][field] = without[m][field]
                 /\ streams'[m][field] = left[m][field]
          /\ without[m].dispose = streams[m].dispose
      BY <2>7, <3>1, <3>2, <3>3 DEF Stream
    <3>5. /\ left[m].dispose = without[m].dispose \/ (without[m].dispose = "no" /\ left[m].dispose = "setup")
          /\ streams'[m].dispose = left[m].dispose \/ (left[m].dispose = "no" /\ streams'[m].dispose = "setup")
      BY <2>7, <3>2, <3>3 DEF Stream
    <3> QED
      BY <3>4, <3>5 DEF Closes
  <2> QED
    BY <1>11, <2>6, <2>8 DEF Close
<1>12. UNCHANGED <<current, owner, observer, produced, alive, toBroker, toMain, faults>>
  BY DEF CommandStep, Subscribe, Unsubscribe, Detached, Got, Join, Undone, Connect, Close
<1> QED
  BY <1>7, <1>8, <1>9, <1>10, <1>11, <1>12 DEF CommandStep

(* An event leaves a snapshot one, which never ends earlier.                  *)
LEMMA AppliedSnapshot ==
  ASSUME NEW x \in Snapshots, NEW event \in Event
  PROVE  /\ Applied(x, event) \in Snapshots
         /\ Applied(x, event).to = IF Follows(x, event) THEN event.at ELSE x.to
         /\ Follows(x, event) => event.at = x.to + 1
         /\ x.to <= Applied(x, event).to
  BY TerminalStreamsAssumption DEF Applied, Follows, Bounded, Snapshots, Snapshot, Event

(* The snapshot the broker takes is text, up to the last chunk written.      *)
LEMMA BoundedSnapshot == \A to \in 0 .. MaxWorld : Bounded(0, to) \in Snapshots /\ Bounded(0, to).to = to
  BY TerminalStreamsAssumption DEF Bounded, Snapshots, Snapshot

(* The events that wait end no snapshot earlier, and none after they have      *)
(* happened.                                                                 *)
LEMMA PendingSnapshot ==
  ASSUME NEW x \in Snapshots, NEW pending \in Seq(Event)
  PROVE  /\ WithPending(x, pending) \in Snapshots
         /\ x.to <= WithPending(x, pending).to
         /\ \A p \in Nat : x.to <= p /\ (\A i \in 1 .. Len(pending) : pending[i].at <= p)
                             => WithPending(x, pending).to <= p
<1>1. Len(pending) \in Nat /\ \A i \in 1 .. Len(pending) : pending[i] \in Event
  BY LenProperties, ElementOfSeq
<1>2. \A y \in Snapshots : y.to \in Nat
  BY TerminalStreamsAssumption DEF Snapshots, Snapshot
<1>3. WithPending(x, pending) \in Snapshots /\ x.to <= WithPending(x, pending).to
  <2> DEFINE G == {y \in Snapshots : x.to <= y.to}
  <2>1. ASSUME NEW y \in G, NEW i \in 1 .. Len(pending) PROVE Applied(y, pending[i]) \in G
    <3>1. Applied(y, pending[i]) \in Snapshots /\ y.to <= Applied(y, pending[i]).to
      BY <1>1, AppliedSnapshot
    <3>2. x.to <= y.to /\ x.to \in Nat /\ y.to \in Nat /\ Applied(y, pending[i]).to \in Nat
      BY <1>2, <3>1
    <3> QED
      BY <3>1, <3>2
  <2>2. x \in G
    BY <1>2
  <2> HIDE DEF G
  <2>3. WithPending(x, pending) \in G
    BY <1>1, <2>1, <2>2, PendingApplied
  <2> QED
    BY <2>3 DEF G
<1>4. ASSUME NEW p \in Nat, x.to <= p, \A i \in 1 .. Len(pending) : pending[i].at <= p
      PROVE  WithPending(x, pending).to <= p
  <2> DEFINE G == {y \in Snapshots : y.to <= p}
  <2>1. \A y \in G, i \in 1 .. Len(pending) : Applied(y, pending[i]) \in G
    BY <1>1, <1>4, AppliedSnapshot
  <2>2. x \in G
    BY <1>4
  <2> HIDE DEF G
  <2>3. WithPending(x, pending) \in G
    BY <1>1, <2>1, <2>2, PendingApplied
  <2> QED
    BY <2>3 DEF G
<1> QED
  BY <1>3, <1>4

(* What an answer, a failure or the end of a disposal makes of a stream.      *)
LEMMA DisposedStreams ==
  ASSUME Streamed, NEW n \in StreamIds, Disposed(n), streams[n].setup \in {"ready", "failed"}
  PROVE  /\ streams' \in [StreamIds -> StreamRecords] /\ current' \in StreamIds \cup {NoStream}
         /\ streams'[n] = Unused \/ streams'[n] = [streams[n] EXCEPT !.dispose = "done"]
         /\ \A m \in StreamIds \ {n} : streams'[m] = streams[m]
         /\ current' = IF current = n THEN NoStream ELSE current
<1>1. streams[n] \in StreamRecords
  BY DEF Streamed
<1>2. Unused \in StreamRecords /\ [streams[n] EXCEPT !.dispose = "done"] \in StreamRecords
  BY <1>1, TerminalStreamsAssumption DEF Unused, StreamRecords, Stream, NoSnapshot, NoDevice
<1> QED
  BY <1>2 DEF Disposed, Streamed

(* A setup that fails changes its stream only.                               *)
LEMMA FailedStreams ==
  ASSUME Streamed, NEW n \in StreamIds, streams[n].setup \in {"asking", "dropping"}
  PROVE  /\ Failed(streams, n) \in [StreamIds -> StreamRecords]
         /\ \A m \in StreamIds : Failed(streams, n)[m] = IF m = n THEN [streams[n] EXCEPT !.setup = "failed"] ELSE streams[m]
<1>1. streams[n] \in StreamRecords
  BY DEF Streamed
<1>2. [streams[n] EXCEPT !.setup = "failed"] \in StreamRecords
  BY <1>1 DEF StreamRecords, Stream
<1> QED
  BY <1>2 DEF Failed, Streamed

(* What the end of an unsubscription makes of it.                            *)
LEMMA UnsubscribedStreams ==
  ASSUME Streamed, NEW n \in StreamIds, Unsubscribed(n)
  PROVE  Streamed'
<1>1. streams[n] \in StreamRecords
  BY DEF Streamed
<1>2. CASE streams[n].dispose = "unsubscribe"
  <2>1. streams[n].setup = "ready" /\ Disposed(n) /\ owner' = Unrouted(n)
    BY <1>1, <1>2 DEF StreamRecords, Unsubscribed
  <2> QED
    BY <2>1, DisposedStreams DEF Streamed, Unrouted
<1>3. CASE streams[n].dispose # "unsubscribe" /\ streams[n].setup = "dropping"
  BY <1>3, FailedStreams DEF Unsubscribed, Streamed, Unrouted
<1>4. CASE streams[n].dispose # "unsubscribe" /\ streams[n].setup # "dropping"
  BY <1>4 DEF Unsubscribed, Streamed
<1> QED
  BY <1>2, <1>3, <1>4

(* The frame that is read.                                                   *)
LEMMA FirstFrame ==
  ASSUME Brokered, toMain # <<>>
  PROVE  Head(toMain) \in Event \cup Answers /\ (Head(toMain) \in Answer => Head(toMain) \in Answers)
<1>1. Head(toMain) \in Event \cup Answers
  BY HeadTailProperties DEF Brokered
<1>2. \A e \in Event : e \notin Answer
  BY DEF Event, Answer
<1> QED
  BY <1>1, <1>2

(* Every step leaves each stream holding what its stage allows.              *)
LEMMA NextStreamed == ASSUME Placed, Streamed, Brokered, Next PROVE Streamed'
<1> USE TerminalStreamsAssumption
<1>0. NoStream \notin StreamIds /\ \A n \in StreamIds : streams[n] \in StreamRecords
  BY DEF NoStream, StreamIds, Streamed
<1>1. ASSUME NEW s \in Sessions, CommandStep(s) PROVE Streamed'
  BY <1>1, CommandsClose DEF Streamed
<1>2. ASSUME NEW s \in Sessions, FindStream(s) \/ TakeAfterDisposal(s) PROVE Streamed'
  <2>1. CASE Create(s)
    <3>1. PICK n \in StreamIds :
              /\ streams' = [streams EXCEPT ![n] =
                                [Unused EXCEPT !.setup = "asking", !.device = device[s], !.dispose = "no"]]
              /\ current' = n /\ owner' = [owner EXCEPT ![device[s]] = n]
      BY <2>1 DEF Create
    <3>2. [Unused EXCEPT !.setup = "asking", !.device = device[s], !.dispose = "no"] \in StreamRecords
      <4>1. device[s] \in Devices
        BY DEF Placed
      <4>2. <<>> \in Seq(Event) /\ Len(<<>>) <= MaxPending
        OBVIOUS
      <4> QED
        BY <4>1, <4>2 DEF Unused, StreamRecords, Stream
    <3> QED
      BY <3>1, <3>2 DEF Streamed
  <2>2. CASE UNCHANGED <<streams, current, owner>>
    BY <2>2 DEF Streamed
  <2> QED
    BY <1>2, <2>1, <2>2 DEF FindStream, TakeAfterDisposal, Take
<1>3. CASE ReadEvent
  <2> DEFINE event == Head(toMain)
  <2>1. PICK n : n = owner[event.device]
    OBVIOUS
  <2>2. event \in Event /\ UNCHANGED <<current, owner>>
    BY <1>3 DEF ReadEvent
  <2>3. CASE n = NoStream \/ n # current \/ Closing(n)
    BY <1>3, <2>1, <2>2, <2>3 DEF ReadEvent, Streamed
  <2>4. CASE n # NoStream /\ n = current /\ ~Closing(n)
    <3>1. n \in StreamIds
      BY <2>4 DEF Streamed
    <3>2. CASE streams[n].snapshot = NoSnapshot
      <4>1. streams' = [streams EXCEPT
                ![n].pending = IF Len(@) < MaxPending THEN Append(@, event) ELSE @,
                ![n].overflow = @ \/ Len(streams[n].pending) >= MaxPending]
        BY <1>3, <2>1, <2>2, <2>4, <3>2 DEF ReadEvent
      <4>2. /\ (IF Len(streams[n].pending) < MaxPending THEN Append(streams[n].pending, event) ELSE streams[n].pending)
                  \in {p \in Seq(Event) : Len(p) <= MaxPending}
            /\ streams[n].overflow \in BOOLEAN
        BY <1>0, <2>2, <3>1 DEF StreamRecords, Stream
      <4>3. \A p \in {q \in Seq(Event) : Len(q) <= MaxPending}, o \in BOOLEAN :
                [streams[n] EXCEPT !.pending = p, !.overflow = o] \in StreamRecords
        BY <1>0, <3>1 DEF StreamRecords, Stream
      <4>4. \A m \in StreamIds : streams'[m] =
                IF m = n THEN [streams[n] EXCEPT
                    !.pending = IF Len(streams[n].pending) < MaxPending THEN Append(streams[n].pending, event)
                                ELSE streams[n].pending,
                    !.overflow = streams[n].overflow \/ Len(streams[n].pending) >= MaxPending]
                ELSE streams[m]
        BY <4>1 DEF Streamed
      <4>5. \A m \in StreamIds : streams'[m] \in StreamRecords
        BY <1>0, <4>2, <4>3, <4>4
      <4> QED
        BY <2>2, <4>1, <4>5 DEF Streamed
    <3>3. CASE streams[n].snapshot # NoSnapshot
      <4>1. streams' = [streams EXCEPT ![n].snapshot = Applied(streams[n].snapshot, event)]
        BY <1>3, <2>1, <2>2, <2>4, <3>3 DEF ReadEvent
      <4>2. Applied(streams[n].snapshot, event) \in Snapshots
        BY <1>0, <2>2, <3>1, <3>3, AppliedSnapshot DEF StreamRecords
      <4>3. NoSnapshot \notin Snapshots /\ Snapshots \subseteq Snapshot
        BY DEF NoSnapshot, Snapshots, Snapshot
      <4>4. \A x \in Snapshots : [streams[n] EXCEPT !.snapshot = x] \in StreamRecords
        BY <1>0, <3>1, <3>3, <4>3 DEF StreamRecords, Stream
      <4> QED
        BY <2>2, <4>1, <4>2, <4>4 DEF Streamed
    <3> QED
      BY <3>2, <3>3
  <2> QED
    BY <2>3, <2>4
<1>4. CASE ReadSubscribed
  <2> DEFINE answer == Head(toMain)
             n == answer.stream
  <2>1. answer \in Answers /\ n \in StreamIds /\ answer.kind = "subscribed"
    BY <1>4, FirstFrame DEF ReadSubscribed, Answers, Answer
  <2>2. CASE streams[n].setup # "asking"
    BY <1>4, <2>2 DEF ReadSubscribed, Streamed
  <2>3. CASE streams[n].setup = "asking" /\ answer.ok
    <3>1. answer.snapshot \in Snapshots
      BY <2>1, <2>3 DEF Answers
    <3>2. NoSnapshot \notin Snapshots /\ Snapshots \subseteq Snapshot
      BY DEF NoSnapshot, Snapshots, Snapshot
    <3>3. \A x \in Snapshots : [streams[n] EXCEPT !.setup = "answered", !.answer = x] \in StreamRecords
      <4>1. /\ streams[n] \in Stream /\ streams[n].snapshot = NoSnapshot /\ streams[n].dispose # "unsubscribe"
            /\ streams[n].device \in Devices /\ Len(streams[n].pending) <= MaxPending
        BY <1>0, <2>1, <2>3 DEF StreamRecords
      <4> QED
        BY <3>2, <4>1 DEF StreamRecords, Stream
    <3>4. /\ streams' = [streams EXCEPT ![n] = [streams[n] EXCEPT !.setup = "answered", !.answer = answer.snapshot]]
          /\ UNCHANGED <<current, owner>>
      BY <1>4, <2>1, <2>3 DEF ReadSubscribed, Streamed
    <3> QED
      BY <3>1, <3>3, <3>4 DEF Streamed
  <2>4. CASE streams[n].setup = "asking" /\ ~answer.ok
    <3>1. streams' = Failed(streams, n) /\ owner' = Unrouted(n) /\ UNCHANGED current
      BY <1>4, <2>4 DEF ReadSubscribed
    <3>2. Unrouted(n) \in [Devices -> StreamIds \cup {NoStream}]
      BY DEF Streamed, Unrouted
    <3>3. Failed(streams, n) \in [StreamIds -> StreamRecords]
      BY <2>1, <2>4, FailedStreams
    <3> HIDE DEF n
    <3> QED
      BY <3>1, <3>2, <3>3 DEF Streamed
  <2> QED
    BY <2>2, <2>3, <2>4
<1>5. CASE ReadUnsubscribed
  <2>1. Head(toMain).stream \in StreamIds
    BY <1>5, FirstFrame DEF ReadUnsubscribed, Answers, Answer
  <2> QED
    BY <1>5, <2>1, UnsubscribedStreams DEF ReadUnsubscribed
<1>6. ASSUME NEW n \in StreamIds, SetupContinues(n) PROVE Streamed'
  <2>1. streams[n].setup = "answered" /\ streams[n] \in StreamRecords /\ streams[n].answer \in Snapshots
    BY <1>0, <1>6 DEF SetupContinues, StreamRecords
  <2>2. WithPending(streams[n].answer, streams[n].pending) \in Snapshots
    BY <2>1, PendingSnapshot DEF StreamRecords, Stream
  <2>3. PICK setup \in {"dropping", "ready"}, x \in Snapshots :
            streams' = [streams EXCEPT ![n] = [streams[n] EXCEPT !.setup = setup, !.answer = NoSnapshot,
                                                                 !.pending = <<>>, !.snapshot = x]]
    <3>1. CASE streams[n].overflow
      BY <1>6, <2>1, <3>1 DEF SetupContinues
    <3>2. CASE ~streams[n].overflow
      BY <1>6, <2>2, <3>2 DEF SetupContinues
    <3> QED
      BY <3>1, <3>2
  <2>4. NoSnapshot \notin Snapshots /\ Snapshots \subseteq Snapshot
    BY DEF NoSnapshot, Snapshots, Snapshot
  <2>5. [streams[n] EXCEPT !.setup = setup, !.answer = NoSnapshot, !.pending = <<>>, !.snapshot = x] \in StreamRecords
    <3>1. /\ streams[n] \in Stream /\ streams[n].dispose # "unsubscribe" /\ streams[n].device \in Devices
      BY <2>1 DEF StreamRecords
    <3>2. <<>> \in Seq(Event) /\ Len(<<>>) <= MaxPending
      OBVIOUS
    <3> QED
      BY <2>4, <3>1, <3>2 DEF StreamRecords, Stream
  <2> QED
    BY <1>6, <2>3, <2>5 DEF SetupContinues, Streamed
<1>7. ASSUME NEW n \in StreamIds, DisposeContinues(n) PROVE Streamed'
  <2>1. streams[n].setup \in {"ready", "failed"} /\ UNCHANGED owner
    BY <1>7 DEF DisposeContinues, DisposeRuns, Settled
  <2>2. CASE streams[n].setup = "ready"
    <3>1. streams' = [streams EXCEPT ![n].dispose = "unsubscribe"] /\ UNCHANGED current
      BY <1>7, <2>2 DEF DisposeContinues
    <3>2. [streams[n] EXCEPT !.dispose = "unsubscribe"] \in StreamRecords
      BY <1>0, <2>2 DEF StreamRecords, Stream
    <3> QED
      BY <2>1, <3>1, <3>2 DEF Streamed
  <2>3. CASE streams[n].setup # "ready"
    BY <1>7, <2>1, <2>3, DisposedStreams DEF DisposeContinues, Streamed
  <2> QED
    BY <2>2, <2>3
<1>8. CASE Break
  <2>1. \A n \in StreamIds : streams'[n] \in StreamRecords
    <3> SUFFICES ASSUME NEW n \in StreamIds PROVE streams'[n] \in StreamRecords
      OBVIOUS
    <3>1. streams'[n] = [streams[n] EXCEPT
              !.setup = IF streams[n].setup \in {"asking", "dropping"} THEN "failed" ELSE streams[n].setup,
              !.dispose = IF streams[n].dispose = "unsubscribe" THEN "done" ELSE streams[n].dispose]
      BY <1>8 DEF Break
    <3>2. streams[n] \in StreamRecords /\ streams[n] \in Stream
      BY <1>0 DEF StreamRecords
    <3>3. CASE streams[n].setup \in {"asking", "dropping"}
      <4>1. streams'[n] = [streams[n] EXCEPT !.setup = "failed"]
        BY <3>1, <3>2, <3>3 DEF StreamRecords, Stream
      <4>2. [streams[n] EXCEPT !.setup = "failed"] \in StreamRecords
        BY <3>2, <3>3 DEF StreamRecords, Stream
      <4> QED
        BY <4>1, <4>2
    <3>4. CASE streams[n].setup \notin {"asking", "dropping"} /\ streams[n].dispose = "unsubscribe"
      <4>1. streams'[n] = [streams[n] EXCEPT !.dispose = "done"]
        BY <3>1, <3>2, <3>4 DEF Stream
      <4>2. [streams[n] EXCEPT !.dispose = "done"] \in StreamRecords
        BY <3>2, <3>4 DEF StreamRecords, Stream
      <4> QED
        BY <4>1, <4>2
    <3>5. CASE streams[n].setup \notin {"asking", "dropping"} /\ streams[n].dispose # "unsubscribe"
      <4>1. streams'[n] = streams[n]
        BY <3>1, <3>2, <3>5 DEF Stream
      <4> QED
        BY <3>2, <4>1
    <3> QED
      BY <3>3, <3>4, <3>5
  <2>2. streams' = [n \in StreamIds |-> streams'[n]]
    BY <1>8 DEF Break
  <2> QED
    BY <1>8, <2>1, <2>2 DEF Break, Streamed
<1>9. ASSUME NEW n \in StreamIds, TimeOut(n) PROVE Streamed'
  <2>1. CASE streams[n].setup = "asking" /\ streams' = Failed(streams, n) /\ owner' = Unrouted(n) /\ UNCHANGED current
    BY <2>1, FailedStreams DEF Streamed, Unrouted
  <2>2. CASE Unsubscribed(n)
    BY <2>2, UnsubscribedStreams
  <2> QED
    BY <1>9, <2>1, <2>2 DEF TimeOut
<1>10. CASE BrokerStep \/ Produce \/ TerminalGoes
  BY <1>10 DEF BrokerStep, BrokerSubscribes, BrokerUnsubscribes, Produce, TerminalGoes, Streamed
<1> QED
  BY <1>1, <1>2, <1>3, <1>4, <1>5, <1>6, <1>7, <1>8, <1>9, <1>10
  DEF Next, GatewayStep, Phone, Fault, ReadFrame, CommandStep

(* Phones show chunks, and none is newer than the last one there can be.     *)
LEMMA NextShows == ASSUME Placed, Streamed, Shows, Next PROVE Shows'
<1> USE TerminalStreamsAssumption
<1>0. \A n \in StreamIds : streams[n] \in StreamRecords
  BY DEF Streamed
<1>1. ASSUME NEW s \in Sessions, Join(s) PROVE Shows'
  <2> DEFINE n == task[s].stream
  <2>1. n \in StreamIds
    BY <1>1 DEF Join, Placed
  <2>2. CASE UNCHANGED <<view, reached>>
    BY <2>2 DEF Shows
  <2>3. CASE /\ streams[n].setup = "ready" /\ view' = [view EXCEPT ![s] = Shown(@, streams[n].snapshot)]
             /\ reached' = [reached EXCEPT ![s] = Later(@, streams[n].snapshot.to)]
    <3>1. PICK x \in Snapshots : x = streams[n].snapshot
      BY <1>0, <2>1, <2>3 DEF StreamRecords
    <3>2. x.from \in Nat /\ x.to \in Nat /\ x.to <= MaxWorld /\ x.from <= x.to
      BY DEF Snapshots, Snapshot
    <3>3. \A shown : Shown(shown, x) \in Seq(Chunks)
      <4>1. x.to - x.from \in Nat /\ \A i \in 1 .. x.to - x.from : x.from + i \in Chunks
        BY <3>2 DEF Chunks
      <4> QED
        BY <4>1 DEF Shown
    <3>4. \A k \in 0 .. MaxWorld : Later(k, x.to) \in 0 .. MaxWorld
      BY <3>2 DEF Later
    <3>5. view' = [view EXCEPT ![s] = Shown(view[s], x)] /\ reached' = [reached EXCEPT ![s] = Later(reached[s], x.to)]
      BY <2>3, <3>1
    <3> QED
      BY <3>3, <3>4, <3>5 DEF Shows
  <2> QED
    BY <1>1, <2>2, <2>3 DEF Join
<1>2. ASSUME NEW s \in Sessions, Close(s) PROVE Shows'
  BY <1>2 DEF Close, Shows
<1>3. CASE ReadEvent
  <2>1. CASE UNCHANGED <<view, reached>>
    BY <2>1 DEF Shows
  <2>2. PICK event : event = Head(toMain)
    OBVIOUS
  <2>3. PICK n : n = owner[event.device]
    OBVIOUS
  <2>4. event \in Event
    BY <1>3, <2>2 DEF ReadEvent
  <2>5. CASE /\ n # NoStream /\ n = current /\ streams[n].snapshot # NoSnapshot
             /\ event.kind = "output" => Follows(streams[n].snapshot, event)
             /\ OnPhones(event)
    <3>1. n \in StreamIds
      BY <2>5 DEF Streamed
    <3>2. streams[n].snapshot \in Snapshots
      BY <1>0, <2>5, <3>1 DEF StreamRecords
    <3>3. event.kind = "output" => event.at \in Chunks
      BY <2>4, <2>5, <3>2 DEF Follows, Snapshots, Snapshot, Event, Chunks
    <3>4. \A s \in Sessions : view'[s] \in Seq(Chunks)
      BY <2>5, <3>3 DEF OnPhones, Shows
    <3>5. \A s \in Sessions : reached'[s] \in 0 .. MaxWorld
      BY <2>5, <3>3 DEF OnPhones, Shows, Later, Chunks
    <3>6. view' = [s \in Sessions |-> view'[s]] /\ reached' = [s \in Sessions |-> reached'[s]]
      BY <2>5 DEF OnPhones
    <3> QED
      BY <3>4, <3>5, <3>6 DEF Shows
  <2> QED
    BY <1>3, <2>1, <2>2, <2>3, <2>5 DEF ReadEvent
<1>4. CASE UNCHANGED <<view, reached>>
  BY <1>4 DEF Shows
<1>5. ASSUME NEW s \in Sessions, Subscribe(s) \/ Unsubscribe(s) \/ Detached(s) \/ FindStream(s)
             \/ TakeAfterDisposal(s) \/ Got(s) \/ Undone(s) \/ Connect(s)
      PROVE  Shows'
  BY <1>4, <1>5 DEF Subscribe, Unsubscribe, Detached, FindStream, TakeAfterDisposal, Got, Undone, Connect
<1>6. ASSUME NEW n \in StreamIds, SetupContinues(n) \/ DisposeContinues(n) \/ TimeOut(n) PROVE Shows'
  BY <1>4, <1>6 DEF SetupContinues, DisposeContinues, TimeOut
<1>7. CASE BrokerStep \/ ReadSubscribed \/ ReadUnsubscribed \/ Produce \/ TerminalGoes \/ Break
  BY <1>4, <1>7 DEF BrokerStep, BrokerSubscribes, BrokerUnsubscribes, ReadSubscribed, ReadUnsubscribed,
     Produce, TerminalGoes, Break
<1> QED
  BY <1>1, <1>2, <1>3, <1>5, <1>6, <1>7 DEF Next, GatewayStep, Phone, Fault, ReadFrame

(* The frames of a chunk are events of it.                                   *)
Events(at) == {event \in Event : event.at = at}

(* What an observer is sent for a chunk are events of that chunk.            *)
LEMMA FramesType ==
  ASSUME NEW d \in Devices, NEW outcome \in Outcome, produced \in Nat, produced + 1 <= MaxWorld
  PROVE  Frames(d, outcome) \in Seq(Events(produced + 1))
<1>1. PICK output : output = [kind |-> "output", device |-> d, at |-> produced + 1]
  OBVIOUS
<1>2. PICK required : required = [kind |-> "required", device |-> d, at |-> produced + 1]
  OBVIOUS
<1>3. output \in Events(produced + 1) /\ required \in Events(produced + 1)
  BY <1>1, <1>2, TerminalStreamsAssumption DEF Event, Events
<1>4. CASE outcome = "sent"
  BY <1>1, <1>3, <1>4 DEF Frames
<1>5. CASE outcome = "late"
  BY <1>1, <1>2, <1>3, <1>5 DEF Frames
<1>6. CASE outcome = "dropped"
  BY <1>2, <1>3, <1>6 DEF Frames
<1> QED
  BY <1>4, <1>5, <1>6 DEF Outcome

(* A chunk puts events of it on their way, and nothing else.                 *)
LEMMA ProducedFrames ==
  ASSUME Brokered, Produce
  PROVE  \E new \in Seq(Events(produced + 1)) : toMain' = toMain \o new
<1> DEFINE live == {d \in Devices : observer[d] = "live"}
<1>1. PICK outcome \in [live -> Outcome], sent \in SetToSeqs(live) :
          toMain' = toMain \o FlattenSeq([i \in DOMAIN sent |-> Frames(sent[i], outcome[sent[i]])])
  BY DEF Produce
<1>2. live \subseteq Observers
  BY DEF Observers
<1>3. IsFiniteSet(live) /\ Cardinality(live) \in Nat
  BY <1>2, FS_Subset, FS_CardinalityType DEF Brokered
<1>4. sent \in [1 .. Cardinality(live) -> live]
  BY <1>1 DEF SetToSeqs
<1>5. produced \in Nat /\ produced + 1 <= MaxWorld
  BY TerminalStreamsAssumption DEF Produce, WorldGoesOn, Brokered
<1> DEFINE seqs == [i \in DOMAIN sent |-> Frames(sent[i], outcome[sent[i]])]
<1>6. DOMAIN sent = 1 .. Cardinality(live) /\ \A i \in DOMAIN sent : sent[i] \in live
  BY <1>4
<1>7. \A d \in live : d \in Devices /\ outcome[d] \in Outcome
  BY <1>1
<1>8. \A i \in DOMAIN sent : seqs[i] \in Seq(Events(produced + 1))
  BY <1>5, <1>6, <1>7, FramesType
<1> HIDE DEF live
<1>9. seqs \in Seq(Seq(Events(produced + 1))) /\ Len(seqs) = Cardinality(live)
  BY <1>3, <1>6, <1>8
<1> HIDE DEF seqs
<1>10. FlattenSeq(seqs) \in Seq(Events(produced + 1))
  <2>1. Len(seqs) \in Nat /\ (Len(seqs) = 0 => seqs = <<>>) /\ \A i \in 1 .. Len(seqs) : seqs[i] \in Seq(Events(produced + 1))
    BY <1>9
  <2> QED
    BY <2>1, FlattenType
<1> QED
  BY <1>1, <1>10 DEF seqs

(* Requests, answers and events stay what they are, and observers need the   *)
(* terminal.                                                                 *)
LEMMA NextBrokered == ASSUME Placed, Streamed, Brokered, Next PROVE Brokered'
<1> USE TerminalStreamsAssumption
<1>0. \A n \in StreamIds : streams[n] \in StreamRecords
  BY DEF Streamed
<1>1. ASSUME UNCHANGED <<observer, produced, alive, toMain, faults>>, toBroker' \in Seq(Ask) PROVE Brokered'
  <2>1. Observers' = Observers
    BY <1>1 DEF Observers
  <2> QED
    BY <1>1, <2>1 DEF Brokered
<1>2. ASSUME NEW s \in Sessions, CommandStep(s) PROVE Brokered'
  BY <1>1, <1>2, CommandsClose DEF Brokered
<1>3. ASSUME NEW s \in Sessions, FindStream(s) \/ TakeAfterDisposal(s) PROVE Brokered'
  <2>1. toBroker' \in Seq(Ask)
    <3>1. CASE Create(s)
      <4>1. PICK n \in StreamIds :
                toBroker' = Append(toBroker, [ask |-> "subscribe", stream |-> n, device |-> device[s]])
        BY <3>1 DEF Create
      <4>2. [ask |-> "subscribe", stream |-> n, device |-> device[s]] \in Ask
        BY DEF Placed, Ask
      <4> QED
        BY <4>1, <4>2 DEF Brokered
    <3>2. CASE UNCHANGED toBroker
      BY <3>2 DEF Brokered
    <3> QED
      BY <1>3, <3>1, <3>2 DEF FindStream, TakeAfterDisposal, Take
  <2> QED
    BY <1>1, <1>3, <2>1 DEF FindStream, TakeAfterDisposal, Take, Create
<1>4. ASSUME NEW n \in StreamIds, SetupContinues(n) \/ DisposeContinues(n) PROVE Brokered'
  <2>1. toBroker' \in {toBroker, Append(toBroker, [ask |-> "unsubscribe", stream |-> n, device |-> streams[n].device])}
    BY <1>4 DEF SetupContinues, DisposeContinues
  <2>2. toBroker' # toBroker => streams[n].setup # "failed"
    BY <1>4 DEF SetupContinues, DisposeContinues
  <2>3. toBroker' # toBroker => [ask |-> "unsubscribe", stream |-> n, device |-> streams[n].device] \in Ask
    BY <1>0, <2>2 DEF StreamRecords, Ask
  <2>4. toBroker' \in Seq(Ask)
    <3>1. \A ask \in Ask : Append(toBroker, ask) \in Seq(Ask)
      BY DEF Brokered
    <3>2. CASE toBroker' = toBroker
      BY <3>2 DEF Brokered
    <3>3. CASE toBroker' # toBroker
      BY <2>1, <2>3, <3>1, <3>3
    <3> QED
      BY <3>2, <3>3
  <2> QED
    BY <1>1, <1>4, <2>4 DEF SetupContinues, DisposeContinues
<1>5. ASSUME NEW frames, toMain' = frames, frames \in Seq(Event \cup Answers), toBroker' \in Seq(Ask),
             Observers' \subseteq Observers, UNCHANGED <<produced, alive, faults>>,
             observer' \in [Devices -> {"none", "live", "paused"}]
      PROVE  Brokered'
  BY <1>5, FS_Subset DEF Brokered
<1>6. CASE ReadFrame
  <2>1. Tail(toMain) \in Seq(Event \cup Answers)
    BY <1>6, HeadTailProperties DEF Brokered, ReadFrame, ReadEvent, ReadSubscribed, ReadUnsubscribed
  <2>2. toMain' = Tail(toMain) /\ UNCHANGED <<observer, produced, alive, toBroker, faults>>
    BY <1>6 DEF ReadFrame, ReadEvent, ReadSubscribed, ReadUnsubscribed, NextFrame
  <2> QED
    BY <1>5, <2>1, <2>2 DEF Brokered, Observers
<1>7. CASE BrokerStep
  <2> DEFINE ask == Head(toBroker)
  <2>1. ask \in Ask /\ Tail(toBroker) \in Seq(Ask) /\ toBroker' = Tail(toBroker)
    BY <1>7, HeadTailProperties DEF BrokerStep, BrokerSubscribes, BrokerUnsubscribes, Brokered
  <2>2. ask.device \in Devices /\ ask.stream \in StreamIds
    BY <2>1 DEF Ask
  <2>3. PICK answer \in Answers : toMain' = Append(toMain, answer)
    <3>1. CASE BrokerSubscribes
      <4>1. toMain' = Append(toMain, [kind |-> "subscribed", stream |-> ask.stream, ok |-> alive,
              snapshot |-> IF alive THEN Bounded(0, produced) ELSE NoSnapshot])
        BY <3>1 DEF BrokerSubscribes
      <4>2. alive \in BOOLEAN /\ Bounded(0, produced) \in Snapshots
        BY BoundedSnapshot DEF Brokered
      <4>3. NoSnapshot \notin Snapshots /\ Snapshots \subseteq Snapshot
        BY DEF NoSnapshot, Snapshots, Snapshot
      <4>4. [kind |-> "subscribed", stream |-> ask.stream, ok |-> alive,
              snapshot |-> IF alive THEN Bounded(0, produced) ELSE NoSnapshot] \in Answers
        BY <2>2, <4>2, <4>3 DEF Answers, Answer
      <4> QED
        BY <4>1, <4>4
    <3>2. CASE BrokerUnsubscribes
      <4>1. toMain' = Append(toMain, [kind |-> "unsubscribed", stream |-> ask.stream, ok |-> TRUE,
                                      snapshot |-> NoSnapshot])
        BY <3>2 DEF BrokerUnsubscribes
      <4>2. [kind |-> "unsubscribed", stream |-> ask.stream, ok |-> TRUE, snapshot |-> NoSnapshot] \in Answers
        BY <2>2 DEF Answers, Answer
      <4> QED
        BY <4>1, <4>2
    <3> QED
      BY <1>7, <3>1, <3>2 DEF BrokerStep
  <2>4. toMain' \in Seq(Event \cup Answers)
    BY <2>3 DEF Brokered
  <2>5. observer' \in [Devices -> {"none", "live", "paused"}]
    BY <1>7, <2>2 DEF BrokerStep, BrokerSubscribes, BrokerUnsubscribes, Brokered
  <2>6. Observers' \subseteq Observers \cup {ask.device}
    BY <1>7, <2>2 DEF BrokerStep, BrokerSubscribes, BrokerUnsubscribes, Brokered, Observers
  <2>7. IsFiniteSet(Observers')
    BY <2>6, FS_AddElement, FS_Subset DEF Brokered
  <2>8. UNCHANGED <<produced, alive, faults>>
    BY <1>7 DEF BrokerStep, BrokerSubscribes, BrokerUnsubscribes
  <2> QED
    BY <2>1, <2>4, <2>5, <2>7, <2>8 DEF Brokered
<1>8. CASE Produce
  <2>1. toMain' \in Seq(Event \cup Answers)
    <3>1. PICK new \in Seq(Events(produced + 1)) : toMain' = toMain \o new
      BY <1>8, ProducedFrames
    <3>0. Events(produced + 1) \subseteq Event
      BY DEF Events
    <3>2. new \in Seq(Event \cup Answers) /\ toMain \in Seq(Event \cup Answers)
      BY <3>0 DEF Brokered
    <3> QED
      BY <3>1, <3>2
  <2>2. /\ observer' \in [Devices -> {"none", "live", "paused"}]
        /\ \A d \in Devices : observer[d] = "none" => observer'[d] = "none"
    BY <1>8 DEF Produce, Brokered
  <2>3. IsFiniteSet(Observers')
    BY <2>2, FS_Subset DEF Brokered, Observers
  <2>4. produced' = produced + 1 /\ UNCHANGED <<alive, toBroker, faults>>
    BY <1>8 DEF Produce
  <2>5. produced' + faults.breaks + faults.timeouts + (IF alive THEN 0 ELSE 1) <= MaxWorld
        /\ produced' \in 0 .. MaxWorld
    BY <1>8, <2>4 DEF Produce, WorldGoesOn, Brokered
  <2> QED
    BY <2>1, <2>2, <2>3, <2>4, <2>5 DEF Brokered
<1>9. CASE TerminalGoes
  <2>1. Observers' = {} /\ observer' \in [Devices -> {"none", "live", "paused"}]
    BY <1>9 DEF TerminalGoes, Observers
  <2>2. produced + faults.breaks + faults.timeouts + (IF alive' THEN 0 ELSE 1) <= MaxWorld
    BY <1>9 DEF TerminalGoes, WorldGoesOn, Brokered
  <2> QED
    BY <1>9, <2>1, <2>2, FS_EmptySet DEF TerminalGoes, Brokered
<1>12. /\ WorldGoesOn /\ faults' = [faults EXCEPT !.breaks = @ + 1] =>
              /\ faults' \in [breaks : 0 .. MaxWorld, timeouts : 0 .. MaxWorld]
              /\ produced + faults'.breaks + faults'.timeouts + (IF alive THEN 0 ELSE 1) <= MaxWorld
       /\ WorldGoesOn /\ faults' = [faults EXCEPT !.timeouts = @ + 1] =>
              /\ faults' \in [breaks : 0 .. MaxWorld, timeouts : 0 .. MaxWorld]
              /\ produced + faults'.breaks + faults'.timeouts + (IF alive THEN 0 ELSE 1) <= MaxWorld
  <2>1. PICK b \in 0 .. MaxWorld, t \in 0 .. MaxWorld : faults = [breaks |-> b, timeouts |-> t]
    BY DEF Brokered
  <2>2. PICK p \in 0 .. MaxWorld, a \in {0, 1} : p = produced /\ a = IF alive THEN 0 ELSE 1
    BY DEF Brokered
  <2>3. WorldGoesOn => b + 1 \in 0 .. MaxWorld /\ t + 1 \in 0 .. MaxWorld
                       /\ p + (b + 1) + t + a <= MaxWorld /\ p + b + (t + 1) + a <= MaxWorld
    <3>1. WorldGoesOn => p + b + t + a < MaxWorld
      BY <2>1, <2>2 DEF WorldGoesOn
    <3> QED
      BY <3>1
  <2> QED
    BY <2>1, <2>2, <2>3
<1>10. CASE Break
  <2>1. Observers' = {} /\ observer' \in [Devices -> {"none", "live", "paused"}]
    BY <1>10 DEF Break, Observers
  <2>2. /\ faults' \in [breaks : 0 .. MaxWorld, timeouts : 0 .. MaxWorld]
        /\ produced + faults'.breaks + faults'.timeouts + (IF alive THEN 0 ELSE 1) <= MaxWorld
    BY <1>10, <1>12 DEF Break
  <2>3. UNCHANGED <<produced, alive>> /\ toBroker' = <<>> /\ toMain' = <<>>
    BY <1>10 DEF Break
  <2>4. toBroker' \in Seq(Ask) /\ toMain' \in Seq(Event \cup Answers)
    BY <2>3
  <2> QED
    BY <2>1, <2>2, <2>3, <2>4, FS_EmptySet DEF Brokered
<1>11. ASSUME NEW n \in StreamIds, TimeOut(n) PROVE Brokered'
  <2>1. /\ faults' \in [breaks : 0 .. MaxWorld, timeouts : 0 .. MaxWorld]
        /\ produced + faults'.breaks + faults'.timeouts + (IF alive THEN 0 ELSE 1) <= MaxWorld
    BY <1>11, <1>12 DEF TimeOut
  <2>2. UNCHANGED <<observer, produced, alive, toBroker, toMain>>
    BY <1>11 DEF TimeOut
  <2> QED
    BY <2>1, <2>2 DEF Brokered, Observers
<1> QED
  BY <1>2, <1>3, <1>4, <1>6, <1>7, <1>8, <1>9, <1>10, <1>11
  DEF Next, GatewayStep, Phone, Fault, CommandStep

(* The members of a stream are a finite set no larger than one stream takes.  *)
LEMMA NextFits == ASSUME Placed, Fits, Next PROVE Fits'
<1> USE TerminalStreamsAssumption
<1>0. NoStream \notin StreamIds
  BY DEF NoStream, StreamIds
<1>1. ASSUME \A n \in StreamIds : Members(n)' \subseteq Members(n) PROVE Fits'
  <2>1. \A n \in StreamIds : /\ IsFiniteSet(Members(n)') /\ Cardinality(Members(n)') <= Cardinality(Members(n))
                             /\ Cardinality(Members(n)) \in Nat /\ Cardinality(Members(n)') \in Nat
    BY <1>1, FS_Subset, FS_CardinalityType DEF Fits
  <2> QED
    BY <2>1 DEF Fits
<1>2. ASSUME NEW s \in Sessions, marker' = [marker EXCEPT ![s] = NoStream] PROVE Fits'
  <2>1. \A n \in StreamIds : Members(n)' \subseteq Members(n)
    BY <1>0, <1>2 DEF Members, Placed
  <2> QED
    BY <1>1, <2>1
<1>3. CASE UNCHANGED marker
  BY <1>1, <1>3 DEF Members
<1>4. ASSUME NEW s \in Sessions, Join(s) PROVE Fits'
  <2>0. PICK n : n = task[s].stream
    OBVIOUS
  <2>1. CASE marker' = [marker EXCEPT ![s] = n] /\ Cardinality(Members(n)) < MaxMembers
    <3>1. n \in StreamIds
      BY <1>4, <2>0 DEF Join, Placed
    <3>2. \A m \in StreamIds : Members(m)' \subseteq Members(m) \cup (IF m = n THEN {s} ELSE {})
      BY <2>1 DEF Members, Placed
    <3>3. IsFiniteSet(Members(n)) /\ Cardinality(Members(n)) \in Nat
      BY <3>1, FS_CardinalityType DEF Fits
    <3>4. IsFiniteSet(Members(n) \cup {s}) /\ Cardinality(Members(n) \cup {s}) <= MaxMembers
      BY <2>1, <3>3, FS_AddElement
    <3>5. Members(n)' \subseteq Members(n) \cup {s} /\ \A m \in StreamIds \ {n} : Members(m)' \subseteq Members(m)
      BY <3>1, <3>2
    <3>6. IsFiniteSet(Members(n)') /\ Cardinality(Members(n)') <= Cardinality(Members(n) \cup {s})
      BY <3>4, <3>5, FS_Subset
    <3>7. Cardinality(Members(n)') \in Nat /\ Cardinality(Members(n) \cup {s}) \in Nat
      BY <3>4, <3>6, FS_CardinalityType
    <3>8. Cardinality(Members(n)') <= MaxMembers
      BY <3>4, <3>6, <3>7
    <3>9. \A m \in StreamIds \ {n} : IsFiniteSet(Members(m)') /\ Cardinality(Members(m)') <= MaxMembers
      <4> SUFFICES ASSUME NEW m \in StreamIds \ {n}
                   PROVE  IsFiniteSet(Members(m)') /\ Cardinality(Members(m)') <= MaxMembers
        OBVIOUS
      <4>1. IsFiniteSet(Members(m)') /\ Cardinality(Members(m)') <= Cardinality(Members(m))
        BY <3>5, FS_Subset DEF Fits
      <4>2. Cardinality(Members(m)') \in Nat /\ Cardinality(Members(m)) \in Nat
        BY <4>1, FS_CardinalityType DEF Fits
      <4> QED
        BY <4>1, <4>2 DEF Fits
    <3> QED
      BY <3>6, <3>8, <3>9 DEF Fits
  <2>2. CASE UNCHANGED marker
    BY <1>3, <2>2
  <2> QED
    BY <1>4, <2>0, <2>1, <2>2 DEF Join
<1>5. ASSUME NEW s \in Sessions, Subscribe(s) \/ Unsubscribe(s) \/ Close(s) PROVE Fits'
  BY <1>2, <1>5 DEF Subscribe, Unsubscribe, Leave, Close
<1>6. ASSUME NEW s \in Sessions, Detached(s) \/ FindStream(s) \/ TakeAfterDisposal(s) \/ Got(s)
             \/ Undone(s) \/ Connect(s)
      PROVE  Fits'
  BY <1>3, <1>6 DEF Detached, FindStream, TakeAfterDisposal, Got, Undone, Connect
<1>7. ASSUME NEW n \in StreamIds, SetupContinues(n) \/ DisposeContinues(n) \/ TimeOut(n) PROVE Fits'
  BY <1>3, <1>7 DEF SetupContinues, DisposeContinues, TimeOut
<1>8. CASE BrokerStep \/ ReadFrame \/ Produce \/ TerminalGoes \/ Break
  BY <1>3, <1>8 DEF BrokerStep, BrokerSubscribes, BrokerUnsubscribes, ReadFrame, ReadEvent, ReadSubscribed,
     ReadUnsubscribed, Produce, TerminalGoes, Break
<1> QED
  BY <1>4, <1>5, <1>6, <1>7, <1>8 DEF Next, GatewayStep, Phone, Fault

(* Every state is of its type, no stream holds more members, events or text    *)
(* than one may, and the history is bounded.                                 *)
THEOREM TypeInvariant == Spec => []TypeInv
<1>1. TypeInv /\ [Next]_vars => TypeInv'
  <2> SUFFICES ASSUME TypeInv, [Next]_vars PROVE TypeInv'
    OBVIOUS
  <2>1. CASE Next
    BY <2>1, NextPlaced, NextStreamed, NextShows, NextBrokered, NextFits DEF TypeInv
  <2>2. CASE UNCHANGED vars
    BY <2>2 DEF vars, TypeInv, Placed, Streamed, Shows, Brokered, Observers, Fits, Members
  <2> QED
    BY <2>1, <2>2
<1> QED
  BY <1>1, InitTypes, PTL DEF Spec

(* The type invariant of the model (TypeOK), for every value of its bounds.  *)
THEOREM TypeCorrect == Spec => []TypeOK
  BY TypeInvariant, InvImpliesType, PTL

-----------------------------------------------------------------------------
(* What the other steps do to the streams.                                   *)
Started(n, s) ==
    /\ ~Referenced(n) /\ current' = n
    /\ streams'[n] = [Unused EXCEPT !.setup = "asking", !.device = device[s], !.dispose = "no"]
    /\ \A m \in StreamIds \ {n} : streams'[m] = streams[m]
    /\ owner' = [owner EXCEPT ![device[s]] = n]
    /\ toBroker' = Append(toBroker, [ask |-> "subscribe", stream |-> n, device |-> device[s]])
    /\ task' = [task EXCEPT ![s] = [task[s] EXCEPT !.stage = "got", !.stream = n]]

(* A new stream is created, the current one taken, or its disposal awaited.   *)
LEMMA StreamFound ==
  ASSUME Placed, Streamed, NEW s \in Sessions, FindStream(s) \/ TakeAfterDisposal(s)
  PROVE  /\ UNCHANGED <<up, device, marker, view, reached, observer, produced, alive, toMain, faults>>
         /\ FirstToRun(s) /\ task[s].stage \in {"find", "await"} /\ Waits(s)
         /\ \/ current = NoStream /\ \E n \in StreamIds : Started(n, s)
            \/ /\ current \in StreamIds /\ UNCHANGED <<streams, current, owner, toBroker>>
               /\ \/ task' = [task EXCEPT ![s] = [task[s] EXCEPT !.stage = "got", !.stream = current]]
                  \/ Closing(current)
                     /\ task' = [task EXCEPT ![s] = [task[s] EXCEPT !.stage = "await", !.stream = current]]
<1>1. CASE current = NoStream /\ Create(s)
  <2>1. PICK n \in StreamIds :
            /\ ~Referenced(n)
            /\ streams' = [streams EXCEPT ![n] =
                              [Unused EXCEPT !.setup = "asking", !.device = device[s], !.dispose = "no"]]
            /\ current' = n
            /\ owner' = [owner EXCEPT ![device[s]] = n]
            /\ toBroker' = Append(toBroker, [ask |-> "subscribe", stream |-> n, device |-> device[s]])
            /\ task' = [task EXCEPT ![s].stage = "got", ![s].stream = n]
    BY <1>1 DEF Create
  <2>2. task' = [task EXCEPT ![s] = [task[s] EXCEPT !.stage = "got", !.stream = n]]
    BY <2>1 DEF Placed
  <2>3. Started(n, s)
    BY <2>1, <2>2 DEF Started, Streamed
  <2> QED
    BY <1>1, <2>3 DEF FindStream, TakeAfterDisposal
<1>2. CASE current # NoStream /\ UNCHANGED <<streams, current, owner, toBroker>>
           /\ task' = [task EXCEPT ![s].stage = "got", ![s].stream = current]
  <2>1. task' = [task EXCEPT ![s] = [task[s] EXCEPT !.stage = "got", !.stream = current]]
    BY <1>2 DEF Placed
  <2> QED
    BY <1>2, <2>1 DEF FindStream, TakeAfterDisposal, Streamed
<1>3. CASE current # NoStream /\ Closing(current) /\ UNCHANGED <<streams, current, owner, toBroker>>
           /\ task' = [task EXCEPT ![s].stage = "await", ![s].stream = current]
  <2>1. task' = [task EXCEPT ![s] = [task[s] EXCEPT !.stage = "await", !.stream = current]]
    BY <1>3 DEF Placed
  <2> QED
    BY <1>3, <2>1 DEF FindStream, TakeAfterDisposal, Streamed
<1> QED
  BY <1>1, <1>2, <1>3 DEF FindStream, TakeAfterDisposal, Take

(* The stages of a stream, and the phone it is observed for, are kept.        *)
StagesKept(n) ==
    /\ streams'[n].setup = streams[n].setup /\ streams'[n].dispose = streams[n].dispose
    /\ streams'[n].device = streams[n].device /\ streams'[n].interests = streams[n].interests
    /\ streams'[n].answer = streams[n].answer

(* An event is passed on by the current stream, which keeps up with it, or    *)
(* not at all.                                                              *)
Passed(n, event) ==
    /\ n = current /\ n \in StreamIds /\ ~Closing(n) /\ streams[n].snapshot \in Snapshots
    /\ streams'[n].snapshot = Applied(streams[n].snapshot, event)
    /\ \A m \in StreamIds \ {n} : streams'[m].snapshot = streams[m].snapshot
    /\ \/ Members(n) = {} /\ UNCHANGED <<view, reached>>
       \/ event.kind = "output" /\ Follows(streams[n].snapshot, event) /\ Members(n) # {} /\ OnPhones(event)
       \/ event.kind = "required" /\ Members(n) # {} /\ OnPhones(event)

(* An event that is read is passed on, kept for later or ignored, by one     *)
(* stream.                                                                   *)
LEMMA EventPassed ==
  ASSUME Placed, Streamed, Brokered, ReadEvent
  PROVE  \E event \in Event :
           /\ event = Head(toMain) /\ toMain' = Tail(toMain) /\ toMain # <<>> /\ FrameTurn
           /\ UNCHANGED <<up, device, task, order, marker, current, owner, observer, produced, alive,
                          toBroker, faults>>
           /\ \A m \in StreamIds :
                 /\ StagesKept(m)
                 /\ streams'[m].pending \in {streams[m].pending, Append(streams[m].pending, event)}
           /\ \/ /\ UNCHANGED <<view, reached>>
                 /\ \A m \in StreamIds : streams'[m].snapshot = streams[m].snapshot
              \/ \E n \in StreamIds : Passed(n, event)
<1> USE TerminalStreamsAssumption
<1>0. \A n \in StreamIds : streams[n] \in StreamRecords /\ streams[n] \in Stream
  BY DEF Streamed, StreamRecords
<1>1. PICK event : event = Head(toMain)
  OBVIOUS
<1>2. PICK n : n = owner[event.device]
  OBVIOUS
<1>3. /\ event \in Event /\ toMain' = Tail(toMain) /\ toMain # <<>> /\ FrameTurn
      /\ UNCHANGED <<up, device, task, order, marker, current, owner, observer, produced, alive, toBroker, faults>>
  BY <1>1 DEF ReadEvent, NextFrame
<1>4. CASE UNCHANGED <<streams, view, reached>>
  <2>1. \A m \in StreamIds : StagesKept(m) /\ streams'[m] = streams[m]
    BY <1>4 DEF StagesKept
  <2> QED
    BY <1>1, <1>3, <1>4, <2>1
<1>5. CASE n # NoStream /\ n = current /\ ~Closing(n)
  <2>1. n \in StreamIds
    BY <1>5 DEF Streamed
  <2>2. CASE streams[n].snapshot = NoSnapshot
    <3>1. /\ UNCHANGED <<view, reached>>
          /\ streams' = [streams EXCEPT
                ![n].pending = IF Len(@) < MaxPending THEN Append(@, event) ELSE @,
                ![n].overflow = @ \/ Len(streams[n].pending) >= MaxPending]
      BY <1>1, <1>2, <1>5, <2>2 DEF ReadEvent
    <3>2. \A m \in StreamIds : streams'[m] =
              IF m = n THEN [streams[n] EXCEPT
                  !.pending = IF Len(streams[n].pending) < MaxPending THEN Append(streams[n].pending, event)
                              ELSE streams[n].pending,
                  !.overflow = streams[n].overflow \/ Len(streams[n].pending) >= MaxPending]
              ELSE streams[m]
      BY <3>1 DEF Streamed
    <3>3. \A m \in StreamIds : /\ StagesKept(m) /\ streams'[m].snapshot = streams[m].snapshot
                               /\ streams'[m].pending \in {streams[m].pending, Append(streams[m].pending, event)}
      <4> SUFFICES ASSUME NEW m \in StreamIds
                   PROVE  /\ StagesKept(m) /\ streams'[m].snapshot = streams[m].snapshot
                          /\ streams'[m].pending \in {streams[m].pending, Append(streams[m].pending, event)}
        OBVIOUS
      <4>1. CASE m # n
        BY <3>2, <4>1 DEF StagesKept
      <4>2. CASE m = n
        <5>1. PICK p, o : /\ streams'[n] = [streams[n] EXCEPT !.pending = p, !.overflow = o]
                          /\ p \in {streams[n].pending, Append(streams[n].pending, event)}
          BY <2>1, <3>2
        <5> QED
          BY <1>0, <2>1, <4>2, <5>1 DEF StagesKept, Stream
      <4> QED
        BY <4>1, <4>2
    <3> QED
      BY <1>1, <1>3, <3>1, <3>3
  <2>3. CASE streams[n].snapshot # NoSnapshot
    <3>1. /\ streams' = [streams EXCEPT ![n] = [streams[n] EXCEPT !.snapshot = Applied(streams[n].snapshot, event)]]
          /\ IF Members(n) # {} /\ (event.kind = "output" => Follows(streams[n].snapshot, event))
             THEN OnPhones(event) ELSE UNCHANGED <<view, reached>>
      BY <1>1, <1>2, <1>5, <2>1, <2>3 DEF ReadEvent, Streamed
    <3>2. streams[n].snapshot \in Snapshots
      BY <1>0, <2>1, <2>3 DEF StreamRecords
    <3>3. \A m \in StreamIds : /\ StagesKept(m) /\ streams'[m].pending = streams[m].pending
                               /\ streams'[m].snapshot = IF m = n THEN Applied(streams[n].snapshot, event)
                                                         ELSE streams[m].snapshot
      BY <1>0, <2>1, <3>1 DEF StagesKept, Stream, Streamed
    <3>4. CASE Members(n) = {} \/ (event.kind = "output" /\ Follows(streams[n].snapshot, event))
               \/ (event.kind # "output" /\ Members(n) # {})
      <4>1. event.kind \in {"output", "required"}
        BY <1>3 DEF Event
      <4>2. Passed(n, event)
        BY <1>5, <2>1, <3>1, <3>2, <3>3, <3>4, <4>1 DEF Passed
      <4> QED
        BY <1>1, <1>3, <2>1, <3>3, <4>2
    <3>5. CASE Members(n) # {} /\ event.kind = "output" /\ ~Follows(streams[n].snapshot, event)
      <4>1. UNCHANGED <<view, reached>> /\ Applied(streams[n].snapshot, event) = streams[n].snapshot
        BY <3>1, <3>5 DEF Applied
      <4> QED
        BY <1>1, <1>3, <3>3, <4>1
    <3> QED
      BY <3>4, <3>5
  <2> QED
    BY <2>2, <2>3
<1> QED
  BY <1>1, <1>2, <1>4, <1>5 DEF ReadEvent

(* The setup of a stream goes on.                                            *)
SetupMoves(n, setup) ==
    /\ streams'[n].setup = setup /\ streams'[n].dispose = streams[n].dispose
    /\ streams'[n].device = streams[n].device /\ streams'[n].interests = streams[n].interests
    /\ \A m \in StreamIds \ {n} : streams'[m] = streams[m]
    /\ UNCHANGED current

(* A disposal ends: the name is free, or kept for those who wait for it.      *)
Ends(n) ==
    /\ streams'[n].dispose = "done"
    /\ \/ /\ streams'[n].setup = streams[n].setup /\ streams'[n].device = streams[n].device
          /\ streams'[n].interests = streams[n].interests /\ streams'[n].answer = streams[n].answer
          /\ streams'[n].snapshot = streams[n].snapshot /\ streams'[n].pending = streams[n].pending
       \/ /\ streams'[n] = Unused
          /\ \A s \in Sessions : task[s].stream = n => task[s].stage \notin {"got", "setup"}
    /\ \A m \in StreamIds \ {n} : streams'[m] = streams[m]
    /\ current' = IF current = n THEN NoStream ELSE current

(* What the end of a disposal does to the streams, whoever still waits.      *)
LEMMA DisposalEnds ==
  ASSUME Streamed, NEW n \in StreamIds, Disposed(n)
  PROVE  Ends(n)
<1>1. streams[n] \in Stream
  BY DEF Streamed, StreamRecords
<1>2. streams' = [streams EXCEPT ![n] = IF \E s \in Sessions : task[s].stream = n /\ task[s].stage \in {"got", "setup"}
                                       THEN [streams[n] EXCEPT !.dispose = "done"] ELSE Unused]
      /\ current' = IF current = n THEN NoStream ELSE current
  BY DEF Disposed, Streamed
<1>3. CASE \E s \in Sessions : task[s].stream = n /\ task[s].stage \in {"got", "setup"}
  <2>1. streams'[n] = [streams[n] EXCEPT !.dispose = "done"] /\ \A m \in StreamIds \ {n} : streams'[m] = streams[m]
    BY <1>2, <1>3 DEF Streamed
  <2> QED
    BY <1>1, <1>2, <2>1 DEF Ends, Stream
<1>4. CASE ~ \E s \in Sessions : task[s].stream = n /\ task[s].stage \in {"got", "setup"}
  <2>1. streams'[n] = Unused /\ \A m \in StreamIds \ {n} : streams'[m] = streams[m]
    BY <1>2, <1>4 DEF Streamed
  <2> QED
    BY <1>2, <1>4, <2>1 DEF Ends, Unused
<1> QED
  BY <1>3, <1>4

(* A setup that fails keeps the text its stream holds.                       *)
LEMMA SetupFails ==
  ASSUME Streamed, NEW n \in StreamIds, streams' = Failed(streams, n), UNCHANGED current
  PROVE  SetupMoves(n, "failed") /\ streams'[n].snapshot = streams[n].snapshot /\ streams'[n].answer = streams[n].answer
         /\ streams'[n].pending = streams[n].pending
<1>1. streams[n] \in Stream
  BY DEF Streamed, StreamRecords
<1>2. streams' = [streams EXCEPT ![n] = [streams[n] EXCEPT !.setup = "failed"]]
  BY DEF Failed, Streamed
<1> QED
  BY <1>1, <1>2 DEF SetupMoves, Stream, Streamed

(* The sessions and their commands are where they were.                       *)
Aside == UNCHANGED <<up, device, task, order, marker, view, reached>>

(* The answer to a subscription sets its stream up, fails it, or comes too   *)
(* late.                                                                     *)
LEMMA SubscribedRead ==
  ASSUME Placed, Streamed, Brokered, ReadSubscribed
  PROVE  \E answer \in Answers : LET n == answer.stream IN
           /\ answer = Head(toMain) /\ toMain # <<>> /\ toMain' = Tail(toMain) /\ answer.kind = "subscribed"
           /\ n \in StreamIds /\ FrameTurn /\ Aside
           /\ UNCHANGED <<current, observer, produced, alive, toBroker, faults>>
           /\ \/ streams[n].setup # "asking" /\ UNCHANGED <<streams, owner>>
              \/ /\ streams[n].setup = "asking" /\ answer.ok /\ answer.snapshot \in Snapshots
                 /\ SetupMoves(n, "answered") /\ streams'[n].answer = answer.snapshot /\ streams'[n].snapshot = NoSnapshot
                 /\ streams'[n].pending = streams[n].pending
              \/ /\ streams[n].setup = "asking" /\ ~answer.ok /\ SetupMoves(n, "failed")
                 /\ streams'[n].answer = streams[n].answer /\ streams'[n].snapshot = NoSnapshot
                 /\ streams'[n].pending = streams[n].pending
<1>1. PICK answer : answer = Head(toMain)
  OBVIOUS
<1>2. PICK n : n = answer.stream
  OBVIOUS
<1>3. answer \in Answers /\ n \in StreamIds /\ (answer.kind = "subscribed" /\ answer.ok => answer.snapshot \in Snapshots)
      /\ answer.kind = "subscribed" /\ toMain # <<>> /\ answer.ok \in BOOLEAN
  BY <1>1, <1>2, FirstFrame DEF ReadSubscribed, Answers, Answer
<1>4. /\ toMain' = Tail(toMain) /\ FrameTurn /\ Aside
      /\ UNCHANGED <<current, observer, produced, alive, toBroker, faults>>
  BY DEF ReadSubscribed, NextFrame, Aside
<1>5. streams[n] \in StreamRecords /\ streams[n] \in Stream
  BY <1>3 DEF Streamed, StreamRecords
<1>6. CASE streams[n].setup # "asking"
  <2>1. UNCHANGED <<streams, owner>>
    BY <1>1, <1>2, <1>6 DEF ReadSubscribed
  <2> QED
    BY <1>1, <1>2, <1>3, <1>4, <1>6, <2>1
<1>7. CASE streams[n].setup = "asking" /\ answer.ok
  <2>1. streams' = [streams EXCEPT ![n] = [streams[n] EXCEPT !.setup = "answered", !.answer = answer.snapshot]]
    BY <1>1, <1>2, <1>3, <1>7 DEF ReadSubscribed, Streamed
  <2>2. \A m \in StreamIds : streams'[m] = IF m = n THEN [streams[n] EXCEPT !.setup = "answered", !.answer = answer.snapshot]
                                           ELSE streams[m]
    BY <1>3, <2>1 DEF Streamed
  <2>3. streams'[n] = [streams[n] EXCEPT !.setup = "answered", !.answer = answer.snapshot]
    BY <1>3, <2>2
  <2>4. streams[n].snapshot = NoSnapshot
    BY <1>5, <1>7 DEF StreamRecords
  <2>5. /\ streams'[n].setup = "answered" /\ streams'[n].answer = answer.snapshot
        /\ streams'[n].snapshot = NoSnapshot /\ streams'[n].pending = streams[n].pending
        /\ streams'[n].dispose = streams[n].dispose /\ streams'[n].device = streams[n].device
        /\ streams'[n].interests = streams[n].interests
    BY <1>5, <2>3, <2>4 DEF Stream
  <2>6. SetupMoves(n, "answered")
    BY <1>4, <2>2, <2>5 DEF SetupMoves
  <2> QED
    BY <1>1, <1>2, <1>3, <1>4, <1>7, <2>5, <2>6
<1>8. CASE streams[n].setup = "asking" /\ ~answer.ok
  <2>1. streams' = Failed(streams, n)
    BY <1>1, <1>2, <1>3, <1>8 DEF ReadSubscribed
  <2>2. /\ SetupMoves(n, "failed") /\ streams'[n].snapshot = streams[n].snapshot
        /\ streams'[n].answer = streams[n].answer /\ streams'[n].pending = streams[n].pending
    BY <1>3, <1>4, <2>1, SetupFails
  <2>3. streams[n].snapshot = NoSnapshot
    BY <1>5, <1>8 DEF StreamRecords
  <2> QED
    BY <1>1, <1>2, <1>3, <1>4, <1>8, <2>2, <2>3
<1> QED
  BY <1>3, <1>6, <1>7, <1>8

(* The end of an unsubscription, of a disposal or of an overflow.             *)
DisposalOver(n) == streams[n].dispose = "unsubscribe" /\ streams[n].setup = "ready" /\ Ends(n)
DropOver(n) == /\ streams[n].setup = "dropping" /\ streams[n].dispose # "unsubscribe" /\ SetupMoves(n, "failed")
               /\ streams'[n].snapshot = streams[n].snapshot /\ streams'[n].answer = streams[n].answer
               /\ streams'[n].pending = streams[n].pending
NothingOver(n) == /\ streams[n].setup # "dropping" /\ streams[n].dispose # "unsubscribe"
                  /\ UNCHANGED <<streams, owner, current>>

(* The answer to an unsubscription ends a disposal or a drop, or comes too   *)
(* late.                                                                     *)
LEMMA UnsubscriptionOver ==
  ASSUME Streamed, NEW n \in StreamIds, Unsubscribed(n)
  PROVE  DisposalOver(n) \/ DropOver(n) \/ NothingOver(n)
<1>1. streams[n] \in StreamRecords
  BY DEF Streamed
<1>2. CASE streams[n].dispose = "unsubscribe"
  BY <1>1, <1>2, DisposalEnds DEF StreamRecords, Unsubscribed, DisposalOver
<1>3. CASE streams[n].dispose # "unsubscribe" /\ streams[n].setup = "dropping"
  BY <1>3, SetupFails DEF Unsubscribed, DropOver
<1>4. CASE streams[n].dispose # "unsubscribe" /\ streams[n].setup # "dropping"
  BY <1>4 DEF Unsubscribed, NothingOver
<1> QED
  BY <1>2, <1>3, <1>4

(* The setup goes on with an answer.                                         *)
Follow(n) == [ask |-> "unsubscribe", stream |-> n, device |-> streams[n].device]

(* Behind the answer a stream is ready with its text, or its observer is     *)
(* dropped.                                                                  *)
LEMMA SetupGoesOn ==
  ASSUME Streamed, NEW n \in StreamIds, SetupContinues(n)
  PROVE  /\ streams[n].setup = "answered" /\ Aside /\ streams[n].answer \in Snapshots
         /\ UNCHANGED <<owner, observer, produced, alive, toMain, faults>>
         /\ streams'[n].pending = <<>> /\ streams'[n].answer = NoSnapshot
         /\ \/ /\ SetupMoves(n, "ready") /\ UNCHANGED toBroker
               /\ streams'[n].snapshot = WithPending(streams[n].answer, streams[n].pending)
            \/ /\ SetupMoves(n, "dropping") /\ toBroker' = Append(toBroker, Follow(n))
               /\ streams'[n].snapshot = streams[n].answer
<1>1. streams[n] \in StreamRecords /\ streams[n] \in Stream
  BY DEF Streamed, StreamRecords
<1>2. streams[n].setup = "answered" /\ streams[n].answer \in Snapshots
  BY <1>1 DEF SetupContinues, StreamRecords
<1>3. /\ Aside /\ UNCHANGED <<current, owner, observer, produced, alive, toMain, faults>>
  BY DEF SetupContinues, Aside
<1>4. PICK setup, x :
          /\ streams' = [streams EXCEPT ![n] = [streams[n] EXCEPT !.setup = setup, !.answer = NoSnapshot,
                                                                  !.pending = <<>>, !.snapshot = x]]
          /\ \/ setup = "ready" /\ x = WithPending(streams[n].answer, streams[n].pending) /\ UNCHANGED toBroker
             \/ setup = "dropping" /\ x = streams[n].answer /\ toBroker' = Append(toBroker, Follow(n))
  <2>1. CASE streams[n].overflow
    BY <2>1 DEF SetupContinues, Follow
  <2>2. CASE ~streams[n].overflow
    BY <2>2 DEF SetupContinues
  <2> QED
    BY <2>1, <2>2
<1>5. /\ streams'[n] = [streams[n] EXCEPT !.setup = setup, !.answer = NoSnapshot, !.pending = <<>>, !.snapshot = x]
      /\ \A m \in StreamIds \ {n} : streams'[m] = streams[m]
  BY <1>4 DEF Streamed
<1>6. /\ streams'[n].setup = setup /\ streams'[n].answer = NoSnapshot /\ streams'[n].pending = <<>>
      /\ streams'[n].snapshot = x /\ streams'[n].dispose = streams[n].dispose
      /\ streams'[n].device = streams[n].device /\ streams'[n].interests = streams[n].interests
  BY <1>1, <1>5 DEF Stream
<1>7. SetupMoves(n, setup)
  BY <1>3, <1>5, <1>6 DEF SetupMoves
<1> QED
  BY <1>2, <1>3, <1>4, <1>6, <1>7

(* A disposal asks for the observer's end, or ends.                           *)
DisposalAsks(n) ==
    /\ streams[n].setup = "ready" /\ toBroker' = Append(toBroker, Follow(n))
    /\ streams'[n].setup = streams[n].setup /\ streams'[n].dispose = "unsubscribe"
    /\ streams'[n].device = streams[n].device /\ streams'[n].interests = streams[n].interests
    /\ streams'[n].answer = streams[n].answer /\ streams'[n].snapshot = streams[n].snapshot
    /\ streams'[n].pending = streams[n].pending
    /\ \A m \in StreamIds \ {n} : streams'[m] = streams[m]
    /\ UNCHANGED current

(* A disposal asks the broker only for a stream that was set up.             *)
LEMMA DisposalGoesOn ==
  ASSUME Streamed, NEW n \in StreamIds, DisposeContinues(n)
  PROVE  /\ streams[n].dispose = "setup" /\ Settled(n) /\ Aside
         /\ UNCHANGED <<owner, observer, produced, alive, toMain, faults>>
         /\ \/ DisposalAsks(n)
            \/ streams[n].setup = "failed" /\ Ends(n) /\ UNCHANGED toBroker
<1>1. streams[n] \in Stream
  BY DEF Streamed, StreamRecords
<1>2. /\ streams[n].dispose = "setup" /\ Settled(n) /\ Aside
      /\ UNCHANGED <<owner, observer, produced, alive, toMain, faults>>
  BY DEF DisposeContinues, DisposeRuns, Aside
<1>3. CASE streams[n].setup = "ready"
  <2>1. /\ streams' = [streams EXCEPT ![n] = [streams[n] EXCEPT !.dispose = "unsubscribe"]]
        /\ toBroker' = Append(toBroker, Follow(n)) /\ UNCHANGED current
    BY <1>3 DEF DisposeContinues, Follow, Streamed
  <2>2. DisposalAsks(n)
    BY <1>1, <1>3, <2>1 DEF DisposalAsks, Stream, Streamed
  <2> QED
    BY <1>2, <2>2
<1>4. CASE streams[n].setup # "ready"
  <2>1. streams[n].setup = "failed" /\ Disposed(n) /\ UNCHANGED toBroker
    BY <1>2, <1>4 DEF DisposeContinues, Settled
  <2> QED
    BY <1>2, <2>1, DisposalEnds
<1> QED
  BY <1>3, <1>4

(* A broken connection ends what waits for an answer.                         *)
BrokenOff(n) ==
    /\ streams'[n].setup = IF streams[n].setup \in {"asking", "dropping"} THEN "failed" ELSE streams[n].setup
    /\ streams'[n].dispose = IF streams[n].dispose = "unsubscribe" THEN "done" ELSE streams[n].dispose
    /\ streams'[n].device = streams[n].device /\ streams'[n].interests = streams[n].interests
    /\ streams'[n].answer = streams[n].answer /\ streams'[n].snapshot = streams[n].snapshot
    /\ streams'[n].pending = streams[n].pending

(* A broken connection empties the queues and ends everything that waits.    *)
LEMMA BrokeOff ==
  ASSUME Streamed, Break
  PROVE  /\ EventLoopTurn /\ Aside /\ UNCHANGED <<produced, alive>>
         /\ toBroker' = <<>> /\ toMain' = <<>> /\ observer' = [d \in Devices |-> "none"]
         /\ faults' = [faults EXCEPT !.breaks = @ + 1]
         /\ current' = IF \E n \in StreamIds : n = current /\ streams[n].dispose = "unsubscribe" THEN NoStream ELSE current
         /\ \A n \in StreamIds : BrokenOff(n)
<1>1. /\ EventLoopTurn /\ Aside /\ UNCHANGED <<produced, alive>>
      /\ toBroker' = <<>> /\ toMain' = <<>> /\ observer' = [d \in Devices |-> "none"]
      /\ faults' = [faults EXCEPT !.breaks = @ + 1]
  BY DEF Break, Aside
<1>2. current' = IF \E n \in StreamIds : n = current /\ streams[n].dispose = "unsubscribe" THEN NoStream ELSE current
  BY DEF Break
<1>3. \A n \in StreamIds : streams'[n] = [streams[n] EXCEPT
          !.setup = IF streams[n].setup \in {"asking", "dropping"} THEN "failed" ELSE streams[n].setup,
          !.dispose = IF streams[n].dispose = "unsubscribe" THEN "done" ELSE streams[n].dispose]
  BY DEF Break
<1>4. \A n \in StreamIds : BrokenOff(n)
  <2> SUFFICES ASSUME NEW n \in StreamIds PROVE BrokenOff(n)
    OBVIOUS
  <2>1. PICK setup, dispose :
            /\ streams'[n] = [streams[n] EXCEPT !.setup = setup, !.dispose = dispose]
            /\ setup = IF streams[n].setup \in {"asking", "dropping"} THEN "failed" ELSE streams[n].setup
            /\ dispose = IF streams[n].dispose = "unsubscribe" THEN "done" ELSE streams[n].dispose
    BY <1>3
  <2>2. streams[n] \in Stream
    BY DEF Streamed, StreamRecords
  <2> QED
    BY <2>1, <2>2 DEF BrokenOff, Stream
<1> QED
  BY <1>1, <1>2, <1>4

(* A request given up ends what waits for it, and nothing else.              *)
LEMMA TimedOut ==
  ASSUME Streamed, NEW n \in StreamIds, TimeOut(n)
  PROVE  /\ EventLoopTurn /\ Aside /\ UNCHANGED <<observer, produced, alive, toBroker, toMain>>
         /\ faults' = [faults EXCEPT !.timeouts = @ + 1]
         /\ \/ /\ streams[n].setup = "asking" /\ SetupMoves(n, "failed")
               /\ streams'[n].snapshot = streams[n].snapshot /\ streams'[n].answer = streams[n].answer
               /\ streams'[n].pending = streams[n].pending
            \/ DisposalOver(n) \/ DropOver(n) \/ NothingOver(n)
<1>1. /\ EventLoopTurn /\ Aside /\ UNCHANGED <<observer, produced, alive, toBroker, toMain>>
      /\ faults' = [faults EXCEPT !.timeouts = @ + 1]
  BY DEF TimeOut, Aside
<1>2. \/ streams[n].setup = "asking" /\ streams' = Failed(streams, n) /\ UNCHANGED current
      \/ Unsubscribed(n)
  BY DEF TimeOut
<1> QED
  BY <1>1, <1>2, SetupFails, UnsubscriptionOver

(* The steps that leave the sessions aside, as steps of one stream.           *)
SetupStep(n) ==
    \/ FrameTurn /\ streams[n].setup = "asking" /\ SetupMoves(n, "answered")
         /\ streams'[n].snapshot = NoSnapshot
    \/ FrameTurn /\ streams[n].setup \in {"asking", "dropping"} /\ SetupMoves(n, "failed")
         /\ streams'[n].snapshot = streams[n].snapshot
    \/ streams[n].setup = "answered" /\ (SetupMoves(n, "ready") \/ SetupMoves(n, "dropping"))
EndStep(n) == streams[n].dispose \in {"setup", "unsubscribe"} /\ Settled(n) /\ Ends(n)
AskStep(n) == streams[n].dispose = "setup" /\ DisposalAsks(n)
BreakStep ==
    /\ EventLoopTurn
    /\ current' = IF \E n \in StreamIds : n = current /\ streams[n].dispose = "unsubscribe" THEN NoStream ELSE current
    /\ \A n \in StreamIds : BrokenOff(n)

(* Every step is a command, a stream found, an event, or one step of a       *)
(* stream.                                                                   *)
LEMMA StepsOfStreams ==
  ASSUME Placed, Streamed, Brokered, Next
  PROVE  \/ \E s \in Sessions : CommandStep(s)
         \/ \E s \in Sessions : FindStream(s) \/ TakeAfterDisposal(s)
         \/ ReadEvent
         \/ Aside /\ \/ FrameTurn /\ UNCHANGED <<streams, current>>
                     \/ \E n \in StreamIds : SetupStep(n) \/ EndStep(n) \/ AskStep(n)
                     \/ BreakStep
<1> DEFINE Goal == Aside /\ \/ FrameTurn /\ UNCHANGED <<streams, current>>
                            \/ \E n \in StreamIds : SetupStep(n) \/ EndStep(n) \/ AskStep(n)
                            \/ BreakStep
<1>1. CASE ReadSubscribed
  <2>1. PICK answer \in Answers : LET n == answer.stream IN
           /\ n \in StreamIds /\ FrameTurn /\ Aside /\ UNCHANGED current
           /\ \/ UNCHANGED streams
              \/ streams[n].setup = "asking" /\ SetupMoves(n, "answered") /\ streams'[n].snapshot = NoSnapshot
              \/ streams[n].setup = "asking" /\ SetupMoves(n, "failed") /\ streams'[n].snapshot = NoSnapshot
    BY <1>1, SubscribedRead
  <2>2. \A n \in StreamIds : streams[n].setup = "asking" => streams[n].snapshot = NoSnapshot
    BY DEF Streamed, StreamRecords
  <2> QED
    BY <2>1, <2>2 DEF SetupStep
<1>2. ASSUME NEW n \in StreamIds, Aside, FrameTurn, DisposalOver(n) \/ DropOver(n) \/ NothingOver(n) PROVE Goal
  BY <1>2 DEF DisposalOver, DropOver, NothingOver, SetupStep, EndStep, Settled
<1>3. CASE ReadUnsubscribed
  <2>1. Head(toMain).stream \in StreamIds
    BY <1>3, FirstFrame DEF ReadUnsubscribed, Answers, Answer
  <2>2. Aside /\ FrameTurn
    BY <1>3 DEF ReadUnsubscribed, NextFrame, Aside
  <2> QED
    BY <1>2, <1>3, <2>1, <2>2, UnsubscriptionOver DEF ReadUnsubscribed
<1>4. ASSUME NEW n \in StreamIds, SetupContinues(n) PROVE Goal
  BY <1>4, SetupGoesOn DEF SetupStep
<1>5. ASSUME NEW n \in StreamIds, DisposeContinues(n) PROVE Goal
  BY <1>5, DisposalGoesOn DEF EndStep, AskStep
<1>6. CASE BrokerStep \/ Produce \/ TerminalGoes
  BY <1>6 DEF BrokerStep, BrokerSubscribes, BrokerUnsubscribes, Produce, TerminalGoes, Aside, EventLoopTurn
<1>7. CASE Break
  BY <1>7, BrokeOff DEF BreakStep
<1>8. ASSUME NEW n \in StreamIds, TimeOut(n) PROVE Goal
  <2>1. /\ FrameTurn /\ Aside
        /\ \/ streams[n].setup = "asking" /\ SetupMoves(n, "failed") /\ streams'[n].snapshot = streams[n].snapshot
           \/ DisposalOver(n) \/ DropOver(n) \/ NothingOver(n)
    BY <1>8, TimedOut DEF EventLoopTurn
  <2>2. CASE DisposalOver(n) \/ DropOver(n) \/ NothingOver(n)
    BY <1>2, <2>1, <2>2
  <2>3. CASE streams[n].setup = "asking" /\ SetupMoves(n, "failed") /\ streams'[n].snapshot = streams[n].snapshot
    BY <2>1, <2>3 DEF SetupStep
  <2> QED
    BY <2>1, <2>2, <2>3
<1> HIDE DEF Goal
<1>9. Goal => Aside /\ \/ FrameTurn /\ UNCHANGED <<streams, current>>
                       \/ \E n \in StreamIds : SetupStep(n) \/ EndStep(n) \/ AskStep(n)
                       \/ BreakStep
  BY DEF Goal
<1> QED
  BY <1>1, <1>3, <1>4, <1>5, <1>6, <1>7, <1>8, <1>9
  DEF Next, GatewayStep, Phone, Fault, ReadFrame, CommandStep

-----------------------------------------------------------------------------
(* The stream of the terminal is the one that is not done, and no other is     *)
(* being set up.                                                            *)
OneOpen == \A n \in StreamIds : /\ n = current <=> streams[n].dispose # "done"
                                /\ n # current => Settled(n)

(* There is never a second stream that is open or being set up.              *)
LEMMA NextOneOpen == ASSUME Placed, Streamed, Brokered, OneOpen, Next PROVE OneOpen'
<1>0. NoStream \notin StreamIds
  BY DEF NoStream, StreamIds
<1>1. ASSUME NEW s \in Sessions, CommandStep(s) PROVE OneOpen'
  <2>1. UNCHANGED current /\ \A n \in StreamIds : Closes(n)
    BY <1>1, CommandsClose
  <2> QED
    BY <2>1 DEF OneOpen, Settled, Closes
<1>2. ASSUME NEW s \in Sessions, FindStream(s) \/ TakeAfterDisposal(s) PROVE OneOpen'
  <2>1. CASE UNCHANGED <<streams, current>>
    BY <2>1 DEF OneOpen, Settled
  <2>2. ASSUME current = NoStream, NEW n \in StreamIds, Started(n, s) PROVE OneOpen'
    <3>1. /\ streams'[n].dispose = "no" /\ current' = n
          /\ \A m \in StreamIds \ {n} : streams'[m] = streams[m]
      BY <2>2 DEF Started, Unused
    <3> QED
      BY <1>0, <2>2, <3>1 DEF OneOpen, Settled
  <2> QED
    BY <1>2, <2>1, <2>2, StreamFound
<1>3. CASE ReadEvent
  <2>1. UNCHANGED current /\ \A n \in StreamIds : StagesKept(n)
    BY <1>3, EventPassed
  <2> QED
    BY <2>1 DEF OneOpen, Settled, StagesKept
<1>4. CASE UNCHANGED <<streams, current>>
  BY <1>4 DEF OneOpen, Settled
<1>5. ASSUME NEW n \in StreamIds, SetupStep(n) PROVE OneOpen'
  <2>1. ~Settled(n) /\ UNCHANGED current /\ streams'[n].dispose = streams[n].dispose
        /\ \A m \in StreamIds \ {n} : streams'[m] = streams[m]
    BY <1>5 DEF SetupStep, SetupMoves, Settled
  <2> QED
    BY <2>1 DEF OneOpen, Settled
<1>6. ASSUME NEW n \in StreamIds, EndStep(n) PROVE OneOpen'
  <2>1. n = current
    BY <1>6 DEF EndStep, OneOpen
  <2>2. streams'[n].setup \in {streams[n].setup, "failed"} /\ streams'[n].dispose = "done"
        /\ current' = NoStream /\ \A m \in StreamIds \ {n} : streams'[m] = streams[m]
    BY <1>6, <2>1 DEF EndStep, Ends, Unused
  <2> QED
    BY <1>0, <1>6, <2>1, <2>2 DEF OneOpen, EndStep, Settled
<1>7. ASSUME NEW n \in StreamIds, AskStep(n) PROVE OneOpen'
  <2>1. n = current
    BY <1>7 DEF AskStep, OneOpen
  <2> QED
    BY <1>7, <2>1 DEF AskStep, DisposalAsks, OneOpen, Settled
<1>8. CASE BreakStep
  <2>1. \A n \in StreamIds : BrokenOff(n)
    BY <1>8 DEF BreakStep
  <2>2. \A n \in StreamIds : /\ streams'[n].dispose = "done" <=> streams[n].dispose \in {"done", "unsubscribe"}
                             /\ Settled(n) => Settled(n)'
    BY <2>1 DEF BrokenOff, Settled
  <2>3. \A n \in StreamIds : streams[n].dispose = "unsubscribe" => Settled(n)
    BY DEF Streamed, StreamRecords, Settled
  <2> QED
    BY <1>0, <1>8, <2>2, <2>3 DEF BreakStep, OneOpen
<1> QED
  BY <1>1, <1>2, <1>3, <1>4, <1>5, <1>6, <1>7, <1>8, StepsOfStreams

-----------------------------------------------------------------------------
(* A session is a member of a stream that was set up, while it is open, and a  *)
(* command waits for the end of a disposal only where there is one.           *)
Belong == \A s \in Sessions :
    /\ marker[s] # NoStream => s \in up /\ (streams[marker[s]].setup = "ready" \/ Closing(marker[s]))
    /\ task[s].stage \in {"detach", "await", "undo"} => Closing(task[s].stream)
    /\ s \notin up => view[s] = <<>> /\ reached[s] = 0

(* What a command does to the sessions.                                      *)
LEMMA CommandsPlace ==
  ASSUME Placed, Streamed, Shows, NEW s \in Sessions, CommandStep(s)
  PROVE  /\ \A t \in Sessions \ {s} : task'[t] = task[t] /\ marker'[t] = marker[t] /\ (t \in up' <=> t \in up)
                                      /\ view'[t] = view[t] /\ reached'[t] = reached[t]
         /\ \/ marker'[s] \in {marker[s], NoStream} /\ view'[s] = view[s] /\ reached'[s] = reached[s]
               /\ (s \in up => s \in up')
            \/ /\ Join(s) /\ s \in up /\ s \in up' /\ streams[task[s].stream].setup = "ready"
               /\ marker'[s] = task[s].stream /\ task'[s] = Idle
               /\ view'[s] = Shown(view[s], streams[task[s].stream].snapshot)
               /\ reached'[s] = Later(reached[s], streams[task[s].stream].snapshot.to)
            \/ /\ marker'[s] = NoStream /\ view'[s] = <<>> /\ reached'[s] = 0 /\ s \notin up'
         /\ \/ task'[s] = task[s] \/ task'[s].stage \in {"idle", "find"}
            \/ task'[s].stage = "detach" /\ streams'[task'[s].stream].dispose # "no" /\ task'[s].stream \in StreamIds
            \/ task'[s] = [task[s] EXCEPT !.stage = "setup"] /\ task[s].stage = "got"
            \/ task'[s] = [task[s] EXCEPT !.stage = "undo"] /\ streams'[task[s].stream].dispose # "no"
               /\ task[s].stream \in StreamIds
<1> USE TerminalStreamsAssumption DEF Placed, Shows
<1>1. CASE Subscribe(s) \/ Unsubscribe(s)
  <2>1. PICK command, next :
            /\ Leave(s, command, next) /\ next.stage \in {"idle", "find"}
            /\ UNCHANGED <<up, view, reached>>
    BY <1>1 DEF Subscribe, Unsubscribe, Idle
  <2>2. marker' = [marker EXCEPT ![s] = NoStream]
    BY <2>1 DEF Leave
  <2>3. \/ task' = [task EXCEPT ![s] = next]
        \/ /\ task' = [task EXCEPT ![s] = [command |-> command, stage |-> "detach", stream |-> marker[s]]]
           /\ marker[s] # NoStream /\ streams'[marker[s]].dispose # "no"
    BY <2>1 DEF Leave
  <2> QED
    BY <2>1, <2>2, <2>3
<1>2. CASE Detached(s)
  <2>1. task' = [task EXCEPT ![s] = IF task[s].command = "unsubscribe" THEN Idle
                                    ELSE [task[s] EXCEPT !.stage = "find", !.stream = NoStream]]
        /\ UNCHANGED <<up, marker, view, reached>>
    BY <1>2 DEF Detached
  <2>2. Idle.stage = "idle" /\ [task[s] EXCEPT !.stage = "find", !.stream = NoStream].stage = "find"
    BY DEF Idle, Task
  <2> QED
    BY <2>1, <2>2
<1>3. ASSUME NEW n \in StreamIds, NEW strs, GiveUp(s, n, strs), n = task[s].stream
      PROVE  /\ \A t \in Sessions \ {s} : task'[t] = task[t]
             /\ \/ task'[s].stage = "idle"
                \/ task'[s] = [task[s] EXCEPT !.stage = "undo"] /\ streams'[n].dispose # "no"
  BY <1>3 DEF GiveUp, Idle
<1>4. CASE Got(s)
  <2>1. UNCHANGED <<up, marker, view, reached>> /\ task[s].stage = "got" /\ task[s].stream \in StreamIds
    BY <1>4 DEF Got
  <2>2. CASE s \in up
    BY <1>4, <2>1, <2>2 DEF Got
  <2>3. CASE s \notin up
    BY <1>3, <1>4, <2>1, <2>3 DEF Got
  <2> QED
    BY <2>2, <2>3
<1>5. CASE Join(s)
  <2>1. UNCHANGED up /\ task[s].stream \in StreamIds
    BY <1>5 DEF Join
  <2>2. CASE s \in up /\ streams[task[s].stream].setup = "ready" /\ Cardinality(Members(task[s].stream)) < MaxMembers
    <3>1. /\ marker' = [marker EXCEPT ![s] = task[s].stream] /\ task' = [task EXCEPT ![s] = Idle]
      BY <1>5, <2>2 DEF Join
    <3>2. \A t \in Sessions : /\ view'[t] = IF t = s THEN Shown(view[t], streams[task[s].stream].snapshot) ELSE view[t]
                              /\ reached'[t] = IF t = s THEN Later(reached[t], streams[task[s].stream].snapshot.to)
                                               ELSE reached[t]
      BY <1>5, <2>2 DEF Join
    <3>3. Idle.stage = "idle"
      BY DEF Idle
    <3> QED
      BY <1>5, <2>1, <2>2, <3>1, <3>2, <3>3
  <2>3. CASE ~(s \in up /\ streams[task[s].stream].setup = "ready" /\ Cardinality(Members(task[s].stream)) < MaxMembers)
    <3>1. UNCHANGED <<marker, view, reached>> /\ \E strs : GiveUp(s, task[s].stream, strs)
      BY <1>5, <2>3 DEF Join
    <3> QED
      BY <1>3, <2>1, <3>1
  <2> QED
    BY <2>2, <2>3
<1>6. CASE Undone(s)
  BY <1>6 DEF Undone, Idle
<1>7. CASE Connect(s)
  BY <1>7 DEF Connect
<1>8. CASE Close(s)
  BY <1>8 DEF Close
<1> QED
  BY <1>1, <1>2, <1>4, <1>5, <1>6, <1>7, <1>8 DEF CommandStep

Typed == Placed /\ Streamed /\ Shows /\ Brokered

(* A stream that is ready, or closing, stays so until its name is used again.  *)
LEMMA StreamsLast ==
  ASSUME Typed, Next, OneOpen, NEW n \in StreamIds, Referenced(n)
  PROVE  /\ Closing(n) => Closing(n)'
         /\ streams[n].setup = "ready" => streams'[n].setup = "ready" \/ Closing(n)'
<1> USE DEF Typed
<1>1. ASSUME NEW s \in Sessions, CommandStep(s) PROVE Closes(n)
  BY <1>1, CommandsClose
<1>2. ASSUME NEW s \in Sessions, FindStream(s) \/ TakeAfterDisposal(s) PROVE streams'[n] = streams[n]
  <2>1. UNCHANGED streams \/ \E m \in StreamIds : Started(m, s)
    BY <1>2, StreamFound
  <2> QED
    BY <2>1 DEF Started
<1>3. ReadEvent => StagesKept(n)
  BY EventPassed
<1>4. ASSUME NEW m \in StreamIds, SetupStep(m)
      PROVE  streams'[n].dispose = streams[n].dispose /\ (streams[n].setup = "ready" => streams'[n].setup = "ready")
  BY <1>4 DEF SetupStep, SetupMoves
<1>5. ASSUME NEW m \in StreamIds, EndStep(m)
      PROVE  streams'[n] = streams[n] \/ streams'[n].dispose = "done"
  BY <1>5 DEF EndStep, Ends
<1>6. ASSUME NEW m \in StreamIds, AskStep(m)
      PROVE  streams'[n] = streams[n] \/ streams'[n].dispose = "unsubscribe"
  BY <1>6 DEF AskStep, DisposalAsks
<1>7. BreakStep => BrokenOff(n)
  BY DEF BreakStep
<1> QED
  BY <1>1, <1>2, <1>3, <1>4, <1>5, <1>6, <1>7, StepsOfStreams DEF Closing, Closes, StagesKept, BrokenOff

(* Every step keeps members in streams that were set up or are closing.      *)
LEMMA NextBelong == ASSUME Typed, OneOpen, Belong, Next PROVE Belong'
<1> USE DEF Typed
<1>0. NoStream \notin StreamIds
  BY DEF NoStream, StreamIds
<1>1. ASSUME NEW n \in StreamIds, Referenced(n)
      PROVE  /\ Closing(n) => streams'[n].dispose # "no"
             /\ streams[n].setup = "ready" => streams'[n].setup = "ready" \/ streams'[n].dispose # "no"
  BY <1>1, StreamsLast DEF Closing
<1>2. \A s \in Sessions : /\ marker[s] # NoStream => marker[s] \in StreamIds /\ Referenced(marker[s])
                          /\ task[s].stage \in {"detach", "await", "undo"} => task[s].stream \in StreamIds /\ Referenced(task[s].stream)
  BY DEF Placed, Referenced
<1>3. ASSUME NEW s \in Sessions, marker'[s] = marker[s], s \in up => s \in up'
      PROVE  marker'[s] # NoStream => s \in up' /\ (streams'[marker'[s]].setup = "ready" \/ streams'[marker'[s]].dispose # "no")
  BY <1>1, <1>2, <1>3 DEF Belong, Closing
<1>4. ASSUME NEW s \in Sessions, task'[s] = task[s], task'[s].stage \in {"detach", "await", "undo"}
      PROVE  streams'[task'[s].stream].dispose # "no"
  BY <1>1, <1>2, <1>4 DEF Belong, Closing
<1>5. Belong' <=> \A s \in Sessions :
          /\ marker'[s] # NoStream => s \in up' /\ (streams'[marker'[s]].setup = "ready" \/ streams'[marker'[s]].dispose # "no")
          /\ task'[s].stage \in {"detach", "await", "undo"} => streams'[task'[s].stream].dispose # "no"
          /\ s \notin up' => view'[s] = <<>> /\ reached'[s] = 0
  BY DEF Belong, Closing
<1>6. ASSUME NEW s \in Sessions, CommandStep(s) PROVE Belong'
  <2> SUFFICES ASSUME NEW t \in Sessions
               PROVE  /\ marker'[t] # NoStream => t \in up' /\ (streams'[marker'[t]].setup = "ready" \/ streams'[marker'[t]].dispose # "no")
                      /\ task'[t].stage \in {"detach", "await", "undo"} => streams'[task'[t].stream].dispose # "no"
                      /\ t \notin up' => view'[t] = <<>> /\ reached'[t] = 0
    BY <1>5
  <2>1. CASE t # s
    <3>1. task'[t] = task[t] /\ marker'[t] = marker[t] /\ (t \in up' <=> t \in up)
          /\ view'[t] = view[t] /\ reached'[t] = reached[t]
      BY <1>6, <2>1, CommandsPlace
    <3> QED
      BY <1>3, <1>4, <3>1 DEF Belong
  <2>2. CASE t = s
    <3>1. task'[s].stage \in {"detach", "await", "undo"} => streams'[task'[s].stream].dispose # "no"
      <4>1. \/ task'[s] = task[s] \/ task'[s].stage \in {"idle", "find"}
            \/ task'[s].stage = "detach" /\ streams'[task'[s].stream].dispose # "no"
            \/ task'[s] = [task[s] EXCEPT !.stage = "setup"]
            \/ task'[s] = [task[s] EXCEPT !.stage = "undo"] /\ streams'[task[s].stream].dispose # "no"
        BY <1>6, CommandsPlace
      <4>2. [task[s] EXCEPT !.stage = "setup"].stage = "setup"
            /\ [task[s] EXCEPT !.stage = "undo"].stream = task[s].stream
        BY DEF Placed, Task
      <4> QED
        BY <1>4, <4>1, <4>2
    <3>2. CASE marker'[s] \in {marker[s], NoStream} /\ view'[s] = view[s] /\ reached'[s] = reached[s] /\ (s \in up => s \in up')
      BY <1>3, <2>2, <3>1, <3>2 DEF Belong
    <3>3. CASE Join(s) /\ s \in up' /\ streams[task[s].stream].setup = "ready" /\ marker'[s] = task[s].stream
      <4>1. task[s].stream \in StreamIds /\ Referenced(task[s].stream)
        BY <3>3 DEF Join, Placed, Referenced
      <4> QED
        BY <1>1, <2>2, <3>1, <3>3, <4>1
    <3>4. CASE marker'[s] = NoStream /\ view'[s] = <<>> /\ reached'[s] = 0
      BY <2>2, <3>1, <3>4
    <3> QED
      BY <1>6, <3>2, <3>3, <3>4, CommandsPlace
  <2> QED
    BY <2>1, <2>2
<1>7. ASSUME NEW s \in Sessions, FindStream(s) \/ TakeAfterDisposal(s) PROVE Belong'
  <2>1. /\ UNCHANGED <<up, marker, view, reached>> /\ \A t \in Sessions \ {s} : task'[t] = task[t]
        /\ \/ task'[s].stage = "got"
           \/ task'[s].stage = "await" /\ Closing(current) /\ UNCHANGED streams /\ task'[s].stream = current
    <3>1. \A n : [task[s] EXCEPT !.stage = "got", !.stream = n].stage = "got"
                 /\ [task[s] EXCEPT !.stage = "await", !.stream = n].stage = "await"
                 /\ [task[s] EXCEPT !.stage = "await", !.stream = n].stream = n
      BY DEF Placed, Task
    <3>2. UNCHANGED <<up, marker, view, reached>>
          /\ \/ \E n \in StreamIds : task' = [task EXCEPT ![s] = [task[s] EXCEPT !.stage = "got", !.stream = n]]
             \/ Closing(current) /\ UNCHANGED streams
                /\ task' = [task EXCEPT ![s] = [task[s] EXCEPT !.stage = "await", !.stream = current]]
      BY <1>7, StreamFound DEF Started
    <3>3. \E r : task' = [task EXCEPT ![s] = r]
      BY <3>2
    <3>4. \A t \in Sessions \ {s} : task'[t] = task[t]
      BY <3>3 DEF Placed
    <3>5. \/ \E n \in StreamIds : task'[s] = [task[s] EXCEPT !.stage = "got", !.stream = n]
          \/ Closing(current) /\ UNCHANGED streams /\ task'[s] = [task[s] EXCEPT !.stage = "await", !.stream = current]
      BY <3>2 DEF Placed
    <3> QED
      BY <3>1, <3>2, <3>4, <3>5
  <2> SUFFICES ASSUME NEW t \in Sessions
               PROVE  task'[t].stage \in {"detach", "await", "undo"} => streams'[task'[t].stream].dispose # "no"
    BY <1>3, <1>5, <2>1 DEF Belong
  <2> QED
    BY <1>4, <2>1 DEF Closing
<1>8. CASE ReadEvent
  <2>1. UNCHANGED <<up, marker, task>> /\ \A s \in Sessions : s \notin up => view'[s] = view[s] /\ reached'[s] = reached[s]
    <3>1. UNCHANGED <<up, marker, task>> /\ (UNCHANGED <<view, reached>> \/ \E n \in StreamIds, event \in Event : Passed(n, event))
      BY <1>8, EventPassed
    <3> QED
      BY <3>1 DEF Passed, OnPhones
  <2> QED
    BY <1>3, <1>4, <1>5, <2>1 DEF Belong
<1>9. CASE Aside
  BY <1>3, <1>4, <1>5, <1>9 DEF Aside, Belong
<1> QED
  BY <1>6, <1>7, <1>8, <1>9, StepsOfStreams

-----------------------------------------------------------------------------
(* What a phone that watches shows is one stretch, which ends where the        *)
(* snapshot of its stream does.                                              *)
OneStretch(text, to) == Uninterrupted(text) /\ (text # <<>> => text[Len(text)] = to)
Stretch == \A s \in Sessions, n \in StreamIds : Watches(s, n) => OneStretch(view[s], streams[n].snapshot.to)

(* The text of a snapshot is one stretch.                                    *)
LEMMA ShownStretch == ASSUME NEW x \in Snapshots, NEW text PROVE OneStretch(Shown(text, x), x.to)
<1>1. x.from \in Nat /\ x.to \in Nat /\ x.to - x.from \in Nat
  BY TerminalStreamsAssumption DEF Snapshots, Snapshot
<1>2. PICK k \in Nat : k = x.to - x.from
  BY <1>1
<1>3. Shown(text, x) = [i \in 1 .. k |-> x.from + i]
  BY <1>2 DEF Shown
<1>4. Len(Shown(text, x)) = k /\ \A i \in 1 .. k : Shown(text, x)[i] = x.from + i
  BY <1>3
<1>5. Uninterrupted(Shown(text, x))
  <2> SUFFICES ASSUME NEW i \in 1 .. k - 1 PROVE Shown(text, x)[i + 1] = Shown(text, x)[i] + 1
    BY <1>4 DEF Uninterrupted
  <2>1. i \in 1 .. k /\ i + 1 \in 1 .. k
    BY <1>2
  <2>2. Shown(text, x)[i] = x.from + i /\ Shown(text, x)[i + 1] = x.from + (i + 1)
    BY <1>4, <2>1
  <2> QED
    BY <1>1, <2>1, <2>2
<1>6. Shown(text, x) # <<>> => k \in 1 .. k
  BY <1>3
<1>7. k \in 1 .. k => Shown(text, x)[k] = x.to
  BY <1>1, <1>2, <1>4
<1> QED
  BY <1>4, <1>5, <1>6, <1>7 DEF OneStretch

(* One stretch and the next chunk are one stretch.                           *)
LEMMA AppendStretch ==
  ASSUME NEW text \in Seq(Chunks), NEW to \in Nat, OneStretch(text, to)
  PROVE  OneStretch(Append(text, to + 1), to + 1)
<1>1. Len(text) \in Nat /\ (text # <<>> => Len(text) \in 1 .. Len(text) /\ text[Len(text)] = to)
  BY DEF OneStretch
<1>2. Len(Append(text, to + 1)) = Len(text) + 1 /\ Append(text, to + 1)[Len(text) + 1] = to + 1
  OBVIOUS
<1>3. \A i \in 1 .. Len(text) : Append(text, to + 1)[i] = text[i]
  OBVIOUS
<1>4. ASSUME NEW i \in 1 .. Len(text) PROVE Append(text, to + 1)[i + 1] = Append(text, to + 1)[i] + 1
  <2>1. CASE i = Len(text)
    BY <1>1, <1>2, <1>3, <2>1
  <2>2. CASE i # Len(text)
    <3>1. i \in 1 .. Len(text) - 1 /\ i + 1 \in 1 .. Len(text)
      BY <1>1, <2>2
    <3>2. text[i + 1] = text[i] + 1
      BY <3>1 DEF OneStretch, Uninterrupted
    <3> QED
      BY <1>3, <3>1, <3>2
  <2> QED
    BY <2>1, <2>2
<1> QED
  BY <1>1, <1>2, <1>4 DEF OneStretch, Uninterrupted

(* Nothing is one stretch, wherever it ends.                                 *)
LEMMA NothingShown == \A to : OneStretch(<<>>, to)
  BY DEF OneStretch, Uninterrupted

(* Every step keeps the text of those who watch one stretch, up to their     *)
(* stream.                                                                   *)
LEMMA NextStretch == ASSUME Typed, OneOpen, Belong, Stretch, Next PROVE Stretch'
<1> USE TerminalStreamsAssumption DEF Typed
<1>0. NoStream \notin StreamIds
  BY DEF NoStream, StreamIds
<1>1. \A n \in StreamIds : streams[n] \in StreamRecords
  BY DEF Streamed
<1>2. ASSUME \A s \in Sessions, n \in StreamIds : marker'[s] = n /\ streams'[n].dispose = "no" => OneStretch(view'[s], streams'[n].snapshot.to)
      PROVE  Stretch'
  BY <1>2 DEF Stretch, Watches, Closing
<1>3. ASSUME NEW s \in Sessions, NEW n \in StreamIds, marker'[s] = marker[s], view'[s] = view[s],
             streams[n].dispose = "no", streams'[n].snapshot = streams[n].snapshot, marker'[s] = n
      PROVE  OneStretch(view'[s], streams'[n].snapshot.to)
  BY <1>3 DEF Stretch, Watches, Closing
<1>4. ASSUME NEW s \in Sessions, CommandStep(s) PROVE Stretch'
  <2>1. \A n \in StreamIds : streams'[n].snapshot = streams[n].snapshot /\ (streams'[n].dispose = "no" => streams[n].dispose = "no")
    BY <1>4, CommandsClose DEF Closes
  <2> SUFFICES ASSUME NEW t \in Sessions, NEW n \in StreamIds, marker'[t] = n, streams'[n].dispose = "no"
               PROVE  OneStretch(view'[t], streams'[n].snapshot.to)
    BY <1>2
  <2>2. CASE marker'[t] = marker[t] /\ view'[t] = view[t]
    BY <1>3, <2>1, <2>2
  <2>3. CASE t = s /\ s \in up /\ streams[task[s].stream].setup = "ready" /\ marker'[s] = task[s].stream
             /\ view'[s] = Shown(view[s], streams[task[s].stream].snapshot)
    <3>1. streams[n].snapshot \in Snapshots /\ n = task[s].stream
      BY <1>1, <2>3 DEF StreamRecords
    <3> QED
      BY <2>1, <2>3, <3>1, ShownStretch
  <2> QED
    BY <1>0, <1>4, <2>2, <2>3, CommandsPlace
<1>5. ASSUME NEW s \in Sessions, FindStream(s) \/ TakeAfterDisposal(s) PROVE Stretch'
  <2> SUFFICES ASSUME NEW t \in Sessions, NEW n \in StreamIds, marker'[t] = n, streams'[n].dispose = "no"
               PROVE  OneStretch(view'[t], streams'[n].snapshot.to)
    BY <1>2
  <2>1. UNCHANGED <<marker, view>> /\ (UNCHANGED streams \/ \E m \in StreamIds : Started(m, s))
    BY <1>5, StreamFound
  <2>2. Referenced(n)
    BY <2>1 DEF Referenced
  <2>3. streams'[n] = streams[n]
    BY <2>1, <2>2 DEF Started
  <2> QED
    BY <1>3, <2>1, <2>3
<1>6. CASE ReadEvent
  <2>1. PICK event \in Event :
           /\ UNCHANGED marker /\ \A m \in StreamIds : StagesKept(m)
           /\ \/ UNCHANGED view /\ \A m \in StreamIds : streams'[m].snapshot = streams[m].snapshot
              \/ \E n \in StreamIds : Passed(n, event)
    BY <1>6, EventPassed
  <2> SUFFICES ASSUME NEW t \in Sessions, NEW n \in StreamIds, marker'[t] = n, streams'[n].dispose = "no"
               PROVE  OneStretch(view'[t], streams'[n].snapshot.to)
    BY <1>2
  <2>2. streams[n].dispose = "no" /\ marker[t] = n /\ n = current /\ t \in up /\ t \in Members(n)
    BY <1>0, <2>1 DEF StagesKept, OneOpen, Belong, Members
  <2>3. CASE UNCHANGED view /\ \A m \in StreamIds : streams'[m].snapshot = streams[m].snapshot
    BY <1>3, <2>1, <2>2, <2>3
  <2>4. CASE Passed(n, event)
    <3>1. /\ streams[n].snapshot \in Snapshots /\ streams'[n].snapshot = Applied(streams[n].snapshot, event)
          /\ \/ event.kind = "output" /\ Follows(streams[n].snapshot, event) /\ OnPhones(event)
             \/ event.kind = "required" /\ OnPhones(event)
      BY <2>2, <2>4 DEF Passed
    <3>2. CASE event.kind = "output" /\ Follows(streams[n].snapshot, event) /\ OnPhones(event)
      <4>1. streams'[n].snapshot.to = streams[n].snapshot.to + 1 /\ event.at = streams[n].snapshot.to + 1
        BY <3>1, <3>2, AppliedSnapshot
      <4>2. view'[t] = Append(view[t], streams[n].snapshot.to + 1)
        BY <1>0, <2>2, <3>2, <4>1 DEF OnPhones
      <4>3. streams[n].snapshot.to \in Nat /\ view[t] \in Seq(Chunks)
        BY <3>1 DEF Snapshots, Snapshot, Shows
      <4>4. OneStretch(view[t], streams[n].snapshot.to)
        BY <2>2 DEF Stretch, Watches, Closing
      <4> QED
        BY <4>1, <4>2, <4>3, <4>4, AppendStretch
    <3>3. CASE event.kind = "required" /\ OnPhones(event)
      <4>1. view'[t] = <<>>
        BY <1>0, <2>2, <3>3 DEF OnPhones
      <4> QED
        BY <4>1, NothingShown
    <3> QED
      BY <3>1, <3>2, <3>3
  <2> QED
    BY <2>1, <2>2, <2>3, <2>4 DEF Passed
<1>7. CASE Aside /\ \/ FrameTurn /\ UNCHANGED <<streams, current>>
                    \/ \E n \in StreamIds : SetupStep(n) \/ EndStep(n) \/ AskStep(n)
                    \/ BreakStep
  <2> SUFFICES ASSUME NEW t \in Sessions, NEW n \in StreamIds, marker'[t] = n, streams'[n].dispose = "no"
               PROVE  OneStretch(view'[t], streams'[n].snapshot.to)
    BY <1>2
  <2>1. marker[t] = n /\ marker'[t] = marker[t] /\ view'[t] = view[t]
    BY <1>7 DEF Aside
  <2>2. streams[n].dispose = "no" => streams[n].setup = "ready"
    BY <1>0, <2>1 DEF Belong, Closing
  <2>3. streams[n].dispose = "no" /\ streams'[n].snapshot = streams[n].snapshot
    <3>1. CASE UNCHANGED streams
      BY <3>1
    <3>2. ASSUME NEW m \in StreamIds, SetupStep(m) PROVE streams[n].dispose = "no" /\ streams'[n].snapshot = streams[n].snapshot
      <4>1. streams'[n].dispose = streams[n].dispose /\ (m # n => streams'[n] = streams[n])
        BY <3>2 DEF SetupStep, SetupMoves
      <4>2. streams[m].setup # "ready"
        BY <3>2 DEF SetupStep
      <4> QED
        BY <2>2, <4>1, <4>2
    <3>3. ASSUME NEW m \in StreamIds, EndStep(m) \/ AskStep(m) PROVE streams'[n] = streams[n]
      BY <3>3 DEF EndStep, Ends, AskStep, DisposalAsks
    <3>4. CASE BreakStep
      BY <3>4 DEF BreakStep, BrokenOff
    <3> QED
      BY <1>7, <3>1, <3>2, <3>3, <3>4
  <2> QED
    BY <1>3, <2>1, <2>3
<1> QED
  BY <1>4, <1>5, <1>6, <1>7, StepsOfStreams

-----------------------------------------------------------------------------
(* What is in a queue after one is taken from it or added to it.              *)
LEMMA QueueTail ==
  ASSUME NEW S, NEW q \in Seq(S), q # <<>>
  PROVE  Range(q) = {Head(q)} \cup Range(Tail(q)) /\ Range(Tail(q)) \subseteq Range(q) /\ Head(q) \in Range(q)
<1>1. Len(q) \in Nat /\ Len(q) # 0 /\ Head(q) = q[1] /\ DOMAIN q = 1 .. Len(q)
  BY EmptySeq, LenProperties
<1>2. DOMAIN Tail(q) = 1 .. Len(q) - 1 /\ \A i \in 1 .. Len(q) - 1 : Tail(q)[i] = q[i + 1]
  BY <1>1
<1>3. \A i \in DOMAIN q : i = 1 \/ (i - 1 \in DOMAIN Tail(q) /\ Tail(q)[i - 1] = q[i])
  <2> SUFFICES ASSUME NEW i \in 1 .. Len(q), i # 1 PROVE i - 1 \in DOMAIN Tail(q) /\ Tail(q)[i - 1] = q[i]
    BY <1>1
  <2>1. i - 1 \in 1 .. Len(q) - 1 /\ (i - 1) + 1 = i
    BY <1>1
  <2> QED
    BY <1>2, <2>1
<1>4. \A i \in DOMAIN Tail(q) : i + 1 \in DOMAIN q /\ Tail(q)[i] = q[i + 1]
  BY <1>1, <1>2
<1>5. 1 \in DOMAIN q
  BY <1>1
<1> QED
  BY <1>1, <1>3, <1>4, <1>5 DEF Range

(* A queue holds what is added to it.                                        *)
LEMMA QueueAppend ==
  ASSUME NEW S, NEW q \in Seq(S), NEW e
  PROVE  Range(Append(q, e)) = Range(q) \cup {e}
<1>1. Len(q) \in Nat /\ DOMAIN q = 1 .. Len(q) /\ DOMAIN Append(q, e) = 1 .. Len(q) + 1
  BY LenProperties
<1>2. Append(q, e)[Len(q) + 1] = e /\ \A i \in 1 .. Len(q) : Append(q, e)[i] = q[i]
  BY <1>1
<1>3. \A i \in 1 .. Len(q) + 1 : i \in 1 .. Len(q) \/ i = Len(q) + 1
  BY <1>1
<1>4. Len(q) + 1 \in 1 .. Len(q) + 1 /\ 1 .. Len(q) \subseteq 1 .. Len(q) + 1
  BY <1>1
<1> QED
  BY <1>1, <1>2, <1>3, <1>4 DEF Range

(* A queue that another is put behind holds what both hold.                  *)
LEMMA QueueConcat ==
  ASSUME NEW S, NEW q \in Seq(S), NEW r \in Seq(S)
  PROVE  Range(q \o r) = Range(q) \cup Range(r)
<1>1. /\ Len(q) \in Nat /\ DOMAIN q = 1 .. Len(q) /\ Len(r) \in Nat /\ DOMAIN r = 1 .. Len(r)
      /\ DOMAIN (q \o r) = 1 .. Len(q) + Len(r)
  BY LenProperties
<1>2. /\ \A i \in 1 .. Len(q) : i \in 1 .. Len(q) + Len(r) /\ (q \o r)[i] = q[i]
      /\ \A i \in 1 .. Len(r) : i + Len(q) \in 1 .. Len(q) + Len(r) /\ (q \o r)[i + Len(q)] = r[i]
  BY <1>1
<1>3. \A i \in 1 .. Len(q) + Len(r) : i \in 1 .. Len(q) \/ (i - Len(q) \in 1 .. Len(r) /\ i = (i - Len(q)) + Len(q))
  BY <1>1
<1>4. \A x \in Range(q \o r) : x \in Range(q) \cup Range(r)
  BY <1>1, <1>2, <1>3 DEF Range
<1>5. \A x \in Range(q) \cup Range(r) : x \in Range(q \o r)
  BY <1>1, <1>2 DEF Range
<1> QED
  BY <1>4, <1>5

(* What a queue holds is of its type.                                        *)
LEMMA QueueElements == ASSUME NEW S, NEW q \in Seq(S) PROVE Range(q) \subseteq S
  BY ElementOfSeq DEF Range

(* An empty queue holds nothing.                                             *)
LEMMA QueueEmpty == Range(<<>>) = {}
  BY DEF Range

-----------------------------------------------------------------------------
(* Sessions that have a stream, and go on to be its members, in the same run    *)
(* of microtasks.                                                            *)
Waiting(s) == task[s].stage \in {"got", "setup"}
Late(s) == Waiting(s) /\ Settled(task[s].stream)
AnsweredFor(n) == \E a \in Range(toMain) \cap Answer : a.kind = "subscribed" /\ a.stream = n

(* They have the same stream, which is the terminal's unless it has been       *)
(* disposed of meanwhile; none is on its way when the broker answers.         *)
Burst ==
    /\ \A s, t \in Sessions : Late(s) /\ Late(t) => task[s].stream = task[t].stream
    /\ \A s \in Sessions, n \in StreamIds : Late(s) /\ n = current /\ Settled(n) => task[s].stream = n
    /\ \A n \in StreamIds : streams[n].setup = "answered" \/ (streams[n].setup = "asking" /\ AnsweredFor(n))
                              => \A s \in Sessions : ~Late(s)

(* Nobody who can join at once is left when a frame is read.                 *)
LEMMA NoneLate == ASSUME FrameTurn, NEW s \in Sessions PROVE ~Late(s)
  BY DEF FrameTurn, Late, Waiting, TaskRuns

(* The stream a session waits for is referred to, so its name is not used    *)
(* again.                                                                    *)
LEMMA WaitingTakes == ASSUME Placed, NEW s \in Sessions, Waiting(s)
                      PROVE  task[s].stream \in StreamIds /\ Referenced(task[s].stream)
  BY DEF Placed, Waiting, Referenced

(* Those who join in one run of microtasks join the same stream.             *)
LEMMA NextBurst == ASSUME Typed, OneOpen, Burst, Next PROVE Burst'
<1> USE DEF Typed
<1>0. NoStream \notin StreamIds
  BY DEF NoStream, StreamIds
<1>1. ASSUME NEW s \in Sessions, CommandStep(s) PROVE Burst'
  <2>1. UNCHANGED <<current, toMain>> /\ \A n \in StreamIds : streams'[n].setup = streams[n].setup
    BY <1>1, CommandsClose DEF Closes
  <2>2. \A t \in Sessions : Waiting(t)' => Waiting(t) /\ task'[t].stream = task[t].stream
    <3>1. \A t \in Sessions \ {s} : task'[t] = task[t]
      BY <1>1, CommandsPlace
    <3>2. Waiting(s)' => Waiting(s) /\ task'[s].stream = task[s].stream
      <4>1. task[s] \in Task
        BY DEF Placed
      <4>2. \/ task'[s] = task[s] \/ task'[s].stage \in {"idle", "find", "detach"}
            \/ task'[s] = [task[s] EXCEPT !.stage = "setup"] /\ task[s].stage = "got"
            \/ task'[s] = [task[s] EXCEPT !.stage = "undo"]
        BY <1>1, CommandsPlace
      <4> QED
        BY <4>1, <4>2 DEF Waiting, Task
    <3> QED
      BY <3>1, <3>2 DEF Waiting
  <2>3. \A n \in StreamIds : Settled(n)' <=> Settled(n)
    BY <2>1 DEF Settled
  <2>4. \A t \in Sessions : Late(t)' => Late(t) /\ task'[t].stream = task[t].stream
    BY <2>2, <2>3, WaitingTakes DEF Late
  <2> QED
    BY <2>1, <2>3, <2>4 DEF Burst, AnsweredFor
<1>2. ASSUME NEW s \in Sessions, FindStream(s) \/ TakeAfterDisposal(s) PROVE Burst'
  <2>0. UNCHANGED toMain
    BY <1>2, StreamFound
  <2>1. ASSUME current = NoStream, NEW n \in StreamIds, Started(n, s) PROVE Burst'
    <3>1. /\ streams'[n].setup = "asking" /\ current' = n /\ \A m \in StreamIds \ {n} : streams'[m] = streams[m]
          /\ task' = [task EXCEPT ![s] = [task[s] EXCEPT !.stage = "got", !.stream = n]]
      BY <2>1 DEF Started, Unused
    <3>2. ~Settled(n)' /\ \A m \in StreamIds \ {n} : (Settled(m)' <=> Settled(m)) /\ Settled(m)
      BY <1>0, <2>1, <3>1 DEF Settled, OneOpen
    <3>3. task'[s].stream = n /\ \A t \in Sessions \ {s} : task'[t] = task[t]
      BY <3>1 DEF Placed, Task
    <3>4. \A t \in Sessions \ {s} : Waiting(t) => task[t].stream # n
      BY <2>1 DEF Started, Referenced
    <3>5. \A t \in Sessions : Late(t)' => t # s /\ Late(t) /\ task'[t].stream = task[t].stream
      BY <3>2, <3>3, <3>4, WaitingTakes DEF Late, Waiting
    <3>6. ~AnsweredFor(n)
      <4>1. \A i \in DOMAIN toMain : ~(toMain[i] \in Answer /\ toMain[i].stream = n)
        BY <2>1 DEF Started, Referenced
      <4> QED
        BY <4>1 DEF AnsweredFor, Range
    <3> QED
      BY <2>0, <3>1, <3>2, <3>5, <3>6 DEF Burst, AnsweredFor, Settled
  <2>2. ASSUME current \in StreamIds, UNCHANGED <<streams, current>>,
               \/ task' = [task EXCEPT ![s] = [task[s] EXCEPT !.stage = "got", !.stream = current]]
               \/ task' = [task EXCEPT ![s] = [task[s] EXCEPT !.stage = "await", !.stream = current]]
        PROVE  Burst'
    <3>1. \A t \in Sessions \ {s} : task'[t] = task[t]
      BY <2>2 DEF Placed
    <3>2. Waiting(s)' => task'[s].stream = current
      BY <2>2 DEF Placed, Task, Waiting
    <3>3. \A n \in StreamIds : Settled(n)' <=> Settled(n)
      BY <2>2 DEF Settled
    <3>4. \A t \in Sessions : Late(t)' => IF t = s THEN task'[t].stream = current /\ Settled(current)
                                          ELSE Late(t) /\ task'[t].stream = task[t].stream
      BY <2>2, <3>1, <3>2, <3>3, WaitingTakes DEF Late, Waiting
    <3>5. \A n \in StreamIds : ~Settled(n) => n = current
      BY DEF OneOpen
    <3> QED
      BY <2>0, <2>2, <3>3, <3>4, <3>5 DEF Burst, AnsweredFor, Settled
  <2> QED
    BY <1>2, <2>1, <2>2, StreamFound
<1>3. CASE ReadEvent
  <2>1. UNCHANGED <<current, task>> /\ toMain # <<>> /\ toMain' = Tail(toMain) /\ \A n \in StreamIds : StagesKept(n)
    BY <1>3, EventPassed
  <2>2. Range(toMain') \subseteq Range(toMain)
    BY <2>1, QueueTail DEF Brokered
  <2>3. \A n \in StreamIds : (Settled(n)' <=> Settled(n)) /\ (AnsweredFor(n)' => AnsweredFor(n))
    BY <2>1, <2>2 DEF StagesKept, Settled, AnsweredFor
  <2>4. \A t \in Sessions : Late(t)' => Late(t)
    BY <2>1, <2>3, WaitingTakes DEF Late, Waiting
  <2> QED
    BY <2>1, <2>3, <2>4 DEF Burst, StagesKept
<1>4. CASE Aside /\ FrameTurn /\ UNCHANGED <<streams, current>>
  <2>1. \A s \in Sessions : ~Late(s)'
    BY <1>4, NoneLate DEF Late, Waiting, Settled, Aside
  <2> QED
    BY <2>1 DEF Burst
<1>5. ASSUME Aside, NEW n \in StreamIds, SetupStep(n) PROVE Burst'
  <2>1. ~Settled(n) /\ n = current /\ UNCHANGED current /\ \A m \in StreamIds \ {n} : streams'[m] = streams[m]
    BY <1>5 DEF SetupStep, SetupMoves, Settled, OneOpen
  <2>2. streams'[n].setup \in {"answered", "failed", "ready", "dropping"}
    BY <1>5 DEF SetupStep, SetupMoves
  <2>3. \A s \in Sessions : ~Late(s)
    BY <1>5, NoneLate DEF SetupStep, Burst
  <2>4. \A s \in Sessions : Late(s)' => task'[s].stream = n /\ Settled(n)'
    <3>1. \A m \in StreamIds \ {n} : Settled(m)' <=> Settled(m)
      BY <2>1 DEF Settled
    <3> QED
      BY <1>5, <2>3, <3>1, WaitingTakes DEF Late, Waiting, Aside
  <2>5. \A m \in StreamIds : streams'[m].setup \in {"asking", "answered"} => m = n /\ ~Settled(n)'
    BY <2>1, <2>2 DEF OneOpen, Settled
  <2> QED
    BY <2>1, <2>4, <2>5 DEF Burst
<1>6. ASSUME Aside, NEW n \in StreamIds, EndStep(n) \/ AskStep(n) PROVE Burst'
  <2>1. n = current /\ Settled(n) /\ current' \in {current, NoStream}
    BY <1>6 DEF EndStep, AskStep, Ends, DisposalAsks, Settled, OneOpen
  <2>2. \A m \in StreamIds : Settled(m) /\ Settled(m)'
    <3>1. Settled(n)' /\ \A m \in StreamIds \ {n} : streams'[m] = streams[m] /\ Settled(m)
      BY <1>6, <2>1 DEF EndStep, AskStep, Ends, DisposalAsks, Settled, Unused, OneOpen
    <3> QED
      BY <2>1, <3>1 DEF Settled
  <2>3. \A s \in Sessions : Late(s)' => Late(s) /\ task'[s].stream = task[s].stream
    BY <1>6, <2>2, WaitingTakes DEF Late, Waiting, Aside
  <2>4. \A m \in StreamIds : streams'[m].setup \notin {"asking", "answered"}
    BY <2>2 DEF Settled
  <2> QED
    BY <1>0, <2>1, <2>2, <2>3, <2>4 DEF Burst
<1>7. CASE Aside /\ BreakStep
  <2>1. \A s \in Sessions : ~Late(s)
    BY <1>7, NoneLate DEF BreakStep, EventLoopTurn
  <2>2. \A n \in StreamIds : BrokenOff(n) /\ streams[n].setup # "answered"
    BY <1>7 DEF BreakStep, EventLoopTurn
  <2>3. current' \in {current, NoStream}
    BY <1>7 DEF BreakStep
  <2>4. \A s \in Sessions : Late(s)' => task'[s].stream = current
    <3> SUFFICES ASSUME NEW s \in Sessions, Late(s)' PROVE task'[s].stream = current
      OBVIOUS
    <3>1. Waiting(s) /\ task'[s].stream = task[s].stream
      BY <1>7 DEF Late, Waiting, Aside
    <3> QED
      BY <2>1, <3>1, WaitingTakes DEF Late, OneOpen
  <2>5. \A n \in StreamIds : streams'[n].setup \notin {"asking", "answered"}
    BY <2>2 DEF BrokenOff
  <2> QED
    BY <1>0, <2>3, <2>4, <2>5 DEF Burst
<1> QED
  BY <1>1, <1>2, <1>3, <1>4, <1>5, <1>6, <1>7, StepsOfStreams

-----------------------------------------------------------------------------
(* What a step can put on its way to the app: events that happen with it, and  *)
(* the answer to one request.                                                *)
NewFrame(f) ==
    \/ f \in Event /\ f.at = produced' /\ produced' = produced + 1
    \/ /\ f \in Answers /\ f.kind = "subscribed" /\ UNCHANGED produced
       /\ f.ok = alive /\ f.snapshot = IF alive THEN Bounded(0, produced) ELSE NoSnapshot
    \/ f \in Answers /\ f.kind = "unsubscribed" /\ f.snapshot = NoSnapshot /\ UNCHANGED produced

(* Events and answers are told apart.                                        *)
LEMMA EventsAreNoAnswers == \A f \in Event : f \notin Answer
  BY DEF Event, Answer

(* What comes on its way to the app happens in that step.                    *)
LEMMA FramesArrive ==
  ASSUME Typed, Next
  PROVE  /\ produced <= produced' /\ produced \in Nat /\ produced' \in Nat
         /\ \A f \in Range(toMain') : f \in Range(toMain) \/ (NewFrame(f) /\ EventLoopTurn /\ UNCHANGED streams)
<1> USE TerminalStreamsAssumption DEF Typed
<1>0. produced \in Nat
  BY DEF Brokered
<1>1. CASE UNCHANGED <<produced, toMain>>
  BY <1>0, <1>1
<1>2. CASE ReadFrame
  <2>1. UNCHANGED produced /\ toMain' = Tail(toMain) /\ toMain # <<>>
    BY <1>2 DEF ReadFrame, ReadEvent, ReadSubscribed, ReadUnsubscribed, NextFrame
  <2> QED
    BY <1>0, <2>1, QueueTail DEF Brokered
<1>3. CASE BrokerStep
  <2> DEFINE ask == Head(toBroker)
  <2>1. /\ UNCHANGED <<produced, streams>> /\ EventLoopTurn /\ ask \in Ask /\ alive \in BOOLEAN
        /\ \/ toMain' = Append(toMain, [kind |-> "subscribed", stream |-> ask.stream, ok |-> alive,
                                        snapshot |-> IF alive THEN Bounded(0, produced) ELSE NoSnapshot])
           \/ toMain' = Append(toMain, [kind |-> "unsubscribed", stream |-> ask.stream, ok |-> TRUE,
                                        snapshot |-> NoSnapshot])
    BY <1>3, HeadTailProperties DEF BrokerStep, BrokerSubscribes, BrokerUnsubscribes, Brokered
  <2>2. PICK f : /\ toMain' = Append(toMain, f)
                 /\ \/ f = [kind |-> "subscribed", stream |-> ask.stream, ok |-> alive,
                            snapshot |-> IF alive THEN Bounded(0, produced) ELSE NoSnapshot]
                    \/ f = [kind |-> "unsubscribed", stream |-> ask.stream, ok |-> TRUE, snapshot |-> NoSnapshot]
    BY <2>1
  <2>3. ask.stream \in StreamIds
    BY <2>1 DEF Ask
  <2>4. Bounded(0, produced) \in Snapshots /\ Snapshots \subseteq Snapshot /\ NoSnapshot \notin Snapshots
    BY BoundedSnapshot DEF Brokered, Snapshots, Snapshot, NoSnapshot
  <2>5. f \in Answers /\ NewFrame(f)
    <3>1. PICK x : x = IF alive THEN Bounded(0, produced) ELSE NoSnapshot
      OBVIOUS
    <3>2. CASE f = [kind |-> "subscribed", stream |-> ask.stream, ok |-> alive, snapshot |-> x]
      <4>1. f.kind = "subscribed" /\ f.ok = alive /\ f.snapshot = x
        BY <3>2
      <4>2. f \in Answer
        BY <2>1, <2>3, <2>4, <3>1, <3>2 DEF Answer
      <4>3. f \in Answers
        BY <2>4, <3>1, <4>1, <4>2 DEF Answers
      <4> QED
        BY <2>1, <3>1, <4>1, <4>3 DEF NewFrame
    <3>3. CASE f = [kind |-> "unsubscribed", stream |-> ask.stream, ok |-> TRUE, snapshot |-> NoSnapshot]
      <4>1. f.kind = "unsubscribed" /\ f.snapshot = NoSnapshot
        BY <3>3
      <4>2. f \in Answer
        BY <2>3, <3>3 DEF Answer
      <4>3. f \in Answers
        BY <4>1, <4>2 DEF Answers
      <4> QED
        BY <2>1, <4>1, <4>3 DEF NewFrame
    <3> QED
      BY <2>2, <3>1, <3>2, <3>3
  <2>6. Range(toMain') = Range(toMain) \cup {f}
    BY <2>2, QueueAppend DEF Brokered
  <2> QED
    BY <1>0, <2>1, <2>5, <2>6
<1>4. CASE Produce
  <2>1. PICK new \in Seq(Events(produced + 1)) : toMain' = toMain \o new
    BY <1>4, ProducedFrames
  <2>2. Range(toMain') = Range(toMain) \cup Range(new) /\ Range(new) \subseteq Events(produced + 1)
    <3>1. new \in Seq(Event \cup Answers) /\ toMain \in Seq(Event \cup Answers)
      BY DEF Brokered, Events
    <3> QED
      BY <2>1, <3>1, QueueConcat, QueueElements
  <2>3. produced' = produced + 1 /\ EventLoopTurn /\ UNCHANGED streams
    BY <1>4 DEF Produce
  <2>4. \A f \in Events(produced + 1) : NewFrame(f)
    BY <2>3 DEF NewFrame, Events
  <2> QED
    BY <1>0, <2>2, <2>3, <2>4
<1>5. CASE Break
  <2>1. produced' = produced /\ toMain' = <<>>
    BY <1>5 DEF Break
  <2> QED
    BY <1>0, <2>1, QueueEmpty
<1>6. ASSUME NEW n \in StreamIds, SetupContinues(n) \/ DisposeContinues(n) \/ TimeOut(n) PROVE UNCHANGED <<produced, toMain>>
  BY <1>6 DEF SetupContinues, DisposeContinues, TimeOut
<1>7. ASSUME NEW s \in Sessions, CommandStep(s) \/ FindStream(s) \/ TakeAfterDisposal(s)
      PROVE  UNCHANGED <<produced, toMain>>
  BY <1>7 DEF CommandStep, Subscribe, Unsubscribe, Detached, Got, Join, Undone, Connect, Close, FindStream, TakeAfterDisposal
<1>8. TerminalGoes => UNCHANGED <<produced, toMain>>
  BY DEF TerminalGoes
<1> QED
  BY <1>1, <1>2, <1>3, <1>4, <1>5, <1>6, <1>7, <1>8 DEF Next, GatewayStep, Phone, Fault, CommandStep

-----------------------------------------------------------------------------
(* Nothing is shown, kept or on its way that the terminal has not written.     *)
HappenedBy(top, r) == /\ r.snapshot.to <= top /\ r.answer.to <= top
                      /\ \A i \in 1 .. Len(r.pending) : r.pending[i].at <= top
Happened ==
    /\ \A n \in StreamIds : HappenedBy(produced, streams[n])
    /\ \A f \in Range(toMain) : IF f \in Event THEN f.at <= produced ELSE f.snapshot.to <= produced

(* Every step keeps to chunks that were written.                             *)
LEMMA NextHappened == ASSUME Typed, Happened, Next PROVE Happened'
<1> USE TerminalStreamsAssumption DEF Typed
<1>1. /\ produced <= produced' /\ produced \in Nat /\ produced' \in Nat
      /\ \A f \in Range(toMain') : f \in Range(toMain) \/ NewFrame(f)
  BY FramesArrive
<1>2. Range(toMain) \subseteq Event \cup Answers
  BY QueueElements DEF Brokered
<1>3. \A f \in Answers : f.snapshot.to \in Int /\ f \notin Event
  BY EventsAreNoAnswers DEF Answers, Answer, Snapshots, Snapshot, NoSnapshot
<1>4. \A f \in Event : f.at \in Int
  BY DEF Event
<1>5. \A f \in Range(toMain') : IF f \in Event THEN f.at <= produced' ELSE f.snapshot.to <= produced'
  <2> SUFFICES ASSUME NEW f \in Range(toMain')
               PROVE  IF f \in Event THEN f.at <= produced' ELSE f.snapshot.to <= produced'
    OBVIOUS
  <2>1. CASE f \in Range(toMain)
    <3>1. IF f \in Event THEN f.at <= produced ELSE f.snapshot.to <= produced
      BY <2>1 DEF Happened
    <3> QED
      BY <1>1, <1>2, <1>3, <1>4, <2>1, <3>1
  <2>2. CASE NewFrame(f)
    <3>1. Bounded(0, produced).to = produced /\ NoSnapshot.to = -1
      BY BoundedSnapshot DEF Brokered, NoSnapshot
    <3> QED
      BY <1>1, <1>3, <2>2, <3>1 DEF NewFrame
  <2> QED
    BY <1>1, <2>1, <2>2
<1>6. \A r \in StreamRecords : /\ r.snapshot.to \in Int /\ r.answer.to \in Int /\ r.pending \in Seq(Event)
  BY DEF StreamRecords, Stream, Snapshots, Snapshot, NoSnapshot
<1>7. \A r \in StreamRecords : \A i \in 1 .. Len(r.pending) : r.pending[i] \in Event /\ r.pending[i].at \in Int
  BY <1>4, <1>6, ElementOfSeq
<1>8. \A r \in StreamRecords : HappenedBy(produced, r) => HappenedBy(produced', r)
  <2> SUFFICES ASSUME NEW r \in StreamRecords, HappenedBy(produced, r) PROVE HappenedBy(produced', r)
    OBVIOUS
  <2>1. \A k \in Int : k <= produced => k <= produced'
    BY <1>1
  <2> QED
    BY <1>6, <1>7, <2>1 DEF HappenedBy
<1>9. \A n \in StreamIds : streams[n] \in StreamRecords /\ HappenedBy(produced, streams[n]) /\ HappenedBy(produced', streams[n])
  BY <1>8 DEF Happened, Streamed
<1>10. ASSUME NEW n \in StreamIds, streams'[n].snapshot = streams[n].snapshot, streams'[n].answer = streams[n].answer,
              streams'[n].pending = streams[n].pending
       PROVE  HappenedBy(produced', streams'[n])
  BY <1>9, <1>10 DEF HappenedBy
<1>11. HappenedBy(produced', Unused)
  BY <1>1 DEF HappenedBy, Unused, NoSnapshot
<1> SUFFICES ASSUME NEW n \in StreamIds PROVE HappenedBy(produced', streams'[n])
  BY <1>5 DEF Happened
<1>12. ASSUME UNCHANGED streams PROVE HappenedBy(produced', streams'[n])
  BY <1>9, <1>12
<1>13. ASSUME NEW s \in Sessions, CommandStep(s) PROVE HappenedBy(produced', streams'[n])
  <2>1. Closes(n)
    BY <1>13, CommandsClose
  <2> QED
    BY <1>10, <2>1 DEF Closes
<1>14. ASSUME NEW s \in Sessions, FindStream(s) \/ TakeAfterDisposal(s) PROVE HappenedBy(produced', streams'[n])
  <2>1. UNCHANGED streams \/ \E m \in StreamIds : Started(m, s)
    BY <1>14, StreamFound
  <2>2. ASSUME NEW m \in StreamIds, Started(m, s) PROVE HappenedBy(produced', streams'[n])
    <3>1. n # m => streams'[n] = streams[n]
      BY <2>2 DEF Started
    <3>2. /\ streams'[m].snapshot = Unused.snapshot /\ streams'[m].answer = Unused.answer
          /\ streams'[m].pending = Unused.pending
      <4>1. streams'[m] = [Unused EXCEPT !.setup = "asking", !.device = device[s], !.dispose = "no"]
        BY <2>2 DEF Started
      <4> QED
        BY <4>1 DEF Unused
    <3> QED
      BY <1>10, <1>11, <3>1, <3>2 DEF HappenedBy
  <2> QED
    BY <1>12, <2>1, <2>2
<1>15. CASE ReadEvent
  <2>1. PICK event \in Event :
           /\ event = Head(toMain) /\ toMain # <<>>
           /\ StagesKept(n) /\ streams'[n].pending \in {streams[n].pending, Append(streams[n].pending, event)}
           /\ \/ streams'[n].snapshot = streams[n].snapshot
              \/ streams[n].snapshot \in Snapshots /\ streams'[n].snapshot = Applied(streams[n].snapshot, event)
    BY <1>15, EventPassed DEF Passed
  <2>2. event.at <= produced
    <3>1. event \in Range(toMain)
      BY <2>1, QueueTail DEF Brokered
    <3> QED
      BY <3>1 DEF Happened
  <2>3. streams'[n].answer.to <= produced'
    BY <1>9, <2>1 DEF StagesKept, HappenedBy
  <2>4. streams'[n].snapshot.to <= produced'
    <3>1. event.at <= produced'
      BY <1>1, <1>4, <2>2
    <3>2. streams[n].snapshot.to <= produced'
      BY <1>9 DEF HappenedBy
    <3> QED
      BY <2>1, <3>1, <3>2, AppliedSnapshot
  <2>5. \A i \in 1 .. Len(streams'[n].pending) : streams'[n].pending[i].at <= produced'
    <3>1. streams[n].pending \in Seq(Event) /\ \A i \in 1 .. Len(streams[n].pending) : streams[n].pending[i].at <= produced'
      BY <1>6, <1>9 DEF HappenedBy
    <3>2. event.at <= produced'
      BY <1>1, <1>4, <2>2
    <3>3. \A i \in 1 .. Len(Append(streams[n].pending, event)) : Append(streams[n].pending, event)[i].at <= produced'
      BY <3>1, <3>2
    <3> QED
      BY <2>1, <3>1, <3>3
  <2> QED
    BY <2>3, <2>4, <2>5 DEF HappenedBy
<1>16. CASE ReadSubscribed
  <2>1. PICK answer \in Answers : LET m == answer.stream IN
           /\ answer = Head(toMain) /\ toMain # <<>> /\ m \in StreamIds
           /\ \/ UNCHANGED streams
              \/ /\ SetupMoves(m, "answered") /\ streams'[m].answer = answer.snapshot
                 /\ streams'[m].snapshot = NoSnapshot /\ streams'[m].pending = streams[m].pending
              \/ /\ SetupMoves(m, "failed") /\ streams'[m].answer = streams[m].answer
                 /\ streams'[m].snapshot = NoSnapshot /\ streams'[m].pending = streams[m].pending
    BY <1>16, SubscribedRead
  <2>2. answer.snapshot.to <= produced'
    <3>1. answer \in Range(toMain)
      BY <2>1, QueueTail DEF Brokered
    <3>2. answer.snapshot.to <= produced
      BY <1>3, <3>1 DEF Happened
    <3> QED
      BY <1>1, <1>3, <3>2
  <2>3. CASE UNCHANGED streams
    BY <1>12, <2>3
  <2>4. CASE n # answer.stream
    <3>1. streams'[n] = streams[n]
      BY <2>1, <2>4 DEF SetupMoves
    <3> QED
      BY <1>10, <3>1
  <2>5. CASE n = answer.stream /\ streams'[n].answer \in {streams[n].answer, answer.snapshot}
             /\ streams'[n].snapshot = NoSnapshot /\ streams'[n].pending = streams[n].pending
    BY <1>1, <1>9, <2>2, <2>5 DEF HappenedBy, NoSnapshot
  <2> QED
    BY <2>1, <2>3, <2>4, <2>5
<1>17. ASSUME NEW m \in StreamIds, SetupContinues(m) PROVE HappenedBy(produced', streams'[n])
  <2>1. /\ streams[m].answer \in Snapshots /\ streams'[m].pending = <<>> /\ streams'[m].answer = NoSnapshot
        /\ streams'[m].snapshot \in {WithPending(streams[m].answer, streams[m].pending), streams[m].answer}
        /\ \A k \in StreamIds \ {m} : streams'[k] = streams[k]
    BY <1>17, SetupGoesOn DEF SetupMoves
  <2>2. CASE n # m
    BY <1>10, <2>1, <2>2
  <2>3. CASE n = m
    <3>1. /\ streams[m].pending \in Seq(Event) /\ streams[m].answer.to <= produced'
          /\ \A i \in 1 .. Len(streams[m].pending) : streams[m].pending[i].at <= produced'
      BY <1>6, <1>9 DEF HappenedBy
    <3>2. WithPending(streams[m].answer, streams[m].pending).to <= produced'
      BY <1>1, <2>1, <3>1, PendingSnapshot
    <3> QED
      BY <1>1, <2>1, <2>3, <3>1, <3>2 DEF HappenedBy, NoSnapshot
  <2> QED
    BY <2>2, <2>3
<1>18. ASSUME NEW m \in StreamIds, Ends(m) \/ DisposalAsks(m) PROVE HappenedBy(produced', streams'[n])
  <2>1. CASE n # m
    <3>1. streams'[n] = streams[n]
      BY <1>18, <2>1 DEF Ends, DisposalAsks
    <3> QED
      BY <1>10, <3>1
  <2>2. CASE streams'[n] = Unused
    BY <1>11, <2>2
  <2>3. CASE n = m /\ streams'[n] # Unused
    BY <1>10, <1>18, <2>3 DEF Ends, DisposalAsks
  <2> QED
    BY <2>1, <2>2, <2>3
<1>19. ASSUME NEW m \in StreamIds, SetupMoves(m, "failed"), streams'[m].snapshot = streams[m].snapshot,
              streams'[m].answer = streams[m].answer, streams'[m].pending = streams[m].pending
       PROVE  HappenedBy(produced', streams'[n])
  <2>1. n # m => streams'[n] = streams[n]
    BY <1>19 DEF SetupMoves
  <2> QED
    BY <1>10, <1>19, <2>1
<1>20. ASSUME NEW m \in StreamIds, DisposalOver(m) \/ DropOver(m) \/ NothingOver(m) PROVE HappenedBy(produced', streams'[n])
  BY <1>12, <1>18, <1>19, <1>20 DEF DisposalOver, DropOver, NothingOver
<1>21. CASE ReadUnsubscribed
  <2>1. Head(toMain).stream \in StreamIds
    BY <1>21, FirstFrame DEF ReadUnsubscribed, Answers, Answer
  <2> QED
    BY <1>20, <1>21, <2>1, UnsubscriptionOver DEF ReadUnsubscribed
<1>22. ASSUME NEW m \in StreamIds, DisposeContinues(m) PROVE HappenedBy(produced', streams'[n])
  BY <1>18, <1>22, DisposalGoesOn
<1>23. CASE BrokerStep \/ Produce \/ TerminalGoes
  BY <1>12, <1>23 DEF BrokerStep, BrokerSubscribes, BrokerUnsubscribes, Produce, TerminalGoes
<1>24. CASE Break
  <2>1. BrokenOff(n)
    BY <1>24, BrokeOff
  <2> QED
    BY <1>10, <2>1 DEF BrokenOff
<1>25. ASSUME NEW m \in StreamIds, TimeOut(m) PROVE HappenedBy(produced', streams'[n])
  <2>1. \/ /\ SetupMoves(m, "failed")
           /\ streams'[m].snapshot = streams[m].snapshot /\ streams'[m].answer = streams[m].answer
           /\ streams'[m].pending = streams[m].pending
        \/ DisposalOver(m) \/ DropOver(m) \/ NothingOver(m)
    BY <1>25, TimedOut
  <2> QED
    BY <1>19, <1>20, <2>1
<1> QED
  BY <1>13, <1>14, <1>15, <1>16, <1>17, <1>21, <1>22, <1>23, <1>24, <1>25
  DEF Next, GatewayStep, Phone, Fault, ReadFrame, CommandStep

-----------------------------------------------------------------------------
(* No phone has shown more than the terminal has written, than a stream it can  *)
(* still join holds, or than an answer on its way will give one to hold.      *)
Awaited(n) == n = current \/ \E t \in Sessions : Waiting(t) /\ task[t].stream = n
Holds(n) == streams[n].setup = "ready" /\ Awaited(n)
Brings(f) == f \in Answers /\ f.kind = "subscribed" /\ f.ok /\ streams[f.stream].setup = "asking"
IsTop(top) ==
    \/ top = produced
    \/ \E n \in StreamIds : Holds(n) /\ top = streams[n].snapshot.to
    \/ \E n \in StreamIds : streams[n].setup = "answered" /\ top = streams[n].answer.to
    \/ \E f \in Range(toMain) : Brings(f) /\ top = f.snapshot.to
Within(top) == \A s \in Sessions : reached[s] <= top
NeverBeyond == \A top : IsTop(top) => Within(top)

(* The newest chunk of a text is the newest its phone has shown.               *)
EndsAt(text, top) == text # <<>> => text[Len(text)] = top
Newest == \A s \in Sessions : EndsAt(view[s], reached[s])

(* The newest chunk a stream can still give is a number of chunks.           *)
LEMMA TopIsNatural == ASSUME Typed, NEW top, IsTop(top) PROVE top \in Nat
<1> USE TerminalStreamsAssumption DEF Typed
<1>1. \A x \in Snapshots : x.to \in Nat
  BY DEF Snapshots, Snapshot
<1>2. \A n \in StreamIds : /\ streams[n].setup = "ready" => streams[n].snapshot \in Snapshots
                           /\ streams[n].setup = "answered" => streams[n].answer \in Snapshots
  BY DEF Streamed, StreamRecords
<1>3. \A f \in Answers : f.kind = "subscribed" /\ f.ok => f.snapshot \in Snapshots
  BY DEF Answers
<1>4. produced \in Nat
  BY DEF Brokered
<1> QED
  BY <1>1, <1>2, <1>3, <1>4 DEF IsTop, Holds, Brings

(* Who has shown no more than one chunk has shown no more than a later one.  *)
LEMMA Higher == ASSUME Typed, NEW a \in Nat, NEW b \in Nat, a <= b, Within(a) PROVE Within(b)
<1>1. \A s \in Sessions : reached[s] \in Int
  BY TerminalStreamsAssumption DEF Typed, Shows
<1> QED
  BY <1>1 DEF Within

(* A step by which no phone shows more, and that makes no stream ready.        *)
LEMMA TopsKept ==
  ASSUME Typed, Next, NeverBeyond, UNCHANGED reached, current' \in {current, NoStream},
         \A t \in Sessions : Waiting(t)' => Waiting(t) /\ task'[t].stream = task[t].stream,
         \A n \in StreamIds : streams'[n].setup \in {"asking", "answered", "ready"} =>
             /\ streams'[n].setup = streams[n].setup
             /\ streams'[n].snapshot = streams[n].snapshot /\ streams'[n].answer = streams[n].answer
  PROVE  NeverBeyond'
<1>0. NoStream \notin StreamIds
  BY DEF NoStream, StreamIds
<1>1. /\ produced <= produced' /\ produced \in Nat /\ produced' \in Nat
      /\ \A f \in Range(toMain') : f \in Range(toMain) \/ NewFrame(f)
  BY FramesArrive
<1>2. Within(produced)
  BY DEF NeverBeyond, IsTop
<1>3. \A n \in StreamIds : Awaited(n)' => Awaited(n)
  BY <1>0 DEF Awaited, Waiting
<1> SUFFICES ASSUME NEW top, IsTop(top)' PROVE Within(top)
  BY DEF NeverBeyond, Within
<1>4. CASE top = produced'
  BY <1>1, <1>2, <1>4, Higher
<1>5. ASSUME NEW n \in StreamIds, Holds(n)', top = streams'[n].snapshot.to PROVE Within(top)
  <2>1. Holds(n) /\ streams'[n].snapshot = streams[n].snapshot
    BY <1>3, <1>5 DEF Holds
  <2> QED
    BY <1>5, <2>1 DEF NeverBeyond, IsTop
<1>6. ASSUME NEW n \in StreamIds, streams'[n].setup = "answered", top = streams'[n].answer.to PROVE Within(top)
  BY <1>6 DEF NeverBeyond, IsTop
<1>7. ASSUME NEW f \in Range(toMain'), Brings(f)', top = f.snapshot.to PROVE Within(top)
  <2>1. f \in Answers /\ f.kind = "subscribed" /\ f.ok /\ streams[f.stream].setup = "asking"
    BY <1>7 DEF Brings, Answers, Answer
  <2>2. CASE f \in Range(toMain)
    BY <1>7, <2>1, <2>2 DEF NeverBeyond, IsTop, Brings
  <2>3. CASE NewFrame(f)
    <3>1. f \notin Event
      BY <2>1, EventsAreNoAnswers DEF Answers
    <3>2. f.snapshot = Bounded(0, produced)
      BY <2>1, <2>3, <3>1 DEF NewFrame
    <3>3. Bounded(0, produced).to = produced
      BY BoundedSnapshot DEF Typed, Brokered
    <3> QED
      BY <1>2, <1>7, <3>2, <3>3
  <2> QED
    BY <1>1, <2>2, <2>3
<1>8. \/ top = produced'
      \/ \E n \in StreamIds : Holds(n)' /\ top = streams'[n].snapshot.to
      \/ \E n \in StreamIds : streams'[n].setup = "answered" /\ top = streams'[n].answer.to
      \/ \E f \in Range(toMain') : Brings(f)' /\ top = f.snapshot.to
  BY DEF IsTop
<1> QED
  BY <1>4, <1>5, <1>6, <1>7, <1>8

(* A session that joins takes the text of the only stream that counts then.    *)
LEMMA OneTop ==
  ASSUME Typed, OneOpen, Burst, NEW n \in StreamIds, streams[n].setup = "ready", NEW top, IsTop(top), top # produced,
         n = current \/ \E s \in Sessions : Late(s) /\ task[s].stream = n
  PROVE  top = streams[n].snapshot.to
<1> USE DEF Typed
<1>1. \A m \in StreamIds : streams[m].setup = "answered" \/ (streams[m].setup = "asking" /\ AnsweredFor(m)) => FALSE
  BY DEF OneOpen, Burst, Settled
<1>2. \A f \in Range(toMain) : ~Brings(f)
  <2> SUFFICES ASSUME NEW f \in Range(toMain), Brings(f) PROVE FALSE
    OBVIOUS
  <2>1. f \in Answer /\ f.stream \in StreamIds /\ AnsweredFor(f.stream) /\ streams[f.stream].setup = "asking"
    BY DEF Brings, Answers, Answer, AnsweredFor
  <2> QED
    BY <1>1, <2>1
<1>3. ASSUME NEW m \in StreamIds, Holds(m) PROVE m = n
  <2>1. Settled(m) /\ Settled(n)
    BY <1>3 DEF Holds, Settled
  <2>2. m = current \/ \E t \in Sessions : Late(t) /\ task[t].stream = m
    BY <1>3, <2>1 DEF Holds, Awaited, Late
  <2> QED
    BY <2>1, <2>2 DEF Burst
<1> QED
  BY <1>1, <1>2, <1>3 DEF IsTop

(* Every step keeps what phones have shown within every text they may be     *)
(* sent.                                                                     *)
LEMMA NextNeverBeyond ==
  ASSUME Typed, OneOpen, Belong, Burst, Happened, NeverBeyond, Newest, Next
  PROVE  NeverBeyond' /\ Newest'
<1> USE TerminalStreamsAssumption DEF Typed
<1>0. NoStream \notin StreamIds /\ \A n \in StreamIds : streams[n] \in StreamRecords
  BY DEF NoStream, StreamIds, Streamed
<1>1. produced \in Nat /\ Within(produced) /\ \A s \in Sessions : reached[s] \in Nat
  BY DEF Brokered, NeverBeyond, IsTop, Shows
<1>2. \A x \in Snapshots : x.to \in Nat
  BY DEF Snapshots, Snapshot
<1>3. ASSUME NEW s \in Sessions, CommandStep(s) PROVE NeverBeyond' /\ Newest'
  <2>1. /\ UNCHANGED <<current, produced, toMain>> /\ \A n \in StreamIds : Closes(n)
    BY <1>3, CommandsClose
  <2>2. /\ \A t \in Sessions \ {s} : task'[t] = task[t] /\ view'[t] = view[t] /\ reached'[t] = reached[t]
        /\ \/ view'[s] = view[s] /\ reached'[s] = reached[s]
           \/ /\ Join(s) /\ streams[task[s].stream].setup = "ready"
              /\ view'[s] = Shown(view[s], streams[task[s].stream].snapshot)
              /\ reached'[s] = Later(reached[s], streams[task[s].stream].snapshot.to)
           \/ view'[s] = <<>> /\ reached'[s] = 0
        /\ \/ task'[s] = task[s] \/ task'[s].stage \in {"idle", "find", "detach"}
           \/ task'[s] = [task[s] EXCEPT !.stage = "setup"] /\ task[s].stage = "got"
           \/ task'[s] = [task[s] EXCEPT !.stage = "undo"]
    BY <1>3, CommandsPlace
  <2>3. \A t \in Sessions : Waiting(t)' => Waiting(t) /\ task'[t].stream = task[t].stream
    BY <2>2 DEF Waiting, Placed, Task
  <2>4. \A n \in StreamIds : Awaited(n)' => Awaited(n)
    BY <2>1, <2>3 DEF Awaited, Waiting
  <2>5. \A top : IsTop(top)' => IsTop(top)
    <3>1. \A n \in StreamIds : streams'[n].setup = streams[n].setup /\ streams'[n].snapshot = streams[n].snapshot
                               /\ streams'[n].answer = streams[n].answer
      BY <2>1 DEF Closes
    <3>2. \A f : Brings(f)' => Brings(f)
      BY <3>1 DEF Brings, Answers, Answer
    <3> QED
      BY <2>1, <2>4, <3>1, <3>2 DEF IsTop, Holds
  <2>6. CASE view'[s] = view[s] /\ reached'[s] = reached[s]
    <3>1. \A t \in Sessions : view'[t] = view[t] /\ reached'[t] = reached[t]
      BY <2>2, <2>6
    <3> QED
      BY <2>5, <3>1 DEF NeverBeyond, Newest, Within
  <2>7. CASE view'[s] = <<>> /\ reached'[s] = 0
    <3>1. \A top : IsTop(top)' => Within(top)'
      <4> SUFFICES ASSUME NEW top, IsTop(top) PROVE \A t \in Sessions : reached'[t] <= top
        BY <2>5 DEF Within
      <4>1. top \in Nat /\ Within(top)
        BY TopIsNatural DEF NeverBeyond
      <4> QED
        BY <2>2, <2>7, <4>1 DEF Within
    <3> QED
      BY <2>2, <2>7, <3>1 DEF NeverBeyond, Newest, EndsAt
  <2>8. CASE /\ Join(s) /\ streams[task[s].stream].setup = "ready"
             /\ view'[s] = Shown(view[s], streams[task[s].stream].snapshot)
             /\ reached'[s] = Later(reached[s], streams[task[s].stream].snapshot.to)
    <3>1. PICK n \in StreamIds : n = task[s].stream
      BY <2>8 DEF Join, Placed
    <3>2. Late(s) /\ streams[n].snapshot \in Snapshots
      BY <1>0, <2>8, <3>1 DEF Join, Late, Waiting, Settled, StreamRecords
    <3>3. PICK to \in Nat : to = streams[n].snapshot.to
      BY <1>2, <3>2
    <3>4. IsTop(to)
      BY <2>8, <3>1, <3>2, <3>3 DEF IsTop, Holds, Awaited, Late
    <3>5. Within(to) /\ to <= produced
      BY <1>0, <3>3, <3>4 DEF NeverBeyond, Happened, HappenedBy
    <3>6. reached'[s] = to
      BY <1>1, <2>8, <3>1, <3>3, <3>5 DEF Later, Within
    <3>7. \A t \in Sessions : reached'[t] <= to
      BY <2>2, <3>5, <3>6 DEF Within
    <3>8. \A top : IsTop(top)' => Within(top)'
      <4> SUFFICES ASSUME NEW top, IsTop(top) PROVE \A t \in Sessions : reached'[t] <= top
        BY <2>5 DEF Within
      <4>1. top = produced \/ top = to
        BY <2>8, <3>1, <3>2, <3>3, OneTop
      <4>2. \A t \in Sessions : reached'[t] \in Nat
        BY <1>1, <2>2, <3>6
      <4> QED
        BY <1>1, <3>5, <3>7, <4>1, <4>2
    <3>9. EndsAt(view'[s], reached'[s])
      BY <2>8, <3>1, <3>2, <3>3, <3>6, ShownStretch DEF OneStretch, EndsAt
    <3>10. Newest'
      BY <2>2, <3>9 DEF Newest
    <3> QED
      BY <3>8, <3>10 DEF NeverBeyond
  <2> QED
    BY <2>2, <2>6, <2>7, <2>8
<1>4. ASSUME UNCHANGED <<view, reached>> PROVE Newest'
  BY <1>4 DEF Newest
<1>5. ASSUME NEW s \in Sessions, FindStream(s) \/ TakeAfterDisposal(s) PROVE NeverBeyond' /\ Newest'
  <2>0. UNCHANGED <<view, reached, produced, toMain>>
    BY <1>5, StreamFound
  <2>1. \A top : IsTop(top)' => IsTop(top)
    <3>1. ASSUME current = NoStream, NEW n \in StreamIds, Started(n, s) PROVE \A top : IsTop(top)' => IsTop(top)
      <4>1. /\ streams'[n].setup = "asking" /\ current' = n /\ \A m \in StreamIds \ {n} : streams'[m] = streams[m]
            /\ task' = [task EXCEPT ![s] = [task[s] EXCEPT !.stage = "got", !.stream = n]]
        BY <3>1 DEF Started, Unused
      <4>2. task'[s].stream = n /\ \A t \in Sessions \ {s} : task'[t] = task[t]
        BY <4>1 DEF Placed, Task
      <4>3. \A m \in StreamIds \ {n} : Holds(m)' => Holds(m)
        BY <4>1, <4>2 DEF Holds, Awaited, Waiting
      <4>4. \A f \in Range(toMain) : Brings(f)' => Brings(f)
        <5>1. \A i \in DOMAIN toMain : ~(toMain[i] \in Answer /\ toMain[i].stream = n)
          BY <3>1 DEF Started, Referenced
        <5>2. \A f \in Range(toMain) : f \in Answers => f.stream \in StreamIds \ {n}
          BY <5>1 DEF Range, Answers, Answer
        <5> QED
          BY <4>1, <5>2 DEF Brings
      <4>5. ~Holds(n)' /\ streams'[n].setup # "answered"
        BY <4>1 DEF Holds
      <4> QED
        BY <2>0, <4>1, <4>3, <4>4, <4>5 DEF IsTop
    <3>2. ASSUME current \in StreamIds, UNCHANGED <<streams, current>>,
                 \/ task' = [task EXCEPT ![s] = [task[s] EXCEPT !.stage = "got", !.stream = current]]
                 \/ task' = [task EXCEPT ![s] = [task[s] EXCEPT !.stage = "await", !.stream = current]]
          PROVE  \A top : IsTop(top)' => IsTop(top)
      <4>1. \A t \in Sessions \ {s} : task'[t] = task[t]
        BY <3>2 DEF Placed
      <4>2. task'[s].stream = current
        BY <3>2 DEF Placed, Task
      <4>3. \A m \in StreamIds : Holds(m)' => Holds(m)
        BY <3>2, <4>1, <4>2 DEF Holds, Awaited, Waiting
      <4> QED
        BY <2>0, <3>2, <4>3 DEF IsTop, Brings
    <3> QED
      BY <1>5, <3>1, <3>2, StreamFound
  <2> QED
    BY <1>4, <2>0, <2>1 DEF NeverBeyond, Within
<1>6. CASE ReadEvent
  <2>1. PICK event \in Event :
           /\ event = Head(toMain) /\ toMain # <<>> /\ toMain' = Tail(toMain)
           /\ UNCHANGED <<up, task, marker, current, produced>>
           /\ \A m \in StreamIds : StagesKept(m)
           /\ \/ UNCHANGED <<view, reached>> /\ \A m \in StreamIds : streams'[m].snapshot = streams[m].snapshot
              \/ \E n \in StreamIds : Passed(n, event)
    BY <1>6, EventPassed
  <2>2. Range(toMain') \subseteq Range(toMain) /\ event \in Range(toMain)
    BY <2>1, QueueTail DEF Brokered
  <2>3. CASE UNCHANGED <<view, reached>> /\ \A m \in StreamIds : streams'[m].snapshot = streams[m].snapshot
    <3>1. NeverBeyond'
      BY <2>1, <2>3, TopsKept DEF StagesKept, Waiting
    <3> QED
      BY <1>4, <2>3, <3>1
  <2>4. ASSUME NEW n \in StreamIds, Passed(n, event) PROVE NeverBeyond' /\ Newest'
    <3>1. /\ n = current /\ ~Closing(n) /\ streams[n].snapshot \in Snapshots
          /\ streams'[n].snapshot = Applied(streams[n].snapshot, event)
          /\ \A m \in StreamIds \ {n} : streams'[m].snapshot = streams[m].snapshot
      BY <2>4 DEF Passed
    <3>2. PICK to \in Nat, later \in Nat :
              /\ to = streams[n].snapshot.to /\ later = streams'[n].snapshot.to /\ to <= later
              /\ Follows(streams[n].snapshot, event) => event.at = to + 1 /\ later = to + 1
      <4>1. Applied(streams[n].snapshot, event) \in Snapshots
        BY <3>1, AppliedSnapshot
      <4> QED
        BY <1>2, <3>1, <4>1, AppliedSnapshot
    <3>3. \A m \in StreamIds : streams'[m].setup = streams[m].setup /\ streams'[m].answer = streams[m].answer
                               /\ (Awaited(m)' => Awaited(m))
      BY <2>1 DEF StagesKept, Awaited, Waiting
    <3>4. \A f : Brings(f)' => Brings(f)
      BY <3>3 DEF Brings, Answers, Answer
    <3>5. \A top : IsTop(top)' => IsTop(top) \/ (top = later /\ Holds(n))
      BY <2>1, <2>2, <3>1, <3>2, <3>3, <3>4 DEF IsTop, Holds
    <3>6. Holds(n) => Within(to)
      BY <3>2 DEF NeverBeyond, IsTop
    <3>7. CASE UNCHANGED <<view, reached>>
      <4>1. \A top : IsTop(top)' => Within(top)
        BY <3>2, <3>5, <3>6, Higher DEF NeverBeyond
      <4> QED
        BY <1>4, <3>7, <4>1 DEF NeverBeyond, Within
    <3>8. CASE Members(n) # {} /\ OnPhones(event)
               /\ (event.kind = "required" \/ (event.kind = "output" /\ Follows(streams[n].snapshot, event)))
      <4>1. streams[n].setup = "ready"
        BY <1>0, <3>1, <3>8 DEF Members, Belong
      <4>2. Holds(n) /\ Within(to)
        BY <3>1, <3>6, <4>1 DEF Holds, Awaited
      <4>3. later <= produced
        <5>1. event.at <= produced /\ to <= produced
          BY <1>0, <2>2, <3>2 DEF Happened, HappenedBy
        <5>2. Follows(streams[n].snapshot, event) \/ later = to
          BY <3>1, <3>2 DEF Applied
        <5> QED
          BY <3>2, <5>1, <5>2
      <4>4. \A top : IsTop(top)' => top = produced \/ (top \in Nat /\ later <= top)
        <5>1. \A top : IsTop(top)' => top = produced \/ top = to \/ top = later
          BY <3>1, <3>2, <3>5, <4>1, OneTop
        <5>2. ~IsTop(to)' \/ to = later \/ to = produced
          <6> SUFFICES ASSUME IsTop(to)', to # produced PROVE to = later
            OBVIOUS
          <6>1. \A m \in StreamIds : Holds(m) => m = n
            <7> SUFFICES ASSUME NEW m \in StreamIds, Holds(m) PROVE m = n
              OBVIOUS
            <7>1. Settled(m) /\ Settled(n)
              BY <4>1 DEF Holds, Settled
            <7>2. m = current \/ \E t \in Sessions : Late(t) /\ task[t].stream = m
              BY <7>1 DEF Holds, Awaited, Late
            <7> QED
              BY <3>1, <7>1, <7>2 DEF Burst
          <6>2. \A m \in StreamIds : streams[m].setup \notin {"asking", "answered"}
            BY <3>1, <4>1 DEF OneOpen, Settled
          <6>3. \A m \in StreamIds : Holds(m)' => m = n
            BY <3>3, <6>1 DEF Holds
          <6>4. \A f : ~Brings(f)'
            BY <3>4, <6>2 DEF Brings, Answers, Answer
          <6> QED
            BY <2>1, <3>2, <3>3, <6>2, <6>3, <6>4 DEF IsTop
        <5> QED
          BY <3>2, <5>1, <5>2
      <4>5. \A s \in Sessions : reached'[s] \in Nat /\ reached'[s] <= later
                                /\ EndsAt(view'[s], reached'[s])
        <5> SUFFICES ASSUME NEW s \in Sessions
                     PROVE  reached'[s] \in Nat /\ reached'[s] <= later /\ EndsAt(view'[s], reached'[s])
          OBVIOUS
        <5>1. reached[s] <= to /\ reached[s] \in Nat /\ view[s] \in Seq(Chunks)
          BY <1>1, <4>2 DEF Within, Shows
        <5>2. CASE s \notin up \/ marker[s] = NoStream
          <6>1. reached'[s] = reached[s] /\ view'[s] = view[s]
            BY <3>8, <5>2 DEF OnPhones
          <6> QED
            BY <3>2, <5>1, <6>1 DEF Newest
        <5>3. CASE s \in up /\ marker[s] # NoStream /\ event.kind = "required"
          <6>1. reached'[s] = reached[s] /\ view'[s] = <<>>
            BY <3>8, <5>3 DEF OnPhones
          <6> QED
            BY <3>2, <5>1, <6>1 DEF EndsAt
        <5>4. CASE s \in up /\ marker[s] # NoStream /\ event.kind = "output" /\ Follows(streams[n].snapshot, event)
          <6>1. reached'[s] = Later(reached[s], to + 1) /\ view'[s] = Append(view[s], to + 1)
            BY <3>2, <3>8, <5>4 DEF OnPhones
          <6>2. reached'[s] = to + 1
            BY <3>2, <5>1, <6>1 DEF Later
          <6>3. Len(Append(view[s], to + 1)) = Len(view[s]) + 1 /\ Append(view[s], to + 1)[Len(view[s]) + 1] = to + 1
            BY <5>1
          <6> QED
            BY <3>2, <5>4, <6>1, <6>2, <6>3 DEF EndsAt
        <5> QED
          BY <3>8, <5>2, <5>3, <5>4
      <4>6. NeverBeyond'
        BY <1>1, <3>2, <4>3, <4>4, <4>5 DEF NeverBeyond, Within
      <4> QED
        BY <4>5, <4>6 DEF Newest
    <3> QED
      BY <2>4, <3>7, <3>8 DEF Passed
  <2> QED
    BY <2>1, <2>3, <2>4
<1>7. ASSUME Aside, current' \in {current, NoStream},
             \A n \in StreamIds : streams'[n].setup \in {"asking", "answered", "ready"} =>
                 /\ streams'[n].setup = streams[n].setup
                 /\ streams'[n].snapshot = streams[n].snapshot /\ streams'[n].answer = streams[n].answer
      PROVE  NeverBeyond' /\ Newest'
  BY <1>4, <1>7, TopsKept DEF Aside, Waiting
<1>8. CASE ReadSubscribed
  <2>1. PICK answer \in Answers : LET n == answer.stream IN
           /\ answer = Head(toMain) /\ toMain # <<>> /\ toMain' = Tail(toMain) /\ answer.kind = "subscribed"
           /\ n \in StreamIds /\ Aside /\ UNCHANGED <<current, produced>>
           /\ \/ UNCHANGED streams
              \/ /\ streams[n].setup = "asking" /\ answer.ok /\ SetupMoves(n, "answered")
                 /\ streams'[n].answer = answer.snapshot
              \/ SetupMoves(n, "failed")
    BY <1>8, SubscribedRead
  <2>2. PICK n \in StreamIds : n = answer.stream
    BY <2>1
  <2>3. CASE UNCHANGED streams
    BY <1>7, <2>1, <2>3
  <2>4. CASE SetupMoves(n, "failed")
    <3>1. streams'[n].setup = "failed" /\ \A m \in StreamIds \ {n} : streams'[m] = streams[m]
      BY <2>4 DEF SetupMoves
    <3> QED
      BY <1>7, <2>1, <3>1
  <2>5. CASE streams[n].setup = "asking" /\ answer.ok /\ SetupMoves(n, "answered") /\ streams'[n].answer = answer.snapshot
    <3>1. Range(toMain') \subseteq Range(toMain) /\ answer \in Range(toMain)
      BY <2>1, QueueTail DEF Brokered
    <3>2. streams'[n].setup = "answered" /\ \A m \in StreamIds \ {n} : streams'[m] = streams[m]
      BY <2>5 DEF SetupMoves
    <3>3. Brings(answer)
      BY <2>1, <2>2, <2>5 DEF Brings
    <3>4. \A m \in StreamIds \ {n} : Holds(m)' => Holds(m)
      BY <2>1, <3>2 DEF Holds, Awaited, Waiting, Aside
    <3>5. \A f : Brings(f)' => Brings(f)
      BY <3>2 DEF Brings, Answers, Answer
    <3>6. \A top : IsTop(top)' => IsTop(top)
      <4>1. ~Holds(n)'
        BY <3>2 DEF Holds
      <4> QED
        BY <2>1, <2>5, <3>1, <3>2, <3>3, <3>4, <3>5, <4>1 DEF IsTop
    <3> QED
      BY <1>4, <2>1, <3>6 DEF NeverBeyond, Within, Aside
  <2> QED
    BY <2>1, <2>2, <2>3, <2>4, <2>5
<1>9. ASSUME NEW n \in StreamIds, SetupContinues(n) PROVE NeverBeyond' /\ Newest'
  <2>1. /\ streams[n].setup = "answered" /\ Aside /\ streams[n].answer \in Snapshots /\ UNCHANGED <<produced, toMain>>
        /\ \/ SetupMoves(n, "ready") /\ streams'[n].snapshot = WithPending(streams[n].answer, streams[n].pending)
           \/ SetupMoves(n, "dropping")
    BY <1>9, SetupGoesOn
  <2>2. UNCHANGED current /\ \A m \in StreamIds \ {n} : streams'[m] = streams[m]
    BY <2>1 DEF SetupMoves
  <2>3. CASE SetupMoves(n, "dropping")
    <3>1. streams'[n].setup = "dropping"
      BY <2>3 DEF SetupMoves
    <3> QED
      BY <1>7, <2>1, <2>2, <3>1
  <2>4. CASE SetupMoves(n, "ready") /\ streams'[n].snapshot = WithPending(streams[n].answer, streams[n].pending)
    <3>1. streams'[n].setup = "ready"
      BY <2>4 DEF SetupMoves
    <3>2. streams[n].pending \in Seq(Event)
      BY <1>0 DEF StreamRecords, Stream
    <3>3. streams'[n].snapshot \in Snapshots /\ streams[n].answer.to <= streams'[n].snapshot.to
      BY <2>1, <2>4, <3>2, PendingSnapshot
    <3>4. Within(streams[n].answer.to)
      BY <2>1 DEF NeverBeyond, IsTop
    <3>5. Within(streams'[n].snapshot.to)
      BY <1>2, <2>1, <3>3, <3>4, Higher
    <3>6. \A m \in StreamIds \ {n} : Holds(m)' => Holds(m)
      BY <2>1, <2>2 DEF Holds, Awaited, Waiting, Aside
    <3>7. \A f : Brings(f)' => Brings(f)
      BY <2>2, <3>1 DEF Brings, Answers, Answer
    <3>8. \A top : IsTop(top)' => IsTop(top) \/ top = streams'[n].snapshot.to
      BY <2>1, <2>2, <3>1, <3>6, <3>7 DEF IsTop
    <3>9. NeverBeyond'
      BY <2>1, <3>5, <3>8 DEF NeverBeyond, Within, Aside
    <3> QED
      BY <1>4, <2>1, <3>9 DEF Aside
  <2> QED
    BY <2>1, <2>3, <2>4
<1>10. ASSUME Aside, NEW n \in StreamIds, Ends(n) PROVE NeverBeyond' /\ Newest'
  <2>1. /\ current' \in {current, NoStream} /\ \A m \in StreamIds \ {n} : streams'[m] = streams[m]
        /\ \/ streams'[n].setup = "failed"
           \/ /\ streams'[n].setup = streams[n].setup /\ streams'[n].snapshot = streams[n].snapshot
              /\ streams'[n].answer = streams[n].answer
    BY <1>10 DEF Ends, Unused
  <2> QED
    BY <1>7, <1>10, <2>1
<1>11. ASSUME Aside, NEW n \in StreamIds, SetupMoves(n, "failed") PROVE NeverBeyond' /\ Newest'
  <2>1. UNCHANGED current /\ streams'[n].setup = "failed" /\ \A m \in StreamIds \ {n} : streams'[m] = streams[m]
    BY <1>11 DEF SetupMoves
  <2> QED
    BY <1>7, <1>11, <2>1
<1>12. ASSUME Aside, UNCHANGED <<streams, current>> PROVE NeverBeyond' /\ Newest'
  BY <1>7, <1>12
<1>13. ASSUME Aside, NEW n \in StreamIds, DisposalOver(n) \/ DropOver(n) \/ NothingOver(n) PROVE NeverBeyond' /\ Newest'
  BY <1>10, <1>11, <1>12, <1>13 DEF DisposalOver, DropOver, NothingOver
<1>14. CASE ReadUnsubscribed
  <2>1. Head(toMain).stream \in StreamIds /\ Aside
    BY <1>14, FirstFrame DEF ReadUnsubscribed, Answers, Answer, Aside
  <2> QED
    BY <1>13, <1>14, <2>1, UnsubscriptionOver DEF ReadUnsubscribed
<1>15. ASSUME NEW n \in StreamIds, DisposeContinues(n) PROVE NeverBeyond' /\ Newest'
  <2>1. CASE Aside /\ DisposalAsks(n)
    <3>1. /\ UNCHANGED current /\ \A m \in StreamIds \ {n} : streams'[m] = streams[m]
          /\ streams'[n].setup = streams[n].setup /\ streams'[n].snapshot = streams[n].snapshot
          /\ streams'[n].answer = streams[n].answer
      BY <2>1 DEF DisposalAsks
    <3> QED
      BY <1>7, <2>1, <3>1
  <2> QED
    BY <1>10, <1>15, <2>1, DisposalGoesOn
<1>16. CASE BrokerStep \/ Produce \/ TerminalGoes
  BY <1>12, <1>16 DEF BrokerStep, BrokerSubscribes, BrokerUnsubscribes, Produce, TerminalGoes, Aside
<1>17. CASE Break
  <2>1. Aside /\ current' \in {current, NoStream} /\ \A n \in StreamIds : BrokenOff(n)
    BY <1>17, BrokeOff
  <2> QED
    BY <1>7, <2>1 DEF BrokenOff
<1>18. ASSUME NEW n \in StreamIds, TimeOut(n) PROVE NeverBeyond' /\ Newest'
  BY <1>11, <1>13, <1>18, TimedOut
<1> QED
  BY <1>3, <1>5, <1>6, <1>8, <1>9, <1>14, <1>15, <1>16, <1>17, <1>18
  DEF Next, GatewayStep, Phone, Fault, ReadFrame, CommandStep

-----------------------------------------------------------------------------
(* A stream that waits for the broker has a request or an answer under way.   *)
Requested(n, ask) == \E a \in Range(toBroker) : a.ask = ask /\ a.stream = n
EndedFor(n) == \E a \in Range(toMain) \cap Answer : a.kind = "unsubscribed" /\ a.stream = n
Unsubscribing(n) == streams[n].setup = "dropping" \/ streams[n].dispose = "unsubscribe"
UnderWay == \A n \in StreamIds :
    /\ streams[n].setup = "asking" => Requested(n, "subscribe") \/ AnsweredFor(n)
    /\ Unsubscribing(n) => Requested(n, "unsubscribe") \/ EndedFor(n)

(* It is enough that who begins to wait asks, and who waits on is not        *)
(* forgotten.                                                                *)
LEMMA UnderWayKept ==
  ASSUME UnderWay,
         \A n \in StreamIds :
            /\ streams'[n].setup = "asking" => streams[n].setup = "asking" \/ Requested(n, "subscribe")'
            /\ Unsubscribing(n)' => Unsubscribing(n) \/ Requested(n, "unsubscribe")',
         \A n \in StreamIds :
            /\ streams'[n].setup = "asking" /\ Requested(n, "subscribe") => Requested(n, "subscribe")' \/ AnsweredFor(n)'
            /\ streams'[n].setup = "asking" /\ AnsweredFor(n) => AnsweredFor(n)'
            /\ Unsubscribing(n)' /\ Requested(n, "unsubscribe") => Requested(n, "unsubscribe")' \/ EndedFor(n)'
            /\ Unsubscribing(n)' /\ EndedFor(n) => EndedFor(n)'
  PROVE  UnderWay'
  BY DEF UnderWay

(* Every step leaves what a stream waits for on its way.                     *)
LEMMA NextUnderWay == ASSUME Typed, UnderWay, Next PROVE UnderWay'
<1> USE TerminalStreamsAssumption DEF Typed
<1>0. toBroker \in Seq(Ask) /\ toMain \in Seq(Event \cup Answers)
  BY DEF Brokered
<1>1. ASSUME \A n \in StreamIds : /\ streams'[n].setup = "asking" => streams[n].setup = "asking"
                                  /\ Unsubscribing(n)' => Unsubscribing(n),
             UNCHANGED toBroker, Range(toMain) \cap Answer \subseteq Range(toMain') \cap Answer
      PROVE  UnderWay'
  <2>1. \A n \in StreamIds : /\ Requested(n, "subscribe") => Requested(n, "subscribe")'
                             /\ Requested(n, "unsubscribe") => Requested(n, "unsubscribe")'
                             /\ AnsweredFor(n) => AnsweredFor(n)'
                             /\ EndedFor(n) => EndedFor(n)'
    BY <1>1 DEF Requested, AnsweredFor, EndedFor
  <2>2. \A n \in StreamIds : streams'[n].setup = "asking" => Requested(n, "subscribe")' \/ AnsweredFor(n)'
    BY <1>1, <2>1 DEF UnderWay
  <2>3. \A n \in StreamIds : Unsubscribing(n)' => Requested(n, "unsubscribe")' \/ EndedFor(n)'
    BY <1>1, <2>1 DEF UnderWay
  <2> QED
    BY <2>2, <2>3 DEF UnderWay
<1>2. ASSUME NEW n \in StreamIds, NEW ask, toBroker' = Append(toBroker, ask), ask.stream = n, UNCHANGED toMain,
             \A m \in StreamIds : /\ streams'[m].setup = "asking" =>
                                        streams[m].setup = "asking" \/ (m = n /\ ask.ask = "subscribe")
                                  /\ Unsubscribing(m)' => Unsubscribing(m) \/ (m = n /\ ask.ask = "unsubscribe")
      PROVE  UnderWay'
  <2>1. Range(toBroker') = Range(toBroker) \cup {ask}
    BY <1>0, <1>2, QueueAppend
  <2>2. \A m \in StreamIds : /\ Requested(m, "subscribe") => Requested(m, "subscribe")'
                             /\ Requested(m, "unsubscribe") => Requested(m, "unsubscribe")'
                             /\ (AnsweredFor(m) => AnsweredFor(m)') /\ (EndedFor(m) => EndedFor(m)')
    BY <1>2, <2>1 DEF Requested, AnsweredFor, EndedFor
  <2>3. /\ ask.ask = "subscribe" => Requested(n, "subscribe")'
        /\ ask.ask = "unsubscribe" => Requested(n, "unsubscribe")'
    BY <1>2, <2>1 DEF Requested
  <2>4. \A m \in StreamIds : /\ streams'[m].setup = "asking" => streams[m].setup = "asking" \/ Requested(m, "subscribe")'
                             /\ Unsubscribing(m)' => Unsubscribing(m) \/ Requested(m, "unsubscribe")'
    BY <1>2, <2>3
  <2>5. \A m \in StreamIds :
            /\ streams'[m].setup = "asking" /\ Requested(m, "subscribe") => Requested(m, "subscribe")' \/ AnsweredFor(m)'
            /\ streams'[m].setup = "asking" /\ AnsweredFor(m) => AnsweredFor(m)'
            /\ Unsubscribing(m)' /\ Requested(m, "unsubscribe") => Requested(m, "unsubscribe")' \/ EndedFor(m)'
            /\ Unsubscribing(m)' /\ EndedFor(m) => EndedFor(m)'
    BY <2>2
  <2> QED
    BY <2>4, <2>5, UnderWayKept
<1>3. ASSUME NEW s \in Sessions, CommandStep(s) PROVE UnderWay'
  <2>1. UNCHANGED <<toBroker, toMain>> /\ \A n \in StreamIds : Closes(n)
    BY <1>3, CommandsClose
  <2> QED
    BY <1>1, <2>1 DEF Closes, Unsubscribing
<1>4. ASSUME NEW s \in Sessions, FindStream(s) \/ TakeAfterDisposal(s) PROVE UnderWay'
  <2>1. UNCHANGED toMain /\ ((\E n \in StreamIds : Started(n, s)) \/ UNCHANGED <<streams, toBroker>>)
    BY <1>4, StreamFound
  <2>2. CASE UNCHANGED <<streams, toBroker>>
    BY <1>1, <2>1, <2>2 DEF Unsubscribing
  <2>3. ASSUME NEW n \in StreamIds, Started(n, s) PROVE UnderWay'
    <3>1. PICK ask : ask = [ask |-> "subscribe", stream |-> n, device |-> device[s]]
      OBVIOUS
    <3>2. /\ toBroker' = Append(toBroker, ask) /\ streams'[n].setup = "asking" /\ streams'[n].dispose = "no"
          /\ \A m \in StreamIds \ {n} : streams'[m] = streams[m]
      BY <2>3, <3>1 DEF Started, Unused
    <3>3. \A m \in StreamIds : Unsubscribing(m)' => Unsubscribing(m)
      BY <3>2 DEF Unsubscribing
    <3> QED
      BY <1>2, <2>1, <3>1, <3>2, <3>3
  <2> QED
    BY <2>1, <2>2, <2>3
<1>5. CASE ReadEvent
  <2>1. PICK event \in Event : /\ event = Head(toMain) /\ toMain' = Tail(toMain) /\ toMain # <<>>
                               /\ UNCHANGED toBroker /\ \A m \in StreamIds : StagesKept(m)
    BY <1>5, EventPassed
  <2>2. Range(toMain) = {event} \cup Range(toMain')
    BY <1>0, <2>1, QueueTail
  <2> QED
    BY <1>1, <2>1, <2>2, EventsAreNoAnswers DEF StagesKept, Unsubscribing
<1>6. CASE ReadSubscribed
  <2>1. PICK answer \in Answers : LET n == answer.stream IN
           /\ answer = Head(toMain) /\ toMain # <<>> /\ toMain' = Tail(toMain) /\ answer.kind = "subscribed"
           /\ n \in StreamIds /\ UNCHANGED toBroker
           /\ \/ streams[n].setup # "asking" /\ UNCHANGED streams
              \/ SetupMoves(n, "answered") \/ SetupMoves(n, "failed")
    BY <1>6, SubscribedRead
  <2>2. Range(toMain) = {answer} \cup Range(toMain')
    BY <1>0, <2>1, QueueTail
  <2>3. \A m \in StreamIds : /\ streams'[m].setup = "asking" => streams[m].setup = "asking" /\ m # answer.stream
                             /\ Unsubscribing(m)' => Unsubscribing(m)
    BY <2>1 DEF SetupMoves, Unsubscribing
  <2>4. \A m \in StreamIds : /\ m # answer.stream /\ AnsweredFor(m) => AnsweredFor(m)'
                             /\ EndedFor(m) => EndedFor(m)'
                             /\ Requested(m, "subscribe") => Requested(m, "subscribe")'
                             /\ Requested(m, "unsubscribe") => Requested(m, "unsubscribe")'
    BY <2>1, <2>2 DEF AnsweredFor, EndedFor, Requested
  <2> QED
    BY <2>3, <2>4, UnderWayKept
<1>7. ASSUME NEW n \in StreamIds, DisposalOver(n) \/ DropOver(n) \/ NothingOver(n)
      PROVE  \A m \in StreamIds : /\ streams'[m].setup = "asking" => streams[m].setup = "asking"
                                  /\ Unsubscribing(m)' => Unsubscribing(m) /\ m # n
  <2>1. CASE NothingOver(n)
    BY <2>1 DEF NothingOver, Unsubscribing
  <2>2. CASE DropOver(n)
    BY <2>2 DEF DropOver, SetupMoves, Unsubscribing
  <2>3. CASE DisposalOver(n)
    <3>1. streams'[n].setup \in {"ready", "failed"} /\ streams'[n].dispose = "done"
          /\ \A m \in StreamIds \ {n} : streams'[m] = streams[m]
      BY <2>3 DEF DisposalOver, Ends, Unused
    <3> QED
      BY <3>1 DEF Unsubscribing
  <2> QED
    BY <1>7, <2>1, <2>2, <2>3
<1>8. CASE ReadUnsubscribed
  <2>1. PICK n \in StreamIds : n = Head(toMain).stream
    BY <1>8, FirstFrame DEF ReadUnsubscribed, Answers, Answer
  <2>2. /\ toMain # <<>> /\ toMain' = Tail(toMain) /\ Head(toMain).kind = "unsubscribed" /\ UNCHANGED toBroker
        /\ Unsubscribed(n)
    BY <1>8, <2>1 DEF ReadUnsubscribed, NextFrame
  <2>3. Range(toMain) = {Head(toMain)} \cup Range(toMain')
    BY <1>0, <2>2, QueueTail
  <2>4. \A m \in StreamIds : /\ streams'[m].setup = "asking" => streams[m].setup = "asking"
                             /\ Unsubscribing(m)' => Unsubscribing(m) /\ m # n
    BY <1>7, <2>2, UnsubscriptionOver
  <2>5. \A m \in StreamIds : /\ AnsweredFor(m) => AnsweredFor(m)'
                             /\ m # n /\ EndedFor(m) => EndedFor(m)'
                             /\ Requested(m, "subscribe") => Requested(m, "subscribe")'
                             /\ Requested(m, "unsubscribe") => Requested(m, "unsubscribe")'
    BY <2>1, <2>2, <2>3 DEF AnsweredFor, EndedFor, Requested
  <2> QED
    BY <2>4, <2>5, UnderWayKept
<1>9. ASSUME NEW n \in StreamIds, SetupContinues(n) PROVE UnderWay'
  <2>1. UNCHANGED toMain /\ streams[n].setup = "answered"
        /\ \/ SetupMoves(n, "ready") /\ UNCHANGED toBroker
           \/ SetupMoves(n, "dropping") /\ toBroker' = Append(toBroker, Follow(n))
    BY <1>9, SetupGoesOn
  <2>2. CASE SetupMoves(n, "ready") /\ UNCHANGED toBroker
    BY <1>1, <2>1, <2>2 DEF SetupMoves, Unsubscribing
  <2>3. CASE SetupMoves(n, "dropping") /\ toBroker' = Append(toBroker, Follow(n))
    <3>1. Follow(n).stream = n /\ Follow(n).ask = "unsubscribe"
      BY DEF Follow
    <3>2. \A m \in StreamIds : /\ streams'[m].setup = "asking" => streams[m].setup = "asking"
                               /\ Unsubscribing(m)' => Unsubscribing(m) \/ m = n
      BY <2>3 DEF SetupMoves, Unsubscribing
    <3> QED
      BY <1>2, <2>1, <2>3, <3>1, <3>2
  <2> QED
    BY <2>1, <2>2, <2>3
<1>10. ASSUME NEW n \in StreamIds, DisposeContinues(n) PROVE UnderWay'
  <2>1. UNCHANGED toMain /\ (DisposalAsks(n) \/ (Ends(n) /\ UNCHANGED toBroker /\ streams[n].setup = "failed"))
    BY <1>10, DisposalGoesOn
  <2>2. CASE Ends(n) /\ UNCHANGED toBroker /\ streams[n].setup = "failed"
    <3>1. streams'[n].setup = "failed" /\ streams'[n].dispose = "done" /\ \A m \in StreamIds \ {n} : streams'[m] = streams[m]
      BY <2>2 DEF Ends, Unused
    <3> QED
      BY <1>1, <2>1, <2>2, <3>1 DEF Unsubscribing
  <2>3. CASE DisposalAsks(n)
    <3>1. Follow(n).stream = n /\ Follow(n).ask = "unsubscribe"
      BY DEF Follow
    <3>2. \A m \in StreamIds : /\ streams'[m].setup = "asking" => streams[m].setup = "asking"
                               /\ Unsubscribing(m)' => Unsubscribing(m) \/ m = n
      BY <2>3 DEF DisposalAsks, Unsubscribing
    <3> QED
      BY <1>2, <2>1, <2>3, <3>1, <3>2 DEF DisposalAsks
  <2> QED
    BY <2>1, <2>2, <2>3
<1>11. CASE BrokerStep
  <2>1. PICK ask \in Ask : /\ ask = Head(toBroker) /\ toBroker # <<>> /\ toBroker' = Tail(toBroker) /\ UNCHANGED streams
                           /\ \/ ask.ask = "subscribe" /\ toMain' =
                                    Append(toMain, [kind |-> "subscribed", stream |-> ask.stream, ok |-> alive,
                                           snapshot |-> IF alive THEN Bounded(0, produced) ELSE NoSnapshot])
                              \/ ask.ask = "unsubscribe" /\ toMain' =
                                    Append(toMain, [kind |-> "unsubscribed", stream |-> ask.stream, ok |-> TRUE,
                                           snapshot |-> NoSnapshot])
    BY <1>0, <1>11, HeadTailProperties DEF BrokerStep, BrokerSubscribes, BrokerUnsubscribes
  <2>2. PICK answer : /\ toMain' = Append(toMain, answer) /\ answer \in Answer /\ answer.stream = ask.stream
                      /\ \/ ask.ask = "subscribe" /\ answer.kind = "subscribed"
                         \/ ask.ask = "unsubscribe" /\ answer.kind = "unsubscribed"
    <3>0. ask.stream \in StreamIds /\ alive \in BOOLEAN
      BY DEF Ask, Brokered
    <3>1. (IF alive THEN Bounded(0, produced) ELSE NoSnapshot) \in Snapshot \cup {NoSnapshot}
      BY BoundedSnapshot DEF Brokered, Snapshots
    <3>2. /\ \A x \in Snapshot \cup {NoSnapshot} :
                [kind |-> "subscribed", stream |-> ask.stream, ok |-> alive, snapshot |-> x] \in Answer
          /\ [kind |-> "unsubscribed", stream |-> ask.stream, ok |-> TRUE, snapshot |-> NoSnapshot] \in Answer
      BY <3>0 DEF Answer
    <3>3. PICK x \in Snapshot \cup {NoSnapshot} : x = IF alive THEN Bounded(0, produced) ELSE NoSnapshot
      BY <3>1
    <3>4. CASE ask.ask = "subscribe" /\ toMain' = Append(toMain, [kind |-> "subscribed", stream |-> ask.stream,
                                                                 ok |-> alive, snapshot |-> x])
      BY <3>2, <3>4
    <3>5. CASE ask.ask = "unsubscribe" /\ toMain' = Append(toMain, [kind |-> "unsubscribed", stream |-> ask.stream,
                                                                   ok |-> TRUE, snapshot |-> NoSnapshot])
      BY <3>2, <3>5
    <3> QED
      BY <2>1, <3>3, <3>4, <3>5
  <2>3. Range(toBroker) = {ask} \cup Range(toBroker') /\ Range(toMain') = Range(toMain) \cup {answer}
    BY <1>0, <2>1, <2>2, QueueTail, QueueAppend
  <2>4. \A m \in StreamIds : /\ Requested(m, "subscribe") => Requested(m, "subscribe")' \/ AnsweredFor(m)'
                             /\ Requested(m, "unsubscribe") => Requested(m, "unsubscribe")' \/ EndedFor(m)'
                             /\ AnsweredFor(m) => AnsweredFor(m)'
                             /\ EndedFor(m) => EndedFor(m)'
    BY <2>2, <2>3 DEF Requested, AnsweredFor, EndedFor
  <2>5. \A m \in StreamIds : Unsubscribing(m)' => Unsubscribing(m)
    BY <2>1 DEF Unsubscribing
  <2>6. \A m \in StreamIds : streams'[m].setup = "asking" => Requested(m, "subscribe")' \/ AnsweredFor(m)'
    BY <2>1, <2>4 DEF UnderWay
  <2>7. \A m \in StreamIds : Unsubscribing(m)' => Requested(m, "unsubscribe")' \/ EndedFor(m)'
    BY <2>4, <2>5 DEF UnderWay
  <2> QED
    BY <2>6, <2>7 DEF UnderWay
<1>12. CASE Produce
  <2>1. PICK new \in Seq(Events(produced + 1)) : toMain' = toMain \o new
    BY <1>12, ProducedFrames
  <2>2. new \in Seq(Event \cup Answers)
    BY DEF Events
  <2>3. Range(toMain) \subseteq Range(toMain')
    BY <1>0, <2>1, <2>2, QueueConcat
  <2> QED
    BY <1>1, <1>12, <2>3 DEF Produce, Unsubscribing
<1>13. CASE TerminalGoes
  BY <1>1, <1>13 DEF TerminalGoes, Unsubscribing
<1>14. CASE Break
  <2>1. \A n \in StreamIds : BrokenOff(n)
    BY <1>14, BrokeOff
  <2> QED
    BY <2>1 DEF BrokenOff, UnderWay, Unsubscribing
<1>15. ASSUME NEW n \in StreamIds, TimeOut(n) PROVE UnderWay'
  <2>1. UNCHANGED <<toBroker, toMain>> /\ (SetupMoves(n, "failed") \/ DisposalOver(n) \/ DropOver(n) \/ NothingOver(n))
    BY <1>15, TimedOut
  <2>2. CASE SetupMoves(n, "failed")
    BY <1>1, <2>1, <2>2 DEF SetupMoves, Unsubscribing
  <2> QED
    BY <1>1, <1>7, <2>1, <2>2
<1> QED
  BY <1>3, <1>4, <1>5, <1>6, <1>8, <1>9, <1>10, <1>11, <1>12, <1>13, <1>14, <1>15
  DEF Next, GatewayStep, BrokerStep, Phone, Fault, ReadFrame, CommandStep

(* With nothing on its way and no microtask to run, nobody waits.            *)
LEMMA NobodyWaits == ASSUME Typed, Belong, UnderWay PROVE NobodyWaitsForNothing
<1> SUFFICES ASSUME EventLoopTurn, toBroker = <<>>, toMain = <<>>
             PROVE  /\ \A s \in Sessions : task[s] = Idle
                    /\ \A n \in StreamIds : streams[n].setup \in {"ready", "failed"} /\ streams[n].dispose \in {"no", "done"}
  BY DEF NobodyWaitsForNothing
<1>1. \A n \in StreamIds : streams[n].setup # "asking" /\ ~Unsubscribing(n)
  BY QueueEmpty DEF UnderWay, Requested, AnsweredFor, EndedFor
<1>2. \A n \in StreamIds : streams[n].setup \in {"ready", "failed"}
  BY <1>1 DEF EventLoopTurn, Unsubscribing, Typed, Streamed, StreamRecords, Stream
<1>3. \A n \in StreamIds : streams[n].dispose \in {"no", "done"}
  BY <1>1, <1>2 DEF EventLoopTurn, FrameTurn, DisposeRuns, Settled, Unsubscribing, Typed, Streamed, StreamRecords, Stream
<1>4. ASSUME NEW s \in Sessions PROVE task[s] = Idle
  <2>1. ~TaskRuns(s)
    BY DEF EventLoopTurn, FrameTurn
  <2>2. task[s].stage \in {"detach", "await", "undo", "setup"} => task[s].stream \in StreamIds
    BY DEF Typed, Placed
  <2>3. task[s].stage \notin {"find", "got", "setup"}
    BY <1>2, <2>1, <2>2 DEF TaskRuns, Settled
  <2>4. task[s].stage \notin {"detach", "await", "undo"}
    BY <1>3, <2>1, <2>2 DEF TaskRuns, Belong, Closing
  <2> QED
    BY <2>3, <2>4 DEF Typed, Placed, Task
<1> QED
  BY <1>2, <1>3, <1>4

-----------------------------------------------------------------------------
(* A session in a command is no member, it is counted as interested only      *)
(* while it waits for the setup, and a stream that is not being disposed of    *)
(* has somebody.                                                            *)
Wants(n) == \/ Members(n) # {} \/ streams[n].interests # {}
            \/ \E s \in Sessions : task[s].stage = "got" /\ task[s].stream = n
Wanted ==
    /\ \A s \in Sessions : task[s] # Idle => marker[s] = NoStream
    /\ \A s \in Sessions, n \in StreamIds :
          s \in streams[n].interests => task[s].stage = "setup" /\ task[s].stream = n
    /\ \A n \in StreamIds : streams[n].dispose = "no" => Wants(n)

(* Nobody comes or goes.                                                    *)
LEMMA WantedStays ==
  ASSUME Wanted, UNCHANGED <<task, marker>>,
         \A n \in StreamIds : /\ streams'[n].interests \subseteq streams[n].interests
                              /\ streams'[n].dispose = "no" => streams[n].dispose = "no"
                                                              /\ streams'[n].interests = streams[n].interests
  PROVE  Wanted'
<1>1. \A s \in Sessions : task'[s] # Idle => marker'[s] = NoStream
  BY DEF Wanted
<1>2. \A s \in Sessions, n \in StreamIds :
          s \in streams'[n].interests => task'[s].stage = "setup" /\ task'[s].stream = n
  BY DEF Wanted
<1>3. \A n \in StreamIds : streams'[n].dispose = "no" => Wants(n)'
  BY DEF Wanted, Wants, Members
<1> QED
  BY <1>1, <1>2, <1>3 DEF Wanted

(* Who is interested is not asked again when the last one has gone.           *)
LEMMA DisposedUnwanted ==
  ASSUME NEW strs \in [StreamIds -> StreamRecords], NEW n, NEW members, NEW m \in StreamIds
  PROVE  /\ MaybeDisposed(strs, n, members)[m].interests = strs[m].interests
         /\ MaybeDisposed(strs, n, members)[m].dispose = "no" =>
               strs[m].dispose = "no" /\ (m = n => members # {} \/ strs[m].interests # {})
<1>1. strs[m] \in Stream
  BY DEF StreamRecords
<1>2. [strs[m] EXCEPT !.dispose = "setup"].interests = strs[m].interests
      /\ [strs[m] EXCEPT !.dispose = "setup"].dispose = "setup"
  BY <1>1 DEF Stream
<1>3. PICK r : r = MaybeDisposed(strs, n, members)[m]
  OBVIOUS
<1>4. \/ r = strs[m]
      \/ m = n /\ members = {} /\ strs[m].interests = {} /\ strs[m].dispose = "no" /\ r = [strs[m] EXCEPT !.dispose = "setup"]
  BY <1>3, MaybeDisposedCloses
<1>5. m = n /\ members = {} /\ strs[m].interests = {} => r.dispose # "no"
  BY <1>3, MaybeDisposedCloses
<1>6. r.interests = strs[m].interests /\ (r.dispose = "no" => strs[m].dispose = "no")
  BY <1>2, <1>4
<1> QED
  BY <1>3, <1>5, <1>6

(* Who leaves was wanted by nobody else, or begins the disposal.             *)
LEMMA LeavingWanted ==
  ASSUME Typed, Wanted, NEW s \in Sessions, task[s] = Idle, NEW command, NEW next, Leave(s, command, next)
  PROVE  Wanted'
<1> USE DEF Typed
<1>1. /\ marker' = [marker EXCEPT ![s] = NoStream]
      /\ streams' = MaybeDisposed(streams, marker[s], Members(marker[s]) \ {s})
      /\ \A t \in Sessions \ {s} : task'[t] = task[t]
  BY DEF Leave, Placed
<1>2. \A t \in Sessions : marker'[t] = IF t = s THEN NoStream ELSE marker[t]
  BY <1>1 DEF Placed
<1>3. \A n \in StreamIds : /\ streams'[n].interests = streams[n].interests
                           /\ streams'[n].dispose = "no" =>
                                streams[n].dispose = "no"
                                /\ (n = marker[s] => Members(n) \ {s} # {} \/ streams[n].interests # {})
  BY <1>1, DisposedUnwanted DEF Streamed
<1>4. \A t \in Sessions : task'[t] # Idle => marker'[t] = NoStream
  BY <1>1, <1>2 DEF Wanted
<1>5. \A t \in Sessions, n \in StreamIds :
          t \in streams'[n].interests => task'[t].stage = "setup" /\ task'[t].stream = n
  <2>1. task[s].stage = "idle"
    BY DEF Idle
  <2>2. \A t \in Sessions, n \in StreamIds : t \in streams[n].interests => task[t].stage = "setup" /\ task[t].stream = n /\ t # s
    BY <2>1 DEF Wanted
  <2> QED
    BY <1>1, <1>3, <2>2
<1>6. ASSUME NEW n \in StreamIds, streams'[n].dispose = "no" PROVE Wants(n)'
  <2>1. \A t \in Sessions : t # s /\ marker[t] = n => marker'[t] = n
    BY <1>2
  <2>2. CASE streams[n].interests # {}
    BY <1>3, <2>2 DEF Wants
  <2>3. CASE \E t \in Sessions : task[t].stage = "got" /\ task[t].stream = n
    BY <1>1, <2>3 DEF Wants, Idle
  <2>4. CASE Members(n) # {} /\ streams[n].interests = {}
    <3>1. Members(n) \ {s} # {}
      BY <1>3, <1>6, <2>4 DEF Members
    <3> QED
      BY <2>1, <3>1 DEF Wants, Members
  <2> QED
    BY <1>3, <1>6, <2>2, <2>3, <2>4 DEF Wanted, Wants
<1> QED
  BY <1>4, <1>5, <1>6 DEF Wanted

(* A session whose subscription comes to nothing leaves a stream that others   *)
(* want, or that is being disposed of.                                       *)
LEMMA GivingUpWanted ==
  ASSUME Typed, Wanted, NEW s \in Sessions, task[s].stage \in {"got", "setup"},
         NEW strs \in [StreamIds -> StreamRecords],
         \A m \in StreamIds : /\ strs[m].dispose = streams[m].dispose
                              /\ strs[m].interests = streams[m].interests \ {s},
         GiveUp(s, task[s].stream, strs), UNCHANGED marker
  PROVE  Wanted'
<1> USE DEF Typed
<1> DEFINE n == task[s].stream
<1>0. n \in StreamIds /\ marker[s] = NoStream
  BY DEF Placed, Wanted, Idle
<1>1. streams' = MaybeDisposed(strs, n, Members(n)) /\ \A t \in Sessions \ {s} : task'[t] = task[t]
  BY DEF GiveUp, Placed
<1>2. \A m \in StreamIds : /\ streams'[m].interests = strs[m].interests
                           /\ streams'[m].dispose = "no" =>
                                strs[m].dispose = "no" /\ (m = n => Members(m) # {} \/ strs[m].interests # {})
  BY <1>1, DisposedUnwanted
<1>3. \A t \in Sessions : task'[t] # Idle => marker'[t] = NoStream
  BY <1>0, <1>1 DEF Wanted
<1>4. \A t \in Sessions, m \in StreamIds :
          t \in streams'[m].interests => task'[t].stage = "setup" /\ task'[t].stream = m
  BY <1>1, <1>2 DEF Wanted
<1>5. ASSUME NEW m \in StreamIds, streams'[m].dispose = "no" PROVE Wants(m)'
  <2>1. CASE m = n
    BY <1>2, <1>5, <2>1 DEF Wants, Members
  <2>2. CASE m # n
    <3>1. s \notin streams[m].interests
      BY <2>2 DEF Wanted
    <3>2. streams'[m].interests = streams[m].interests /\ streams[m].dispose = "no"
      <4>1. streams[m].interests \ {s} = streams[m].interests
        BY <3>1
      <4> QED
        BY <1>2, <1>5, <4>1
    <3>3. Wants(m)
      BY <3>2 DEF Wanted
    <3> QED
      BY <1>1, <2>2, <3>2, <3>3 DEF Wants, Members
  <2> QED
    BY <2>1, <2>2
<1> QED
  BY <1>3, <1>4, <1>5 DEF Wanted

(* Commands and sessions that close leave no stream behind that nobody wants. *)
LEMMA CommandsWanted == ASSUME Typed, OneOpen, Wanted, NEW s \in Sessions, CommandStep(s) PROVE Wanted'
<1> USE DEF Typed
<1>0. NoStream \notin StreamIds /\ streams \in [StreamIds -> StreamRecords]
      /\ \A n \in StreamIds : streams[n] \in Stream
  BY DEF NoStream, StreamIds, Streamed, StreamRecords
<1>1. CASE Subscribe(s) \/ Unsubscribe(s)
  BY <1>1, LeavingWanted DEF Subscribe, Unsubscribe
<1>2. CASE Detached(s) \/ Undone(s)
  <2>1. /\ UNCHANGED <<streams, marker>> /\ task[s].stage \in {"detach", "undo"}
        /\ \A t \in Sessions \ {s} : task'[t] = task[t]
    BY <1>2 DEF Detached, Undone, Placed
  <2>2. \A t \in Sessions : task[t].stage \in {"got", "setup"} => t # s
    BY <2>1
  <2>3. marker[s] = NoStream
    BY <2>1 DEF Wanted, Idle
  <2> QED
    BY <2>1, <2>2, <2>3 DEF Wanted, Wants, Members
<1>3. CASE Got(s)
  <2>1. UNCHANGED marker /\ task[s].stage = "got" /\ task[s].stream \in StreamIds /\ marker[s] = NoStream
    BY <1>3 DEF Got, Placed, Wanted, Idle
  <2>2. \A n \in StreamIds : s \notin streams[n].interests
    BY <2>1 DEF Wanted
  <2>3. CASE s \in up
    <3>1. /\ streams' = [streams EXCEPT ![task[s].stream].interests = streams[task[s].stream].interests \cup {s}]
          /\ task' = [task EXCEPT ![s].stage = "setup"]
      BY <1>3, <2>3 DEF Got
    <3>2. \A n \in StreamIds : /\ streams'[n].dispose = streams[n].dispose
                               /\ streams'[n].interests = IF n = task[s].stream THEN streams[n].interests \cup {s}
                                                          ELSE streams[n].interests
      BY <1>0, <2>1, <3>1 DEF Stream
    <3>3. /\ task'[s].stage = "setup" /\ task'[s].stream = task[s].stream
          /\ \A t \in Sessions \ {s} : task'[t] = task[t]
      BY <3>1 DEF Placed, Task
    <3>4. \A t \in Sessions : task'[t] # Idle => marker'[t] = NoStream
      BY <2>1, <3>3 DEF Wanted
    <3>5. \A t \in Sessions, n \in StreamIds :
              t \in streams'[n].interests => task'[t].stage = "setup" /\ task'[t].stream = n
      <4>1. \A t \in Sessions, n \in StreamIds : t \in streams'[n].interests =>
               (t = s /\ n = task[s].stream) \/ (t # s /\ t \in streams[n].interests)
        BY <2>2, <3>2
      <4>2. \A t \in Sessions, n \in StreamIds : t \in streams[n].interests => task[t].stage = "setup" /\ task[t].stream = n
        BY DEF Wanted
      <4> QED
        BY <3>3, <4>1, <4>2
    <3>6. ASSUME NEW n \in StreamIds, streams'[n].dispose = "no" PROVE Wants(n)'
      <4>1. CASE n = task[s].stream
        BY <3>2, <4>1 DEF Wants
      <4>2. CASE n # task[s].stream
        <5>1. Wants(n) /\ streams'[n].interests = streams[n].interests
          BY <3>2, <3>6, <4>2 DEF Wanted
        <5> QED
          BY <2>1, <3>3, <4>2, <5>1 DEF Wants, Members
      <4> QED
        BY <4>1, <4>2
    <3> QED
      BY <3>4, <3>5, <3>6 DEF Wanted
  <2>4. CASE s \notin up
    <3>1. GiveUp(s, task[s].stream, streams)
      BY <1>3, <2>4 DEF Got
    <3>2. \A m \in StreamIds : streams[m].interests = streams[m].interests \ {s}
      BY <2>2
    <3> QED
      BY <1>0, <2>1, <3>1, <3>2, GivingUpWanted
  <2> QED
    BY <2>3, <2>4
<1>4. CASE Join(s)
  <2> DEFINE n == task[s].stream
             strs == [streams EXCEPT ![n].interests = streams[n].interests \ {s}]
  <2>1. task[s].stage = "setup" /\ n \in StreamIds /\ marker[s] = NoStream
    BY <1>4 DEF Join, Placed, Wanted, Idle
  <2>2. \A m \in StreamIds : m # n => s \notin streams[m].interests
    BY <2>1 DEF Wanted
  <2>3. /\ strs \in [StreamIds -> StreamRecords]
        /\ \A m \in StreamIds : strs[m].dispose = streams[m].dispose /\ strs[m].interests = streams[m].interests \ {s}
    <3>1. [streams[n] EXCEPT !.interests = streams[n].interests \ {s}] \in StreamRecords
      BY <1>0, <2>1 DEF StreamRecords, Stream
    <3>2. \A m \in StreamIds : m # n => streams[m].interests = streams[m].interests \ {s}
      BY <2>2
    <3> QED
      BY <1>0, <2>1, <3>1, <3>2 DEF Stream
  <2>4. CASE s \in up /\ streams[n].setup = "ready" /\ Cardinality(Members(n)) < MaxMembers
    <3>1. streams' = strs /\ marker' = [marker EXCEPT ![s] = n] /\ task' = [task EXCEPT ![s] = Idle]
      BY <1>4, <2>4 DEF Join
    <3>2. /\ task'[s] = Idle /\ \A t \in Sessions \ {s} : task'[t] = task[t]
          /\ marker'[s] = n /\ \A t \in Sessions \ {s} : marker'[t] = marker[t]
      BY <3>1 DEF Placed
    <3> HIDE DEF n, strs
    <3>3. \A t \in Sessions : task'[t] # Idle => marker'[t] = NoStream
      BY <3>2 DEF Wanted
    <3>4. \A t \in Sessions, m \in StreamIds :
              t \in streams'[m].interests => task'[t].stage = "setup" /\ task'[t].stream = m
      BY <2>3, <3>1, <3>2 DEF Wanted
    <3>5. ASSUME NEW m \in StreamIds, streams'[m].dispose = "no" PROVE Wants(m)'
      <4>1. CASE m = n
        BY <3>2, <4>1 DEF Wants, Members
      <4>2. CASE m # n
        <5>0. streams[m].interests \ {s} = streams[m].interests
          BY <2>2, <4>2
        <5>1. Wants(m) /\ streams'[m].interests = streams[m].interests
          BY <2>3, <3>1, <3>5, <5>0 DEF Wanted
        <5>2. \A t \in Sessions : marker[t] = m => marker'[t] = m
          BY <1>0, <2>1, <3>2
        <5> QED
          BY <2>1, <3>2, <5>1, <5>2 DEF Wants, Members
      <4> QED
        BY <4>1, <4>2
    <3> QED
      BY <3>3, <3>4, <3>5 DEF Wanted
  <2>5. CASE ~(s \in up /\ streams[n].setup = "ready" /\ Cardinality(Members(n)) < MaxMembers)
    <3>1. GiveUp(s, n, strs) /\ UNCHANGED marker
      BY <1>4, <2>5 DEF Join
    <3> HIDE DEF strs
    <3> QED
      BY <2>1, <2>3, <3>1, GivingUpWanted
  <2> QED
    BY <2>4, <2>5
<1>5. CASE Connect(s)
  BY <1>5 DEF Connect, Wanted, Wants, Members
<1>6. CASE Close(s)
  <2> DEFINE without == [n \in StreamIds |-> [streams[n] EXCEPT
                           !.interests = IF n = current THEN streams[n].interests \ {s} ELSE streams[n].interests]]
             left == MaybeDisposed(without, marker[s], Members(marker[s]) \ {s})
  <2>1. /\ marker' = [marker EXCEPT ![s] = NoStream] /\ UNCHANGED task
        /\ streams' = MaybeDisposed(left, current, Members(current) \ {s})
    BY <1>6 DEF Close
  <2>2. /\ without \in [StreamIds -> StreamRecords]
        /\ \A n \in StreamIds : /\ without[n].dispose = streams[n].dispose
                                /\ without[n].interests = IF n = current THEN streams[n].interests \ {s}
                                                          ELSE streams[n].interests
    <3>1. \A n \in StreamIds : [streams[n] EXCEPT !.interests =
                                  IF n = current THEN streams[n].interests \ {s} ELSE streams[n].interests] \in StreamRecords
      BY <1>0 DEF StreamRecords, Stream
    <3> QED
      BY <1>0, <3>1 DEF Stream
  <2> HIDE DEF without
  <2>3. left \in [StreamIds -> StreamRecords]
    BY <2>2, MaybeDisposedCloses
  <2>4. \A n \in StreamIds : /\ left[n].interests = without[n].interests
                             /\ left[n].dispose = "no" => without[n].dispose = "no"
    BY <2>2, DisposedUnwanted
  <2> HIDE DEF left
  <2>5. \A n \in StreamIds : /\ streams'[n].interests = left[n].interests
                             /\ streams'[n].dispose = "no" =>
                                  left[n].dispose = "no" /\ (n = current => Members(n) \ {s} # {} \/ left[n].interests # {})
    BY <2>1, <2>3, DisposedUnwanted
  <2>6. \A t \in Sessions : marker'[t] = IF t = s THEN NoStream ELSE marker[t]
    BY <2>1 DEF Placed
  <2>7. \A t \in Sessions : task'[t] # Idle => marker'[t] = NoStream
    BY <2>1, <2>6 DEF Wanted
  <2>8. \A t \in Sessions, n \in StreamIds :
            t \in streams'[n].interests => task'[t].stage = "setup" /\ task'[t].stream = n
    <3>1. \A t \in Sessions, n \in StreamIds : t \in streams'[n].interests => t \in streams[n].interests
      <4>1. \A n \in StreamIds : streams'[n].interests = without[n].interests
        BY <2>4, <2>5
      <4> QED
        BY <2>2, <4>1
    <3>2. \A t \in Sessions, n \in StreamIds : t \in streams[n].interests => task[t].stage = "setup" /\ task[t].stream = n
      BY DEF Wanted
    <3> QED
      BY <2>1, <3>1, <3>2
  <2>9. ASSUME NEW n \in StreamIds, streams'[n].dispose = "no" PROVE Wants(n)'
    <3>1. n = current
      BY <2>2, <2>4, <2>5, <2>9 DEF OneOpen
    <3>2. \A t \in Sessions : t # s /\ marker[t] = n => marker'[t] = n
      BY <2>6
    <3> QED
      BY <2>5, <2>9, <3>1, <3>2 DEF Wants, Members
  <2> QED
    BY <2>7, <2>8, <2>9 DEF Wanted
<1> QED
  BY <1>1, <1>2, <1>3, <1>4, <1>5, <1>6 DEF CommandStep

(* Nor does any other step.                                                  *)
LEMMA NextWanted == ASSUME Typed, OneOpen, Wanted, Next PROVE Wanted'
<1> USE DEF Typed
<1>1. ASSUME NEW s \in Sessions, CommandStep(s) PROVE Wanted'
  BY <1>1, CommandsWanted
<1>2. ASSUME NEW s \in Sessions, FindStream(s) \/ TakeAfterDisposal(s) PROVE Wanted'
  <2>1. /\ UNCHANGED marker /\ task[s].stage \in {"find", "await"}
        /\ \/ \E n \in StreamIds : Started(n, s)
           \/ UNCHANGED streams /\ \E t : task' = [task EXCEPT ![s] = t]
    BY <1>2, StreamFound
  <2>2. /\ \A t \in Sessions : task[t].stage \in {"got", "setup"} => t # s
        /\ marker[s] = NoStream /\ \A t \in Sessions \ {s} : task'[t] = task[t]
    <3>1. task[s] # Idle
      BY <2>1 DEF Idle
    <3>2. \E t : task' = [task EXCEPT ![s] = t]
      BY <2>1 DEF Started
    <3> QED
      BY <2>1, <3>1, <3>2 DEF Wanted, Placed
  <2>3. CASE UNCHANGED streams
    BY <2>1, <2>2, <2>3 DEF Wanted, Wants, Members
  <2>4. ASSUME NEW n \in StreamIds, Started(n, s) PROVE Wanted'
    <3>1. /\ streams'[n].interests = {} /\ \A m \in StreamIds \ {n} : streams'[m] = streams[m]
          /\ task'[s].stage = "got" /\ task'[s].stream = n
      BY <2>4 DEF Started, Unused, Placed, Task
    <3> QED
      BY <2>1, <2>2, <3>1 DEF Wanted, Wants, Members
  <2> QED
    BY <2>1, <2>3, <2>4
<1>3. CASE ReadEvent
  <2>1. UNCHANGED <<task, marker>> /\ \A n \in StreamIds : StagesKept(n)
    BY <1>3, EventPassed
  <2> QED
    BY <2>1, WantedStays DEF StagesKept
<1>4. CASE Aside /\ FrameTurn /\ UNCHANGED <<streams, current>>
  BY <1>4, WantedStays DEF Aside
<1>5. ASSUME Aside, NEW n \in StreamIds, SetupStep(n) \/ AskStep(n) PROVE Wanted'
  <2>1. /\ \A m \in StreamIds \ {n} : streams'[m] = streams[m]
        /\ streams'[n].interests = streams[n].interests /\ streams'[n].dispose \in {streams[n].dispose, "unsubscribe"}
    BY <1>5 DEF SetupStep, SetupMoves, AskStep, DisposalAsks
  <2> QED
    BY <1>5, <2>1, WantedStays DEF Aside
<1>6. ASSUME Aside, NEW n \in StreamIds, EndStep(n) PROVE Wanted'
  <2>1. /\ \A m \in StreamIds \ {n} : streams'[m] = streams[m]
        /\ streams'[n].interests \in {streams[n].interests, {}} /\ streams'[n].dispose = "done"
    BY <1>6 DEF EndStep, Ends, Unused
  <2> QED
    BY <1>6, <2>1, WantedStays DEF Aside
<1>7. CASE Aside /\ BreakStep
  <2>1. \A n \in StreamIds : /\ streams'[n].interests = streams[n].interests
                             /\ streams'[n].dispose = "no" => streams[n].dispose = "no"
    BY <1>7 DEF BreakStep, BrokenOff
  <2> QED
    BY <1>7, <2>1, WantedStays DEF Aside
<1> QED
  BY <1>1, <1>2, <1>3, <1>4, <1>5, <1>6, <1>7, StepsOfStreams

-----------------------------------------------------------------------------
(* A broker that has the terminal no more refuses subscriptions and observes    *)
(* nobody, and only such a one refuses.                                      *)
Gone == ~alive => \A d \in Devices : observer[d] = "none"
Refusals == \A f \in Range(toMain) \cap Answer : f.kind = "subscribed" /\ ~f.ok => ~alive

(* A terminal that has gone does not come back.                              *)
LEMMA GoneStaysGone == ASSUME Next, ~alive PROVE ~alive'
  BY DEF Next, GatewayStep, BrokerStep, ReadFrame, Phone, Fault, Detached, FindStream, TakeAfterDisposal, Got, Join,
         Undone, SetupContinues, DisposeContinues, BrokerSubscribes, BrokerUnsubscribes, ReadEvent, ReadSubscribed,
         ReadUnsubscribed, Subscribe, Unsubscribe, Close, Connect, Produce, TerminalGoes, Break, TimeOut

(* A refusal on its way was true when it was sent, and stays so.             *)
LEMMA NextRefusals == ASSUME Typed, Refusals, Next PROVE Refusals'
<1> SUFFICES ASSUME NEW f \in Range(toMain'), f \in Answer, f.kind = "subscribed", ~f.ok PROVE ~alive'
  BY DEF Refusals
<1>1. CASE f \in Range(toMain)
  BY <1>1, GoneStaysGone DEF Refusals
<1>2. CASE NewFrame(f)
  <2>1. f.ok = alive
    BY <1>2, EventsAreNoAnswers DEF NewFrame
  <2> QED
    BY <2>1, GoneStaysGone
<1> QED
  BY <1>1, <1>2, FramesArrive

(* Nobody is observed at a broker that has the terminal no more.             *)
LEMMA NextGone == ASSUME Typed, Gone, Next PROVE Gone'
<1>1. CASE UNCHANGED <<alive, observer>>
  BY <1>1 DEF Gone
<1>2. CASE GatewayStep \/ ReadFrame \/ Phone
  BY <1>1, <1>2
  DEF GatewayStep, ReadFrame, Phone, Detached, FindStream, TakeAfterDisposal, Got, Join, Undone, SetupContinues,
      DisposeContinues, ReadEvent, ReadSubscribed, ReadUnsubscribed, Subscribe, Unsubscribe, Close, Connect
<1>3. CASE BrokerSubscribes
  <2>1. UNCHANGED alive /\ (~alive => observer' = [observer EXCEPT ![Head(toBroker).device] = observer[Head(toBroker).device]])
    BY <1>3 DEF BrokerSubscribes
  <2> QED
    BY <2>1 DEF Gone, Typed, Brokered
<1>4. CASE BrokerUnsubscribes
  BY <1>4 DEF BrokerUnsubscribes, Gone, Typed, Brokered
<1>5. CASE Produce
  BY <1>5 DEF Produce, Gone
<1>6. CASE TerminalGoes \/ Break
  BY <1>6 DEF TerminalGoes, Break, Gone
<1>7. ASSUME NEW n \in StreamIds, TimeOut(n) PROVE Gone'
  BY <1>1, <1>7 DEF TimeOut
<1> QED
  BY <1>2, <1>3, <1>4, <1>5, <1>6, <1>7 DEF Next, BrokerStep, Fault

(* Unless a request was given up, there is one request or answer under way at  *)
(* most, which the stream of the terminal waits for, and its phone is the only *)
(* one observed, if it has been asked for and not yet given back.             *)
Pertains(n, kind) ==
    /\ n \in StreamIds /\ n = current
    /\ IF kind \in {"subscribe", "subscribed"} THEN streams[n].setup = "asking" ELSE Unsubscribing(n)
Watched(n) == \/ streams[n].setup \in {"answered", "ready"} /\ streams[n].dispose # "unsubscribe"
              \/ streams[n].setup = "asking" /\ toBroker = <<>>
              \/ Unsubscribing(n) /\ toBroker # <<>>
Asked == \A a \in Range(toBroker) : Pertains(a.stream, a.ask) /\ a.device = streams[a.stream].device
Answered == \A f \in Range(toMain) \cap Answer : toBroker = <<>> /\ Pertains(f.stream, f.kind)
OneAnswer == \A i, j \in 1 .. Len(toMain) : toMain[i] \in Answer /\ toMain[j] \in Answer => i = j
Observed == \A d \in Devices : observer[d] # "none" =>
                current \in StreamIds /\ d = streams[current].device /\ Watched(current)
Alone == Asked /\ Len(toBroker) <= 1 /\ Answered /\ OneAnswer /\ Observed
Sole == faults.timeouts = 0 => Alone

(* The first frame is read: if it was an answer, it was the only one.          *)
LEMMA AnswerRead ==
  ASSUME NEW S, toMain \in Seq(S), toMain # <<>>, toMain' = Tail(toMain), OneAnswer
  PROVE  /\ OneAnswer' /\ Range(toMain') \subseteq Range(toMain)
         /\ Head(toMain) \in Answer => Range(toMain') \cap Answer = {}
<1>1. /\ toMain' \in Seq(S) /\ Len(toMain) \in Nat \ {0} /\ Len(toMain') = Len(toMain) - 1
      /\ \A i \in 1 .. Len(toMain') : i + 1 \in 1 .. Len(toMain) /\ toMain'[i] = toMain[i + 1]
  BY HeadTailProperties
<1>2. OneAnswer'
  BY <1>1 DEF OneAnswer
<1>3. Range(toMain) = {Head(toMain)} \cup Range(toMain')
  BY QueueTail
<1>4. ASSUME Head(toMain) \in Answer, NEW f \in Range(toMain'), f \in Answer PROVE FALSE
  <2>1. PICK i \in 1 .. Len(toMain') : f = toMain'[i]
    BY <1>1 DEF Range
  <2>2. toMain[1] \in Answer /\ toMain[i + 1] \in Answer /\ 1 \in 1 .. Len(toMain) /\ i + 1 # 1
    BY <1>1, <1>4, <2>1
  <2> QED
    BY <1>1, <2>2 DEF OneAnswer
<1> QED
  BY <1>2, <1>3, <1>4

(* Events that come are no answers.                                          *)
LEMMA EventsCome ==
  ASSUME toMain \in Seq(Event \cup Answers), NEW new \in Seq(Event), toMain' = toMain \o new, OneAnswer
  PROVE  OneAnswer' /\ \A f \in Range(toMain') \cap Answer : f \in Range(toMain)
<1>1. /\ Len(toMain) \in Nat /\ Len(new) \in Nat /\ Len(toMain') = Len(toMain) + Len(new)
      /\ \A i \in 1 .. Len(toMain) + Len(new) :
            toMain'[i] = IF i <= Len(toMain) THEN toMain[i] ELSE new[i - Len(toMain)]
  BY ConcatProperties
<1>2. \A i \in 1 .. Len(new) : new[i] \in Event
  BY ElementOfSeq
<1>3. ASSUME NEW i \in 1 .. Len(toMain'), toMain'[i] \in Answer
      PROVE  i \in 1 .. Len(toMain) /\ toMain'[i] = toMain[i]
  <2>1. CASE i <= Len(toMain)
    BY <1>1, <2>1
  <2>2. CASE i > Len(toMain)
    <3>1. i - Len(toMain) \in 1 .. Len(new)
      BY <1>1, <2>2
    <3>2. toMain'[i] \in Event
      BY <1>1, <1>2, <2>2, <3>1
    <3> QED
      BY <1>3, <3>2, EventsAreNoAnswers
  <2> QED
    BY <1>1, <2>1, <2>2
<1>4. OneAnswer'
  BY <1>3 DEF OneAnswer
<1>5. ASSUME NEW f \in Range(toMain'), f \in Answer PROVE f \in Range(toMain)
  <2>1. PICK i \in 1 .. Len(toMain') : f = toMain'[i]
    BY <1>1 DEF Range
  <2>2. i \in 1 .. Len(toMain) /\ f = toMain[i]
    BY <1>3, <1>5, <2>1
  <2> QED
    BY <2>2 DEF Range
<1> QED
  BY <1>4, <1>5

(* The answer to the only request.                                           *)
LEMMA AnswerComes ==
  ASSUME NEW S, toMain \in Seq(S), NEW f, toMain' = Append(toMain, f), Range(toMain) \cap Answer = {}
  PROVE  OneAnswer' /\ Range(toMain') \cap Answer \subseteq {f}
<1>1. /\ Len(toMain) \in Nat /\ Len(toMain') = Len(toMain) + 1 /\ toMain'[Len(toMain) + 1] = f
      /\ \A i \in 1 .. Len(toMain) : toMain'[i] = toMain[i] /\ toMain[i] \in Range(toMain)
  BY AppendProperties DEF Range
<1>2. \A i \in 1 .. Len(toMain') : toMain'[i] \in Answer => i = Len(toMain) + 1
  BY <1>1
<1>3. Range(toMain') = Range(toMain) \cup {f}
  BY QueueAppend
<1> QED
  BY <1>2, <1>3 DEF OneAnswer

(* A step that asks nothing, answers nothing and leaves the stages alone.     *)
LEMMA AloneStays ==
  ASSUME Streamed, Alone, UNCHANGED <<current, toBroker>>,
         \A n \in StreamIds : /\ streams'[n].setup = streams[n].setup /\ streams'[n].device = streams[n].device
                              /\ streams'[n].dispose = "unsubscribe" <=> streams[n].dispose = "unsubscribe",
         \A d \in Devices : observer'[d] # "none" => observer[d] # "none",
         \A f \in Range(toMain') \cap Answer : f \in Range(toMain),
         OneAnswer'
  PROVE  Alone'
<1>1. \A n \in StreamIds : /\ Unsubscribing(n)' <=> Unsubscribing(n)
                           /\ Watched(n)' <=> Watched(n)
  BY DEF Unsubscribing, Watched
<1>2. \A n, kind : Pertains(n, kind) => Pertains(n, kind)'
  BY <1>1 DEF Pertains
<1>3. Asked'
  BY <1>2 DEF Alone, Asked, Pertains
<1>4. Answered'
  BY <1>2 DEF Alone, Answered
<1>5. Observed'
  BY <1>1 DEF Alone, Observed
<1> QED
  BY <1>3, <1>4, <1>5 DEF Alone

(* With nothing on its way, it remains to be seen who is observed.            *)
LEMMA NothingAsked ==
  ASSUME toBroker' = <<>>, Range(toMain') \cap Answer = {}, Observed',
         NEW S, toMain' \in Seq(S)
  PROVE  Alone'
<1>1. \A i \in 1 .. Len(toMain') : toMain'[i] \in Range(toMain')
  BY LenProperties DEF Range
<1>2. OneAnswer'
  BY <1>1 DEF OneAnswer
<1>3. Asked' /\ Answered' /\ Len(toBroker') <= 1
  BY QueueEmpty DEF Asked, Answered
<1> QED
  BY <1>2, <1>3 DEF Alone

(* With one request on its way, it has to be of the stream that waits for it. *)
LEMMA OneAsked ==
  ASSUME toBroker = <<>>, NEW ask, toBroker' = Append(toBroker, ask), Range(toMain') \cap Answer = {},
         Pertains(ask.stream, ask.ask)', ask.device = streams'[ask.stream].device, Observed',
         NEW S, toMain' \in Seq(S)
  PROVE  Alone'
<1>1. \A i \in 1 .. Len(toMain') : toMain'[i] \in Range(toMain')
  BY LenProperties DEF Range
<1>2. OneAnswer' /\ Answered'
  BY <1>1 DEF OneAnswer, Answered
<1>3. <<>> \in Seq({ask}) /\ Len(<<>>) = 0
  OBVIOUS
<1>4. Len(toBroker') <= 1 /\ Range(toBroker') = {ask}
  <2>1. Len(Append(<<>>, ask)) = 1
    BY <1>3, AppendProperties
  <2>2. Range(Append(<<>>, ask)) = Range(<<>>) \cup {ask}
    BY <1>3, QueueAppend
  <2> QED
    BY <2>1, <2>2, QueueEmpty
<1>5. Asked'
  BY <1>4 DEF Asked
<1> QED
  BY <1>2, <1>4, <1>5 DEF Alone

(* Before its stream asks for it or has the answer, nothing is on its way.    *)
LEMMA NothingUnderWay ==
  ASSUME Typed, Alone,
         \A n \in StreamIds : n = current => streams[n].setup # "asking" /\ ~Unsubscribing(n)
  PROVE  toBroker = <<>> /\ Range(toMain) \cap Answer = {}
<1>1. \A n, kind : ~Pertains(n, kind)
  BY DEF Pertains
<1>2. Range(toBroker) = {} /\ Range(toMain) \cap Answer = {}
  BY <1>1 DEF Alone, Asked, Answered
<1>3. toBroker = <<>>
  <2> SUFFICES ASSUME toBroker # <<>> PROVE FALSE
    OBVIOUS
  <2> QED
    BY <1>2, QueueTail DEF Typed, Brokered
<1> QED
  BY <1>2, <1>3

(* The broker answers the only request there is.                             *)
LEMMA BrokerSole == ASSUME Typed, Alone, BrokerStep PROVE Alone'
<1> USE DEF Typed
<1>0. toBroker \in Seq(Ask) /\ toMain \in Seq(Event \cup Answers)
  BY DEF Brokered
<1>1. PICK ask : ask = Head(toBroker)
  OBVIOUS
<1>2. /\ toBroker # <<>> /\ toBroker' = Tail(toBroker) /\ UNCHANGED <<streams, current>>
      /\ ask.ask = "subscribe" \/ ask.ask = "unsubscribe"
      /\ ask \in Ask /\ ask \in Range(toBroker)
  BY <1>0, <1>1, QueueTail, HeadTailProperties DEF BrokerStep, BrokerSubscribes, BrokerUnsubscribes
<1>3. Range(toMain) \cap Answer = {}
  BY <1>2 DEF Alone, Answered
<1>4. toBroker' = <<>>
  <2>1. Len(toBroker') = Len(toBroker) - 1 /\ Len(toBroker) \in Nat /\ toBroker' \in Seq(Ask)
    BY <1>0, <1>2, HeadTailProperties, LenProperties
  <2>2. Len(toBroker') = 0
    BY <2>1, LenProperties DEF Alone
  <2> QED
    BY <2>1, <2>2, EmptySeq
<1>5. /\ ask.stream \in StreamIds /\ ask.stream = current /\ ask.device = streams[current].device /\ ask.device \in Devices
      /\ IF ask.ask = "subscribe" THEN streams[current].setup = "asking" ELSE Unsubscribing(current)
  BY <1>2 DEF Alone, Asked, Pertains, Ask
<1>6. PICK f : /\ toMain' = Append(toMain, f) /\ f.stream = current
               /\ f.kind = IF ask.ask = "subscribe" THEN "subscribed" ELSE "unsubscribed"
  BY <1>1, <1>5 DEF BrokerStep, BrokerSubscribes, BrokerUnsubscribes
<1>7. OneAnswer' /\ Range(toMain') \cap Answer \subseteq {f}
  BY <1>0, <1>3, <1>6, AnswerComes
<1>8. Pertains(f.stream, f.kind)'
  BY <1>2, <1>5, <1>6 DEF Pertains, Unsubscribing
<1>9. Answered'
  BY <1>4, <1>7, <1>8 DEF Answered
<1>10. Asked' /\ Len(toBroker') <= 1
  BY <1>4, QueueEmpty DEF Asked
<1>11. streams[current] \in StreamRecords
  BY <1>5 DEF Streamed
<1>12. Observed'
  <2>1. CASE ask.ask = "subscribe"
    <3>1. \A d \in Devices : observer[d] = "none"
      BY <1>2, <1>5, <1>11, <2>1 DEF Alone, Observed, Watched, Unsubscribing, StreamRecords
    <3>2. \A d \in Devices : observer'[d] # "none" => d = ask.device
      BY <1>1, <1>5, <2>1, <3>1 DEF BrokerStep, BrokerSubscribes, BrokerUnsubscribes, Brokered
    <3> QED
      BY <1>2, <1>4, <1>5, <2>1, <3>2 DEF Observed, Watched
  <2>2. CASE ask.ask = "unsubscribe"
    <3>1. \A d \in Devices : observer[d] # "none" => d = ask.device
      BY <1>5 DEF Alone, Observed
    <3>2. \A d \in Devices : observer'[d] = "none"
      BY <1>1, <1>5, <2>2, <3>1 DEF BrokerStep, BrokerSubscribes, BrokerUnsubscribes, Brokered
    <3> QED
      BY <3>2 DEF Observed
  <2> QED
    BY <1>2, <2>1, <2>2
<1> QED
  BY <1>7, <1>9, <1>10, <1>12 DEF Alone

(* The only answer is read.                                                  *)
LEMMA AnswersSole == ASSUME Typed, Alone, Refusals, Gone, ReadSubscribed \/ ReadUnsubscribed PROVE Alone'
<1> USE DEF Typed
<1>0. toMain \in Seq(Event \cup Answers)
  BY DEF Brokered
<1>1. PICK f : f = Head(toMain)
  OBVIOUS
<1>2. /\ toMain # <<>> /\ toMain' = Tail(toMain) /\ f \in Answer /\ UNCHANGED <<observer, toBroker>>
      /\ f \in Range(toMain)
  BY <1>0, <1>1, QueueTail DEF ReadSubscribed, ReadUnsubscribed, NextFrame
<1>3. Range(toMain') \cap Answer = {} /\ toMain' \in Seq(Event \cup Answers)
  BY <1>0, <1>1, <1>2, AnswerRead, HeadTailProperties DEF Alone
<1>4. /\ toBroker = <<>> /\ f.stream \in StreamIds /\ f.stream = current
      /\ IF f.kind = "subscribed" THEN streams[current].setup = "asking" ELSE f.kind = "unsubscribed" => Unsubscribing(current)
  BY <1>2 DEF Alone, Answered, Pertains
<1>5. streams[current] \in StreamRecords
  BY <1>4 DEF Streamed
<1>6. CASE ReadSubscribed
  <2>1. /\ f.kind = "subscribed" /\ streams[current].setup = "asking"
        /\ \/ SetupMoves(current, "answered")
           \/ ~f.ok
    BY <1>1, <1>4, <1>6, SubscribedRead DEF ReadSubscribed
  <2>2. CASE SetupMoves(current, "answered")
    <3>1. streams[current].dispose # "unsubscribe"
      BY <1>5, <2>1 DEF StreamRecords
    <3> QED
      BY <1>2, <1>3, <1>4, <2>2, <3>1, NothingAsked DEF SetupMoves, Alone, Observed, Watched
  <2>3. CASE ~f.ok
    <3>1. \A d \in Devices : observer[d] = "none"
      BY <1>2, <2>1, <2>3 DEF Refusals, Gone
    <3> QED
      BY <1>2, <1>3, <1>4, <3>1, NothingAsked DEF Observed
  <2> QED
    BY <2>1, <2>2, <2>3
<1>7. CASE ReadUnsubscribed
  <2>1. Unsubscribing(current)
    BY <1>1, <1>4, <1>7 DEF ReadUnsubscribed
  <2>2. ~Watched(current)
    BY <1>4, <1>5, <2>1 DEF Watched, Unsubscribing, StreamRecords
  <2>3. \A d \in Devices : observer[d] = "none"
    BY <2>2 DEF Alone, Observed
  <2> QED
    BY <1>2, <1>3, <1>4, <2>3, NothingAsked DEF Observed
<1> QED
  BY <1>6, <1>7

(* A stream that overflowed gives its observer back.                         *)
LEMMA SetupSole == ASSUME Typed, OneOpen, Alone, NEW n \in StreamIds, SetupContinues(n) PROVE Alone'
<1> USE DEF Typed
<1>1. /\ streams[n].setup = "answered" /\ UNCHANGED <<observer, toMain>> /\ streams[n] \in StreamRecords
      /\ \/ SetupMoves(n, "ready") /\ UNCHANGED toBroker
         \/ SetupMoves(n, "dropping") /\ toBroker' = Append(toBroker, Follow(n))
  BY SetupGoesOn DEF Streamed
<1>2. n = current /\ streams[n].dispose # "unsubscribe"
  BY <1>1 DEF OneOpen, Settled, StreamRecords
<1>3. toBroker = <<>> /\ Range(toMain) \cap Answer = {} /\ toMain \in Seq(Event \cup Answers)
  BY <1>1, <1>2, NothingUnderWay DEF Unsubscribing, Brokered
<1>4. CASE SetupMoves(n, "ready") /\ UNCHANGED toBroker
  <2>1. Observed'
    BY <1>1, <1>2, <1>4 DEF SetupMoves, Alone, Observed, Watched
  <2> QED
    BY <1>1, <1>3, <1>4, <2>1, NothingAsked
<1>5. CASE SetupMoves(n, "dropping") /\ toBroker' = Append(toBroker, Follow(n))
  <2>1. PICK ask : ask = Follow(n)
    OBVIOUS
  <2>2. toBroker' = Append(toBroker, ask) /\ ask.stream = n /\ ask.ask = "unsubscribe" /\ ask.device = streams'[n].device
    BY <1>5, <2>1 DEF Follow, SetupMoves
  <2>3. Pertains(ask.stream, ask.ask)'
    BY <1>2, <1>5, <2>2 DEF Pertains, Unsubscribing, SetupMoves
  <2>4. toBroker' # <<>>
    BY <1>3, <2>2
  <2>5. Observed'
    BY <1>1, <1>2, <1>5, <2>4 DEF SetupMoves, Alone, Observed, Watched, Unsubscribing
  <2> QED
    BY <1>1, <1>3, <2>2, <2>3, <2>5, OneAsked
<1> QED
  BY <1>1, <1>4, <1>5

(* A disposal asks when nothing else is on its way.                          *)
LEMMA DisposalSole == ASSUME Typed, OneOpen, Alone, NEW n \in StreamIds, DisposeContinues(n) PROVE Alone'
<1> USE DEF Typed
<1>1. /\ streams[n].dispose = "setup" /\ UNCHANGED <<observer, toMain>> /\ streams[n] \in StreamRecords
      /\ DisposalAsks(n) \/ (streams[n].setup = "failed" /\ Ends(n) /\ UNCHANGED toBroker)
  BY DisposalGoesOn DEF Streamed
<1>2. n = current /\ streams[n].setup \in {"ready", "failed"}
  BY <1>1 DEF OneOpen, DisposalAsks
<1>3. toBroker = <<>> /\ Range(toMain) \cap Answer = {} /\ toMain \in Seq(Event \cup Answers)
  BY <1>1, <1>2, NothingUnderWay DEF Unsubscribing, Brokered
<1>4. CASE DisposalAsks(n)
  <2>1. PICK ask : ask = Follow(n)
    OBVIOUS
  <2>2. toBroker' = Append(toBroker, ask) /\ ask.stream = n /\ ask.ask = "unsubscribe" /\ ask.device = streams'[n].device
    BY <1>4, <2>1 DEF Follow, DisposalAsks
  <2>3. Pertains(ask.stream, ask.ask)'
    BY <1>2, <1>4, <2>2 DEF Pertains, Unsubscribing, DisposalAsks
  <2>4. toBroker' # <<>>
    BY <1>3, <2>2
  <2>5. Observed'
    BY <1>1, <1>2, <1>4, <2>4 DEF DisposalAsks, Alone, Observed, Watched, Unsubscribing
  <2> QED
    BY <1>1, <1>3, <2>2, <2>3, <2>5, OneAsked
<1>5. CASE streams[n].setup = "failed" /\ Ends(n) /\ UNCHANGED toBroker
  <2>1. ~Watched(n)
    BY <1>1, <1>5 DEF Watched, Unsubscribing
  <2>2. \A d \in Devices : observer'[d] = "none"
    BY <1>1, <1>2, <2>1 DEF Alone, Observed
  <2> QED
    BY <1>1, <1>3, <1>5, <2>2, NothingAsked DEF Observed
<1> QED
  BY <1>1, <1>4, <1>5

(* A new stream asks when nothing else is on its way.                        *)
LEMMA FindingSole ==
  ASSUME Typed, Alone, NEW s \in Sessions, FindStream(s) \/ TakeAfterDisposal(s)
  PROVE  Alone'
<1> USE DEF Typed
<1>0. NoStream \notin StreamIds
  BY DEF NoStream, StreamIds
<1>1. /\ UNCHANGED <<observer, toMain>>
      /\ \/ UNCHANGED <<streams, current, toBroker>>
         \/ current = NoStream /\ \E n \in StreamIds : Started(n, s)
  BY StreamFound
<1>2. CASE UNCHANGED <<streams, current, toBroker>>
  <2>1. OneAnswer'
    BY <1>1 DEF Alone, OneAnswer
  <2> QED
    BY <1>1, <1>2, <2>1, AloneStays
<1>3. ASSUME current = NoStream, NEW n \in StreamIds, Started(n, s) PROVE Alone'
  <2>1. toBroker = <<>> /\ Range(toMain) \cap Answer = {} /\ toMain \in Seq(Event \cup Answers)
    BY <1>0, <1>3, NothingUnderWay DEF Brokered
  <2>2. PICK ask : ask = [ask |-> "subscribe", stream |-> n, device |-> device[s]]
    OBVIOUS
  <2>3. /\ toBroker' = Append(toBroker, ask) /\ ask.stream = n /\ ask.ask = "subscribe" /\ ask.device = streams'[n].device
        /\ streams'[n].setup = "asking" /\ current' = n
    BY <1>3, <2>2 DEF Started, Unused
  <2>4. Pertains(ask.stream, ask.ask)'
    BY <2>3 DEF Pertains
  <2>5. Observed'
    BY <1>0, <1>1, <1>3 DEF Alone, Observed
  <2> QED
    BY <1>1, <2>1, <2>3, <2>4, <2>5, OneAsked
<1> QED
  BY <1>1, <1>2, <1>3

(* Every step keeps requests and answers alone, until one is given up.       *)
LEMMA NextSole == ASSUME Typed, OneOpen, Refusals, Gone, Sole, Next PROVE Sole'
<1> USE DEF Typed
<1>0. toMain \in Seq(Event \cup Answers) /\ faults \in [breaks : 0 .. MaxWorld, timeouts : 0 .. MaxWorld]
  BY DEF Brokered
<1>1. ASSUME NEW n \in StreamIds, TimeOut(n) PROVE Sole'
  <2>1. faults' = [faults EXCEPT !.timeouts = faults.timeouts + 1]
    BY <1>1 DEF TimeOut
  <2>2. faults'.timeouts # 0
    BY <1>0, <2>1, TerminalStreamsAssumption
  <2> QED
    BY <2>2 DEF Sole
<1>2. CASE Break
  <2>1. toBroker' = <<>> /\ toMain' = <<>> /\ observer' = [d \in Devices |-> "none"]
    BY <1>2 DEF Break
  <2>2. Range(toMain') \cap Answer = {} /\ toMain' \in Seq(Event)
    BY <2>1, QueueEmpty
  <2>3. Observed'
    BY <2>1 DEF Observed
  <2> QED
    BY <2>1, <2>2, <2>3, NothingAsked DEF Sole
<1>3. SUFFICES ASSUME UNCHANGED faults, Alone, ~Break, \A n \in StreamIds : ~TimeOut(n) PROVE Alone'
  BY <1>1, <1>2 DEF Sole, Next, Fault, GatewayStep, BrokerStep, ReadFrame, Phone, Detached, FindStream, TakeAfterDisposal,
     Got, Join, Undone, SetupContinues, DisposeContinues, BrokerSubscribes, BrokerUnsubscribes, ReadEvent,
     ReadSubscribed, ReadUnsubscribed, Subscribe, Unsubscribe, Close, Connect, Produce, TerminalGoes
<1>4. ASSUME NEW s \in Sessions, CommandStep(s) PROVE Alone'
  <2>1. UNCHANGED <<current, observer, toBroker, toMain>> /\ \A n \in StreamIds : Closes(n)
    BY <1>4, CommandsClose
  <2>2. OneAnswer'
    BY <1>3, <2>1 DEF Alone, OneAnswer
  <2> QED
    BY <1>3, <2>1, <2>2, AloneStays DEF Closes
<1>5. CASE ReadEvent
  <2>1. /\ toMain # <<>> /\ toMain' = Tail(toMain) /\ UNCHANGED <<current, observer, toBroker>>
        /\ \A n \in StreamIds : StagesKept(n)
    BY <1>5, EventPassed
  <2>2. OneAnswer' /\ Range(toMain') \subseteq Range(toMain)
    BY <1>0, <1>3, <2>1, AnswerRead DEF Alone
  <2> QED
    BY <1>3, <2>1, <2>2, AloneStays DEF StagesKept
<1>6. CASE Produce
  <2>1. PICK new \in Seq(Events(produced + 1)) : toMain' = toMain \o new
    BY <1>6, ProducedFrames
  <2>2. new \in Seq(Event)
    BY DEF Events
  <2>3. OneAnswer' /\ \A f \in Range(toMain') \cap Answer : f \in Range(toMain)
    BY <1>0, <1>3, <2>1, <2>2, EventsCome DEF Alone
  <2>4. UNCHANGED <<streams, current, toBroker>> /\ \A d \in Devices : observer'[d] # "none" => observer[d] # "none"
    BY <1>6 DEF Produce
  <2> QED
    BY <1>3, <2>3, <2>4, AloneStays
<1>7. CASE TerminalGoes
  <2>1. UNCHANGED <<streams, current, toBroker, toMain>> /\ \A d \in Devices : observer'[d] = "none"
    BY <1>7 DEF TerminalGoes
  <2>2. OneAnswer'
    BY <1>3, <2>1 DEF Alone, OneAnswer
  <2> QED
    BY <1>3, <2>1, <2>2, AloneStays
<1> QED
  BY <1>3, <1>4, <1>5, <1>6, <1>7, FindingSole, BrokerSole, AnswersSole, SetupSole, DisposalSole
  DEF Next, GatewayStep, ReadFrame, Phone, Fault, CommandStep

(* Who is observed, and that nobody is once all have left.                    *)
LEMMA OneIsObserved ==
  ASSUME TypeInv, OneOpen, Belong, UnderWay, Wanted, Sole
  PROVE  OneObserver
<1> SUFFICES ASSUME faults.timeouts = 0
             PROVE  /\ Cardinality({d \in Devices : observer[d] # "none"}) <= 1
                    /\ Quiet /\ (\A s \in up : marker[s] = NoStream)
                          => current = NoStream /\ \A d \in Devices : observer[d] = "none"
  BY DEF OneObserver
<1> USE DEF TypeInv
<1>0. NoStream \notin StreamIds /\ Observed
  BY DEF NoStream, StreamIds, Sole, Alone
<1>1. Cardinality({d \in Devices : observer[d] # "none"}) <= 1
  <2> DEFINE one == {streams[current].device}
  <2>1. {d \in Devices : observer[d] # "none"} \subseteq one
    BY <1>0 DEF Observed
  <2>2. IsFiniteSet(one) /\ Cardinality(one) = 1
    BY FS_Singleton
  <2> HIDE DEF one
  <2>3. Cardinality({d \in Devices : observer[d] # "none"}) <= Cardinality(one)
    BY <2>1, <2>2, FS_Subset
  <2> QED
    BY <2>2, <2>3
<1>2. ASSUME Quiet, \A s \in up : marker[s] = NoStream, current # NoStream PROVE FALSE
  <2>1. current \in StreamIds /\ streams[current].dispose # "done"
    BY <1>2 DEF Streamed, OneOpen
  <2>2. streams[current].dispose = "no"
    BY <1>2, <2>1, NobodyWaits DEF Quiet, NobodyWaitsForNothing, Typed
  <2>3. Wants(current) /\ \A s \in Sessions : task[s].stage = "idle"
    BY <1>2, <2>1, <2>2 DEF Wanted, Quiet, Idle
  <2>4. streams[current].interests = {}
    <3>1. streams[current].interests \subseteq Sessions
      BY <2>1 DEF Streamed, StreamRecords, Stream
    <3> QED
      BY <2>1, <2>3, <3>1 DEF Wanted
  <2>5. Members(current) = {}
    BY <1>0, <1>2, <2>1 DEF Members, Belong
  <2> QED
    BY <2>3, <2>4, <2>5 DEF Wants
<1>3. current = NoStream => \A d \in Devices : observer[d] = "none"
  BY <1>0 DEF Observed
<1> QED
  BY <1>1, <1>2, <1>3

-----------------------------------------------------------------------------
(* What follows the k-th frame on its way for an observer: output, in order,   *)
(* and every chunk from `base` on that has been written.                      *)
For(q, d, i) == q[i] \in Event /\ q[i].device = d
Since(q, d, k, base, top) ==
    /\ \A i \in k + 1 .. Len(q) : For(q, d, i) => q[i].kind = "output"
    /\ \A i, j \in k + 1 .. Len(q) : i < j /\ For(q, d, i) /\ For(q, d, j) => q[i].at <= q[j].at
    /\ \A v \in base + 1 .. top : \E i \in k + 1 .. Len(q) : For(q, d, i) /\ q[i].at = v

(* The first frame is read, which came before.                               *)
LEMMA SinceTail ==
  ASSUME NEW S, NEW q \in Seq(S), NEW k \in 1 .. Len(q), NEW d, NEW base, NEW top, Since(q, d, k, base, top)
  PROVE  Since(Tail(q), d, k - 1, base, top)
<1>1. Len(q) \in Nat /\ k \in Nat /\ k >= 1 /\ k <= Len(q) /\ q # <<>>
  BY LenProperties
<1>2. Len(Tail(q)) = Len(q) - 1 /\ \A i \in 1 .. Len(q) - 1 : Tail(q)[i] = q[i + 1]
  BY <1>1
<1>3. \A i \in k .. Len(q) - 1 : i + 1 \in k + 1 .. Len(q) /\ Tail(q)[i] = q[i + 1]
  BY <1>1, <1>2
<1>4. \A i \in k .. Len(q) - 1 : For(Tail(q), d, i) <=> For(q, d, i + 1)
  BY <1>3 DEF For
<1>5. \A i \in k + 1 .. Len(q) : i - 1 \in k .. Len(q) - 1 /\ (i - 1) + 1 = i
  BY <1>1
<1>6. (k - 1) + 1 = k /\ \A i, j \in k .. Len(q) - 1 : i < j => i + 1 < j + 1
  BY <1>1
<1>7. \A i \in k .. Len(q) - 1 : For(Tail(q), d, i) => Tail(q)[i].kind = "output"
  BY <1>3, <1>4 DEF Since
<1>8. \A i, j \in k .. Len(q) - 1 : i < j /\ For(Tail(q), d, i) /\ For(Tail(q), d, j) => Tail(q)[i].at <= Tail(q)[j].at
  BY <1>3, <1>4, <1>6 DEF Since
<1>9. \A v \in base + 1 .. top : \E i \in k .. Len(q) - 1 : For(Tail(q), d, i) /\ Tail(q)[i].at = v
  <2> SUFFICES ASSUME NEW v \in base + 1 .. top
               PROVE  \E i \in k .. Len(q) - 1 : For(Tail(q), d, i) /\ Tail(q)[i].at = v
    OBVIOUS
  <2>1. PICK i \in k + 1 .. Len(q) : For(q, d, i) /\ q[i].at = v
    BY DEF Since
  <2>2. i - 1 \in k .. Len(q) - 1 /\ Tail(q)[i - 1] = q[i] /\ For(Tail(q), d, i - 1)
    BY <1>3, <1>4, <1>5, <2>1
  <2> QED
    BY <2>1, <2>2
<1> QED
  BY <1>2, <1>6, <1>7, <1>8, <1>9 DEF Since

(* A stream that has the chunks up to `base` reads the next frame: what is for  *)
(* it is output it knows or the next chunk.                                  *)
LEMMA SinceHead ==
  ASSUME NEW q \in Seq(Event \cup Answers), q # <<>>, NEW d, NEW base \in Nat, NEW top \in Nat,
         \A i \in 1 .. Len(q) : q[i] \in Event => q[i].at <= top,
         Since(q, d, 0, base, top)
  PROVE  /\ ~For(q, d, 1) => Since(Tail(q), d, 0, base, top)
         /\ For(q, d, 1) => /\ q[1].kind = "output" /\ q[1].at <= base + 1
                            /\ Since(Tail(q), d, 0, IF q[1].at = base + 1 THEN q[1].at ELSE base, top)
<1> DEFINE upTo == IF For(q, d, 1) /\ q[1].at = base + 1 THEN base + 1 ELSE base
<1>1. Len(q) \in Nat /\ 1 \in 1 .. Len(q)
  BY LenProperties, EmptySeq
<1>2. \A i \in 1 .. Len(q) : For(q, d, i) => q[i].at \in Nat /\ q[i].at <= top
  BY TerminalStreamsAssumption DEF For, Event
<1>3. For(q, d, 1) => q[1].kind = "output"
  BY <1>1 DEF Since
<1>4. For(q, d, 1) => q[1].at <= base + 1
  <2> SUFFICES ASSUME For(q, d, 1), q[1].at > base + 1 PROVE FALSE
    BY <1>1, <1>2
  <2>1. base + 1 \in base + 1 .. top
    BY <1>1, <1>2
  <2>2. PICK i \in 1 .. Len(q) : For(q, d, i) /\ q[i].at = base + 1
    BY <2>1 DEF Since
  <2>3. i # 1 /\ 1 < i
    BY <2>2
  <2>4. q[1].at <= q[i].at
    BY <1>1, <2>2, <2>3 DEF Since
  <2> QED
    BY <1>1, <1>2, <2>2, <2>4
<1>5. Since(q, d, 1, upTo, top)
  <2>1. \A i \in 2 .. Len(q) : i \in 1 .. Len(q)
    BY <1>1
  <2>2. \A v \in upTo + 1 .. top : \E i \in 2 .. Len(q) : For(q, d, i) /\ q[i].at = v
    <3> SUFFICES ASSUME NEW v \in upTo + 1 .. top PROVE \E i \in 2 .. Len(q) : For(q, d, i) /\ q[i].at = v
      OBVIOUS
    <3>1. v \in base + 1 .. top /\ v > upTo
      BY DEF upTo
    <3>2. PICK i \in 1 .. Len(q) : For(q, d, i) /\ q[i].at = v
      BY <3>1 DEF Since
    <3>3. i # 1
      BY <1>2, <1>4, <3>1, <3>2 DEF upTo
    <3> QED
      BY <1>1, <3>2, <3>3
  <2> HIDE DEF upTo
  <2> QED
    BY <2>1, <2>2 DEF Since
<1>6. Since(Tail(q), d, 0, upTo, top)
  <2> HIDE DEF upTo
  <2> QED
    BY <1>1, <1>5, SinceTail
<1> QED
  BY <1>3, <1>4, <1>6 DEF upTo

(* More chunks are known.                                                    *)
LEMMA SinceRaised ==
  ASSUME NEW q, NEW d, NEW k, NEW base \in Nat, NEW higher \in Nat, NEW top \in Nat, base <= higher,
         Since(q, d, k, base, top)
  PROVE  Since(q, d, k, higher, top)
<1>1. \A v \in higher + 1 .. top : v \in base + 1 .. top
  OBVIOUS
<1> QED
  BY <1>1 DEF Since

(* An answer is put behind, which is no event.                               *)
LEMMA SinceAnswered ==
  ASSUME NEW q \in Seq(Event \cup Answers), NEW f \in Answers, NEW k \in 0 .. Len(q), NEW d, NEW base, NEW top,
         Since(q, d, k, base, top)
  PROVE  Since(Append(q, f), d, k, base, top)
<1> DEFINE r == Append(q, f)
<1>1. Len(q) \in Nat /\ Len(r) = Len(q) + 1 /\ r[Len(q) + 1] = f /\ \A i \in 1 .. Len(q) : r[i] = q[i]
  BY LenProperties
<1> HIDE DEF r
<1>2. \A i \in k + 1 .. Len(r) : i = Len(q) + 1 \/ (i \in k + 1 .. Len(q) /\ i \in 1 .. Len(q))
  BY <1>1
<1>3. ~For(r, d, Len(q) + 1)
  BY <1>1, EventsAreNoAnswers DEF For, Answers
<1>4. \A i \in k + 1 .. Len(q) : r[i] = q[i] /\ (For(r, d, i) <=> For(q, d, i)) /\ i \in k + 1 .. Len(r)
  BY <1>1 DEF For
<1>5. \A i \in k + 1 .. Len(r) : For(r, d, i) => i \in k + 1 .. Len(q) /\ For(q, d, i) /\ r[i] = q[i]
  BY <1>2, <1>3, <1>4
<1>6. Since(r, d, k, base, top)
  <2>1. \A i \in k + 1 .. Len(r) : For(r, d, i) => r[i].kind = "output"
    BY <1>5 DEF Since
  <2>2. \A i, j \in k + 1 .. Len(r) : i < j /\ For(r, d, i) /\ For(r, d, j) => r[i].at <= r[j].at
    BY <1>5 DEF Since
  <2>3. \A v \in base + 1 .. top : \E i \in k + 1 .. Len(r) : For(r, d, i) /\ r[i].at = v
    <3> SUFFICES ASSUME NEW v \in base + 1 .. top PROVE \E i \in k + 1 .. Len(r) : For(r, d, i) /\ r[i].at = v
      OBVIOUS
    <3>1. PICK i \in k + 1 .. Len(q) : For(q, d, i) /\ q[i].at = v
      BY DEF Since
    <3> QED
      BY <1>4, <3>1
  <2> QED
    BY <2>1, <2>2, <2>3 DEF Since
<1> QED
  BY <1>6 DEF r

(* Nothing has to follow the last frame.                                     *)
LEMMA SinceLast == ASSUME NEW q, Len(q) \in Nat, NEW d, NEW top \in Nat PROVE Since(q, d, Len(q), top, top)
  BY DEF Since

(* The next chunk is put behind.                                             *)
LEMMA SinceProduced ==
  ASSUME NEW q \in Seq(Event \cup Answers), NEW top \in Nat, NEW new \in Seq(Events(top + 1)),
         NEW k \in 0 .. Len(q), NEW d, NEW base \in Nat,
         \A i \in 1 .. Len(q) : q[i] \in Event => q[i].at <= top,
         \A f \in Range(new) : f.device = d => f.kind = "output",
         \E f \in Range(new) : f.device = d,
         Since(q, d, k, base, top)
  PROVE  Since(q \o new, d, k, base, top + 1)
<1> DEFINE r == q \o new
<1>1. /\ Len(q) \in Nat /\ Len(new) \in Nat /\ Len(r) = Len(q) + Len(new)
      /\ \A i \in 1 .. Len(q) : r[i] = q[i]
      /\ \A i \in 1 .. Len(new) : r[i + Len(q)] = new[i]
  BY LenProperties
<1> HIDE DEF r
<1>2. \A i \in 1 .. Len(new) : new[i] \in Range(new) /\ new[i] \in Event /\ new[i].at = top + 1
  <2>1. DOMAIN new = 1 .. Len(new) /\ \A i \in 1 .. Len(new) : new[i] \in Events(top + 1)
    BY LenProperties, ElementOfSeq
  <2> QED
    BY <2>1 DEF Range, Events
<1>3. \A i \in k + 1 .. Len(r) : \/ i \in k + 1 .. Len(q) /\ i \in 1 .. Len(q)
                                 \/ i - Len(q) \in 1 .. Len(new) /\ (i - Len(q)) + Len(q) = i
  BY <1>1
<1>4. \A i \in k + 1 .. Len(q) : r[i] = q[i] /\ (For(r, d, i) <=> For(q, d, i)) /\ i \in k + 1 .. Len(r)
  BY <1>1 DEF For
<1>5. \A i \in k + 1 .. Len(r) : \/ i \in k + 1 .. Len(q) /\ i \in 1 .. Len(q) /\ r[i] = q[i]
                                 \/ i > Len(q) /\ r[i] \in Range(new) /\ r[i] \in Event /\ r[i].at = top + 1
  <2> SUFFICES ASSUME NEW i \in k + 1 .. Len(r)
               PROVE  \/ i \in k + 1 .. Len(q) /\ i \in 1 .. Len(q) /\ r[i] = q[i]
                      \/ i > Len(q) /\ r[i] \in Range(new) /\ r[i] \in Event /\ r[i].at = top + 1
    OBVIOUS
  <2>1. CASE i \in k + 1 .. Len(q) /\ i \in 1 .. Len(q)
    BY <1>1, <2>1
  <2>2. CASE i - Len(q) \in 1 .. Len(new) /\ (i - Len(q)) + Len(q) = i
    <3>1. r[i] = new[i - Len(q)] /\ i > Len(q)
      BY <1>1, <2>2
    <3> QED
      BY <1>2, <2>2, <3>1
  <2> QED
    BY <1>3, <2>1, <2>2
<1>6. \A i \in k + 1 .. Len(q) : For(q, d, i) => q[i].at \in Nat /\ q[i].at <= top /\ i \in 1 .. Len(q)
  BY <1>1, TerminalStreamsAssumption DEF For, Event
<1>7. \A i \in k + 1 .. Len(r) : For(r, d, i) => r[i].kind = "output"
  <2> SUFFICES ASSUME NEW i \in k + 1 .. Len(r), For(r, d, i) PROVE r[i].kind = "output"
    OBVIOUS
  <2>1. CASE i \in k + 1 .. Len(q)
    BY <1>4, <2>1 DEF Since
  <2>2. CASE r[i] \in Range(new)
    BY <2>2 DEF For
  <2> QED
    BY <1>5, <2>1, <2>2
<1>8. \A i, j \in k + 1 .. Len(r) : i < j /\ For(r, d, i) /\ For(r, d, j) => r[i].at <= r[j].at
  <2> SUFFICES ASSUME NEW i \in k + 1 .. Len(r), NEW j \in k + 1 .. Len(r), i < j, For(r, d, i), For(r, d, j)
               PROVE  r[i].at <= r[j].at
    OBVIOUS
  <2>1. CASE j \in k + 1 .. Len(q)
    <3>1. i \in k + 1 .. Len(q)
      BY <1>1, <2>1
    <3> QED
      BY <1>4, <2>1, <3>1 DEF Since
  <2>2. CASE r[j].at = top + 1
    <3>1. i \in k + 1 .. Len(q) => r[i].at \in Nat /\ r[i].at <= top
      BY <1>4, <1>6
    <3>2. r[i].at = top + 1 \/ i \in k + 1 .. Len(q)
      BY <1>5
    <3> QED
      BY <2>2, <3>1, <3>2
  <2> QED
    BY <1>5, <2>1, <2>2
<1>9. \A v \in base + 1 .. top + 1 : \E i \in k + 1 .. Len(r) : For(r, d, i) /\ r[i].at = v
  <2> SUFFICES ASSUME NEW v \in base + 1 .. top + 1 PROVE \E i \in k + 1 .. Len(r) : For(r, d, i) /\ r[i].at = v
    OBVIOUS
  <2>1. CASE v \in base + 1 .. top
    <3>1. PICK i \in k + 1 .. Len(q) : For(q, d, i) /\ q[i].at = v
      BY <2>1 DEF Since
    <3> QED
      BY <1>4, <3>1
  <2>2. CASE v = top + 1
    <3>1. PICK f \in Range(new) : f.device = d
      OBVIOUS
    <3>2. PICK i \in 1 .. Len(new) : new[i] = f
      BY <3>1, LenProperties DEF Range
    <3>3. i + Len(q) \in k + 1 .. Len(r) /\ r[i + Len(q)] = f
      BY <1>1, <3>2
    <3>4. For(r, d, i + Len(q)) /\ r[i + Len(q)].at = top + 1
      BY <1>2, <3>1, <3>2, <3>3 DEF For
    <3> QED
      BY <2>2, <3>3, <3>4
  <2> QED
    BY <2>1, <2>2
<1>10. Since(r, d, k, base, top + 1)
  BY <1>7, <1>8, <1>9 DEF Since
<1> QED
  BY <1>10 DEF r

(* What one of the sequences holds is in what they are put together to.       *)
LEMMA FlattenHolds ==
  ASSUME NEW S, NEW seqs, Len(seqs) \in Nat, \A k \in 1 .. Len(seqs) : seqs[k] \in Seq(S),
         NEW i \in 1 .. Len(seqs), NEW e \in Range(seqs[i])
  PROVE  e \in Range(FlattenSeq(seqs))
<1>1. PICK flat : /\ FlattenSeq(seqs) = IF Len(seqs) = 0 THEN seqs ELSE flat[Len(seqs)]
                  /\ \A k \in 1 .. Len(seqs) :
                        flat[k] \in Seq(S) /\ flat[k] = IF k = 1 THEN seqs[k] ELSE flat[k - 1] \o seqs[k]
  BY FlattenSteps
<1>2. \A k \in 1 .. Len(seqs) : k # 1 => k - 1 \in 1 .. Len(seqs) /\ Range(flat[k]) = Range(flat[k - 1]) \cup Range(seqs[k])
  <2> SUFFICES ASSUME NEW k \in 1 .. Len(seqs), k # 1
               PROVE  k - 1 \in 1 .. Len(seqs) /\ Range(flat[k]) = Range(flat[k - 1]) \cup Range(seqs[k])
    OBVIOUS
  <2>1. k - 1 \in 1 .. Len(seqs)
    OBVIOUS
  <2>2. flat[k] = flat[k - 1] \o seqs[k] /\ flat[k - 1] \in Seq(S) /\ seqs[k] \in Seq(S)
    BY <1>1, <2>1
  <2> QED
    BY <2>1, <2>2, QueueConcat
<1>3. \A k \in i .. Len(seqs) : e \in Range(flat[k])
  <2> DEFINE wrong == {k \in Nat : k >= i /\ k <= Len(seqs) /\ e \notin Range(flat[k])}
  <2> SUFFICES ASSUME wrong # {} PROVE FALSE
    OBVIOUS
  <2>1. PICK k \in wrong : \A j \in wrong : k <= j
    BY LeastNatural
  <2>2. k \in 1 .. Len(seqs) /\ k >= i /\ e \notin Range(flat[k])
    BY <2>1
  <2>3. CASE k = i
    <3>1. i = 1 => flat[i] = seqs[i]
      BY <1>1
    <3> QED
      BY <1>2, <2>2, <2>3, <3>1
  <2>4. CASE k # i
    <3>1. k # 1 /\ k - 1 \in Nat /\ k - 1 >= i /\ k - 1 <= Len(seqs) /\ k - 1 \notin wrong
      BY <2>1, <2>2, <2>4
    <3>2. e \in Range(flat[k - 1])
      BY <3>1
    <3> QED
      BY <1>2, <2>2, <3>1, <3>2
  <2> QED
    BY <2>3, <2>4
<1>4. Len(seqs) # 0 /\ Len(seqs) \in i .. Len(seqs)
  OBVIOUS
<1> QED
  BY <1>1, <1>3, <1>4

(* An observer that is still live was live, and is sent the chunk.           *)
LEMMA ProducedFor ==
  ASSUME Brokered, Produce, NEW d \in Devices, observer'[d] = "live"
  PROVE  /\ observer[d] = "live"
         /\ \E new \in Seq(Events(produced + 1)) :
               /\ toMain' = toMain \o new
               /\ \A f \in Range(new) : f.device = d => f.kind = "output"
               /\ \E f \in Range(new) : f.device = d
<1> DEFINE live == {x \in Devices : observer[x] = "live"}
           Told == {f \in Events(produced + 1) : f.device = d => f.kind = "output"}
<1>1. PICK outcome \in [live -> Outcome], sent \in SetToSeqs(live) :
          /\ observer' = [x \in Devices |-> IF x \in live /\ outcome[x] # "sent" THEN "paused" ELSE observer[x]]
          /\ toMain' = toMain \o FlattenSeq([i \in DOMAIN sent |-> Frames(sent[i], outcome[sent[i]])])
  BY DEF Produce
<1>2. d \in live /\ outcome[d] = "sent"
  BY <1>1
<1>3. IsFiniteSet(live) /\ Cardinality(live) \in Nat
  <2>1. live \subseteq Observers
    BY DEF Observers
  <2> QED
    BY <2>1, FS_Subset, FS_CardinalityType DEF Brokered
<1>4. sent \in Injection(1 .. Cardinality(live), live)
  BY <1>1 DEF SetToSeqs, Injection, IsInjective
<1>5. Cardinality(1 .. Cardinality(live)) = Cardinality(live)
  BY <1>3, FS_Interval
<1>6. sent \in Surjection(1 .. Cardinality(live), live)
  BY <1>3, <1>4, <1>5, FS_Injection
<1>7. PICK i \in 1 .. Cardinality(live) : sent[i] = d
  BY <1>2, <1>6 DEF Surjection
<1>8. sent \in [1 .. Cardinality(live) -> live]
  BY <1>1 DEF SetToSeqs
<1>9. produced \in Nat /\ produced + 1 <= MaxWorld
  BY TerminalStreamsAssumption DEF Produce, WorldGoesOn, Brokered
<1>10. \A x \in live : x \in Devices /\ outcome[x] \in Outcome
  BY <1>1
<1> DEFINE seqs == [j \in DOMAIN sent |-> Frames(sent[j], outcome[sent[j]])]
<1>11. ASSUME NEW x \in live PROVE Frames(x, outcome[x]) \in Seq(Told)
  <2>1. Frames(x, outcome[x]) \in Seq(Events(produced + 1))
    BY <1>9, <1>10, <1>11, FramesType
  <2>2. CASE x = d
    <3>1. PICK output : output = [kind |-> "output", device |-> d, at |-> produced + 1]
      OBVIOUS
    <3>2. Frames(x, outcome[x]) = <<output>>
      BY <1>2, <2>2, <3>1 DEF Frames
    <3>3. output \in Events(produced + 1)
      BY <1>9, <3>1, TerminalStreamsAssumption DEF Event, Events
    <3>4. output \in Told
      BY <3>1, <3>3
    <3> HIDE DEF Told
    <3> QED
      BY <3>2, <3>4
  <2>3. CASE x # d
    <3>1. \A j \in 1 .. Len(Frames(x, outcome[x])) : Frames(x, outcome[x])[j].device = x
      BY <1>10, <1>11 DEF Frames, Outcome
    <3>2. \A j \in 1 .. Len(Frames(x, outcome[x])) : Frames(x, outcome[x])[j] \in Told
      BY <2>1, <2>3, <3>1, ElementOfSeq
    <3> HIDE DEF Told
    <3> QED
      BY <2>1, <3>2, LenProperties
  <2> QED
    BY <2>2, <2>3
<1>12. Frames(d, outcome[d]) = <<[kind |-> "output", device |-> d, at |-> produced + 1]>>
  BY <1>2 DEF Frames
<1>13. \A j \in DOMAIN sent : sent[j] \in live
  BY <1>8
<1> HIDE DEF live, Told
<1>14. \A j \in DOMAIN sent : seqs[j] \in Seq(Told)
  BY <1>11, <1>13
<1>15. DOMAIN sent = 1 .. Cardinality(live) /\ seqs[i] = Frames(d, outcome[d])
  BY <1>7, <1>8
<1>16. seqs \in Seq(Seq(Told)) /\ Len(seqs) = Cardinality(live)
  BY <1>3, <1>14, <1>15
<1> HIDE DEF seqs
<1>17. \A j \in 1 .. Len(seqs) : seqs[j] \in Seq(Told)
  BY <1>14, <1>15, <1>16
<1>18. FlattenSeq(seqs) \in Seq(Told)
  <2>1. Len(seqs) \in Nat /\ (Len(seqs) = 0 => seqs = <<>>)
    BY <1>16
  <2> QED
    BY <1>17, <2>1, FlattenType
<1>19. \E f \in Range(FlattenSeq(seqs)) : f.device = d
  <2>1. PICK f : f = [kind |-> "output", device |-> d, at |-> produced + 1]
    OBVIOUS
  <2>2. f \in Range(seqs[i]) /\ f.device = d
    <3>1. seqs[i] = <<f>>
      BY <1>12, <1>15, <2>1
    <3> QED
      BY <2>1, <3>1 DEF Range
  <2>3. f \in Range(FlattenSeq(seqs))
    BY <1>3, <1>7, <1>16, <1>17, <2>2, FlattenHolds
  <2> QED
    BY <2>2, <2>3
<1>20. FlattenSeq(seqs) \in Seq(Events(produced + 1)) /\ \A f \in Range(FlattenSeq(seqs)) : f.device = d => f.kind = "output"
  <2>1. Told \subseteq Events(produced + 1) /\ \A f \in Told : f.device = d => f.kind = "output"
    BY DEF Told
  <2>2. Range(FlattenSeq(seqs)) \subseteq Told
    BY <1>18, QueueElements
  <2> QED
    BY <1>18, <2>1, <2>2
<1>21. observer[d] = "live"
  BY <1>2 DEF live
<1> QED
  BY <1>1, <1>19, <1>20, <1>21 DEF seqs

-----------------------------------------------------------------------------
(* The observer of a phone hands its events to the terminal's stream, if that  *)
(* was created for it and has not failed; no other is handed any.             *)
Routed == \A d \in Devices :
    /\ owner[d] # NoStream => owner[d] = current /\ streams[current].setup # "failed" /\ streams[current].device = d
    /\ \A n \in StreamIds : n = current /\ streams[n].setup # "failed" /\ streams[n].device = d => owner[d] = n

(* A stream that nothing routes to any more has failed or is gone.            *)
LEMMA RoutesEnd ==
  ASSUME Streamed, Routed, NEW n \in StreamIds, owner' = Unrouted(n),
         SetupMoves(n, "failed") \/ (n = current /\ Ends(n))
  PROVE  Routed'
<1>0. NoStream \notin StreamIds
  BY DEF NoStream, StreamIds
<1>1. \A d \in Devices : owner'[d] = IF owner[d] = n THEN NoStream ELSE owner[d]
  BY <1>0 DEF Unrouted
<1>2. CASE SetupMoves(n, "failed")
  <2>1. UNCHANGED current /\ streams'[n].setup = "failed" /\ \A m \in StreamIds \ {n} : streams'[m] = streams[m]
    BY <1>2 DEF SetupMoves
  <2> QED
    BY <1>0, <1>1, <2>1 DEF Routed, Streamed
<1>3. CASE n = current /\ Ends(n)
  <2>1. current' = NoStream
    BY <1>3 DEF Ends
  <2> QED
    BY <1>0, <1>1, <1>3, <2>1 DEF Routed
<1> QED
  BY <1>2, <1>3

(* A step that keeps the routes, and what they depend on, keeps them right.    *)
LEMMA RoutesKept ==
  ASSUME Streamed, Routed, UNCHANGED <<owner, current>>,
         \A n \in StreamIds : /\ streams'[n].device = streams[n].device
                              /\ streams'[n].setup = "failed" <=> streams[n].setup = "failed"
  PROVE  Routed'
<1>0. NoStream \notin StreamIds
  BY DEF NoStream, StreamIds
<1> QED
  BY <1>0 DEF Routed, Streamed

(* The end of an unsubscription ends the routes to its stream.                *)
LEMMA RoutesUnsubscribed == ASSUME Streamed, OneOpen, Routed, NEW n \in StreamIds, Unsubscribed(n) PROVE Routed'
<1>1. DisposalOver(n) \/ DropOver(n) \/ NothingOver(n)
  BY UnsubscriptionOver
<1>2. CASE DisposalOver(n)
  <2>1. owner' = Unrouted(n) /\ n = current /\ Ends(n)
    BY <1>2 DEF DisposalOver, Unsubscribed, OneOpen
  <2> QED
    BY <2>1, RoutesEnd
<1>3. CASE DropOver(n)
  <2>1. owner' = Unrouted(n) /\ SetupMoves(n, "failed")
    BY <1>3 DEF DropOver, Unsubscribed
  <2> QED
    BY <2>1, RoutesEnd
<1>4. CASE NothingOver(n)
  BY <1>4, RoutesKept DEF NothingOver
<1> QED
  BY <1>1, <1>2, <1>3, <1>4

(* Every step keeps the routes right.                                        *)
LEMMA NextRouted == ASSUME Typed, OneOpen, Routed, Next PROVE Routed'
<1> USE DEF Typed
<1>0. NoStream \notin StreamIds
  BY DEF NoStream, StreamIds
<1>1. ASSUME NEW s \in Sessions, CommandStep(s) PROVE Routed'
  <2>1. UNCHANGED <<current, owner>> /\ \A n \in StreamIds : Closes(n)
    BY <1>1, CommandsClose
  <2> QED
    BY <2>1, RoutesKept DEF Closes
<1>2. ASSUME NEW s \in Sessions, FindStream(s) \/ TakeAfterDisposal(s) PROVE Routed'
  <2>1. CASE UNCHANGED <<streams, current, owner>>
    BY <2>1, RoutesKept
  <2>2. ASSUME current = NoStream, NEW n \in StreamIds, Started(n, s) PROVE Routed'
    <3>1. /\ current' = n /\ streams'[n].setup = "asking" /\ streams'[n].device = device[s] /\ device[s] \in Devices
          /\ owner' = [owner EXCEPT ![device[s]] = n]
      BY <2>2 DEF Started, Unused, Placed
    <3>2. \A d \in Devices : owner[d] = NoStream /\ owner'[d] = IF d = device[s] THEN n ELSE owner[d]
      BY <1>0, <2>2, <3>1 DEF Routed, Streamed
    <3> QED
      BY <1>0, <3>1, <3>2 DEF Routed
  <2> QED
    BY <1>2, <2>1, <2>2, StreamFound
<1>3. CASE ReadEvent
  <2>1. UNCHANGED <<current, owner>> /\ \A n \in StreamIds : StagesKept(n)
    BY <1>3, EventPassed
  <2> QED
    BY <2>1, RoutesKept DEF StagesKept
<1>4. CASE ReadSubscribed
  <2>1. PICK answer \in Answers : LET n == answer.stream IN
           /\ answer = Head(toMain) /\ n \in StreamIds /\ UNCHANGED current
           /\ \/ streams[n].setup # "asking" /\ UNCHANGED <<streams, owner>>
              \/ streams[n].setup = "asking" /\ answer.ok /\ SetupMoves(n, "answered")
              \/ streams[n].setup = "asking" /\ ~answer.ok /\ SetupMoves(n, "failed")
    BY <1>4, SubscribedRead
  <2> DEFINE n == answer.stream
  <2>2. CASE UNCHANGED <<streams, owner>>
    BY <2>1, <2>2, RoutesKept
  <2>3. CASE streams[n].setup = "asking" /\ answer.ok /\ SetupMoves(n, "answered")
    <3>1. UNCHANGED owner
      BY <1>4, <2>1, <2>3 DEF ReadSubscribed
    <3>2. \A m \in StreamIds : /\ streams'[m].device = streams[m].device
                               /\ streams'[m].setup = "failed" <=> streams[m].setup = "failed"
      BY <2>1, <2>3 DEF SetupMoves
    <3> QED
      BY <2>1, <3>1, <3>2, RoutesKept
  <2>4. CASE streams[n].setup = "asking" /\ ~answer.ok /\ SetupMoves(n, "failed")
    <3>1. owner' = Unrouted(n)
      BY <1>4, <2>1, <2>4 DEF ReadSubscribed
    <3> QED
      BY <2>1, <2>4, <3>1, RoutesEnd
  <2> QED
    BY <2>1, <2>2, <2>3, <2>4
<1>5. CASE ReadUnsubscribed
  <2>1. Head(toMain).stream \in StreamIds
    BY <1>5, FirstFrame DEF ReadUnsubscribed, Answers, Answer
  <2> QED
    BY <1>5, <2>1, RoutesUnsubscribed DEF ReadUnsubscribed
<1>6. ASSUME NEW n \in StreamIds, SetupContinues(n) PROVE Routed'
  <2>1. streams[n].setup = "answered" /\ UNCHANGED owner /\ (SetupMoves(n, "ready") \/ SetupMoves(n, "dropping"))
    BY <1>6, SetupGoesOn
  <2>2. UNCHANGED current /\ \A m \in StreamIds : /\ streams'[m].device = streams[m].device
                                                  /\ streams'[m].setup = "failed" <=> streams[m].setup = "failed"
    BY <2>1 DEF SetupMoves
  <2> QED
    BY <2>1, <2>2, RoutesKept
<1>7. ASSUME NEW n \in StreamIds, DisposeContinues(n) PROVE Routed'
  <2>1. /\ streams[n].dispose = "setup" /\ UNCHANGED owner
        /\ DisposalAsks(n) \/ (streams[n].setup = "failed" /\ Ends(n))
    BY <1>7, DisposalGoesOn
  <2>2. n = current
    BY <2>1 DEF OneOpen
  <2>3. CASE DisposalAsks(n)
    <3>1. UNCHANGED current /\ \A m \in StreamIds : /\ streams'[m].device = streams[m].device
                                                    /\ streams'[m].setup = streams[m].setup
      BY <2>3 DEF DisposalAsks
    <3> QED
      BY <2>1, <3>1, RoutesKept
  <2>4. CASE streams[n].setup = "failed" /\ Ends(n)
    <3>1. current' = NoStream /\ \A d \in Devices : owner[d] = NoStream
      BY <2>2, <2>4 DEF Ends, Routed
    <3> QED
      BY <1>0, <2>1, <3>1 DEF Routed
  <2> QED
    BY <2>1, <2>3, <2>4
<1>8. CASE BrokerStep \/ Produce \/ TerminalGoes
  <2>1. UNCHANGED <<streams, current, owner>>
    BY <1>8 DEF BrokerStep, BrokerSubscribes, BrokerUnsubscribes, Produce, TerminalGoes
  <2> QED
    BY <2>1, RoutesKept
<1>9. CASE Break
  <2>1. /\ current' = IF \E n \in StreamIds : n = current /\ streams[n].dispose = "unsubscribe" THEN NoStream ELSE current
        /\ \A n \in StreamIds : BrokenOff(n)
    BY <1>9, BrokeOff
  <2>2. \A d \in Devices :
            owner'[d] = IF \E n \in StreamIds : n = owner[d] /\ (streams[n].setup \in {"asking", "dropping"}
                                                                \/ streams[n].dispose = "unsubscribe")
                        THEN NoStream ELSE owner[d]
    BY <1>9 DEF Break
  <2>3. \A n \in StreamIds : /\ streams'[n].device = streams[n].device
                             /\ streams'[n].setup = "failed" <=> streams[n].setup \in {"asking", "dropping", "failed"}
    BY <2>1 DEF BrokenOff
  <2> QED
    BY <1>0, <2>1, <2>2, <2>3 DEF Routed, Streamed
<1>10. ASSUME NEW n \in StreamIds, TimeOut(n) PROVE Routed'
  <2>1. CASE streams[n].setup = "asking" /\ streams' = Failed(streams, n) /\ owner' = Unrouted(n) /\ UNCHANGED current
    <3>1. SetupMoves(n, "failed")
      BY <2>1, SetupFails
    <3> QED
      BY <2>1, <3>1, RoutesEnd
  <2>2. CASE Unsubscribed(n)
    BY <2>2, RoutesUnsubscribed
  <2> QED
    BY <1>10, <2>1, <2>2 DEF TimeOut
<1> QED
  BY <1>1, <1>2, <1>3, <1>4, <1>5, <1>6, <1>7, <1>8, <1>9, <1>10
  DEF Next, GatewayStep, Phone, Fault, ReadFrame, CommandStep

-----------------------------------------------------------------------------
(* What stays of the requests behind the one a stream was created with: after  *)
(* its answer, nothing makes an observer live again.                         *)
LastFor(q, n) == \A i, j \in 1 .. Len(q) :
    i < j /\ q[i].stream = n /\ q[i].ask = "subscribe" => q[j].ask = "unsubscribe"
OnlyEnds(q) == \A i \in 1 .. Len(q) : q[i].ask = "unsubscribe"

LastAsk == \A n \in StreamIds : streams[n].dispose = "no" =>
    /\ streams[n].setup = "asking" => LastFor(toBroker, n)
    /\ streams[n].setup \in {"answered", "ready"} \/ (streams[n].setup = "asking" /\ AnsweredFor(n)) => OnlyEnds(toBroker)

(* A request is taken from the queue.                                        *)
LEMMA AsksTaken ==
  ASSUME NEW q \in Seq(Ask), q # <<>>, NEW n
  PROVE  /\ LastFor(q, n) => LastFor(Tail(q), n)
         /\ LastFor(q, n) /\ Head(q).stream = n /\ Head(q).ask = "subscribe" => OnlyEnds(Tail(q))
         /\ OnlyEnds(q) => OnlyEnds(Tail(q)) /\ Head(q).ask = "unsubscribe"
<1>1. Len(q) \in Nat /\ 1 \in 1 .. Len(q) /\ Head(q) = q[1]
  BY LenProperties, EmptySeq
<1>2. Len(Tail(q)) = Len(q) - 1 /\ \A i \in 1 .. Len(Tail(q)) : i + 1 \in 1 .. Len(q) /\ Tail(q)[i] = q[i + 1] /\ 1 < i + 1
  BY <1>1
<1>3. \A i, j \in 1 .. Len(Tail(q)) : i < j => i + 1 < j + 1
  BY <1>1, <1>2
<1> QED
  BY <1>1, <1>2, <1>3 DEF LastFor, OnlyEnds

(* An observer's end is asked for.                                           *)
LEMMA EndAsked ==
  ASSUME NEW q \in Seq(Ask), NEW a, a.ask = "unsubscribe", NEW n
  PROVE  /\ LastFor(q, n) => LastFor(Append(q, a), n)
         /\ OnlyEnds(q) => OnlyEnds(Append(q, a))
<1> DEFINE r == Append(q, a)
<1>1. Len(q) \in Nat /\ Len(r) = Len(q) + 1 /\ r[Len(q) + 1] = a /\ \A i \in 1 .. Len(q) : r[i] = q[i]
  BY LenProperties
<1> HIDE DEF r
<1>2. \A i \in 1 .. Len(r) : i = Len(q) + 1 \/ (i \in 1 .. Len(q) /\ r[i] = q[i])
  BY <1>1
<1>3. \A i, j \in 1 .. Len(r) : i < j => i \in 1 .. Len(q)
  BY <1>1
<1>4. LastFor(q, n) => LastFor(r, n)
  BY <1>1, <1>2, <1>3 DEF LastFor
<1>5. OnlyEnds(q) => OnlyEnds(r)
  BY <1>1, <1>2 DEF OnlyEnds
<1> QED
  BY <1>4, <1>5 DEF r

(* A stream that was asked for, with its requests and answers where they were  *)
(* or fewer, or an end asked for behind them.                                *)
LEMMA LastAskKept ==
  ASSUME Typed, LastAsk, NEW n \in StreamIds, streams[n].dispose = "no",
         streams'[n].setup = streams[n].setup \/ (streams[n].setup = "answered" /\ streams'[n].setup = "ready"),
         AnsweredFor(n)' => AnsweredFor(n),
         \/ UNCHANGED toBroker
         \/ toBroker # <<>> /\ toBroker' = Tail(toBroker)
         \/ \E a : a.ask = "unsubscribe" /\ toBroker' = Append(toBroker, a)
  PROVE  /\ streams'[n].setup = "asking" => LastFor(toBroker', n)
         /\ streams'[n].setup \in {"answered", "ready"} \/ (streams'[n].setup = "asking" /\ AnsweredFor(n)')
              => OnlyEnds(toBroker')
<1>1. toBroker \in Seq(Ask)
  BY DEF Typed, Brokered
<1>2. /\ LastFor(toBroker, n) => LastFor(toBroker', n)
      /\ OnlyEnds(toBroker) => OnlyEnds(toBroker')
  BY <1>1, AsksTaken, EndAsked
<1> QED
  BY <1>2 DEF LastAsk

(* Reading a frame leaves no more answers than there were.                    *)
LEMMA AnswersRead ==
  ASSUME Typed, NEW n, UNCHANGED toMain \/ (toMain # <<>> /\ toMain' = Tail(toMain))
  PROVE  AnsweredFor(n)' => AnsweredFor(n)
<1>1. Range(toMain') \subseteq Range(toMain)
  BY QueueTail DEF Typed, Brokered
<1> QED
  BY <1>1 DEF AnsweredFor

(* Every step keeps the request of a stream the last one that makes an         *)
(* observer live.                                                            *)
LEMMA NextLastAsk == ASSUME Typed, OneOpen, LastAsk, Next PROVE LastAsk'
<1> USE DEF Typed
<1>0. toBroker \in Seq(Ask) /\ toMain \in Seq(Event \cup Answers) /\ NoStream \notin StreamIds
  BY DEF Brokered, NoStream, StreamIds
<1> DEFINE Good(n) == /\ streams'[n].setup = "asking" => LastFor(toBroker', n)
                      /\ streams'[n].setup \in {"answered", "ready"} \/ (streams'[n].setup = "asking" /\ AnsweredFor(n)')
                           => OnlyEnds(toBroker')
<1> SUFFICES ASSUME NEW n \in StreamIds, streams'[n].dispose = "no" PROVE Good(n)
  BY DEF LastAsk
<1>1. ASSUME NEW s \in Sessions, CommandStep(s) PROVE Good(n)
  <2>1. Closes(n) /\ UNCHANGED <<toBroker, toMain>>
    BY <1>1, CommandsClose
  <2>2. streams[n].dispose = "no" /\ streams'[n].setup = streams[n].setup
    BY <2>1 DEF Closes
  <2> QED
    BY <2>1, <2>2, AnswersRead, LastAskKept
<1>2. ASSUME NEW s \in Sessions, FindStream(s) \/ TakeAfterDisposal(s) PROVE Good(n)
  <2>1. UNCHANGED toMain
    BY <1>2, StreamFound
  <2>2. CASE UNCHANGED <<streams, toBroker>>
    BY <2>1, <2>2, AnswersRead, LastAskKept
  <2>3. ASSUME NEW m \in StreamIds, current = NoStream, Started(m, s) PROVE Good(n)
    <3>1. n = m
      <4>1. n # m => streams'[n] = streams[n] /\ n # current
        BY <1>0, <2>3 DEF Started
      <4> QED
        BY <4>1 DEF OneOpen
    <3>2. streams'[n].setup = "asking" /\ ~Referenced(n)
          /\ toBroker' = Append(toBroker, [ask |-> "subscribe", stream |-> n, device |-> device[s]])
      BY <2>3, <3>1 DEF Started, Unused
    <3>3. ~AnsweredFor(n)
      <4>1. \A i \in DOMAIN toMain : ~(toMain[i] \in Answer /\ toMain[i].stream = n)
        BY <3>2 DEF Referenced
      <4> QED
        BY <4>1 DEF AnsweredFor, Range
    <3>4. \A i \in 1 .. Len(toBroker) : toBroker[i].stream # n
      BY <1>0, <3>2, LenProperties DEF Referenced
    <3>5. LastFor(toBroker', n)
      <4>1. Len(toBroker) \in Nat /\ Len(toBroker') = Len(toBroker) + 1
            /\ \A i \in 1 .. Len(toBroker) : toBroker'[i] = toBroker[i]
        BY <1>0, <3>2, LenProperties
      <4>2. \A i, j \in 1 .. Len(toBroker') : i < j => i \in 1 .. Len(toBroker)
        BY <4>1
      <4> QED
        BY <3>4, <4>1, <4>2 DEF LastFor
    <3> QED
      BY <2>1, <3>2, <3>3, <3>5 DEF AnsweredFor
  <2> QED
    BY <1>2, <2>2, <2>3, StreamFound
<1>3. CASE ReadEvent
  <2>1. UNCHANGED toBroker /\ StagesKept(n) /\ toMain # <<>> /\ toMain' = Tail(toMain)
    BY <1>3, EventPassed
  <2> QED
    BY <2>1, AnswersRead, LastAskKept DEF StagesKept
<1>4. CASE ReadSubscribed
  <2>1. PICK answer \in Answers : LET m == answer.stream IN
           /\ answer = Head(toMain) /\ toMain # <<>> /\ toMain' = Tail(toMain) /\ answer.kind = "subscribed"
           /\ m \in StreamIds /\ UNCHANGED toBroker
           /\ \/ UNCHANGED streams
              \/ streams[m].setup = "asking" /\ (SetupMoves(m, "answered") \/ SetupMoves(m, "failed"))
    BY <1>4, SubscribedRead
  <2> DEFINE m == answer.stream
  <2>2. CASE streams'[n].setup = streams[n].setup /\ streams'[n].dispose = streams[n].dispose
    BY <2>1, <2>2, AnswersRead, LastAskKept
  <2>3. CASE n = m /\ streams[m].setup = "asking" /\ (SetupMoves(m, "answered") \/ SetupMoves(m, "failed"))
    <3>1. streams[n].dispose = "no" /\ streams'[n].setup \in {"answered", "failed"}
      BY <2>3 DEF SetupMoves
    <3>2. AnsweredFor(n)
      <4>1. answer \in Range(toMain) /\ answer \in Answer
        BY <1>0, <2>1, QueueTail DEF Answers
      <4> QED
        BY <2>1, <2>3, <4>1 DEF AnsweredFor
    <3>3. OnlyEnds(toBroker)
      BY <2>3, <3>1, <3>2 DEF LastAsk
    <3> QED
      BY <2>1, <3>1, <3>3
  <2> QED
    BY <2>1, <2>2, <2>3 DEF SetupMoves
<1>5. ASSUME NEW m \in StreamIds, DisposalOver(m) \/ DropOver(m) \/ NothingOver(m), UNCHANGED toBroker,
             UNCHANGED toMain \/ (toMain # <<>> /\ toMain' = Tail(toMain))
      PROVE  Good(n)
  <2>1. CASE streams'[n] = streams[n]
    BY <1>5, <2>1, AnswersRead, LastAskKept
  <2>2. CASE streams'[n].setup = "failed" \/ streams'[n].dispose = "done"
    BY <2>2
  <2> QED
    BY <1>5, <2>1, <2>2 DEF DisposalOver, DropOver, NothingOver, Ends, SetupMoves
<1>6. CASE ReadUnsubscribed
  <2>1. /\ Head(toMain).stream \in StreamIds /\ UNCHANGED toBroker /\ toMain # <<>> /\ toMain' = Tail(toMain)
        /\ Unsubscribed(Head(toMain).stream)
    BY <1>6, FirstFrame DEF ReadUnsubscribed, NextFrame, Answers, Answer
  <2> QED
    BY <1>5, <2>1, UnsubscriptionOver
<1>7. ASSUME NEW m \in StreamIds, SetupContinues(m) PROVE Good(n)
  <2>1. /\ streams[m].setup = "answered" /\ UNCHANGED toMain
        /\ \/ SetupMoves(m, "ready") /\ UNCHANGED toBroker
           \/ SetupMoves(m, "dropping") /\ toBroker' = Append(toBroker, Follow(m))
    BY <1>7, SetupGoesOn
  <2>2. Follow(m).ask = "unsubscribe"
    BY DEF Follow
  <2>3. CASE n = m /\ streams'[n].setup = "dropping"
    BY <2>3
  <2>4. CASE n # m \/ streams'[n].setup = "ready"
    <3>1. /\ streams[n].dispose = "no"
          /\ streams'[n].setup = streams[n].setup \/ (streams[n].setup = "answered" /\ streams'[n].setup = "ready")
      BY <2>1, <2>4 DEF SetupMoves
    <3> QED
      BY <2>1, <2>2, <3>1, AnswersRead, LastAskKept
  <2> QED
    BY <2>1, <2>3, <2>4 DEF SetupMoves
<1>8. ASSUME NEW m \in StreamIds, DisposeContinues(m) PROVE Good(n)
  <2>1. /\ UNCHANGED toMain
        /\ DisposalAsks(m) \/ (Ends(m) /\ UNCHANGED toBroker)
    BY <1>8, DisposalGoesOn
  <2>2. n # m /\ streams'[n] = streams[n]
    BY <2>1 DEF DisposalAsks, Ends
  <2>3. UNCHANGED toBroker \/ (toBroker' = Append(toBroker, Follow(m)) /\ Follow(m).ask = "unsubscribe")
    BY <2>1 DEF DisposalAsks, Follow
  <2> QED
    BY <2>1, <2>2, <2>3, AnswersRead, LastAskKept
<1>9. CASE BrokerStep
  <2>1. /\ UNCHANGED streams /\ toBroker # <<>> /\ toBroker' = Tail(toBroker)
        /\ \E f : /\ toMain' = Append(toMain, f) /\ f.stream = Head(toBroker).stream
                  /\ f.kind = "subscribed" => Head(toBroker).ask = "subscribe"
    BY <1>9 DEF BrokerStep, BrokerSubscribes, BrokerUnsubscribes
  <2>2. CASE AnsweredFor(n)' => AnsweredFor(n)
    BY <2>1, <2>2, LastAskKept
  <2>3. CASE AnsweredFor(n)' /\ ~AnsweredFor(n)
    <3>1. Head(toBroker).stream = n /\ Head(toBroker).ask = "subscribe"
      <4>1. PICK f : /\ toMain' = Append(toMain, f) /\ f.stream = Head(toBroker).stream
                     /\ f.kind = "subscribed" => Head(toBroker).ask = "subscribe"
        BY <2>1
      <4>2. Range(toMain') = Range(toMain) \cup {f}
        BY <1>0, <4>1, QueueAppend
      <4> QED
        BY <2>3, <4>1, <4>2 DEF AnsweredFor
    <3>2. /\ LastFor(toBroker, n) => LastFor(toBroker', n) /\ OnlyEnds(toBroker')
          /\ OnlyEnds(toBroker) => OnlyEnds(toBroker')
      BY <1>0, <2>1, <3>1, AsksTaken
    <3> QED
      BY <2>1, <3>2 DEF LastAsk
  <2> QED
    BY <2>2, <2>3
<1>10. CASE Produce
  <2>1. PICK new \in Seq(Events(produced + 1)) : toMain' = toMain \o new
    BY <1>10, ProducedFrames
  <2>2. AnsweredFor(n)' => AnsweredFor(n)
    <3>1. Range(toMain') = Range(toMain) \cup Range(new) /\ Range(new) \subseteq Event
      <4>1. new \in Seq(Event \cup Answers) /\ new \in Seq(Event)
        BY DEF Events
      <4> QED
        BY <1>0, <2>1, <4>1, QueueConcat, QueueElements
    <3> QED
      BY <3>1, EventsAreNoAnswers DEF AnsweredFor
  <2>3. UNCHANGED <<streams, toBroker>>
    BY <1>10 DEF Produce
  <2> QED
    BY <2>2, <2>3, LastAskKept
<1>11. CASE TerminalGoes
  <2>1. UNCHANGED <<streams, toBroker, toMain>>
    BY <1>11 DEF TerminalGoes
  <2> QED
    BY <2>1, AnswersRead, LastAskKept
<1>12. CASE Break
  <2>1. toBroker' = <<>>
    BY <1>12, BrokeOff
  <2> QED
    BY <2>1 DEF LastFor, OnlyEnds
<1>13. ASSUME NEW m \in StreamIds, TimeOut(m) PROVE Good(n)
  <2>1. /\ UNCHANGED <<toBroker, toMain>>
        /\ SetupMoves(m, "failed") \/ DisposalOver(m) \/ DropOver(m) \/ NothingOver(m)
    BY <1>13, TimedOut
  <2>2. CASE SetupMoves(m, "failed")
    <3>1. CASE n = m
      BY <2>2, <3>1 DEF SetupMoves
    <3>2. CASE n # m
      <4>1. streams'[n] = streams[n]
        BY <2>2, <3>2 DEF SetupMoves
      <4> QED
        BY <2>1, <4>1, AnswersRead, LastAskKept
    <3> QED
      BY <3>1, <3>2
  <2> QED
    BY <1>5, <2>1, <2>2
<1> QED
  BY <1>1, <1>2, <1>3, <1>4, <1>6, <1>7, <1>8, <1>9, <1>10, <1>11, <1>12, <1>13
  DEF Next, GatewayStep, Phone, Fault, ReadFrame, CommandStep

-----------------------------------------------------------------------------
(* What is still on its way for a stream: behind the answer it waits for, or    *)
(* behind what it has applied or keeps to be applied.                        *)
Grants(f, n) == f \in Answers /\ f.kind = "subscribed" /\ f.ok /\ f.stream = n
Owed(n, r, q, top) ==
    /\ r.setup = "asking" =>
          \A k \in 1 .. Len(q) : Grants(q[k], n) => Since(q, r.device, k, q[k].snapshot.to, top)
    /\ r.setup = "answered" /\ ~r.overflow => Since(q, r.device, 0, WithPending(r.answer, r.pending).to, top)
    /\ r.setup = "ready" => Since(q, r.device, 0, r.snapshot.to, top)

(* While its observer is live, a stream is owed all it does not have.         *)
Feeding(n) == /\ streams[n].dispose = "no" /\ streams[n].setup \in {"asking", "answered", "ready"}
              /\ observer[streams[n].device] = "live"
Fed == \A n \in StreamIds : Feeding(n) => Owed(n, streams[n], toMain, produced)

(* What a stream has is counted in chunks.                                   *)
LEMMA OwedFrom ==
  ASSUME NEW r \in StreamRecords
  PROVE  /\ r.setup = "answered" => r.answer \in Snapshots /\ WithPending(r.answer, r.pending).to \in Nat
         /\ r.setup = "ready" => r.snapshot \in Snapshots /\ r.snapshot.to \in Nat
<1>1. \A x \in Snapshots : x.to \in Nat
  BY TerminalStreamsAssumption DEF Snapshots, Snapshot
<1>2. r.pending \in Seq(Event) /\ r.answer \in Snapshots \cup {NoSnapshot} /\ r.snapshot \in Snapshots \cup {NoSnapshot}
      /\ (r.setup = "answered" => r.answer # NoSnapshot) /\ (r.setup = "ready" => r.snapshot # NoSnapshot)
  BY DEF StreamRecords, Stream
<1> QED
  BY <1>1, <1>2, PendingSnapshot

(* An answer that grants a subscription brings text.                         *)
LEMMA GrantsFrom == ASSUME NEW f, NEW n, Grants(f, n) PROVE f.snapshot \in Snapshots /\ f.snapshot.to \in Nat
<1>1. \A x \in Snapshots : x.to \in Nat
  BY TerminalStreamsAssumption DEF Snapshots, Snapshot
<1>2. f.snapshot \in Snapshots
  BY DEF Grants, Answers
<1> QED
  BY <1>1, <1>2

(* Events on their way have happened.                                        *)
By(q, top) == \A i \in 1 .. Len(q) : q[i] \in Event => q[i].at <= top

(* What is on its way has been written, in the terms of the queue.           *)
LEMMA HappenedQueue == ASSUME Typed, Happened PROVE By(toMain, produced) /\ produced \in Nat
<1>1. \A i \in 1 .. Len(toMain) : toMain[i] \in Range(toMain)
  BY LenProperties DEF Range, Typed, Brokered
<1> QED
  BY <1>1 DEF Happened, By, Typed, Brokered

(* An answer is read that the stream does not wait for, or an event that is     *)
(* not for it.                                                               *)
LEMMA OwedTail ==
  ASSUME NEW r \in StreamRecords, NEW q \in Seq(Event \cup Answers), q # <<>>, NEW n, NEW top \in Nat,
         By(q, top), ~For(q, r.device, 1) \/ r.setup = "asking", Owed(n, r, q, top)
  PROVE  Owed(n, r, Tail(q), top)
<1>1. CASE r.setup = "asking"
  <2>1. Len(q) \in Nat /\ Len(Tail(q)) = Len(q) - 1 /\ \A k \in 1 .. Len(q) - 1 : Tail(q)[k] = q[k + 1] /\ k + 1 \in 1 .. Len(q)
    BY LenProperties, EmptySeq
  <2>2. ASSUME NEW k \in 1 .. Len(q) - 1, Grants(Tail(q)[k], n)
        PROVE  Since(Tail(q), r.device, k, Tail(q)[k].snapshot.to, top)
    <3>1. Tail(q)[k] = q[k + 1] /\ k + 1 \in 1 .. Len(q) /\ (k + 1) - 1 = k
      BY <2>1
    <3>2. Since(q, r.device, k + 1, Tail(q)[k].snapshot.to, top)
      BY <1>1, <2>2, <3>1 DEF Owed
    <3>3. Since(Tail(q), r.device, (k + 1) - 1, Tail(q)[k].snapshot.to, top)
      BY <3>1, <3>2, SinceTail
    <3> QED
      BY <3>1, <3>3
  <2> QED
    BY <1>1, <2>1, <2>2 DEF Owed
<1>2. CASE r.setup # "asking"
  <2>1. ASSUME NEW base \in Nat, Since(q, r.device, 0, base, top) PROVE Since(Tail(q), r.device, 0, base, top)
    BY <1>2, <2>1, SinceHead DEF By
  <2> QED
    BY <1>2, <2>1, OwedFrom DEF Owed
<1> QED
  BY <1>1, <1>2

(* An answer is sent that the stream does not wait for.                      *)
LEMMA OwedAnswered ==
  ASSUME NEW r, NEW q \in Seq(Event \cup Answers), NEW f \in Answers, NEW n, NEW top,
         r.setup = "asking" => ~Grants(f, n), Owed(n, r, q, top)
  PROVE  Owed(n, r, Append(q, f), top)
<1>1. /\ Len(q) \in Nat /\ Len(Append(q, f)) = Len(q) + 1 /\ Append(q, f)[Len(q) + 1] = f
      /\ \A k \in 1 .. Len(q) : Append(q, f)[k] = q[k] /\ k \in 0 .. Len(q)
  BY LenProperties
<1>2. r.setup = "asking" =>
          \A k \in 1 .. Len(Append(q, f)) : Grants(Append(q, f)[k], n)
              => Since(Append(q, f), r.device, k, Append(q, f)[k].snapshot.to, top)
  <2> SUFFICES ASSUME r.setup = "asking", NEW k \in 1 .. Len(q) + 1, Grants(Append(q, f)[k], n)
               PROVE  Since(Append(q, f), r.device, k, Append(q, f)[k].snapshot.to, top)
    BY <1>1
  <2>1. k \in 1 .. Len(q)
    BY <1>1
  <2>2. Since(q, r.device, k, Append(q, f)[k].snapshot.to, top)
    BY <1>1, <2>1 DEF Owed
  <2> QED
    BY <1>1, <2>1, <2>2, SinceAnswered
<1>3. 0 \in 0 .. Len(q)
  BY <1>1
<1> QED
  BY <1>2, <1>3, SinceAnswered DEF Owed

(* The next chunk is sent.                                                   *)
LEMMA OwedProduced ==
  ASSUME NEW r \in StreamRecords, NEW q \in Seq(Event \cup Answers), NEW n, NEW top \in Nat,
         By(q, top), NEW new \in Seq(Events(top + 1)),
         \A f \in Range(new) : f.device = r.device => f.kind = "output",
         \E f \in Range(new) : f.device = r.device,
         Owed(n, r, q, top)
  PROVE  Owed(n, r, q \o new, top + 1)
<1>1. ASSUME NEW k \in 0 .. Len(q), NEW base \in Nat, Since(q, r.device, k, base, top)
      PROVE  Since(q \o new, r.device, k, base, top + 1)
  BY <1>1, SinceProduced DEF By
<1>2. /\ Len(q) \in Nat /\ Len(new) \in Nat /\ Len(q \o new) = Len(q) + Len(new)
      /\ \A k \in 1 .. Len(q) : (q \o new)[k] = q[k] /\ k \in 0 .. Len(q)
      /\ \A k \in 1 .. Len(new) : (q \o new)[k + Len(q)] = new[k]
  BY LenProperties
<1>3. ASSUME r.setup = "asking", NEW k \in 1 .. Len(q \o new), Grants((q \o new)[k], n)
      PROVE  Since(q \o new, r.device, k, (q \o new)[k].snapshot.to, top + 1)
  <2>1. k \in 1 .. Len(q)
    <3> SUFFICES ASSUME k \notin 1 .. Len(q) PROVE FALSE
      OBVIOUS
    <3>1. k - Len(q) \in 1 .. Len(new) /\ (k - Len(q)) + Len(q) = k
      BY <1>2
    <3>2. (q \o new)[k] = new[k - Len(q)] /\ new[k - Len(q)] \in Events(top + 1)
      BY <1>2, <3>1, ElementOfSeq
    <3> QED
      BY <1>3, <3>2, EventsAreNoAnswers DEF Grants, Events, Answers
  <2>2. (q \o new)[k] = q[k] /\ Since(q, r.device, k, q[k].snapshot.to, top)
    BY <1>2, <1>3, <2>1 DEF Owed
  <2>3. q[k].snapshot.to \in Nat
    BY <1>3, <2>2, GrantsFrom
  <2> QED
    BY <1>1, <1>2, <2>1, <2>2, <2>3
<1>4. 0 \in 0 .. Len(q)
  BY <1>2
<1>5. r.setup \in {"answered", "ready"} => Owed(n, r, q \o new, top + 1)
  BY <1>1, <1>4, OwedFrom DEF Owed
<1> QED
  BY <1>3, <1>5 DEF Owed

(* What a stream is owed depends on its setup alone.                          *)
SetupKept(n) ==
    /\ streams'[n].setup = streams[n].setup /\ streams'[n].device = streams[n].device
    /\ streams'[n].snapshot = streams[n].snapshot /\ streams'[n].answer = streams[n].answer
    /\ streams'[n].pending = streams[n].pending /\ streams'[n].overflow = streams[n].overflow

(* So a stream whose setup is kept is owed what it was.                      *)
LEMMA SetupOwes ==
  ASSUME NEW n, NEW q, NEW top, SetupKept(n), Owed(n, streams[n], q, top)
  PROVE  Owed(n, streams'[n], q, top)
  BY DEF SetupKept, Owed

(* An event is kept for a stream that is set up, or applied by one that is, if *)
(* it is the observer's; others leave it alone.                               *)
LEMMA EventKept ==
  ASSUME Typed, OneOpen, Routed, ReadEvent, NEW n \in StreamIds, streams[n].dispose = "no",
         streams[n].setup \in {"asking", "answered", "ready"}
  PROVE  \E event \in Event :
           /\ event = toMain[1] /\ toMain # <<>> /\ toMain' = Tail(toMain)
           /\ UNCHANGED <<up, marker, observer, produced>>
           /\ streams'[n].dispose = "no" /\ streams'[n].setup = streams[n].setup /\ streams'[n].device = streams[n].device
           /\ event.device # streams[n].device => streams'[n] = streams[n] /\ UNCHANGED view
           /\ event.device = streams[n].device =>
                 /\ streams[n].setup = "answered" /\ ~streams'[n].overflow =>
                       /\ streams'[n].answer = streams[n].answer /\ ~streams[n].overflow
                       /\ streams'[n].pending = Append(streams[n].pending, event)
                 /\ streams[n].setup = "ready" =>
                       /\ streams'[n].snapshot = Applied(streams[n].snapshot, event)
                       /\ IF Members(n) # {} /\ (event.kind = "output" => Follows(streams[n].snapshot, event))
                          THEN OnPhones(event) ELSE UNCHANGED view
<1> USE DEF Typed
<1>0. NoStream \notin StreamIds
  BY DEF NoStream, StreamIds
<1>1. PICK event \in Event :
         /\ event = Head(toMain) /\ toMain # <<>> /\ toMain' = Tail(toMain)
         /\ UNCHANGED <<up, marker, observer, produced>> /\ StagesKept(n)
  BY EventPassed
<1>2. Head(toMain) = toMain[1] /\ n = current /\ streams[n] \in StreamRecords
  BY DEF OneOpen, Streamed
<1>3. event.device \in Devices
  BY DEF Event
<1>4. CASE event.device # streams[n].device
  <2>1. owner[event.device] = NoStream
    BY <1>2, <1>3, <1>4 DEF Routed
  <2>2. UNCHANGED <<streams, view>>
    BY <1>1, <2>1 DEF ReadEvent
  <2> QED
    BY <1>1, <1>2, <1>4, <2>2 DEF StagesKept
<1>5. CASE event.device = streams[n].device
  <2>1. owner[event.device] = n /\ ~Closing(n)
    BY <1>2, <1>3, <1>5 DEF Routed, Closing
  <2>2. CASE streams[n].snapshot = NoSnapshot
    <3>1. streams' = [streams EXCEPT
                  ![n].pending = IF Len(@) < MaxPending THEN Append(@, event) ELSE @,
                  ![n].overflow = @ \/ Len(streams[n].pending) >= MaxPending]
      BY <1>0, <1>1, <1>2, <2>1, <2>2 DEF ReadEvent
    <3>2. /\ streams'[n].overflow = (streams[n].overflow \/ Len(streams[n].pending) >= MaxPending)
          /\ streams'[n].pending = IF Len(streams[n].pending) < MaxPending THEN Append(streams[n].pending, event)
                                   ELSE streams[n].pending
      BY <1>2, <3>1 DEF Streamed, StreamRecords, Stream
    <3>3. Len(streams[n].pending) \in Nat
      BY <1>2, LenProperties DEF StreamRecords, Stream
    <3>4. streams[n].setup # "ready"
      BY <1>2, <2>2 DEF StreamRecords
    <3>5. ~streams'[n].overflow => ~streams[n].overflow /\ streams'[n].pending = Append(streams[n].pending, event)
      <4>1. ~streams'[n].overflow => ~streams[n].overflow /\ ~(Len(streams[n].pending) >= MaxPending)
        BY <3>2, Zenon
      <4>2. ~(Len(streams[n].pending) >= MaxPending) => Len(streams[n].pending) < MaxPending
        BY <3>3, TerminalStreamsAssumption
      <4> QED
        BY <3>2, <4>1, <4>2, Zenon
    <3> QED
      BY <1>1, <1>2, <1>5, <3>4, <3>5 DEF StagesKept
  <2>3. CASE streams[n].snapshot # NoSnapshot
    <3>1. /\ streams' = [streams EXCEPT ![n].snapshot = Applied(@, event)]
          /\ IF Members(n) # {} /\ (event.kind = "output" => Follows(streams[n].snapshot, event))
             THEN OnPhones(event) ELSE UNCHANGED <<view, reached>>
      BY <1>0, <1>1, <1>2, <2>1, <2>3 DEF ReadEvent
    <3>2. streams'[n].snapshot = Applied(streams[n].snapshot, event)
      BY <1>2, <3>1 DEF Streamed, StreamRecords, Stream
    <3>3. streams[n].setup = "ready"
      BY <1>2, <2>3 DEF StreamRecords
    <3> QED
      BY <1>1, <1>2, <1>5, <3>1, <3>2, <3>3 DEF StagesKept
  <2> QED
    BY <2>2, <2>3
<1> QED
  BY <1>4, <1>5

(* A stream that was fed, and is with nothing new on its way, is still fed.    *)
LEMMA FedOn ==
  ASSUME Typed, Happened, Fed, NEW n \in StreamIds, Feeding(n)', streams[n].dispose = "no", SetupKept(n),
         UNCHANGED <<observer, produced>>,
         \/ UNCHANGED toMain
         \/ toMain # <<>> /\ toMain' = Tail(toMain) /\ toMain[1] \in Answers
         \/ \E f \in Answers : toMain' = Append(toMain, f) /\ ~Grants(f, n)
  PROVE  Owed(n, streams'[n], toMain', produced')
<1>1. Feeding(n)
  BY DEF Feeding, SetupKept
<1>2. Owed(n, streams[n], toMain, produced)
  BY <1>1 DEF Fed
<1>3. streams[n] \in StreamRecords /\ toMain \in Seq(Event \cup Answers) /\ By(toMain, produced) /\ produced \in Nat
  BY HappenedQueue DEF Typed, Streamed, Brokered
<1>4. toMain[1] \in Answers => ~For(toMain, streams[n].device, 1)
  BY EventsAreNoAnswers DEF For, Answers
<1>5. Owed(n, streams[n], toMain', produced)
  BY <1>2, <1>3, <1>4, OwedTail, OwedAnswered
<1> QED
  BY <1>5, SetupOwes

(* Reading an event leaves a stream what it is owed.                          *)
LEMMA FedByEvent ==
  ASSUME Typed, OneOpen, Routed, Happened, Fed, ReadEvent, NEW n \in StreamIds, Feeding(n)'
  PROVE  Owed(n, streams'[n], toMain', produced')
<1>0. streams[n].dispose = "no" /\ streams[n].setup \in {"asking", "answered", "ready"}
  <2>1. StagesKept(n)
    BY EventPassed DEF Typed
  <2> QED
    BY <2>1 DEF StagesKept, Feeding
<1>1. PICK event \in Event :
           /\ event = toMain[1] /\ toMain # <<>> /\ toMain' = Tail(toMain)
           /\ UNCHANGED <<up, marker, observer, produced>>
           /\ streams'[n].dispose = "no" /\ streams'[n].setup = streams[n].setup /\ streams'[n].device = streams[n].device
           /\ event.device # streams[n].device => streams'[n] = streams[n] /\ UNCHANGED view
           /\ event.device = streams[n].device =>
                 /\ streams[n].setup = "answered" /\ ~streams'[n].overflow =>
                       /\ streams'[n].answer = streams[n].answer /\ ~streams[n].overflow
                       /\ streams'[n].pending = Append(streams[n].pending, event)
                 /\ streams[n].setup = "ready" => streams'[n].snapshot = Applied(streams[n].snapshot, event)
  BY <1>0, EventKept
<1>2. Feeding(n)
  BY <1>0, <1>1 DEF Feeding
<1>3. Owed(n, streams[n], toMain, produced)
  BY <1>2 DEF Fed
<1>4. streams[n] \in StreamRecords /\ toMain \in Seq(Event \cup Answers) /\ By(toMain, produced) /\ produced \in Nat
  BY HappenedQueue DEF Typed, Streamed, Brokered
<1>5. CASE event.device # streams[n].device
  <2>1. ~For(toMain, streams[n].device, 1)
    BY <1>1, <1>5 DEF For
  <2>2. Owed(n, streams[n], Tail(toMain), produced)
    BY <1>1, <1>3, <1>4, <2>1, OwedTail
  <2> QED
    BY <1>1, <1>5, <2>2
<1>6. CASE event.device = streams[n].device /\ streams[n].setup = "asking"
  <2>1. Owed(n, streams[n], Tail(toMain), produced)
    BY <1>1, <1>3, <1>4, <1>6, OwedTail
  <2> QED
    BY <1>1, <1>6, <2>1 DEF Owed
<1>7. For(toMain, streams[n].device, 1) <=> event.device = streams[n].device
  BY <1>1 DEF For
<1>8. ASSUME NEW x \in Snapshots, Since(toMain, streams[n].device, 0, x.to, produced), event.device = streams[n].device
      PROVE  Since(Tail(toMain), streams[n].device, 0, Applied(x, event).to, produced)
  <2>1. x.to \in Nat
    BY TerminalStreamsAssumption DEF Snapshots, Snapshot
  <2>2. /\ event.kind = "output"
        /\ Since(Tail(toMain), streams[n].device, 0, IF event.at = x.to + 1 THEN event.at ELSE x.to, produced)
    BY <1>1, <1>4, <1>7, <1>8, <2>1, SinceHead DEF By
  <2>3. Applied(x, event).to = IF event.at = x.to + 1 THEN event.at ELSE x.to
    BY <2>2, AppliedSnapshot DEF Follows
  <2> QED
    BY <2>2, <2>3
<1>9. CASE event.device = streams[n].device /\ streams[n].setup = "answered"
  <2> SUFFICES ASSUME ~streams'[n].overflow
               PROVE  Since(Tail(toMain), streams[n].device, 0, WithPending(streams'[n].answer, streams'[n].pending).to, produced)
    BY <1>1, <1>9 DEF Owed
  <2>1. /\ streams'[n].answer = streams[n].answer /\ ~streams[n].overflow
        /\ streams'[n].pending = Append(streams[n].pending, event)
    BY <1>1, <1>9
  <2>2. streams[n].answer \in Snapshots /\ streams[n].pending \in Seq(Event)
    BY <1>4, <1>9, OwedFrom DEF StreamRecords, Stream
  <2>3. WithPending(streams'[n].answer, streams'[n].pending)
          = Applied(WithPending(streams[n].answer, streams[n].pending), event)
    BY <2>1, <2>2, PendingAppended
  <2>4. WithPending(streams[n].answer, streams[n].pending) \in Snapshots
    BY <2>2, PendingSnapshot
  <2>5. Since(toMain, streams[n].device, 0, WithPending(streams[n].answer, streams[n].pending).to, produced)
    BY <1>3, <1>9, <2>1 DEF Owed
  <2> QED
    BY <1>8, <1>9, <2>3, <2>4, <2>5
<1>10. CASE event.device = streams[n].device /\ streams[n].setup = "ready"
  <2>1. streams[n].snapshot \in Snapshots /\ streams'[n].snapshot = Applied(streams[n].snapshot, event)
    BY <1>1, <1>4, <1>10, OwedFrom
  <2>2. Since(toMain, streams[n].device, 0, streams[n].snapshot.to, produced)
    BY <1>3, <1>10 DEF Owed
  <2>3. Since(Tail(toMain), streams[n].device, 0, streams'[n].snapshot.to, produced)
    BY <1>8, <1>10, <2>1, <2>2
  <2> QED
    BY <1>1, <1>10, <2>3 DEF Owed
<1> QED
  BY <1>0, <1>5, <1>6, <1>9, <1>10

(* So does the answer a stream waits for.                                    *)
LEMMA FedByAnswer ==
  ASSUME Typed, Happened, Fed, ReadSubscribed, NEW n \in StreamIds, Feeding(n)'
  PROVE  Owed(n, streams'[n], toMain', produced')
<1> USE DEF Typed
<1>1. PICK answer \in Answers : LET m == answer.stream IN
           /\ answer = Head(toMain) /\ toMain # <<>> /\ toMain' = Tail(toMain) /\ answer.kind = "subscribed"
           /\ m \in StreamIds /\ UNCHANGED <<observer, produced>>
           /\ \/ UNCHANGED streams
              \/ /\ streams[m].setup = "asking" /\ answer.ok /\ answer.snapshot \in Snapshots
                 /\ SetupMoves(m, "answered") /\ streams'[m].answer = answer.snapshot
                 /\ streams'[m].pending = streams[m].pending
              \/ SetupMoves(m, "failed")
  BY SubscribedRead
<1>2. Head(toMain) = toMain[1] /\ toMain[1] \in Answers
  BY <1>1
<1>3. CASE streams'[n] = streams[n]
  <2>1. streams[n].dispose = "no" /\ SetupKept(n)
    BY <1>3 DEF Feeding, SetupKept
  <2> QED
    BY <1>1, <1>2, <2>1, FedOn
<1>4. CASE /\ n = answer.stream /\ streams[n].setup = "asking" /\ answer.ok /\ answer.snapshot \in Snapshots
           /\ SetupMoves(n, "answered") /\ streams'[n].answer = answer.snapshot
           /\ streams'[n].pending = streams[n].pending
  <2>1. /\ streams'[n].setup = "answered" /\ streams'[n].dispose = streams[n].dispose
        /\ streams'[n].device = streams[n].device
    BY <1>4 DEF SetupMoves
  <2>2. Feeding(n) /\ Grants(toMain[1], n)
    BY <1>1, <1>2, <1>4, <2>1 DEF Feeding, Grants
  <2>3. toMain \in Seq(Event \cup Answers) /\ 1 \in 1 .. Len(toMain) /\ produced \in Nat
    <3>1. toMain \in Seq(Event \cup Answers)
      BY DEF Brokered
    <3>2. Len(toMain) \in Nat /\ Len(toMain) # 0
      BY <1>1, <3>1, LenProperties, EmptySeq
    <3> QED
      BY <3>1, <3>2, HappenedQueue
  <2>4. Since(toMain, streams[n].device, 1, answer.snapshot.to, produced)
    BY <1>1, <1>2, <1>4, <2>2, <2>3 DEF Fed, Owed
  <2>5. Since(Tail(toMain), streams[n].device, 1 - 1, answer.snapshot.to, produced)
    BY <2>3, <2>4, SinceTail
  <2>6. streams[n].pending \in Seq(Event) /\ answer.snapshot.to \in Nat
    BY <2>2, <1>2, <1>1, GrantsFrom DEF Streamed, StreamRecords, Stream
  <2> DEFINE after == WithPending(answer.snapshot, streams[n].pending)
  <2>7. after \in Snapshots /\ answer.snapshot.to <= after.to
    BY <1>4, <2>6, PendingSnapshot
  <2>8. after.to \in Nat
    BY <2>7, TerminalStreamsAssumption DEF Snapshots, Snapshot
  <2>9. Since(Tail(toMain), streams[n].device, 0, after.to, produced)
    <3> HIDE DEF after
    <3>1. 1 - 1 = 0
      OBVIOUS
    <3>2. Since(Tail(toMain), streams[n].device, 0, answer.snapshot.to, produced)
      BY <2>5, <3>1
    <3> QED
      BY <2>3, <2>6, <2>7, <2>8, <3>2, SinceRaised
  <2> QED
    BY <1>1, <1>4, <2>1, <2>9 DEF Owed
<1> QED
  BY <1>1, <1>3, <1>4 DEF SetupMoves, Feeding

(* A subscription makes the observer of the stream that asked for it live; no   *)
(* other is set up for it meanwhile.                                         *)
LEMMA FedFromStart ==
  ASSUME Typed, LastAsk, Happened, Fed, BrokerSubscribes, NEW n \in StreamIds, Feeding(n)'
  PROVE  Owed(n, streams'[n], toMain', produced')
<1> USE DEF Typed
<1>1. PICK f \in Answers :
          /\ toMain' = Append(toMain, f) /\ f.stream = Head(toBroker).stream
          /\ Head(toBroker).ask = "subscribe" /\ toBroker # <<>> /\ UNCHANGED <<streams, produced>>
          /\ f.ok => f.snapshot.to = produced
  <2>1. PICK f : f = [kind |-> "subscribed", stream |-> Head(toBroker).stream, ok |-> alive,
                      snapshot |-> IF alive THEN Bounded(0, produced) ELSE NoSnapshot]
    OBVIOUS
  <2>2. toMain' = Append(toMain, f) /\ toBroker # <<>> /\ Head(toBroker).ask = "subscribe" /\ UNCHANGED <<streams, produced>>
    BY <2>1 DEF BrokerSubscribes
  <2>3. Head(toBroker) \in Ask /\ alive \in BOOLEAN
    BY <2>2, HeadTailProperties DEF Brokered
  <2>4. Bounded(0, produced) \in Snapshots /\ Snapshots \subseteq Snapshot /\ NoSnapshot \notin Snapshots
        /\ Bounded(0, produced).to = produced
    BY BoundedSnapshot DEF Brokered, Snapshots, Snapshot, NoSnapshot
  <2>5. PICK x : x = IF alive THEN Bounded(0, produced) ELSE NoSnapshot
    OBVIOUS
  <2>6. f = [kind |-> "subscribed", stream |-> Head(toBroker).stream, ok |-> alive, snapshot |-> x]
    BY <2>1, <2>5
  <2>7. f \in Answer
    BY <2>3, <2>4, <2>5, <2>6 DEF Answer, Ask
  <2>8. f \in Answers
    BY <2>4, <2>5, <2>6, <2>7 DEF Answers
  <2> QED
    BY <2>2, <2>4, <2>5, <2>6, <2>8
<1>2. streams[n].dispose = "no" /\ streams[n].setup \in {"asking", "answered", "ready"}
  BY <1>1 DEF Feeding
<1>3. toBroker \in Seq(Ask) /\ toMain \in Seq(Event \cup Answers) /\ produced \in Nat
  BY HappenedQueue DEF Brokered
<1>4. streams[n].setup = "asking" /\ ~AnsweredFor(n)
  BY <1>1, <1>2, <1>3, AsksTaken DEF LastAsk
<1>5. /\ Len(toMain) \in Nat /\ Len(toMain') = Len(toMain) + 1 /\ toMain'[Len(toMain) + 1] = f
      /\ \A k \in 1 .. Len(toMain) : toMain'[k] = toMain[k] /\ toMain[k] \in Range(toMain)
  BY <1>1, <1>3, LenProperties DEF Range
<1>6. \A k \in 1 .. Len(toMain) : ~Grants(toMain[k], n)
  BY <1>4, <1>5 DEF AnsweredFor, Grants, Answers
<1>7. ASSUME NEW k \in 1 .. Len(toMain'), Grants(toMain'[k], n)
      PROVE  Since(toMain', streams[n].device, k, toMain'[k].snapshot.to, produced)
  <2>1. k = Len(toMain') /\ toMain'[k] = f
    BY <1>5, <1>6, <1>7
  <2>2. toMain'[k].snapshot.to = produced
    BY <1>1, <1>7, <2>1 DEF Grants
  <2>3. Len(toMain') \in Nat
    BY <1>5
  <2> QED
    BY <1>3, <2>1, <2>2, <2>3, SinceLast
<1> QED
  BY <1>1, <1>4, <1>7 DEF Owed

(* Every step leaves a stream whose observer is live what it is owed.          *)
LEMMA NextFed == ASSUME Typed, OneOpen, Routed, LastAsk, Happened, Fed, Next PROVE Fed'
<1> USE DEF Typed
<1>0. toMain \in Seq(Event \cup Answers) /\ NoStream \notin StreamIds
  BY DEF Brokered, NoStream, StreamIds
<1> DEFINE Good(n) == Owed(n, streams'[n], toMain', produced')
<1> SUFFICES ASSUME NEW n \in StreamIds, Feeding(n)' PROVE Good(n)
  BY DEF Fed
<1>1. ASSUME NEW s \in Sessions, CommandStep(s) PROVE Good(n)
  <2>1. Closes(n) /\ UNCHANGED <<observer, produced, toMain>>
    BY <1>1, CommandsClose
  <2>2. SetupKept(n) /\ streams[n].dispose = "no"
    BY <2>1 DEF Closes, SetupKept, Feeding
  <2> QED
    BY <2>1, <2>2, FedOn
<1>2. ASSUME NEW s \in Sessions, FindStream(s) \/ TakeAfterDisposal(s) PROVE Good(n)
  <2>1. UNCHANGED <<observer, produced, toMain>>
    BY <1>2, StreamFound
  <2>2. CASE streams'[n] = streams[n]
    <3>1. SetupKept(n) /\ streams[n].dispose = "no"
      BY <2>2 DEF SetupKept, Feeding
    <3> QED
      BY <2>1, <3>1, FedOn
  <2>3. CASE Started(n, s)
    <3>1. streams'[n].setup = "asking" /\ ~Referenced(n)
      BY <2>3 DEF Started, Unused
    <3>2. \A k \in 1 .. Len(toMain) : ~Grants(toMain[k], n)
      BY <1>0, <3>1, LenProperties DEF Referenced, Grants, Answers
    <3> QED
      BY <2>1, <3>1, <3>2 DEF Owed
  <2>4. ASSUME NEW m \in StreamIds, Started(m, s) PROVE Good(n)
    <3>1. m # n => streams'[n] = streams[n]
      BY <2>4 DEF Started, Feeding
    <3> QED
      BY <2>2, <2>3, <2>4, <3>1
  <2> QED
    BY <1>2, <2>2, <2>4, StreamFound
<1>3. ReadEvent => Good(n)
  BY FedByEvent
<1>4. ReadSubscribed => Good(n)
  BY FedByAnswer
<1>5. ASSUME streams'[n] = streams[n], UNCHANGED <<observer, produced>>,
             UNCHANGED toMain \/ (toMain # <<>> /\ toMain' = Tail(toMain) /\ toMain[1] \in Answers)
      PROVE  Good(n)
  <2>1. SetupKept(n) /\ streams[n].dispose = "no"
    BY <1>5 DEF SetupKept, Feeding
  <2> QED
    BY <1>5, <2>1, FedOn
<1>6. ASSUME NEW m \in StreamIds, DisposalOver(m) \/ DropOver(m) \/ NothingOver(m) \/ SetupMoves(m, "failed")
      PROVE  streams'[n] = streams[n]
  BY <1>6 DEF DisposalOver, DropOver, NothingOver, Ends, SetupMoves, Feeding
<1>7. CASE ReadUnsubscribed
  <2>1. /\ Head(toMain).stream \in StreamIds /\ toMain # <<>> /\ toMain' = Tail(toMain) /\ UNCHANGED <<observer, produced>>
        /\ Unsubscribed(Head(toMain).stream) /\ Head(toMain) = toMain[1] /\ toMain[1] \in Answers
    BY <1>7, FirstFrame DEF ReadUnsubscribed, NextFrame, Answers, Answer
  <2> QED
    BY <1>5, <1>6, <2>1, UnsubscriptionOver
<1>8. ASSUME NEW m \in StreamIds, SetupContinues(m) PROVE Good(n)
  <2>1. /\ streams[m].setup = "answered" /\ UNCHANGED <<observer, produced, toMain>>
        /\ \/ /\ SetupMoves(m, "ready")
              /\ streams'[m].snapshot = WithPending(streams[m].answer, streams[m].pending)
           \/ SetupMoves(m, "dropping")
    BY <1>8, SetupGoesOn
  <2>2. CASE n # m
    <3>1. streams'[n] = streams[n]
      BY <2>1, <2>2 DEF SetupMoves
    <3> QED
      BY <1>5, <2>1, <3>1
  <2>3. CASE n = m
    <3>1. /\ SetupMoves(n, "ready")
          /\ streams'[n].snapshot = WithPending(streams[n].answer, streams[n].pending)
      BY <2>1, <2>3 DEF SetupMoves, Feeding
    <3>2. /\ streams'[n].setup = "ready" /\ streams'[n].device = streams[n].device /\ streams'[n].dispose = streams[n].dispose
      BY <3>1 DEF SetupMoves
    <3>3. ~streams[n].overflow
      <4>1. streams' = [streams EXCEPT ![n] = [streams[n] EXCEPT
                !.setup = IF streams[n].overflow THEN "dropping" ELSE "ready", !.answer = NoSnapshot, !.pending = <<>>,
                !.snapshot = IF streams[n].overflow THEN streams[n].answer
                             ELSE WithPending(streams[n].answer, streams[n].pending)]]
        BY <1>8, <2>3 DEF SetupContinues
      <4>2. streams'[n].setup = IF streams[n].overflow THEN "dropping" ELSE "ready"
        BY <4>1 DEF Streamed, StreamRecords, Stream
      <4> QED
        BY <3>2, <4>2
    <3>4. Feeding(n)
      BY <2>1, <2>3, <3>2 DEF Feeding
    <3>5. Since(toMain, streams[n].device, 0, WithPending(streams[n].answer, streams[n].pending).to, produced)
      BY <2>1, <2>3, <3>3, <3>4 DEF Fed, Owed
    <3> QED
      BY <2>1, <3>1, <3>2, <3>5 DEF Owed
  <2> QED
    BY <2>2, <2>3
<1>9. ASSUME NEW m \in StreamIds, DisposeContinues(m) PROVE Good(n)
  <2>1. UNCHANGED <<observer, produced, toMain>> /\ (DisposalAsks(m) \/ Ends(m))
    BY <1>9, DisposalGoesOn
  <2>2. streams'[n] = streams[n]
    BY <2>1 DEF DisposalAsks, Ends, Feeding
  <2> QED
    BY <1>5, <2>1, <2>2
<1>10. BrokerSubscribes => Good(n)
  BY FedFromStart
<1>11. CASE BrokerUnsubscribes
  <2>1. PICK f : f = [kind |-> "unsubscribed", stream |-> Head(toBroker).stream, ok |-> TRUE, snapshot |-> NoSnapshot]
    OBVIOUS
  <2>2. toMain' = Append(toMain, f) /\ toBroker # <<>> /\ UNCHANGED <<streams, produced>>
        /\ observer' = [observer EXCEPT ![Head(toBroker).device] = "none"]
    BY <1>11, <2>1 DEF BrokerUnsubscribes
  <2>3. f \in Answers /\ ~Grants(f, n)
    <3>1. Head(toBroker) \in Ask
      BY <2>2, HeadTailProperties DEF Brokered
    <3>2. f \in Answer /\ f.kind = "unsubscribed" /\ f.snapshot = NoSnapshot
      BY <2>1, <3>1 DEF Answer, Ask
    <3> QED
      BY <3>2 DEF Answers, Grants
  <2>4. Feeding(n)
    <3>1. streams[n].dispose = "no" /\ streams[n].setup \in {"asking", "answered", "ready"} /\ streams[n].device \in Devices
      BY <2>2 DEF Feeding, Streamed, StreamRecords
    <3>2. observer[streams[n].device] = "live"
      BY <2>2, <3>1 DEF Feeding, Brokered
    <3> QED
      BY <3>1, <3>2 DEF Feeding
  <2>5. Owed(n, streams[n], toMain', produced)
    BY <1>0, <2>2, <2>3, <2>4, OwedAnswered DEF Fed
  <2> QED
    BY <2>2, <2>5
<1>12. CASE Produce
  <2>1. UNCHANGED streams /\ produced' = produced + 1
    BY <1>12 DEF Produce
  <2>2. streams[n] \in StreamRecords /\ streams[n].device \in Devices
    BY <2>1 DEF Feeding, Streamed, StreamRecords
  <2>3. observer'[streams[n].device] = "live"
    BY <2>1 DEF Feeding
  <2>4. /\ observer[streams[n].device] = "live"
        /\ \E new \in Seq(Events(produced + 1)) :
               /\ toMain' = toMain \o new
               /\ \A f \in Range(new) : f.device = streams[n].device => f.kind = "output"
               /\ \E f \in Range(new) : f.device = streams[n].device
    BY <1>12, <2>2, <2>3, ProducedFor
  <2>5. Owed(n, streams[n], toMain, produced)
    BY <2>1, <2>4 DEF Feeding, Fed
  <2>6. Owed(n, streams[n], toMain', produced + 1)
    BY <1>0, <2>2, <2>4, <2>5, HappenedQueue, OwedProduced
  <2> QED
    BY <2>1, <2>6
<1>13. CASE TerminalGoes \/ Break
  <2>1. observer' = [d \in Devices |-> "none"] /\ (UNCHANGED streams \/ \A m \in StreamIds : BrokenOff(m))
    BY <1>13, BrokeOff DEF TerminalGoes
  <2>2. streams[n].setup # "failed" /\ streams'[n].device = streams[n].device
    BY <2>1 DEF Feeding, BrokenOff
  <2>3. streams'[n].device \in Devices
    BY <2>2 DEF Streamed, StreamRecords
  <2> QED
    BY <2>1, <2>3 DEF Feeding
<1>14. ASSUME NEW m \in StreamIds, TimeOut(m) PROVE Good(n)
  <2>1. /\ UNCHANGED <<observer, produced, toMain>>
        /\ SetupMoves(m, "failed") \/ DisposalOver(m) \/ DropOver(m) \/ NothingOver(m)
    BY <1>14, TimedOut
  <2> QED
    BY <1>5, <1>6, <2>1
<1> QED
  BY <1>1, <1>2, <1>3, <1>4, <1>7, <1>8, <1>9, <1>10, <1>11, <1>12, <1>13, <1>14
  DEF Next, GatewayStep, BrokerStep, Phone, Fault, ReadFrame, CommandStep

(* The members of a stream that is fed and has text show some.                *)
Seen == \A n \in StreamIds : Feeding(n) /\ streams[n].setup = "ready" /\ streams[n].snapshot.to > 0
                               => \A s \in Members(n) : view[s] # <<>>

(* No observer becomes live but by a subscription.                           *)
LEMMA LiveBefore ==
  ASSUME Typed, Next, NEW d \in Devices, observer'[d] = "live"
  PROVE  observer[d] = "live" \/ BrokerSubscribes
<1> USE DEF Typed
<1>1. CASE UNCHANGED observer
  BY <1>1
<1>2. CASE BrokerUnsubscribes
  BY <1>2 DEF BrokerUnsubscribes, Brokered
<1>3. Produce => observer[d] = "live"
  BY ProducedFor
<1>4. CASE TerminalGoes \/ Break
  BY <1>4 DEF TerminalGoes, Break
<1>5. ASSUME NEW s \in Sessions, CommandStep(s) \/ FindStream(s) \/ TakeAfterDisposal(s) PROVE UNCHANGED observer
  BY <1>5, CommandsClose, StreamFound
<1>6. ReadFrame => UNCHANGED observer
  BY DEF ReadFrame, ReadEvent, ReadSubscribed, ReadUnsubscribed
<1>7. ASSUME NEW n \in StreamIds, SetupContinues(n) \/ DisposeContinues(n) \/ TimeOut(n) PROVE UNCHANGED observer
  BY <1>7 DEF SetupContinues, DisposeContinues, TimeOut
<1> QED
  BY <1>1, <1>2, <1>3, <1>4, <1>5, <1>6, <1>7 DEF Next, GatewayStep, BrokerStep, Phone, Fault, CommandStep

(* The text of a snapshot that has chunks is not empty.                       *)
LEMMA ShownSome == ASSUME NEW x \in Snapshots, x.to > 0, NEW text PROVE Shown(text, x) # <<>>
<1>1. x.from \in Nat /\ x.to \in Nat /\ x.from < x.to
  BY TerminalStreamsAssumption DEF Snapshots, Snapshot
<1>2. PICK k \in Nat : k = x.to - x.from /\ k # 0
  BY <1>1
<1>3. Shown(text, x) = [i \in 1 .. k |-> x.from + i]
  BY <1>2 DEF Shown
<1>4. 1 \in DOMAIN [i \in 1 .. k |-> x.from + i]
  BY <1>2
<1>5. DOMAIN <<>> = {}
  OBVIOUS
<1> QED
  BY <1>3, <1>4, <1>5

(* A member of a stream that is fed keeps seeing its text.                     *)
LEMMA NextSeen ==
  ASSUME Typed, OneOpen, Belong, Routed, LastAsk, Happened, Fed, Seen, Next
  PROVE  Seen'
<1> USE DEF Typed
<1>0. NoStream \notin StreamIds
  BY DEF NoStream, StreamIds
<1> SUFFICES ASSUME NEW n \in StreamIds, NEW s \in Sessions, Feeding(n)', streams'[n].setup = "ready",
                    streams'[n].snapshot.to > 0, marker'[s] = n
             PROVE  view'[s] # <<>>
  BY DEF Seen, Members
<1>1. streams'[n].dispose = "no" /\ observer'[streams'[n].device] = "live" /\ streams[n] \in StreamRecords
  BY DEF Feeding, Streamed
<1>2. ASSUME streams[n].dispose = "no", streams[n].setup = "ready", streams'[n].device = streams[n].device
      PROVE  Feeding(n)
  <2>1. streams[n].device \in Devices
    BY <1>1, <1>2 DEF StreamRecords
  <2>2. ~BrokerSubscribes
    <3> SUFFICES ASSUME BrokerSubscribes PROVE FALSE
      OBVIOUS
    <3>1. OnlyEnds(toBroker)
      BY <1>2 DEF LastAsk
    <3>2. toBroker # <<>> /\ Head(toBroker).ask = "subscribe"
      BY DEF BrokerSubscribes
    <3>3. toBroker \in Seq(Ask)
      BY DEF Brokered
    <3> QED
      BY <3>1, <3>2, <3>3, AsksTaken
  <2> QED
    BY <1>1, <1>2, <2>1, <2>2, LiveBefore DEF Feeding
<1>3. ASSUME streams[n].dispose = "no", streams[n].setup = "ready", streams'[n].device = streams[n].device,
             streams'[n].snapshot = streams[n].snapshot, marker[s] = n, view'[s] = view[s]
      PROVE  view'[s] # <<>>
  BY <1>2, <1>3 DEF Seen, Members
<1>4. ASSUME NEW t \in Sessions, CommandStep(t) PROVE view'[s] # <<>>
  <2>1. Closes(n) /\ streams[n].dispose = "no" /\ streams[n].setup = "ready"
    BY <1>1, <1>4, CommandsClose DEF Closes
  <2>2. CASE marker'[s] = marker[s] /\ view'[s] = view[s]
    BY <1>3, <2>1, <2>2 DEF Closes
  <2>3. CASE /\ s = t /\ marker'[t] = task[t].stream
             /\ view'[t] = Shown(view[t], streams[task[t].stream].snapshot)
    <3>1. streams[n].snapshot \in Snapshots /\ streams[n].snapshot.to > 0
      BY <1>1, <2>1 DEF StreamRecords, Closes
    <3> QED
      BY <2>3, <3>1, ShownSome
  <2> QED
    BY <1>0, <1>4, <2>2, <2>3, CommandsPlace
<1>5. ASSUME NEW t \in Sessions, FindStream(t) \/ TakeAfterDisposal(t) PROVE view'[s] # <<>>
  <2>1. UNCHANGED <<marker, view>> /\ (UNCHANGED streams \/ \E m \in StreamIds : Started(m, t))
    BY <1>5, StreamFound
  <2>2. Referenced(n)
    BY <2>1 DEF Referenced
  <2>3. streams'[n] = streams[n]
    BY <2>1, <2>2 DEF Started
  <2> QED
    BY <1>1, <1>3, <2>1, <2>3
<1>6. CASE ReadEvent
  <2>1. StagesKept(n)
    BY <1>6, EventPassed
  <2>2. streams[n].dispose = "no" /\ streams[n].setup = "ready"
    BY <1>1, <2>1 DEF StagesKept
  <2>3. PICK event \in Event :
           /\ event = toMain[1] /\ toMain # <<>>
           /\ UNCHANGED <<up, marker>> /\ streams'[n].device = streams[n].device
           /\ event.device # streams[n].device => streams'[n] = streams[n] /\ UNCHANGED view
           /\ event.device = streams[n].device =>
                 /\ streams'[n].snapshot = Applied(streams[n].snapshot, event)
                 /\ IF Members(n) # {} /\ (event.kind = "output" => Follows(streams[n].snapshot, event))
                    THEN OnPhones(event) ELSE UNCHANGED view
    BY <1>6, <2>2, EventKept
  <2>4. marker[s] = n /\ s \in up /\ s \in Members(n)
    BY <1>0, <2>3 DEF Belong, Members
  <2>5. CASE event.device # streams[n].device
    BY <1>3, <2>2, <2>3, <2>4, <2>5
  <2>6. CASE event.device = streams[n].device
    <3>1. Feeding(n)
      BY <1>2, <2>2, <2>3
    <3>2. streams[n].snapshot \in Snapshots /\ streams[n].snapshot.to \in Nat
      BY <1>1, <2>2, OwedFrom
    <3>3. toMain \in Seq(Event \cup Answers) /\ By(toMain, produced) /\ produced \in Nat
      BY HappenedQueue DEF Brokered
    <3>4. For(toMain, streams[n].device, 1)
      BY <2>3, <2>6 DEF For
    <3>5. Since(toMain, streams[n].device, 0, streams[n].snapshot.to, produced)
      BY <2>2, <3>1 DEF Fed, Owed
    <3>6. event.kind = "output"
      BY <2>3, <3>2, <3>3, <3>4, <3>5, SinceHead DEF By
    <3>7. CASE Follows(streams[n].snapshot, event)
      <4>1. OnPhones(event)
        BY <2>3, <2>4, <2>6, <3>7
      <4>2. view'[s] = Append(view[s], event.at)
        BY <1>0, <2>4, <3>6, <4>1 DEF OnPhones
      <4>3. event.at \in Nat /\ Len(view[s]) \in Nat
        BY LenProperties, TerminalStreamsAssumption DEF Shows, Event
      <4>4. Len(view'[s]) = Len(view[s]) + 1
        BY <4>2, LenProperties DEF Shows
      <4> QED
        BY <4>3, <4>4
    <3>8. CASE ~Follows(streams[n].snapshot, event)
      <4>1. UNCHANGED view /\ streams'[n].snapshot = streams[n].snapshot
        BY <2>3, <2>6, <3>6, <3>8 DEF Applied
      <4> QED
        BY <1>3, <2>2, <2>3, <2>4, <4>1
    <3> QED
      BY <3>7, <3>8
  <2> QED
    BY <2>5, <2>6
<1>7. CASE Aside /\ \/ FrameTurn /\ UNCHANGED <<streams, current>>
                    \/ \E m \in StreamIds : SetupStep(m) \/ EndStep(m) \/ AskStep(m)
                    \/ BreakStep
  <2>1. marker[s] = n /\ view'[s] = view[s]
    BY <1>7 DEF Aside
  <2>2. streams[n].dispose = "no" => streams[n].setup = "ready"
    BY <1>0, <2>1 DEF Belong, Closing
  <2>3. streams[n].dispose = "no" /\ streams'[n].snapshot = streams[n].snapshot /\ streams'[n].device = streams[n].device
    <3>1. CASE UNCHANGED streams
      BY <1>1, <3>1
    <3>2. ASSUME NEW m \in StreamIds, SetupStep(m) PROVE streams[n].dispose = "no" /\ streams'[n] = streams[n]
      <4>1. streams'[n].dispose = streams[n].dispose /\ (m # n => streams'[n] = streams[n])
        BY <3>2 DEF SetupStep, SetupMoves
      <4>2. streams[m].setup # "ready"
        BY <3>2 DEF SetupStep
      <4> QED
        BY <1>1, <2>2, <4>1, <4>2
    <3>3. ASSUME NEW m \in StreamIds, EndStep(m) \/ AskStep(m) PROVE streams'[n] = streams[n]
      BY <1>1, <3>3 DEF EndStep, Ends, AskStep, DisposalAsks
    <3>4. CASE BreakStep
      BY <1>1, <3>4 DEF BreakStep, BrokenOff
    <3> QED
      BY <1>1, <1>7, <3>1, <3>2, <3>3, <3>4
  <2> QED
    BY <1>3, <2>1, <2>2, <2>3
<1> QED
  BY <1>4, <1>5, <1>6, <1>7, StepsOfStreams

(* Once nothing is on its way, the members of a stream whose observer is live   *)
(* show all there is.                                                        *)
LEMMA UpToDate ==
  ASSUME Typed, Belong, Stretch, NeverBeyond, Newest, Fed, Seen, Quiet,
         NEW s \in up, NEW n \in StreamIds, Watches(s, n), observer[streams[n].device] = "live"
  PROVE  reached[s] = produced /\ (produced > 0 => view[s] # <<>>)
<1> USE DEF Typed
<1>0. s \in Sessions /\ marker[s] = n /\ streams[n].dispose = "no" /\ streams[n] \in StreamRecords /\ NoStream \notin StreamIds
  BY DEF Placed, Streamed, Watches, Closing, NoStream, StreamIds
<1>1. streams[n].setup = "ready" /\ Feeding(n)
  BY <1>0 DEF Belong, Closing, Feeding
<1>2. streams[n].snapshot.to \in Nat /\ produced \in Nat /\ reached[s] \in Nat
  BY <1>0, <1>1, OwedFrom, TerminalStreamsAssumption DEF Brokered, Shows
<1>3. produced <= streams[n].snapshot.to
  <2>1. Since(<<>>, streams[n].device, 0, streams[n].snapshot.to, produced)
    BY <1>1 DEF Fed, Owed, Quiet
  <2>2. \A v \in streams[n].snapshot.to + 1 .. produced : FALSE
    BY <2>1 DEF Since
  <2> QED
    BY <1>2, <2>2
<1>4. reached[s] <= produced
  BY <1>0 DEF NeverBeyond, IsTop, Within
<1>5. CASE produced = 0
  BY <1>2, <1>4, <1>5
<1>6. CASE produced > 0
  <2>1. view[s] # <<>>
    BY <1>0, <1>1, <1>2, <1>3, <1>6 DEF Seen, Members
  <2>2. view[s][Len(view[s])] = streams[n].snapshot.to /\ view[s][Len(view[s])] = reached[s]
    BY <1>0, <2>1 DEF Stretch, OneStretch, Newest, EndsAt
  <2> QED
    BY <1>2, <1>3, <1>4, <2>1, <2>2
<1> QED
  BY <1>2, <1>5, <1>6

-----------------------------------------------------------------------------
(* Everything that every state reached satisfies.                            *)
StreamsInv == /\ TypeInv /\ OneOpen /\ Belong /\ Stretch /\ Burst
              /\ Happened /\ NeverBeyond /\ Newest /\ UnderWay
              /\ Wanted /\ Refusals /\ Gone /\ Sole
              /\ Routed /\ LastAsk /\ Fed /\ Seen

(* The initial state satisfies it.                                           *)
LEMMA InitStreams == Init => StreamsInv
<1> SUFFICES ASSUME Init PROVE StreamsInv
  OBVIOUS
<1> USE TerminalStreamsAssumption
<1>0. TypeInv /\ NoStream \notin StreamIds
  BY InitTypes DEF NoStream, StreamIds
<1>1. /\ \A s \in Sessions : /\ marker[s] = NoStream /\ task[s] = Idle /\ view[s] = <<>> /\ reached[s] = 0
      /\ \A n \in StreamIds : streams[n] = Unused
      /\ current = NoStream /\ produced = 0 /\ toMain = <<>>
  BY DEF Init
<1>2. OneOpen
  BY <1>0, <1>1 DEF OneOpen, Unused, Settled
<1>3. Belong
  BY <1>1 DEF Belong, Idle
<1>4. Stretch
  BY <1>0, <1>1 DEF Stretch, Watches
<1>5. Burst
  <2>1. \A s \in Sessions : ~Late(s)
    BY <1>1 DEF Late, Waiting, Idle
  <2> QED
    BY <2>1 DEF Burst
<1>6. Happened
  <2>1. HappenedBy(0, Unused)
    BY DEF HappenedBy, Unused, NoSnapshot
  <2> QED
    BY <1>1, <2>1, QueueEmpty DEF Happened
<1>7. NeverBeyond
  <2>1. ASSUME NEW top, IsTop(top) PROVE Within(top)
    <3>1. top \in Nat
      BY <1>0, <2>1, TopIsNatural DEF TypeInv, Typed
    <3> QED
      BY <1>1, <3>1 DEF Within
  <2> QED
    BY <2>1 DEF NeverBeyond
<1>8. Newest
  BY <1>1 DEF Newest, EndsAt
<1>9. UnderWay
  BY <1>1 DEF UnderWay, Unused, Unsubscribing
<1>10. Wanted
  <2>1. \A n \in StreamIds : streams[n].interests = {} /\ streams[n].dispose = "done"
    BY <1>1 DEF Unused
  <2> QED
    BY <1>1, <2>1 DEF Wanted
<1>11. Refusals /\ Gone
  BY <1>1, QueueEmpty DEF Init, Refusals, Gone
<1>12. Sole
  <2>1. toBroker = <<>> /\ \A d \in Devices : observer[d] = "none"
    BY DEF Init
  <2> QED
    BY <1>1, <2>1, QueueEmpty DEF Sole, Alone, Asked, Answered, OneAnswer, Observed
<1>13. Routed
  <2>1. (\A d \in Devices : owner[d] = NoStream) /\ current \notin StreamIds
    BY <1>0 DEF Init
  <2> QED
    BY <2>1 DEF Routed
<1>14. LastAsk /\ Fed /\ Seen
  <2>1. \A n \in StreamIds : streams[n].dispose # "no"
    BY <1>1 DEF Unused
  <2> QED
    BY <2>1 DEF LastAsk, Fed, Seen, Feeding
<1> QED
  BY <1>0, <1>2, <1>3, <1>4, <1>5, <1>6, <1>7, <1>8, <1>9, <1>10, <1>11, <1>12, <1>13, <1>14 DEF StreamsInv

(* Every step keeps it.                                                      *)
LEMMA NextStreams == ASSUME StreamsInv, Next PROVE StreamsInv'
<1>1. Typed /\ Placed /\ Streamed /\ Shows /\ Brokered /\ Fits
  BY DEF StreamsInv, TypeInv, Typed
<1>2. /\ OneOpen /\ Belong /\ Stretch /\ Burst /\ Happened /\ NeverBeyond /\ Newest /\ UnderWay
      /\ Wanted /\ Refusals /\ Gone /\ Sole /\ Routed /\ LastAsk /\ Fed /\ Seen
  BY DEF StreamsInv
<1>3. TypeInv'
  BY <1>1, NextPlaced, NextStreamed, NextShows, NextBrokered, NextFits DEF TypeInv
<1>4. OneOpen' /\ Belong' /\ Stretch'
  BY <1>1, <1>2, NextOneOpen, NextBelong, NextStretch
<1>5. Burst' /\ Happened' /\ UnderWay'
  BY <1>1, <1>2, NextBurst, NextHappened, NextUnderWay
<1>6. NeverBeyond' /\ Newest'
  BY <1>1, <1>2, NextNeverBeyond
<1>7. Wanted' /\ Refusals' /\ Gone' /\ Sole'
  BY <1>1, <1>2, NextWanted, NextRefusals, NextGone, NextSole
<1>8. Routed' /\ LastAsk' /\ Fed' /\ Seen'
  BY <1>1, <1>2, NextRouted, NextLastAsk, NextFed, NextSeen
<1> QED
  BY <1>3, <1>4, <1>5, <1>6, <1>7, <1>8 DEF StreamsInv

(* So does a step that changes nothing.                                      *)
LEMMA StillStreams == ASSUME StreamsInv, UNCHANGED vars PROVE StreamsInv'
<1>1. TypeInv'
  BY DEF vars, StreamsInv, TypeInv, Placed, Streamed, Shows, Brokered, Observers, Fits, Members
<1>2. OneOpen' /\ Belong' /\ Stretch' /\ Burst'
  BY DEF vars, StreamsInv, OneOpen, Settled, Belong, Closing, Stretch, Watches, Burst, Late, Waiting, AnsweredFor
<1>3. Happened' /\ Newest' /\ UnderWay'
  BY DEF vars, StreamsInv, Happened, Newest, UnderWay, Unsubscribing, Requested, AnsweredFor, EndedFor
<1>4. NeverBeyond'
  BY DEF vars, StreamsInv, NeverBeyond, IsTop, Within, Holds, Awaited, Waiting, Brings
<1>5. Wanted' /\ Refusals' /\ Gone'
  BY DEF vars, StreamsInv, Wanted, Wants, Members, Refusals, Gone
<1>6. Sole'
  BY DEF vars, StreamsInv, Sole, Alone, Asked, Answered, OneAnswer, Observed, Watched, Pertains, Unsubscribing
<1>7. Routed' /\ LastAsk'
  BY DEF vars, StreamsInv, Routed, LastAsk, AnsweredFor
<1>8. Fed' /\ Seen'
  BY DEF vars, StreamsInv, Fed, Feeding, Seen, Members
<1> QED
  BY <1>1, <1>2, <1>3, <1>4, <1>5, <1>6, <1>7, <1>8 DEF StreamsInv

(* The inductive invariant holds in every state.                             *)
THEOREM StreamsInvariant == Spec => []StreamsInv
<1>1. StreamsInv /\ [Next]_vars => StreamsInv'
  BY NextStreams, StillStreams
<1> QED
  BY <1>1, InitStreams, PTL DEF Spec

(* A phone that watches a stream shows one stretch of the output, in order,  *)
(* nothing left out and nothing twice (MembersSeeOneStretch).                *)
THEOREM MembersOneStretch == Spec => []MembersSeeOneStretch
<1>1. StreamsInv => MembersSeeOneStretch
  <2> SUFFICES ASSUME StreamsInv, NEW s \in up, NEW n \in StreamIds, Watches(s, n) PROVE Uninterrupted(view[s])
    BY DEF MembersSeeOneStretch
  <2>1. s \in Sessions
    BY DEF StreamsInv, TypeInv, Placed
  <2> QED
    BY <2>1 DEF StreamsInv, Stretch, OneStretch
<1> QED
  BY <1>1, StreamsInvariant, PTL

(* No text a phone is sent ends earlier than one it showed before (NeverBack). *)
THEOREM TextNeverBack == Spec => []NeverBack
<1>1. StreamsInv => NeverBack
  <2>1. StreamsInv => up \subseteq Sessions
    BY DEF StreamsInv, TypeInv, Placed
  <2> QED
    BY <2>1 DEF StreamsInv, Newest, EndsAt, NeverBack
<1> QED
  BY <1>1, StreamsInvariant, PTL

(* Commands and disposals wait only while a microtask can run or a request or *)
(* an answer is on its way (NobodyWaitsForNothing).                          *)
THEOREM NobodyWaitsTheorem == Spec => []NobodyWaitsForNothing
<1>1. StreamsInv => NobodyWaitsForNothing
  BY NobodyWaits DEF StreamsInv, TypeInv, Typed
<1> QED
  BY <1>1, StreamsInvariant, PTL

(* However phones come and go, and whatever breaks, the broker observes for one *)
(* phone at most and for none when nobody watches, until a request is given up *)
(* (OneObserver).                                                            *)
THEOREM OneObserverTheorem == Spec => []OneObserver
<1>1. StreamsInv => OneObserver
  BY OneIsObserved DEF StreamsInv
<1> QED
  BY <1>1, StreamsInvariant, PTL

(* When everything has settled, a phone whose observer is live shows the terminal *)
(* up to its last chunk: nothing that came while the stream was set up, or that *)
(* it skipped as known, was lost (MembersAreUpToDate).                       *)
THEOREM MembersUpToDateTheorem == Spec => []MembersAreUpToDate
<1>1. StreamsInv => MembersAreUpToDate
  <2> SUFFICES ASSUME StreamsInv, Quiet, NEW s \in up, NEW n \in StreamIds, Watches(s, n),
                      observer[streams[n].device] = "live"
               PROVE  reached[s] = produced /\ (produced > 0 => view[s] # <<>>)
    BY DEF MembersAreUpToDate
  <2> QED
    BY UpToDate DEF StreamsInv, TypeInv, Typed
<1> QED
  BY <1>1, StreamsInvariant, PTL

=============================================================================
