------------------------- MODULE TerminalControlProofs -------------------------
(***************************************************************************)
(* That the control lease is well typed, that what reaches the PTY does so   *)
(* in the order of the leases, and that the desktop's size comes back when    *)
(* they end, for any number of phones, leases and requests on their way.     *)
(***************************************************************************)
EXTENDS TerminalControl, SequenceTheorems, FiniteSetTheorems, TLAPS

(* The calls of a phase in a queue have ids from n on, or up to n.           *)
AtLeast(queue, phase, n) == \A i \in 1 .. Len(queue) : queue[i].phase = phase => n <= queue[i].id
AtMost(queue, phase, n) == \A i \in 1 .. Len(queue) : queue[i].phase = phase => queue[i].id <= n

(* The calls of a phase in a queue are in the order of their ids.            *)
Ascending(queue, phase) ==
    \A i, j \in 1 .. Len(queue) :
        i < j /\ queue[i].phase = phase /\ queue[j].phase = phase => queue[i].id <= queue[j].id

(* No call of one queue and phase has a larger id than one of another.        *)
Precede(early, phase, late, latePhase) ==
    \A i \in 1 .. Len(early) : early[i].phase = phase => AtLeast(late, latePhase, early[i].id)

(* What will still reach the PTY does so in this order: the acts on the wire, *)
(* the lists main has yet to act on, and the lists on the wire.               *)
LandingOrder ==
    /\ Ascending(wire, "act") /\ Ascending(replies, "list") /\ Ascending(wire, "list")
    /\ Precede(wire, "act", wire, "list")
    /\ Precede(wire, "act", replies, "list")
    /\ Precede(replies, "list", wire, "list")
    /\ AtLeast(wire, "act", lastLanded)
    /\ AtLeast(replies, "list", lastLanded)
    /\ AtLeast(wire, "list", lastLanded)

(* Nothing on its way belongs to a lease still to be granted.                *)
NoneAhead ==
    /\ lastLanded < nextId
    /\ AtMost(wire, "act", nextId - 1)
    /\ AtMost(replies, "list", nextId - 1)
    /\ AtMost(wire, "list", nextId - 1)

(* The lease held is the last one granted; an acquire never reads one.       *)
LeaseIsLast ==
    /\ lease # NoLease => lease.id = nextId - 1
    /\ \A s \in Sessions :
          /\ op[s].current = NoLease
          /\ op[s].kind = "acquire" /\ lease # NoLease => lease.holder # s

OrderInv == TypeOK /\ (~reacquired => LandingOrder /\ NoneAhead /\ LeaseIsLast)

-----------------------------------------------------------------------------
(* Appending a call to a queue keeps its order if the call comes last.        *)
LEMMA AppendKeeps ==
    ASSUME NEW S, NEW queue \in Seq(S), NEW c \in S, NEW other
    PROVE  \A phase, otherPhase :
        /\ \A n : AtLeast(queue, phase, n) /\ (c.phase = phase => n <= c.id)
                 => AtLeast(Append(queue, c), phase, n)
        /\ \A n : AtMost(queue, phase, n) /\ (c.phase = phase => c.id <= n)
                 => AtMost(Append(queue, c), phase, n)
        /\ Ascending(queue, phase) /\ (c.phase = phase => AtMost(queue, phase, c.id))
                 => Ascending(Append(queue, c), phase)
        /\ Precede(queue, phase, other, otherPhase)
           /\ (c.phase = phase => AtLeast(other, otherPhase, c.id))
                 => Precede(Append(queue, c), phase, other, otherPhase)
        /\ Precede(other, otherPhase, queue, phase)
           /\ (c.phase = phase => AtMost(other, otherPhase, c.id))
                 => Precede(other, otherPhase, Append(queue, c), phase)
<1> DEFINE longer == Append(queue, c)
<1>1. /\ Len(queue) \in Nat
      /\ Len(longer) = Len(queue) + 1
      /\ \A i \in 1 .. Len(queue) : longer[i] = queue[i]
      /\ longer[Len(queue) + 1] = c
  BY LenProperties, AppendProperties
<1> HIDE DEF longer
<1>2. \A i \in 1 .. Len(longer) :
         \/ i \in 1 .. Len(queue) /\ longer[i] = queue[i]
         \/ i = Len(queue) + 1 /\ longer[i] = c
  BY <1>1
<1> TAKE phase, otherPhase
<1>3. ASSUME NEW n, AtLeast(queue, phase, n), c.phase = phase => n <= c.id
      PROVE  AtLeast(longer, phase, n)
  BY <1>2, <1>3 DEF AtLeast
<1>4. ASSUME NEW n, AtMost(queue, phase, n), c.phase = phase => c.id <= n
      PROVE  AtMost(longer, phase, n)
  BY <1>2, <1>4 DEF AtMost
<1>5. ASSUME Ascending(queue, phase), c.phase = phase => AtMost(queue, phase, c.id)
      PROVE  Ascending(longer, phase)
  <2> SUFFICES ASSUME NEW i \in 1 .. Len(longer), NEW j \in 1 .. Len(longer), i < j,
                      longer[i].phase = phase, longer[j].phase = phase
               PROVE  longer[i].id <= longer[j].id
    BY DEF Ascending
  <2>1. i \in 1 .. Len(queue) /\ longer[i] = queue[i]
    BY <1>1, <1>2
  <2>2. CASE j \in 1 .. Len(queue) /\ longer[j] = queue[j]
    BY <1>5, <2>1, <2>2 DEF Ascending
  <2>3. CASE longer[j] = c
    BY <1>5, <2>1, <2>3 DEF AtMost
  <2>4. QED
    BY <1>2, <2>2, <2>3
<1>6. ASSUME Precede(queue, phase, other, otherPhase),
             c.phase = phase => AtLeast(other, otherPhase, c.id)
      PROVE  Precede(longer, phase, other, otherPhase)
  BY <1>2, <1>6 DEF Precede
<1>7. ASSUME Precede(other, otherPhase, queue, phase),
             c.phase = phase => AtMost(other, otherPhase, c.id)
      PROVE  Precede(other, otherPhase, longer, phase)
  <2> SUFFICES ASSUME NEW i \in 1 .. Len(other), other[i].phase = otherPhase
               PROVE  AtLeast(longer, phase, other[i].id)
    BY DEF Precede
  <2>1. AtLeast(queue, phase, other[i].id)
    BY <1>7 DEF Precede
  <2>2. c.phase = phase => other[i].id <= c.id
    BY <1>7 DEF AtMost
  <2>3. QED
    BY <1>3, <2>1, <2>2
<1>8. QED
  BY <1>3, <1>4, <1>5, <1>6, <1>7 DEF longer

(* Taking the first call off a queue keeps the bounds on its ids, and that    *)
(* call was within them.                                                     *)
LEMMA TailKeepsBounds ==
    ASSUME NEW S, NEW queue \in Seq(S), queue # <<>>
    PROVE  \A phase, n :
        /\ AtLeast(queue, phase, n) => /\ AtLeast(Tail(queue), phase, n)
                                       /\ Head(queue).phase = phase => n <= Head(queue).id
        /\ AtMost(queue, phase, n) => /\ AtMost(Tail(queue), phase, n)
                                      /\ Head(queue).phase = phase => Head(queue).id <= n
<1> DEFINE rest == Tail(queue)
           first == Head(queue)
<1>1. /\ Len(queue) \in Nat \ {0}
      /\ Len(rest) = Len(queue) - 1
      /\ \A i \in 1 .. Len(rest) : rest[i] = queue[i + 1]
      /\ first = queue[1]
  BY LenProperties, EmptySeq, HeadTailProperties
<1> HIDE DEF rest, first
<1>2. \A i \in 1 .. Len(rest) : i + 1 \in 1 .. Len(queue) /\ rest[i] = queue[i + 1]
  BY <1>1
<1>3. 1 \in 1 .. Len(queue) /\ first = queue[1]
  BY <1>1
<1> TAKE phase, n
<1>4. AtLeast(queue, phase, n) => AtLeast(rest, phase, n) /\ (first.phase = phase => n <= first.id)
  BY <1>2, <1>3 DEF AtLeast
<1>5. AtMost(queue, phase, n) => AtMost(rest, phase, n) /\ (first.phase = phase => first.id <= n)
  BY <1>2, <1>3 DEF AtMost
<1>6. QED
  BY <1>4, <1>5 DEF rest, first

(* Taking the first call off a queue keeps its order, and that call came      *)
(* first.                                                                    *)
LEMMA TailKeepsOrder ==
    ASSUME NEW S, NEW queue \in Seq(S), queue # <<>>
    PROVE  \A phase : Ascending(queue, phase) =>
              /\ Ascending(Tail(queue), phase)
              /\ Head(queue).phase = phase => AtLeast(Tail(queue), phase, Head(queue).id)
<1> DEFINE rest == Tail(queue)
           first == Head(queue)
<1>1. /\ Len(queue) \in Nat \ {0}
      /\ Len(rest) = Len(queue) - 1
      /\ \A i \in 1 .. Len(rest) : rest[i] = queue[i + 1]
      /\ first = queue[1]
  BY LenProperties, EmptySeq, HeadTailProperties
<1> HIDE DEF rest, first
<1>2. /\ 1 \in 1 .. Len(queue) /\ first = queue[1]
      /\ \A i \in 1 .. Len(rest) : i + 1 \in 1 .. Len(queue) /\ rest[i] = queue[i + 1]
  BY <1>1
<1> SUFFICES ASSUME NEW phase, Ascending(queue, phase)
             PROVE  /\ Ascending(rest, phase)
                    /\ first.phase = phase => AtLeast(rest, phase, first.id)
  BY DEF rest, first
<1>3. Ascending(rest, phase)
  <2>1. \A i, j \in 1 .. Len(rest) : i < j => i + 1 < j + 1
    BY <1>1
  <2>2. QED
    BY <1>2, <2>1 DEF Ascending
<1>4. first.phase = phase => AtLeast(rest, phase, first.id)
  <2>1. \A i \in 1 .. Len(rest) : 1 < i + 1
    BY <1>1
  <2>2. QED
    BY <1>2, <2>1 DEF Ascending, AtLeast
<1>5. QED
  BY <1>3, <1>4

(* The same between two queues.                                              *)
LEMMA TailKeepsPrecedence ==
    ASSUME NEW S, NEW queue \in Seq(S), queue # <<>>, NEW other
    PROVE  \A phase, otherPhase :
        /\ Precede(queue, phase, other, otherPhase) =>
              /\ Precede(Tail(queue), phase, other, otherPhase)
              /\ Head(queue).phase = phase => AtLeast(other, otherPhase, Head(queue).id)
        /\ Precede(other, otherPhase, queue, phase) =>
              /\ Precede(other, otherPhase, Tail(queue), phase)
              /\ Head(queue).phase = phase => AtMost(other, otherPhase, Head(queue).id)
<1> DEFINE rest == Tail(queue)
           first == Head(queue)
<1>1. /\ Len(queue) \in Nat \ {0}
      /\ Len(rest) = Len(queue) - 1
      /\ \A i \in 1 .. Len(rest) : rest[i] = queue[i + 1]
      /\ first = queue[1]
  BY LenProperties, EmptySeq, HeadTailProperties
<1>2. \A phase, n : AtLeast(queue, phase, n) =>
         AtLeast(rest, phase, n) /\ (first.phase = phase => n <= first.id)
  BY TailKeepsBounds
<1> HIDE DEF rest, first
<1>3. /\ 1 \in 1 .. Len(queue) /\ first = queue[1]
      /\ \A i \in 1 .. Len(rest) : i + 1 \in 1 .. Len(queue) /\ rest[i] = queue[i + 1]
  BY <1>1
<1> TAKE phase, otherPhase
<1>4. ASSUME Precede(queue, phase, other, otherPhase)
      PROVE  /\ Precede(rest, phase, other, otherPhase)
             /\ first.phase = phase => AtLeast(other, otherPhase, first.id)
  BY <1>3, <1>4 DEF Precede
<1>5. ASSUME Precede(other, otherPhase, queue, phase)
      PROVE  /\ Precede(other, otherPhase, rest, phase)
             /\ first.phase = phase => AtMost(other, otherPhase, first.id)
  BY <1>2, <1>5 DEF Precede, AtMost
<1>6. QED
  BY <1>4, <1>5 DEF rest, first

-----------------------------------------------------------------------------
LEMMA RestoringIsNat == ASSUME TypeOK PROVE Restoring \in Nat
<1>1. ASSUME NEW S, NEW queue \in Seq(S)
      PROVE  Cardinality({i \in DOMAIN queue : IsRestore(queue[i])}) \in Nat
  <2>1. DOMAIN queue = 1 .. Len(queue) /\ Len(queue) \in Nat
    BY LenProperties
  <2>2. IsFiniteSet(DOMAIN queue)
    BY <2>1, FS_Interval
  <2>3. IsFiniteSet({i \in DOMAIN queue : IsRestore(queue[i])})
    BY <2>2, FS_Subset
  <2>4. QED
    BY <2>3, FS_CardinalityType
<1>2. QED
  BY <1>1 DEF TypeOK, Restoring

(* A drop sends at most a list call of the lease that ends.                  *)
LEMMA DropLeaseTypes ==
    ASSUME TypeOK, lease # NoLease, DropLease
    PROVE  lease' \in Lease \cup {NoLease} /\ wire' \in Seq(Call) /\ RestoresAfterDrop \in Nat
<1>1. lease \in Lease
  BY DEF TypeOK
<1>2. ListCall(Restorer, lease.id, lease.original) \in Call
  BY <1>1 DEF ListCall, Call, Lease, Ids, Phases
<1>3. wire' \in Seq(Call)
  BY <1>2, AppendProperties DEF DropLease, TypeOK
<1>4. QED
  BY <1>3, RestoringIsNat DEF DropLease, RestoresAfterDrop

LEMMA InitTypeOK == Init => TypeOK
<1> SUFFICES ASSUME Init PROVE TypeOK
  OBVIOUS
<1>1. Idle \in Command
  BY DEF Idle, Command
<1>2. op \in [Sessions -> Command]
  BY <1>1 DEF Init
<1>3. wire \in Seq(Call) /\ replies \in Seq(Reply)
  BY EmptySeq DEF Init
<1>4. open \subseteq Sessions /\ lease \in Lease \cup {NoLease}
  BY DEF Init
<1>5. alive \in BOOLEAN /\ reacquired \in BOOLEAN /\ overtaken \in BOOLEAN
  BY DEF Init
<1>6. /\ geom \in Sizes /\ desk \in DesktopSizes /\ reportsSize \in Brokers
      /\ nextId \in Ids /\ lastLanded \in Nat
  BY DEF Init, Sizes, Ids
<1>7. QED
  BY <1>2, <1>3, <1>4, <1>5, <1>6 DEF TypeOK

LEMMA HandlerTypeOK == ASSUME TypeOK, NEW s \in Sessions, Handler(s) PROVE TypeOK'
<1>1. op[s] \in Command /\ Idle \in Command
  BY DEF TypeOK, Idle, Command
<1>2. [op EXCEPT ![s] = Idle] \in [Sessions -> Command]
  BY <1>1 DEF TypeOK
<1>3. ASSUME ReadCurrent(s)
      PROVE  op' \in [Sessions -> Command] /\ wire' \in Seq(Call)
  <2>1. AvailableCall(s) \in Call
    BY DEF AvailableCall, Call, Phases
  <2>2. Append(wire, AvailableCall(s)) \in Seq(Call)
    BY <2>1, AppendProperties DEF TypeOK
  <2>3. [op EXCEPT ![s].stage = "list", ![s].current = lease] \in [Sessions -> Command]
    BY <1>1 DEF TypeOK, Command
  <2>4. QED
    BY <1>2, <1>3, <2>2, <2>3 DEF ReadCurrent, TypeOK
<1>4. CASE ContinueAcquire(s)
  <2>1. ASSUME AwaitRestore(s)
        PROVE  op' \in [Sessions -> Command] /\ wire' \in Seq(Call)
    <3>1. CASE Restoring > 0
      <4>1. [op EXCEPT ![s].stage = "restore", ![s].wait = Restoring] \in [Sessions -> Command]
        BY <1>1, RestoringIsNat DEF TypeOK, Command
      <4>2. QED
        BY <2>1, <3>1, <4>1 DEF AwaitRestore, TypeOK
    <3>2. CASE ~(Restoring > 0)
      BY <1>3, <2>1, <3>2 DEF AwaitRestore
    <3>3. QED
      BY <3>1, <3>2
  <2>2. op' \in [Sessions -> Command] /\ wire' \in Seq(Call)
    BY <1>3, <1>4, <2>1 DEF ContinueAcquire
  <2>3. QED
    BY <1>4, <2>2 DEF ContinueAcquire, TypeOK
<1>5. CASE RefuseStale(s)
  BY <1>2, <1>5 DEF RefuseStale, TypeOK
<1>6. CASE Renew(s)
  <2>1. Armed(lease) \in Lease
    BY <1>6, TerminalControlAssumption DEF Renew, HoldsLease, Armed, Lease, TypeOK
  <2>2. QED
    BY <1>2, <1>6, <2>1 DEF Renew, TypeOK
<1>7. CASE CallAdapter(s)
  <2> DEFINE call == ListCall(s, op[s].id, IF op[s].kind = "resize" THEN s ELSE NoSize)
  <2>1. call \in Call
    BY <1>1 DEF ListCall, Call, Command, Phases, Sizes
  <2>2. Append(wire, call) \in Seq(Call)
    BY <2>1, AppendProperties DEF TypeOK
  <2>3. [op EXCEPT ![s].stage = "list"] \in [Sessions -> Command]
    BY <1>1 DEF TypeOK, Command
  <2>4. op' \in [Sessions -> Command] /\ wire' \in Seq(Call)
    BY <1>2, <1>7, <2>2, <2>3 DEF CallAdapter, TypeOK
  <2>5. QED
    BY <1>7, <2>4 DEF CallAdapter, TypeOK
<1>8. CASE Release(s)
  <2>1. /\ lease' \in Lease \cup {NoLease} /\ wire' \in Seq(Call)
        /\ RestoresAfterDrop \in Nat
    BY <1>8, DropLeaseTypes DEF Release, HoldsLease
  <2>2. [op EXCEPT ![s].stage = "drop", ![s].wait = RestoresAfterDrop] \in [Sessions -> Command]
    BY <1>1, <2>1 DEF TypeOK, Command
  <2>3. QED
    BY <1>8, <2>1, <2>2 DEF Release, TypeOK
<1>9. CASE Released(s)
  BY <1>2, <1>9 DEF Released, TypeOK
<1>10. QED
  BY <1>4, <1>5, <1>6, <1>7, <1>8, <1>9 DEF Handler

LEMMA StartTypeOK ==
    ASSUME TypeOK, NEW s \in Sessions, NEW kind \in LeaseKinds \cup {"acquire"},
           NEW id \in 0 .. MaxLeases, Start(s, kind, id)
    PROVE  TypeOK'
<1> DEFINE started(wait) == [kind |-> kind, stage |-> "expire", wait |-> wait, id |-> id,
                             current |-> NoLease]
<1>1. \A wait \in Nat : started(wait) \in Command
  BY TerminalControlAssumption DEF Command
<1>2. \A wait \in Nat : [op EXCEPT ![s] = started(wait)] \in [Sessions -> Command]
  BY <1>1 DEF TypeOK
<1>3. op' \in [Sessions -> Command] /\ lease' \in Lease \cup {NoLease} /\ wire' \in Seq(Call)
  <2>1. CASE Expired
    BY <1>2, <2>1, DropLeaseTypes DEF Start, Expired
  <2>2. CASE ~Expired
    BY <1>2, <2>2 DEF Start, TypeOK
  <2>3. QED
    BY <2>1, <2>2
<1>4. reacquired' \in BOOLEAN
  BY DEF Start, TypeOK
<1>5. QED
  BY <1>3, <1>4 DEF Start, TypeOK

(* The broker takes the first request off the wire and answers it.            *)
LEMMA BrokerTypeOK == ASSUME TypeOK, Broker PROVE TypeOK'
<1>1. wire # <<>>
  BY DEF Broker, ServeAvailable, ServeList, ServeAct
<1>2. Head(wire) \in Call /\ Tail(wire) \in Seq(Call)
  BY <1>1, HeadTailProperties DEF TypeOK
<1>3. \A reply \in Reply : Append(replies, reply) \in Seq(Reply)
  BY AppendProperties DEF TypeOK
<1>4. CASE ServeAvailable
  <2> DEFINE reply == [who |-> Head(wire).who, phase |-> "available", ok |-> alive,
                       id |-> 0, size |-> IF reportsSize THEN geom ELSE NoSize]
  <2>1. reply \in Reply
    BY <1>2 DEF TypeOK, Call, Reply, Phases, Sizes
  <2>2. replies' \in Seq(Reply)
    BY <1>3, <1>4, <2>1 DEF ServeAvailable
  <2>3. QED
    BY <1>2, <1>4, <2>2 DEF ServeAvailable, TypeOK
<1>5. CASE ServeList
  <2> DEFINE reply == [who |-> Head(wire).who, phase |-> "list", ok |-> alive,
                       id |-> Head(wire).id, size |-> Head(wire).size]
  <2>1. reply \in Reply
    BY <1>2 DEF TypeOK, Call, Reply, Phases
  <2>2. replies' \in Seq(Reply)
    BY <1>3, <1>5, <2>1 DEF ServeList
  <2>3. QED
    BY <1>2, <1>5, <2>2 DEF ServeList, TypeOK
<1>6. CASE ServeAct
  <2> DEFINE reply == [who |-> Head(wire).who, phase |-> "act", ok |-> alive,
                       id |-> Head(wire).id, size |-> Head(wire).size]
  <2>1. reply \in Reply
    BY <1>2 DEF TypeOK, Call, Reply, Phases
  <2>2. replies' \in Seq(Reply)
    BY <1>3, <1>6, <2>1 DEF ServeAct
  <2>3. geom' \in Sizes /\ lastLanded' \in Nat
    BY <1>2, <1>6 DEF ServeAct, TypeOK, Call
  <2>4. QED
    BY <1>2, <1>6, <2>2, <2>3 DEF ServeAct, TypeOK
<1>7. QED
  BY <1>4, <1>5, <1>6 DEF Broker

(* Main handles the first reply.                                             *)
LEMMA MainTypeOK == ASSUME TypeOK, Main PROVE TypeOK'
<1>1. replies # <<>>
  BY DEF Main, AdapterActs, AcquireGranted, CallEnds, RestoreSettles
<1>2. Head(replies) \in Reply /\ Tail(replies) \in Seq(Reply)
  BY <1>1, HeadTailProperties DEF TypeOK
<1>3. Head(replies).who # Restorer => Head(replies).who \in Sessions
  BY <1>2 DEF Reply
<1>4. \A s \in Sessions : op[s] \in Command /\ [op EXCEPT ![s] = Idle] \in [Sessions -> Command]
  BY DEF TypeOK, Idle, Command
<1>5. CASE AdapterActs
  <2> DEFINE call == [who |-> Head(replies).who, phase |-> "act",
                      id |-> Head(replies).id, size |-> Head(replies).size]
  <2>1. call \in Call
    BY <1>2 DEF Reply, Call, Phases
  <2>2. wire' \in Seq(Call)
    BY <1>5, <2>1, AppendProperties DEF AdapterActs, TypeOK
  <2>3. ASSUME NEW s \in Sessions PROVE [op EXCEPT ![s].stage = "act"] \in [Sessions -> Command]
    <3>1. op[s] \in Command
      BY <1>4
    <3>2. QED
      BY <3>1 DEF TypeOK, Command
  <2>4. op' \in [Sessions -> Command]
    BY <1>3, <1>5, <2>3 DEF AdapterActs, TypeOK
  <2>5. QED
    BY <1>2, <1>5, <2>2, <2>4 DEF AdapterActs, TypeOK
<1>6. CASE AcquireGranted
  <2> DEFINE s == Head(replies).who
             current == op[s].current
  <2>1. s \in Sessions /\ current \in Lease \cup {NoLease}
    BY <1>3, <1>4, <1>6 DEF AcquireGranted, Command
  <2>2. current # NoLease => Armed(current) \in Lease
    BY <2>1, TerminalControlAssumption DEF Armed, Lease
  <2>3. [id |-> nextId, holder |-> s, left |-> Ttl, original |-> Head(replies).size] \in Lease
    BY <1>2, <2>1, TerminalControlAssumption DEF Lease, Reply, TypeOK
  <2>4. lease' \in Lease /\ nextId' \in Ids
    BY <1>6, <2>2, <2>3 DEF AcquireGranted, Grant, TypeOK, Ids
  <2>5. op' \in [Sessions -> Command]
    BY <1>4, <1>6, <2>1 DEF AcquireGranted
  <2>6. QED
    BY <1>2, <1>6, <2>4, <2>5 DEF AcquireGranted, TypeOK
<1>7. CASE CallEnds
  <2>1. op' \in [Sessions -> Command]
    BY <1>3, <1>4, <1>7 DEF CallEnds
  <2>2. QED
    BY <1>2, <1>7, <2>1 DEF CallEnds, TypeOK
<1>8. CASE RestoreSettles
  <2>1. ASSUME NEW c \in Command, c.wait > 0 PROVE [c EXCEPT !.wait = c.wait - 1] \in Command
    <3>1. c.wait - 1 \in Nat
      BY <2>1 DEF Command
    <3>2. QED
      BY <3>1 DEF Command
  <2>2. op' \in [Sessions -> Command]
    BY <1>4, <1>8, <2>1 DEF RestoreSettles
  <2>3. QED
    BY <1>2, <1>8, <2>2 DEF RestoreSettles, TypeOK
<1>9. QED
  BY <1>5, <1>6, <1>7, <1>8 DEF Main

(* Timers, disconnects, the desktop and the PTY.                             *)
LEMMA OutsideTypeOK ==
    ASSUME TypeOK,
           \/ Expire \/ Tick \/ Dispose \/ PtyExits
           \/ \E s \in Sessions : Close(s)
           \/ \E size \in DesktopSizes : DesktopResize(size)
    PROVE  TypeOK'
<1>1. CASE Expire
  <2>1. lease' \in Lease \cup {NoLease} /\ wire' \in Seq(Call)
    BY <1>1, DropLeaseTypes DEF Expire, Expired
  <2>2. QED
    BY <1>1, <2>1 DEF Expire, TypeOK
<1>2. CASE Tick
  <2>1. ASSUME NEW l \in Lease, l.left > 0 PROVE [l EXCEPT !.left = l.left - 1] \in Lease
    <3>1. l.left - 1 \in 0 .. Ttl
      BY <2>1, TerminalControlAssumption DEF Lease
    <3>2. QED
      BY <3>1 DEF Lease
  <2>2. QED
    BY <1>2, <2>1 DEF Tick, TypeOK
<1>3. CASE Dispose
  <2>1. lease' \in Lease \cup {NoLease} /\ wire' \in Seq(Call)
    BY <1>3, DropLeaseTypes DEF Dispose, TypeOK
  <2>2. QED
    BY <1>3, <2>1 DEF Dispose, TypeOK
<1>4. CASE PtyExits
  BY <1>4 DEF PtyExits, TypeOK
<1>5. ASSUME NEW s \in Sessions, Close(s) PROVE TypeOK'
  <2>1. lease' \in Lease \cup {NoLease} /\ wire' \in Seq(Call)
    BY <1>5, DropLeaseTypes DEF Close, TypeOK
  <2>2. QED
    BY <1>5, <2>1 DEF Close, TypeOK
<1>6. ASSUME NEW size \in DesktopSizes, DesktopResize(size) PROVE TypeOK'
  BY <1>6 DEF DesktopResize, TypeOK, Sizes
<1>7. QED
  BY <1>1, <1>2, <1>3, <1>4, <1>5, <1>6

LEMMA NextTypeOK == TypeOK /\ [Next]_vars => TypeOK'
<1> SUFFICES ASSUME TypeOK, [Next]_vars PROVE TypeOK'
  OBVIOUS
<1>1. CASE UNCHANGED vars
  BY <1>1 DEF vars, TypeOK
<1>2. CASE Next
  BY <1>2, StartTypeOK, HandlerTypeOK, BrokerTypeOK, MainTypeOK, OutsideTypeOK DEF Next
<1>3. QED
  BY <1>1, <1>2

-----------------------------------------------------------------------------
(* A call joins the wire: an availability check, or a list of the last lease. *)
LEMMA EnqueueInOrder ==
    ASSUME TypeOK, LandingOrder, NoneAhead, NEW c \in Call, wire' = Append(wire, c),
           c.phase = "available" \/ (c.phase = "list" /\ c.id = nextId - 1),
           UNCHANGED <<replies, nextId, lastLanded>>
    PROVE  LandingOrder' /\ NoneAhead'
<1>1. wire \in Seq(Call) /\ replies \in Seq(Reply) /\ nextId \in Nat /\ lastLanded \in Nat
  BY DEF TypeOK, Ids
<1>2. c.phase # "act" /\ (c.phase = "list" => c.id = nextId - 1)
  OBVIOUS
<1>3. lastLanded <= nextId - 1
  BY <1>1 DEF NoneAhead
<1>4. AtLeast(wire', "act", lastLanded) /\ AtLeast(wire', "list", lastLanded)
  BY <1>1, <1>2, <1>3, AppendKeeps DEF LandingOrder
<1>5. AtMost(wire', "act", nextId - 1) /\ AtMost(wire', "list", nextId - 1)
  <2>1. c.phase = "list" => c.id <= nextId - 1
    BY <1>1, <1>2
  <2>2. QED
    BY <1>1, <1>2, <2>1, AppendKeeps DEF NoneAhead
<1>6. Ascending(wire', "act") /\ Ascending(wire', "list")
  BY <1>1, <1>2, AppendKeeps DEF LandingOrder, NoneAhead
<1>7. Precede(wire', "act", replies, "list") /\ Precede(wire', "act", wire, "list")
  BY <1>1, <1>2, AppendKeeps DEF LandingOrder
<1>8. Precede(wire', "act", wire', "list")
  BY <1>1, <1>2, <1>5, <1>7, AppendKeeps
<1>9. Precede(replies, "list", wire', "list")
  BY <1>1, <1>2, AppendKeeps DEF LandingOrder, NoneAhead
<1>10. LandingOrder'
  BY <1>4, <1>6, <1>7, <1>8, <1>9 DEF LandingOrder
<1>11. QED
  BY <1>5, <1>10 DEF NoneAhead

(* The broker answers a list: it moves from the wire to the replies.          *)
LEMMA AnswerInOrder ==
    ASSUME TypeOK, LandingOrder, NoneAhead, wire # <<>>, NEW reply \in Reply,
           Head(wire).phase # "act", wire' = Tail(wire), replies' = Append(replies, reply),
           reply.phase = Head(wire).phase,
           reply.phase = "list" => reply.id = Head(wire).id,
           UNCHANGED <<nextId, lastLanded>>
    PROVE  LandingOrder' /\ NoneAhead'
<1>1. wire \in Seq(Call) /\ replies \in Seq(Reply)
  BY DEF TypeOK
<1>2. /\ AtLeast(wire', "act", lastLanded) /\ AtLeast(wire', "list", lastLanded)
      /\ reply.phase = "list" => lastLanded <= reply.id
  BY <1>1, TailKeepsBounds DEF LandingOrder
<1>3. /\ AtMost(wire', "act", nextId - 1) /\ AtMost(wire', "list", nextId - 1)
      /\ reply.phase = "list" => reply.id <= nextId - 1
  BY <1>1, TailKeepsBounds DEF NoneAhead
<1>4. /\ Ascending(wire', "act") /\ Ascending(wire', "list")
      /\ reply.phase = "list" => AtLeast(wire', "list", reply.id)
  BY <1>1, TailKeepsOrder DEF LandingOrder
<1>5. Precede(wire', "act", wire, "list") /\ Precede(wire', "act", replies, "list")
  BY <1>1, TailKeepsPrecedence DEF LandingOrder
<1>6. /\ Precede(wire', "act", wire', "list")
      /\ reply.phase = "list" => AtMost(wire', "act", reply.id)
  BY <1>1, <1>5, TailKeepsPrecedence
<1>7. /\ Precede(replies, "list", wire', "list")
      /\ reply.phase = "list" => AtMost(replies, "list", reply.id)
  BY <1>1, TailKeepsPrecedence DEF LandingOrder
<1>8. AtLeast(replies', "list", lastLanded) /\ AtMost(replies', "list", nextId - 1)
  BY <1>1, <1>2, <1>3, AppendKeeps DEF LandingOrder, NoneAhead
<1>9. Ascending(replies', "list")
  BY <1>1, <1>7, AppendKeeps DEF LandingOrder
<1>10. Precede(replies', "list", wire', "list")
  BY <1>1, <1>4, <1>7, AppendKeeps
<1>11. Precede(wire', "act", replies', "list")
  BY <1>1, <1>5, <1>6, AppendKeeps
<1>12. LandingOrder'
  BY <1>2, <1>4, <1>6, <1>8, <1>9, <1>10, <1>11 DEF LandingOrder
<1>13. QED
  BY <1>3, <1>8, <1>12 DEF NoneAhead

(* An act reaches the PTY: it was the first of all that still will.           *)
LEMMA LandInOrder ==
    ASSUME TypeOK, LandingOrder, NoneAhead, wire # <<>>, NEW reply \in Reply,
           Head(wire).phase = "act", wire' = Tail(wire), replies' = Append(replies, reply),
           reply.phase = "act",
           lastLanded' = lastLanded \/ lastLanded' = Head(wire).id,
           UNCHANGED nextId
    PROVE  LandingOrder' /\ NoneAhead' /\ lastLanded' >= lastLanded
<1>1. /\ wire \in Seq(Call) /\ replies \in Seq(Reply) /\ nextId \in Nat /\ lastLanded \in Nat
      /\ Head(wire).id \in Nat
  <2>1. wire \in Seq(Call) /\ replies \in Seq(Reply) /\ nextId \in Nat /\ lastLanded \in Nat
    BY DEF TypeOK, Ids
  <2>2. Head(wire) \in Call
    BY <2>1, HeadTailProperties
  <2>3. QED
    BY <2>1, <2>2 DEF Call
<1>2. reply.phase # "list"
  OBVIOUS
<1>3. /\ AtMost(wire', "act", nextId - 1) /\ AtMost(wire', "list", nextId - 1)
      /\ Head(wire).id <= nextId - 1
  BY <1>1, TailKeepsBounds DEF NoneAhead
<1>4. AtMost(replies', "list", nextId - 1)
  BY <1>1, <1>2, AppendKeeps DEF NoneAhead
<1>5. /\ Ascending(wire', "act") /\ Ascending(wire', "list")
      /\ AtLeast(wire', "act", Head(wire).id)
  BY <1>1, TailKeepsOrder DEF LandingOrder
<1>6. /\ AtLeast(wire', "act", lastLanded) /\ AtLeast(wire', "list", lastLanded)
      /\ lastLanded <= Head(wire).id
  BY <1>1, TailKeepsBounds DEF LandingOrder
<1>7. /\ Precede(wire', "act", wire, "list") /\ Precede(wire', "act", replies, "list")
      /\ AtLeast(wire, "list", Head(wire).id) /\ AtLeast(replies, "list", Head(wire).id)
  BY <1>1, TailKeepsPrecedence DEF LandingOrder
<1>8. Precede(wire', "act", wire', "list") /\ AtLeast(wire', "list", Head(wire).id)
  BY <1>1, <1>7, TailKeepsPrecedence, TailKeepsBounds
<1>9. Ascending(replies', "list")
  BY <1>1, <1>2, AppendKeeps DEF LandingOrder
<1>10. Precede(wire', "act", replies', "list")
  BY <1>1, <1>2, <1>7, AppendKeeps
<1>11. Precede(replies, "list", wire', "list")
  BY <1>1, TailKeepsPrecedence DEF LandingOrder
<1>12. Precede(replies', "list", wire', "list")
  BY <1>1, <1>2, <1>11, AppendKeeps
<1>13. AtLeast(replies', "list", lastLanded) /\ AtLeast(replies', "list", Head(wire).id)
  BY <1>1, <1>2, <1>7, AppendKeeps DEF LandingOrder
<1>14. LandingOrder'
  BY <1>5, <1>6, <1>8, <1>9, <1>10, <1>12, <1>13 DEF LandingOrder
<1>15. lastLanded' < nextId /\ lastLanded' >= lastLanded
  BY <1>1, <1>3, <1>6 DEF NoneAhead
<1>16. QED
  BY <1>3, <1>4, <1>14, <1>15 DEF NoneAhead

(* Main acts on a list: it moves from the replies to the wire.                *)
LEMMA ActInOrder ==
    ASSUME TypeOK, LandingOrder, NoneAhead, replies # <<>>, NEW call \in Call,
           Head(replies).phase = "list", replies' = Tail(replies), wire' = Append(wire, call),
           call.phase = "act", call.id = Head(replies).id,
           UNCHANGED <<nextId, lastLanded>>
    PROVE  LandingOrder' /\ NoneAhead'
<1>1. wire \in Seq(Call) /\ replies \in Seq(Reply) /\ call.phase # "list"
  BY DEF TypeOK
<1>2. AtMost(replies', "list", nextId - 1) /\ call.id <= nextId - 1
  BY <1>1, TailKeepsBounds DEF NoneAhead
<1>3. AtLeast(replies', "list", lastLanded) /\ lastLanded <= call.id
  BY <1>1, TailKeepsBounds DEF LandingOrder
<1>4. Ascending(replies', "list") /\ AtLeast(replies', "list", call.id)
  BY <1>1, TailKeepsOrder DEF LandingOrder
<1>5. Precede(replies', "list", wire, "list") /\ AtLeast(wire, "list", call.id)
  BY <1>1, TailKeepsPrecedence DEF LandingOrder
<1>6. Precede(wire, "act", replies', "list") /\ AtMost(wire, "act", call.id)
  BY <1>1, TailKeepsPrecedence DEF LandingOrder
<1>7. AtMost(wire', "act", nextId - 1) /\ AtMost(wire', "list", nextId - 1)
  BY <1>1, <1>2, AppendKeeps DEF NoneAhead
<1>8. AtLeast(wire', "act", lastLanded) /\ AtLeast(wire', "list", lastLanded)
  BY <1>1, <1>3, AppendKeeps DEF LandingOrder
<1>9. Ascending(wire', "act") /\ Ascending(wire', "list")
  BY <1>1, <1>6, AppendKeeps DEF LandingOrder
<1>10. Precede(replies', "list", wire', "list")
  BY <1>1, <1>5, AppendKeeps
<1>11. Precede(wire', "act", replies', "list")
  BY <1>1, <1>4, <1>6, AppendKeeps
<1>12. Precede(wire', "act", wire, "list")
  BY <1>1, <1>5, AppendKeeps DEF LandingOrder
<1>13. Precede(wire', "act", wire', "list")
  BY <1>1, <1>12, AppendKeeps
<1>14. LandingOrder'
  BY <1>3, <1>4, <1>8, <1>9, <1>10, <1>11, <1>13 DEF LandingOrder
<1>15. QED
  BY <1>2, <1>7, <1>14 DEF NoneAhead

(* Main is done with a reply, and may have granted a lease.                   *)
LEMMA HandledInOrder ==
    ASSUME TypeOK, LandingOrder, NoneAhead, replies # <<>>, replies' = Tail(replies),
           nextId' = nextId \/ nextId' = nextId + 1,
           UNCHANGED <<wire, lastLanded>>
    PROVE  LandingOrder' /\ NoneAhead'
<1>1. wire \in Seq(Call) /\ replies \in Seq(Reply) /\ nextId \in Nat /\ lastLanded \in Nat
  BY DEF TypeOK, Ids
<1>2. AtMost(replies', "list", nextId - 1) /\ AtLeast(replies', "list", lastLanded)
  BY <1>1, TailKeepsBounds DEF NoneAhead, LandingOrder
<1>3. Ascending(replies', "list")
  BY <1>1, TailKeepsOrder DEF LandingOrder
<1>4. Precede(replies', "list", wire, "list") /\ Precede(wire, "act", replies', "list")
  BY <1>1, TailKeepsPrecedence DEF LandingOrder
<1>5. LandingOrder'
  BY <1>2, <1>3, <1>4 DEF LandingOrder
<1>6. ASSUME NEW i \in 1 .. Len(wire) PROVE wire[i].id \in Nat
  <2>1. wire[i] \in Call
    BY <1>1, ElementOfSeq
  <2>2. QED
    BY <2>1 DEF Call
<1>7. ASSUME NEW i \in 1 .. Len(replies') PROVE replies'[i].id \in Nat
  <2>1. replies' \in Seq(Reply)
    BY <1>1, HeadTailProperties
  <2>2. replies'[i] \in Reply
    BY <2>1, ElementOfSeq
  <2>3. QED
    BY <2>2 DEF Reply
<1>8. nextId' = nextId + 1 => NoneAhead'
  BY <1>1, <1>2, <1>6, <1>7 DEF AtMost, NoneAhead
<1>9. nextId' = nextId => NoneAhead'
  BY <1>2 DEF NoneAhead
<1>10. QED
  BY <1>5, <1>8, <1>9

LEMMA StillInOrder ==
    ASSUME LandingOrder, NoneAhead, UNCHANGED <<wire, replies, nextId, lastLanded>>
    PROVE  LandingOrder' /\ NoneAhead'
BY DEF LandingOrder, NoneAhead

(* A lease that ends sends its restore last.                                 *)
LEMMA DropInOrder ==
    ASSUME TypeOK, LandingOrder, NoneAhead, LeaseIsLast, lease # NoLease, DropLease,
           UNCHANGED <<replies, nextId, lastLanded>>
    PROVE  LandingOrder' /\ NoneAhead'
<1>1. CASE lease.original = NoSize
  BY <1>1, StillInOrder DEF DropLease
<1>2. CASE lease.original # NoSize
  <2> DEFINE call == ListCall(Restorer, lease.id, lease.original)
  <2>1. lease \in Lease /\ lease.id = nextId - 1
    BY DEF TypeOK, LeaseIsLast
  <2>2. call \in Call /\ call.phase = "list" /\ call.id = nextId - 1
    BY <2>1 DEF ListCall, Call, Lease, Ids, Phases
  <2>3. wire' = Append(wire, call)
    BY <1>2 DEF DropLease
  <2> HIDE DEF call
  <2>4. QED
    BY <2>2, <2>3, EnqueueInOrder
<1>3. QED
  BY <1>1, <1>2

-----------------------------------------------------------------------------
(* A command that starts drops an expired lease and reads none.              *)
LEMMA StartInOrder ==
    ASSUME TypeOK, LandingOrder, NoneAhead, LeaseIsLast, ~reacquired',
           NEW s \in Sessions, NEW kind \in LeaseKinds \cup {"acquire"},
           NEW id \in 0 .. MaxLeases, Start(s, kind, id)
    PROVE  LandingOrder' /\ NoneAhead' /\ LeaseIsLast'
<1>1. UNCHANGED <<replies, nextId, lastLanded>>
  BY DEF Start
<1>2. LandingOrder' /\ NoneAhead'
  <2>1. CASE Expired
    BY <1>1, <2>1, DropInOrder DEF Start, Expired
  <2>2. CASE ~Expired
    BY <1>1, <2>2, StillInOrder DEF Start
  <2>3. QED
    BY <2>1, <2>2
<1>3. /\ op' = [op EXCEPT ![s] = op'[s]]
      /\ op'[s].current = NoLease /\ op'[s].kind = kind
  BY DEF Start, TypeOK
<1>4. \A t \in Sessions : op'[t].current = NoLease
  BY <1>3 DEF LeaseIsLast, TypeOK
<1>5. ASSUME Expired PROVE LeaseIsLast'
  BY <1>4, <1>5 DEF Start, DropLease, LeaseIsLast
<1>6. ASSUME ~Expired PROVE LeaseIsLast'
  <2>1. lease' = lease /\ nextId' = nextId
    BY <1>6 DEF Start
  <2>2. kind = "acquire" /\ lease # NoLease => lease.holder # s
    BY <1>6 DEF Start, Holding
  <2>3. ASSUME NEW t \in Sessions, op'[t].kind = "acquire", lease # NoLease
        PROVE  lease.holder # t
    BY <1>3, <2>2, <2>3 DEF LeaseIsLast, TypeOK
  <2>4. QED
    BY <1>4, <2>1, <2>3 DEF LeaseIsLast
<1>7. QED
  BY <1>2, <1>5, <1>6

LEMMA HandlerInOrder ==
    ASSUME TypeOK, LandingOrder, NoneAhead, LeaseIsLast, NEW s \in Sessions, Handler(s)
    PROVE  LandingOrder' /\ NoneAhead' /\ LeaseIsLast'
<1>1. UNCHANGED <<replies, nextId, lastLanded>>
  BY DEF Handler, ContinueAcquire, RefuseStale, Renew, CallAdapter, Release, Released
<1>2. op \in [Sessions -> Command] /\ Idle.kind # "acquire" /\ Idle.current = NoLease
  BY DEF TypeOK, Idle
<1>3. CASE ContinueAcquire(s)
  <2>1. op[s].kind = "acquire" /\ op[s].current = NoLease /\ lease' = lease
        /\ (lease # NoLease => lease.holder # s)
    BY <1>3 DEF ContinueAcquire, LeaseIsLast
  <2>2. AvailableCall(s) \in Call /\ AvailableCall(s).phase = "available"
    BY DEF AvailableCall, Call, Phases
  <2>3. \/ op' = [op EXCEPT ![s] = Idle] /\ wire' = wire
        \/ op' = [op EXCEPT ![s].stage = "restore", ![s].wait = Restoring] /\ wire' = wire
        \/ /\ op' = [op EXCEPT ![s].stage = "list", ![s].current = NoLease]
           /\ wire' = Append(wire, AvailableCall(s))
    BY <1>3, <2>1 DEF ContinueAcquire, AwaitRestore, ReadCurrent
  <2>4. LandingOrder' /\ NoneAhead'
    BY <1>1, <2>2, <2>3, StillInOrder, EnqueueInOrder
  <2>5. \A t \in Sessions : op'[t].current = NoLease /\ (op'[t].kind = "acquire" => op[t].kind = "acquire")
    BY <1>2, <2>1, <2>3 DEF LeaseIsLast, Command
  <2>6. QED
    BY <1>1, <2>1, <2>4, <2>5 DEF LeaseIsLast
<1>4. CASE RefuseStale(s) \/ Released(s)
  <2>1. UNCHANGED <<wire, lease>> /\ op' = [op EXCEPT ![s] = Idle]
    BY <1>4 DEF RefuseStale, Released
  <2>2. QED
    BY <1>1, <1>2, <2>1, StillInOrder DEF LeaseIsLast
<1>5. CASE Renew(s)
  <2>1. lease # NoLease /\ lease' = [lease EXCEPT !.left = Ttl] /\ lease \in Lease
        /\ op' = [op EXCEPT ![s] = Idle] /\ wire' = wire
    BY <1>5 DEF Renew, HoldsLease, Armed, TypeOK
  <2>2. lease'.id = lease.id /\ lease'.holder = lease.holder
    BY <2>1 DEF Lease
  <2>3. QED
    BY <1>1, <1>2, <2>1, <2>2, StillInOrder DEF LeaseIsLast
<1>6. CASE CallAdapter(s)
  <2> DEFINE call == ListCall(s, op[s].id, IF op[s].kind = "resize" THEN s ELSE NoSize)
  <2>1. lease' = lease /\ op[s].id = nextId - 1 /\ op[s] \in Command
    BY <1>2, <1>6 DEF CallAdapter, HoldsLease, LeaseIsLast
  <2>2. call \in Call /\ call.phase = "list" /\ call.id = nextId - 1
    BY <2>1 DEF ListCall, Call, Command, Phases, Sizes
  <2>3. \/ op' = [op EXCEPT ![s] = Idle] /\ wire' = wire
        \/ op' = [op EXCEPT ![s].stage = "list"] /\ wire' = Append(wire, call)
    BY <1>6 DEF CallAdapter
  <2> HIDE DEF call
  <2>4. LandingOrder' /\ NoneAhead'
    BY <1>1, <2>2, <2>3, StillInOrder, EnqueueInOrder
  <2>5. \A t \in Sessions : op'[t].current = NoLease /\ (op'[t].kind = "acquire" => op[t].kind = "acquire")
    BY <1>2, <2>3 DEF LeaseIsLast, Command
  <2>6. QED
    BY <1>1, <2>1, <2>4, <2>5 DEF LeaseIsLast
<1>7. CASE Release(s)
  <2>1. lease # NoLease /\ lease' = NoLease /\ DropLease
    BY <1>7 DEF Release, HoldsLease, DropLease
  <2>2. op' = [op EXCEPT ![s].stage = "drop", ![s].wait = RestoresAfterDrop]
    BY <1>7 DEF Release
  <2>3. \A t \in Sessions : op'[t].current = NoLease
    BY <1>2, <2>2 DEF LeaseIsLast, Command
  <2>4. QED
    BY <1>1, <2>1, <2>3, DropInOrder DEF LeaseIsLast
<1>8. QED
  BY <1>3, <1>4, <1>5, <1>6, <1>7 DEF Handler

(* The broker serves requests in order, and what it does to the PTY never     *)
(* belongs to an earlier lease than what it did before.                      *)
LEMMA BrokerInOrder ==
    ASSUME TypeOK, LandingOrder, NoneAhead, Broker
    PROVE  LandingOrder' /\ NoneAhead' /\ lastLanded' >= lastLanded
<1>1. wire # <<>> /\ nextId' = nextId /\ wire' = Tail(wire)
  BY DEF Broker, ServeAvailable, ServeList, ServeAct
<1>2. Head(wire) \in Call /\ lastLanded \in Nat
  BY <1>1, HeadTailProperties DEF TypeOK
<1>3. CASE ServeAvailable
  <2> DEFINE reply == [who |-> Head(wire).who, phase |-> "available", ok |-> alive,
                       id |-> 0, size |-> IF reportsSize THEN geom ELSE NoSize]
  <2>1. reply \in Reply /\ reply.phase = "available"
    BY <1>2 DEF TypeOK, Call, Reply, Phases, Sizes
  <2>2. replies' = Append(replies, reply) /\ lastLanded' = lastLanded /\ Head(wire).phase = "available"
    BY <1>3 DEF ServeAvailable
  <2> HIDE DEF reply
  <2>3. LandingOrder' /\ NoneAhead'
    BY <1>1, <2>1, <2>2, AnswerInOrder
  <2>4. QED
    BY <1>2, <2>2, <2>3
<1>4. CASE ServeList
  <2> DEFINE reply == [who |-> Head(wire).who, phase |-> "list", ok |-> alive,
                       id |-> Head(wire).id, size |-> Head(wire).size]
  <2>1. reply \in Reply /\ reply.phase = "list" /\ reply.id = Head(wire).id
    BY <1>2 DEF TypeOK, Call, Reply, Phases
  <2>2. replies' = Append(replies, reply) /\ lastLanded' = lastLanded /\ Head(wire).phase = "list"
    BY <1>4 DEF ServeList
  <2> HIDE DEF reply
  <2>3. LandingOrder' /\ NoneAhead'
    BY <1>1, <2>1, <2>2, AnswerInOrder
  <2>4. QED
    BY <1>2, <2>2, <2>3
<1>5. CASE ServeAct
  <2> DEFINE reply == [who |-> Head(wire).who, phase |-> "act", ok |-> alive,
                       id |-> Head(wire).id, size |-> Head(wire).size]
  <2>1. reply \in Reply /\ reply.phase = "act"
    BY <1>2 DEF TypeOK, Call, Reply, Phases
  <2>2. /\ replies' = Append(replies, reply) /\ Head(wire).phase = "act"
        /\ lastLanded' = lastLanded \/ lastLanded' = Head(wire).id
    BY <1>5 DEF ServeAct
  <2> HIDE DEF reply
  <2>3. QED
    BY <1>1, <2>1, <2>2, LandInOrder
<1>6. QED
  BY <1>3, <1>4, <1>5 DEF Broker

LEMMA BrokerLeaseIsLast == ASSUME LeaseIsLast, Broker PROVE LeaseIsLast'
<1>1. UNCHANGED <<op, lease, nextId>>
  BY DEF Broker, ServeAvailable, ServeList, ServeAct
<1>2. QED
  BY <1>1 DEF LeaseIsLast

(* Main handles the first reply: the adapter acts, a lease is granted, or a   *)
(* call ends.                                                                *)
LEMMA MainInOrder ==
    ASSUME TypeOK, LandingOrder, NoneAhead, LeaseIsLast, Main
    PROVE  LandingOrder' /\ NoneAhead' /\ LeaseIsLast'
<1>1. replies # <<>> /\ replies' = Tail(replies) /\ lastLanded' = lastLanded
  BY DEF Main, AdapterActs, AcquireGranted, CallEnds, RestoreSettles
<1>2. Head(replies) \in Reply
  BY <1>1, HeadTailProperties DEF TypeOK
<1>3. Head(replies).who # Restorer => Head(replies).who \in Sessions
  BY <1>2 DEF Reply
<1>4. op \in [Sessions -> Command] /\ Idle.kind # "acquire" /\ Idle.current = NoLease
      /\ nextId \in Nat
  BY DEF TypeOK, Idle, Ids
<1>5. CASE AdapterActs
  <2> DEFINE call == [who |-> Head(replies).who, phase |-> "act",
                      id |-> Head(replies).id, size |-> Head(replies).size]
  <2>1. call \in Call /\ call.phase = "act" /\ call.id = Head(replies).id
    BY <1>2 DEF Reply, Call, Phases
  <2>2. wire' = Append(wire, call) /\ Head(replies).phase = "list" /\ UNCHANGED <<lease, nextId>>
    BY <1>5 DEF AdapterActs
  <2> HIDE DEF call
  <2>3. LandingOrder' /\ NoneAhead'
    BY <1>1, <2>1, <2>2, ActInOrder
  <2>4. \A t \in Sessions : op'[t].current = NoLease /\ op'[t].kind = op[t].kind
    BY <1>3, <1>4, <1>5 DEF AdapterActs, LeaseIsLast, Command
  <2>5. QED
    BY <2>2, <2>3, <2>4 DEF LeaseIsLast
<1>6. CASE AcquireGranted
  <2> DEFINE s == Head(replies).who
  <2>1. s \in Sessions /\ op[s].current = NoLease
    BY <1>3, <1>6 DEF AcquireGranted, LeaseIsLast
  <2>2. /\ lease' = [id |-> nextId, holder |-> s, left |-> Ttl, original |-> Head(replies).size]
        /\ nextId' = nextId + 1 /\ op' = [op EXCEPT ![s] = Idle] /\ wire' = wire
    BY <1>6, <2>1 DEF AcquireGranted, Grant
  <2>3. LandingOrder' /\ NoneAhead'
    BY <1>1, <2>2, HandledInOrder
  <2>4. lease'.id = nextId' - 1 /\ lease'.holder = s
    BY <1>4, <2>2
  <2>5. \A t \in Sessions : op'[t].current = NoLease /\ (op'[t].kind = "acquire" => t # s)
    BY <1>4, <2>1, <2>2 DEF LeaseIsLast
  <2>6. QED
    BY <2>3, <2>4, <2>5 DEF LeaseIsLast
<1>7. CASE CallEnds
  <2>1. /\ UNCHANGED <<wire, lease, nextId>> /\ Head(replies).who \in Sessions
        /\ op' = [op EXCEPT ![Head(replies).who] = Idle]
    BY <1>3, <1>7 DEF CallEnds
  <2>2. LandingOrder' /\ NoneAhead'
    BY <1>1, <2>1, HandledInOrder
  <2>3. QED
    BY <1>4, <2>1, <2>2 DEF LeaseIsLast
<1>8. CASE RestoreSettles
  <2>1. UNCHANGED <<wire, lease, nextId>>
    BY <1>8 DEF RestoreSettles
  <2>2. LandingOrder' /\ NoneAhead'
    BY <1>1, <2>1, HandledInOrder
  <2>3. \A t \in Sessions : op'[t].current = NoLease /\ op'[t].kind = op[t].kind
    BY <1>4, <1>8 DEF RestoreSettles, LeaseIsLast, Command
  <2>4. QED
    BY <2>1, <2>2, <2>3 DEF LeaseIsLast
<1>9. QED
  BY <1>5, <1>6, <1>7, <1>8 DEF Main

(* Timers, disconnects, the desktop and the PTY.                             *)
LEMMA OutsideInOrder ==
    ASSUME TypeOK, LandingOrder, NoneAhead, LeaseIsLast,
           \/ Expire \/ Tick \/ Dispose \/ PtyExits
           \/ \E s \in Sessions : Close(s)
           \/ \E size \in DesktopSizes : DesktopResize(size)
    PROVE  LandingOrder' /\ NoneAhead' /\ LeaseIsLast'
<1>1. UNCHANGED <<op, replies, nextId, lastLanded>>
  BY DEF Expire, Tick, Dispose, PtyExits, Close, DesktopResize
<1>2. \/ lease # NoLease /\ DropLease
      \/ lease # NoLease /\ wire' = wire /\ lease' = [lease EXCEPT !.left = lease.left - 1]
      \/ UNCHANGED <<lease, wire>>
  BY DEF Expire, Expired, Tick, Dispose, PtyExits, Close, DesktopResize
<1>3. LandingOrder' /\ NoneAhead'
  BY <1>1, <1>2, DropInOrder, StillInOrder
<1>4. CASE lease # NoLease /\ DropLease
  BY <1>1, <1>3, <1>4 DEF LeaseIsLast, DropLease
<1>5. CASE lease # NoLease /\ wire' = wire /\ lease' = [lease EXCEPT !.left = lease.left - 1]
  <2>1. lease'.id = lease.id /\ lease'.holder = lease.holder
    BY <1>5 DEF TypeOK, Lease
  <2>2. QED
    BY <1>1, <1>3, <1>5, <2>1 DEF LeaseIsLast
<1>6. CASE UNCHANGED <<lease, wire>>
  BY <1>1, <1>3, <1>6 DEF LeaseIsLast
<1>7. QED
  BY <1>2, <1>4, <1>5, <1>6

-----------------------------------------------------------------------------
LEMMA InitOrderInv == Init => OrderInv
<1> SUFFICES ASSUME Init PROVE OrderInv
  OBVIOUS
<1>1. Len(wire) = 0 /\ Len(replies) = 0 /\ lastLanded = 0 /\ nextId = 1
  BY EmptySeq DEF Init
<1>2. LandingOrder /\ NoneAhead
  BY <1>1 DEF LandingOrder, NoneAhead, Ascending, Precede, AtLeast, AtMost
<1>3. LeaseIsLast
  BY DEF Init, LeaseIsLast, Idle
<1>4. QED
  BY <1>2, <1>3, InitTypeOK DEF OrderInv

(* A phone that has asked again for control it had is remembered.            *)
LEMMA ReacquiredStays == ASSUME TypeOK, [Next]_vars, ~reacquired' PROVE ~reacquired
<1>1. CASE \E s \in Sessions, kind \in LeaseKinds \cup {"acquire"}, id \in 0 .. MaxLeases :
              Start(s, kind, id)
  BY <1>1 DEF Start
<1>2. CASE UNCHANGED reacquired
  BY <1>2
<1>3. QED
  BY <1>1, <1>2 DEF Next, Handler, ContinueAcquire, RefuseStale, Renew, CallAdapter, Release,
     Released, Broker, ServeAvailable, ServeList, ServeAct, Main, AdapterActs, AcquireGranted,
     CallEnds, RestoreSettles, Expire, Tick, Close, Dispose, DesktopResize, PtyExits, vars

(* As long as no phone has, every step keeps the order.                      *)
LEMMA NextInOrder ==
    ASSUME TypeOK, LandingOrder, NoneAhead, LeaseIsLast, [Next]_vars, ~reacquired'
    PROVE  LandingOrder' /\ NoneAhead' /\ LeaseIsLast'
<1>1. CASE UNCHANGED vars
  BY <1>1, StillInOrder DEF vars, LeaseIsLast
<1>2. CASE Next
  <2>1. CASE \E s \in Sessions, kind \in LeaseKinds \cup {"acquire"}, id \in 0 .. MaxLeases :
                Start(s, kind, id)
    BY <2>1, StartInOrder
  <2>2. CASE \E s \in Sessions : Handler(s)
    BY <2>2, HandlerInOrder
  <2>3. CASE Broker
    BY <2>3, BrokerInOrder, BrokerLeaseIsLast
  <2>4. CASE Main
    BY <2>4, MainInOrder
  <2>5. CASE \/ Expire \/ Tick \/ Dispose \/ PtyExits
             \/ \E s \in Sessions : Close(s)
             \/ \E size \in DesktopSizes : DesktopResize(size)
    BY <2>5, OutsideInOrder
  <2>6. QED
    BY <1>2, <2>1, <2>2, <2>3, <2>4, <2>5 DEF Next
<1>3. QED
  BY <1>1, <1>2

(* Nothing but the broker changes what was last landed.                      *)
LEMMA NextLandsInOrder ==
    ASSUME OrderInv, [Next]_vars, ~reacquired'
    PROVE  lastLanded' >= lastLanded
<1>1. TypeOK /\ LandingOrder /\ NoneAhead
  BY ReacquiredStays DEF OrderInv
<1>2. CASE Broker
  BY <1>1, <1>2, BrokerInOrder
<1>3. CASE UNCHANGED lastLanded
  BY <1>1, <1>3 DEF TypeOK
<1>4. QED
  BY <1>2, <1>3 DEF Next, Start, Handler, ContinueAcquire, RefuseStale, Renew, CallAdapter,
     Release, Released, Main, AdapterActs, AcquireGranted, CallEnds, RestoreSettles, Expire,
     Tick, Close, Dispose, DesktopResize, PtyExits, vars

LEMMA NextOrderInv == OrderInv /\ [Next]_vars => OrderInv'
<1> SUFFICES ASSUME OrderInv, [Next]_vars PROVE OrderInv'
  OBVIOUS
<1>1. TypeOK'
  BY NextTypeOK DEF OrderInv
<1>2. ~reacquired' => LandingOrder' /\ NoneAhead' /\ LeaseIsLast'
  BY ReacquiredStays, NextInOrder DEF OrderInv
<1>3. QED
  BY <1>1, <1>2 DEF OrderInv

(* The inductive invariant of the control lease.                             *)
THEOREM OrderInvariant == Spec => []OrderInv
<1>1. QED
  BY InitOrderInv, NextOrderInv, PTL DEF Spec

(* Every variable of the lease service, its adapter and the PTY is typed.     *)
THEOREM TypeCorrect == Spec => []TypeOK
<1>1. OrderInv => TypeOK
  BY DEF OrderInv
<1>2. QED
  BY <1>1, OrderInvariant, PTL

(* Whatever the number of phones, leases and requests on their way, and       *)
(* however they interleave: input, resizes and restores reach the PTY in the  *)
(* order their leases were granted.                                          *)
THEOREM LandsInOrder == Spec => LandsInLeaseOrder
<1>1. OrderInv /\ [Next]_vars => [~reacquired' => lastLanded' >= lastLanded]_vars
  BY NextLandsInOrder
<1>2. QED
  BY <1>1, OrderInvariant, PTL DEF Spec, LandsInLeaseOrder

-----------------------------------------------------------------------------
(* A call that would change the PTY's size when its turn comes.              *)
Sized(call, phase) == call.phase = phase /\ call.size # NoSize
Unsized(queue, phase) == \A i \in 1 .. Len(queue) : ~Sized(queue[i], phase)

(* The last such call in a queue puts a size back.                           *)
PutsBack(call, phase, size) == Sized(call, phase) /\ call.who = Restorer /\ call.size = size
Heals(queue, phase, size) ==
    \E i \in 1 .. Len(queue) :
        /\ PutsBack(queue[i], phase, size)
        /\ \A j \in 1 .. Len(queue) : i < j => ~Sized(queue[j], phase)

(* Of everything on its way, in the order it will reach the PTY, the last     *)
(* thing to change its size puts the desktop's back.                         *)
RestoresLast ==
    \/ Heals(wire, "list", desk)
    \/ Unsized(wire, "list") /\ Heals(replies, "list", desk)
    \/ Unsized(wire, "list") /\ Unsized(replies, "list") /\ Heals(wire, "act", desk)
    \/ Unsized(wire, "list") /\ Unsized(replies, "list") /\ Unsized(wire, "act") /\ geom = desk

(* Nobody asks for the PTY's size with a change of it still before the         *)
(* question.                                                                 *)
Asks(queue) == \E i \in 1 .. Len(queue) : queue[i].phase = "available"
AsksInTime(queue) ==
    \A i, j \in 1 .. Len(queue) :
        i < j /\ queue[j].phase = "available" => ~Sized(queue[i], "act")

(* What an acquire is told, and a lease remembers.                           *)
Known == IF reportsSize THEN desk ELSE NoSize
Told(queue, size) ==
    \A i \in 1 .. Len(queue) : queue[i].ok /\ (queue[i].phase = "available" => queue[i].size = size)

(* A lease remembers the desktop's size, and between two leases that size is  *)
(* on its way back.  A broker that does not report sizes never sees one.      *)
SizesKept ==
    /\ Told(replies, Known)
    /\ lease # NoLease => lease.original = Known
    /\ AsksInTime(wire)
    /\ Asks(wire) => geom = desk
    /\ lease = NoLease \/ ~reportsSize => RestoresLast

SizeInv == alive /\ ~reacquired /\ ~overtaken => SizesKept

-----------------------------------------------------------------------------
(* What a call appended to a queue does to the size the queue leaves.         *)
LEMMA AppendSized ==
    ASSUME NEW S, NEW queue \in Seq(S), NEW c \in S
    PROVE  /\ \A phase : Unsized(queue, phase) /\ ~Sized(c, phase) => Unsized(Append(queue, c), phase)
           /\ \A phase, size : Heals(queue, phase, size) /\ ~Sized(c, phase)
                                  => Heals(Append(queue, c), phase, size)
           /\ \A phase, size : PutsBack(c, phase, size) => Heals(Append(queue, c), phase, size)
           /\ AsksInTime(queue) /\ (c.phase = "available" => Unsized(queue, "act"))
                 => AsksInTime(Append(queue, c))
           /\ Asks(Append(queue, c)) => Asks(queue) \/ c.phase = "available"
           /\ \A size : Told(queue, size) /\ c.ok /\ (c.phase = "available" => c.size = size)
                           => Told(Append(queue, c), size)
<1> DEFINE longer == Append(queue, c)
<1>1. /\ Len(queue) \in Nat
      /\ Len(longer) = Len(queue) + 1
      /\ \A i \in 1 .. Len(queue) : longer[i] = queue[i]
      /\ longer[Len(queue) + 1] = c
  BY LenProperties, AppendProperties
<1> HIDE DEF longer
<1>2. /\ \A i \in 1 .. Len(longer) :
            \/ i \in 1 .. Len(queue) /\ longer[i] = queue[i]
            \/ i = Len(queue) + 1 /\ longer[i] = c
      /\ \A i \in 1 .. Len(queue) : i \in 1 .. Len(longer) /\ i < Len(queue) + 1
      /\ Len(queue) + 1 \in 1 .. Len(longer)
  BY <1>1
<1>3. \A phase : Unsized(queue, phase) /\ ~Sized(c, phase) => Unsized(longer, phase)
  BY <1>2 DEF Unsized
<1>4. ASSUME NEW phase, NEW size, Heals(queue, phase, size), ~Sized(c, phase)
      PROVE  Heals(longer, phase, size)
  <2>1. PICK i \in 1 .. Len(queue) :
            /\ PutsBack(queue[i], phase, size)
            /\ \A j \in 1 .. Len(queue) : i < j => ~Sized(queue[j], phase)
    BY <1>4 DEF Heals
  <2>2. i \in 1 .. Len(longer) /\ PutsBack(longer[i], phase, size)
    BY <1>1, <1>2, <2>1
  <2>3. \A j \in 1 .. Len(longer) : i < j => ~Sized(longer[j], phase)
    BY <1>2, <1>4, <2>1
  <2>4. QED
    BY <2>2, <2>3 DEF Heals
<1>5. ASSUME NEW phase, NEW size, PutsBack(c, phase, size)
      PROVE  Heals(longer, phase, size)
  <2>1. \A j \in 1 .. Len(longer) : ~(Len(queue) + 1 < j)
    BY <1>1
  <2>2. QED
    BY <1>1, <1>2, <1>5, <2>1 DEF Heals
<1>6. ASSUME AsksInTime(queue), c.phase = "available" => Unsized(queue, "act")
      PROVE  AsksInTime(longer)
  <2> SUFFICES ASSUME NEW i \in 1 .. Len(longer), NEW j \in 1 .. Len(longer), i < j,
                      longer[j].phase = "available"
               PROVE  ~Sized(longer[i], "act")
    BY DEF AsksInTime
  <2>1. i \in 1 .. Len(queue) /\ longer[i] = queue[i]
    BY <1>1, <1>2
  <2>2. CASE j \in 1 .. Len(queue) /\ longer[j] = queue[j]
    BY <1>6, <2>1, <2>2 DEF AsksInTime
  <2>3. CASE longer[j] = c
    BY <1>6, <2>1, <2>3 DEF Unsized
  <2>4. QED
    BY <1>2, <2>2, <2>3
<1>7. Asks(longer) => Asks(queue) \/ c.phase = "available"
  BY <1>2 DEF Asks
<1>8. \A size : Told(queue, size) /\ c.ok /\ (c.phase = "available" => c.size = size)
                   => Told(longer, size)
  BY <1>2 DEF Told
<1>9. QED
  BY <1>3, <1>4, <1>5, <1>6, <1>7, <1>8 DEF longer

(* What taking its first call off does to it.                                *)
LEMMA TailSized ==
    ASSUME NEW S, NEW queue \in Seq(S), queue # <<>>
    PROVE  /\ \A phase : Unsized(queue, phase) => Unsized(Tail(queue), phase) /\ ~Sized(Head(queue), phase)
           /\ \A phase, size : Heals(queue, phase, size) =>
                 \/ Heals(Tail(queue), phase, size)
                 \/ Unsized(Tail(queue), phase) /\ PutsBack(Head(queue), phase, size)
           /\ AsksInTime(queue) => /\ AsksInTime(Tail(queue))
                                   /\ Asks(Tail(queue)) => ~Sized(Head(queue), "act")
           /\ Asks(Tail(queue)) \/ Head(queue).phase = "available" => Asks(queue)
           /\ \A size : Told(queue, size) =>
                 /\ Told(Tail(queue), size)
                 /\ Head(queue).ok /\ (Head(queue).phase = "available" => Head(queue).size = size)
<1> DEFINE rest == Tail(queue)
           first == Head(queue)
<1>1. /\ Len(queue) \in Nat \ {0}
      /\ Len(rest) = Len(queue) - 1
      /\ \A i \in 1 .. Len(rest) : rest[i] = queue[i + 1]
      /\ first = queue[1]
  BY LenProperties, EmptySeq, HeadTailProperties
<1> HIDE DEF rest, first
<1>2. /\ 1 \in 1 .. Len(queue) /\ first = queue[1]
      /\ \A i \in 1 .. Len(rest) : i + 1 \in 1 .. Len(queue) /\ rest[i] = queue[i + 1] /\ 1 < i + 1
      /\ \A i, j \in 1 .. Len(rest) : i < j <=> i + 1 < j + 1
  BY <1>1
<1>3. \A phase : Unsized(queue, phase) => Unsized(rest, phase) /\ ~Sized(first, phase)
  BY <1>2 DEF Unsized
<1>4. ASSUME NEW phase, NEW size, Heals(queue, phase, size)
      PROVE  Heals(rest, phase, size) \/ (Unsized(rest, phase) /\ PutsBack(first, phase, size))
  <2>1. PICK i \in 1 .. Len(queue) :
            /\ PutsBack(queue[i], phase, size)
            /\ \A j \in 1 .. Len(queue) : i < j => ~Sized(queue[j], phase)
    BY <1>4 DEF Heals
  <2>2. CASE i = 1
    BY <1>2, <2>1, <2>2 DEF Unsized
  <2>3. CASE i # 1
    <3>1. i - 1 \in 1 .. Len(rest) /\ (i - 1) + 1 = i
      BY <1>1, <2>3
    <3>2. PutsBack(rest[i - 1], phase, size)
      BY <1>2, <2>1, <3>1
    <3>3. \A j \in 1 .. Len(rest) : i - 1 < j => ~Sized(rest[j], phase)
      BY <1>2, <2>1, <3>1
    <3>4. QED
      BY <3>1, <3>2, <3>3 DEF Heals
  <2>4. QED
    BY <2>2, <2>3
<1>5. ASSUME AsksInTime(queue)
      PROVE  AsksInTime(rest) /\ (Asks(rest) => ~Sized(first, "act"))
  BY <1>2, <1>5 DEF AsksInTime, Asks
<1>6. Asks(rest) \/ first.phase = "available" => Asks(queue)
  BY <1>2 DEF Asks
<1>7. \A size : Told(queue, size) =>
         Told(rest, size) /\ first.ok /\ (first.phase = "available" => first.size = size)
  BY <1>2 DEF Told
<1>8. QED
  BY <1>3, <1>4, <1>5, <1>6, <1>7 DEF rest, first

-----------------------------------------------------------------------------
(* With no restore under way, nothing that is on its way puts a size back.    *)
LEMMA NoneRestoring ==
    ASSUME TypeOK, ~(Restoring > 0)
    PROVE  \A phase, size : ~Heals(wire, phase, size) /\ ~Heals(replies, phase, size)
<1> DEFINE restores(queue) == {i \in DOMAIN queue : IsRestore(queue[i])}
<1>1. ASSUME NEW S, NEW queue \in Seq(S)
      PROVE  /\ Cardinality(restores(queue)) \in Nat
             /\ Cardinality(restores(queue)) = 0 => restores(queue) = {}
             /\ DOMAIN queue = 1 .. Len(queue)
  <2>1. DOMAIN queue = 1 .. Len(queue) /\ Len(queue) \in Nat
    BY LenProperties
  <2>2. IsFiniteSet(DOMAIN queue)
    BY <2>1, FS_Interval
  <2>3. IsFiniteSet(restores(queue))
    BY <2>2, FS_Subset
  <2>4. QED
    BY <2>1, <2>3, FS_CardinalityType, FS_EmptySet
<1>2. Restoring = Cardinality(restores(wire)) + Cardinality(restores(replies))
  BY DEF Restoring
<1>3. wire \in Seq(Call) /\ replies \in Seq(Reply)
  BY DEF TypeOK
<1> HIDE DEF restores
<1>4. Cardinality(restores(wire)) = 0 /\ Cardinality(restores(replies)) = 0
  BY <1>1, <1>2, <1>3
<1>5. restores(wire) = {} /\ restores(replies) = {}
  BY <1>1, <1>3, <1>4
<1>6. QED
  BY <1>1, <1>3, <1>5 DEF restores, IsRestore, Heals, PutsBack

(* A lease may be renewed, or last, without any call being sent.              *)
LEMMA StillSized ==
    ASSUME SizesKept, UNCHANGED <<wire, replies, geom, desk, reportsSize>>,
           \/ lease' = lease
           \/ lease # NoLease /\ lease' # NoLease /\ lease'.original = lease.original
    PROVE  SizesKept'
BY DEF SizesKept, RestoresLast, Known

(* A drop sends the desktop's size after everything already on its way.      *)
LEMMA DropSized ==
    ASSUME TypeOK, SizesKept, lease # NoLease, DropLease,
           UNCHANGED <<replies, geom, desk, reportsSize>>
    PROVE  SizesKept'
<1>1. lease' = NoLease /\ lease \in Lease /\ lease.original = Known
      /\ wire \in Seq(Call) /\ desk \in DesktopSizes /\ desk # NoSize
  BY TerminalControlAssumption DEF DropLease, TypeOK, SizesKept
<1>2. CASE reportsSize
  <2> DEFINE call == ListCall(Restorer, lease.id, lease.original)
  <2>1. lease.original = desk /\ wire' = Append(wire, call)
    BY <1>1, <1>2 DEF Known, DropLease
  <2>2. call \in Call /\ call.phase = "list" /\ PutsBack(call, "list", desk)
    BY <1>1, <2>1 DEF ListCall, Call, Lease, Ids, Phases, PutsBack, Sized
  <2> HIDE DEF call
  <2>3. Heals(wire', "list", desk) /\ AsksInTime(wire') /\ (Asks(wire') => Asks(wire))
    BY <1>1, <2>1, <2>2, AppendSized DEF SizesKept
  <2>4. QED
    BY <1>1, <2>3 DEF SizesKept, RestoresLast, Known
<1>3. CASE ~reportsSize
  <2>1. wire' = wire
    BY <1>1, <1>3 DEF Known, DropLease
  <2>2. QED
    BY <1>1, <1>3, <2>1 DEF SizesKept, RestoresLast, Known
<1>4. QED
  BY <1>2, <1>3

(* A phone's call changes no size unless a lease is held that knows how to    *)
(* put it back.                                                              *)
LEMMA EnqueueSized ==
    ASSUME TypeOK, SizesKept, NEW c \in Call, wire' = Append(wire, c),
           UNCHANGED <<lease, replies, geom, desk, reportsSize>>,
           c.phase # "act",
           Sized(c, "list") => lease # NoLease /\ reportsSize,
           c.phase = "available" => geom = desk /\ Unsized(wire, "act")
    PROVE  SizesKept'
<1>1. wire \in Seq(Call) /\ ~Sized(c, "act")
  BY DEF TypeOK, Sized
<1>2. AsksInTime(wire') /\ (Asks(wire') => geom = desk)
  BY <1>1, AppendSized DEF SizesKept
<1>3. ASSUME ~Sized(c, "list"), RestoresLast
      PROVE  RestoresLast'
  BY <1>1, <1>3, AppendSized DEF RestoresLast
<1>4. QED
  BY <1>2, <1>3 DEF SizesKept, Known

LEMMA StartSized ==
    ASSUME TypeOK, SizesKept,
           NEW s \in Sessions, NEW kind \in LeaseKinds \cup {"acquire"},
           NEW id \in 0 .. MaxLeases, Start(s, kind, id)
    PROVE  SizesKept'
<1>1. UNCHANGED <<replies, geom, desk, reportsSize>>
  BY DEF Start
<1>2. CASE Expired
  BY <1>1, <1>2, DropSized DEF Start, Expired
<1>3. CASE ~Expired
  BY <1>1, <1>3, StillSized DEF Start
<1>4. QED
  BY <1>2, <1>3

(* An acquire that was not overtaken asks only once nothing is on its way     *)
(* that would change the size.                                               *)
LEMMA HandlerSized ==
    ASSUME TypeOK, SizesKept, LeaseIsLast, ~overtaken', NEW s \in Sessions, Handler(s)
    PROVE  SizesKept'
<1>1. UNCHANGED <<replies, geom, desk, reportsSize>>
  BY DEF Handler, ContinueAcquire, RefuseStale, Renew, CallAdapter, Release, Released
<1>2. CASE ContinueAcquire(s)
  <2>1. lease' = lease /\ op[s].kind = "acquire" /\ (lease # NoLease => lease.holder # s)
    BY <1>2 DEF ContinueAcquire, LeaseIsLast
  <2>2. CASE wire' = wire
    BY <1>1, <2>1, <2>2, StillSized
  <2>3. CASE wire' # wire
    <3>1. lease = NoLease /\ wire' = Append(wire, AvailableCall(s)) /\ ~(Restoring > 0)
      BY <1>2, <2>1, <2>3 DEF ContinueAcquire, AwaitRestore, ReadCurrent, Overtaken
    <3>2. Unsized(wire, "act") /\ geom = desk
      BY <3>1, NoneRestoring DEF SizesKept, RestoresLast
    <3>3. /\ AvailableCall(s) \in Call /\ AvailableCall(s).phase = "available"
          /\ ~Sized(AvailableCall(s), "list")
      BY DEF AvailableCall, Call, Phases, Sized
    <3>4. QED
      BY <1>1, <2>1, <3>1, <3>2, <3>3, EnqueueSized
  <2>4. QED
    BY <2>2, <2>3
<1>3. CASE RefuseStale(s) \/ Released(s)
  BY <1>1, <1>3, StillSized DEF RefuseStale, Released
<1>4. CASE Renew(s)
  <2>1. lease # NoLease /\ lease' = [lease EXCEPT !.left = Ttl] /\ lease \in Lease /\ wire' = wire
    BY <1>4 DEF Renew, HoldsLease, Armed, TypeOK
  <2>2. lease'.original = lease.original /\ lease' \in Lease
    BY <2>1, TerminalControlAssumption DEF Lease
  <2>3. QED
    BY <1>1, <2>1, <2>2, StillSized, NoLeaseAssumption
<1>5. CASE CallAdapter(s)
  <2> DEFINE call == ListCall(s, op[s].id, IF op[s].kind = "resize" THEN s ELSE NoSize)
  <2>1. lease' = lease /\ lease # NoLease /\ lease.original = Known
    BY <1>5 DEF CallAdapter, HoldsLease, SizesKept
  <2>2. CASE wire' = wire
    BY <1>1, <2>1, <2>2, StillSized
  <2>3. CASE wire' # wire
    <3>1. wire' = Append(wire, call) /\ (op[s].kind = "resize" => reportsSize)
      BY <1>5, <2>1, <2>3 DEF CallAdapter, Known
    <3>2. op[s] \in Command
      BY DEF TypeOK
    <3>3. call \in Call /\ call.phase = "list" /\ (Sized(call, "list") => reportsSize)
      BY <3>1, <3>2 DEF ListCall, Call, Command, Phases, Sizes, Sized
    <3> HIDE DEF call
    <3>4. QED
      BY <1>1, <2>1, <3>1, <3>3, EnqueueSized
  <2>4. QED
    BY <2>2, <2>3
<1>6. CASE Release(s)
  BY <1>1, <1>6, DropSized DEF Release, HoldsLease
<1>7. QED
  BY <1>2, <1>3, <1>4, <1>5, <1>6 DEF Handler

LEMMA BrokerSized == ASSUME TypeOK, SizesKept, alive, Broker PROVE SizesKept'
<1>1. wire # <<>> /\ wire' = Tail(wire) /\ UNCHANGED <<lease, desk, reportsSize>>
      /\ wire \in Seq(Call) /\ replies \in Seq(Reply) /\ Head(wire) \in Call
  BY HeadTailProperties DEF Broker, ServeAvailable, ServeList, ServeAct, TypeOK
<1>2. /\ AsksInTime(wire') /\ (Asks(wire') => ~Sized(Head(wire), "act") /\ geom = desk)
      /\ Head(wire).phase = "available" => geom = desk
  BY <1>1, TailSized DEF SizesKept
<1>3. CASE ServeAvailable
  <2> DEFINE reply == [who |-> Head(wire).who, phase |-> "available", ok |-> alive,
                       id |-> 0, size |-> IF reportsSize THEN geom ELSE NoSize]
  <2>1. Head(wire).phase = "available" /\ replies' = Append(replies, reply) /\ geom' = geom
    BY <1>3 DEF ServeAvailable
  <2>2. reply \in Reply /\ ~Sized(reply, "list") /\ reply.phase = "available"
        /\ reply.ok /\ reply.size = Known
    BY <1>1, <1>2, <2>1 DEF TypeOK, Call, Reply, Phases, Sizes, Sized, Known
  <2>3. ~Sized(Head(wire), "list") /\ ~Sized(Head(wire), "act")
    BY <2>1 DEF Sized
  <2> HIDE DEF reply
  <2>4. Told(replies', Known)
    BY <1>1, <2>1, <2>2, AppendSized DEF SizesKept
  <2>5. RestoresLast => RestoresLast'
    BY <1>1, <2>1, <2>2, <2>3, AppendSized, TailSized DEF RestoresLast, PutsBack
  <2>6. QED
    BY <1>1, <1>2, <2>1, <2>4, <2>5 DEF SizesKept, Known
<1>4. CASE ServeList
  <2> DEFINE reply == [who |-> Head(wire).who, phase |-> "list", ok |-> alive,
                       id |-> Head(wire).id, size |-> Head(wire).size]
  <2>1. Head(wire).phase = "list" /\ replies' = Append(replies, reply) /\ geom' = geom
    BY <1>4 DEF ServeList
  <2>2. reply \in Reply /\ reply.phase = "list" /\ reply.ok
        /\ (Sized(reply, "list") <=> Sized(Head(wire), "list"))
        /\ \A size : PutsBack(Head(wire), "list", size) => PutsBack(reply, "list", size)
    BY <1>1, <2>1 DEF TypeOK, Call, Reply, Phases, Sized, PutsBack
  <2>3. ~Sized(Head(wire), "act")
    BY <2>1 DEF Sized
  <2> HIDE DEF reply
  <2>4. Told(replies', Known)
    BY <1>1, <2>1, <2>2, AppendSized DEF SizesKept
  <2>5. ASSUME RestoresLast PROVE RestoresLast'
    <3>1. CASE Heals(wire, "list", desk)
      BY <1>1, <2>1, <2>2, <3>1, AppendSized, TailSized DEF RestoresLast
    <3>2. CASE Unsized(wire, "list")
      BY <1>1, <2>1, <2>2, <2>3, <2>5, <3>2, AppendSized, TailSized DEF RestoresLast, PutsBack
    <3>3. QED
      BY <2>5, <3>1, <3>2 DEF RestoresLast
  <2>6. QED
    BY <1>1, <1>2, <2>1, <2>4, <2>5 DEF SizesKept, Known
<1>5. CASE ServeAct
  <2> DEFINE reply == [who |-> Head(wire).who, phase |-> "act", ok |-> alive,
                       id |-> Head(wire).id, size |-> Head(wire).size]
  <2>1. Head(wire).phase = "act" /\ replies' = Append(replies, reply)
        /\ geom' = IF Sized(Head(wire), "act") THEN Head(wire).size ELSE geom
    BY <1>5 DEF ServeAct, Sized
  <2>2. reply \in Reply /\ reply.phase = "act" /\ reply.ok /\ ~Sized(reply, "list")
    BY <1>1 DEF TypeOK, Call, Reply, Phases, Sized
  <2>3. ~Sized(Head(wire), "list")
    BY <2>1 DEF Sized
  <2> HIDE DEF reply
  <2>4. Told(replies', Known)
    BY <1>1, <2>1, <2>2, AppendSized DEF SizesKept
  <2>5. ASSUME RestoresLast PROVE RestoresLast'
    <3>1. /\ Heals(wire, "list", desk) => Heals(wire', "list", desk)
          /\ Unsized(wire, "list") => Unsized(wire', "list")
          /\ Heals(replies, "list", desk) => Heals(replies', "list", desk)
          /\ Unsized(replies, "list") => Unsized(replies', "list")
      BY <1>1, <2>1, <2>2, <2>3, AppendSized, TailSized DEF PutsBack
    <3>2. Heals(wire, "act", desk) =>
             Heals(wire', "act", desk) \/ (Unsized(wire', "act") /\ geom' = desk)
      BY <1>1, <2>1, TailSized DEF PutsBack
    <3>3. Unsized(wire, "act") => Unsized(wire', "act") /\ geom' = geom
      BY <1>1, <2>1, TailSized
    <3>4. QED
      BY <1>1, <2>5, <3>1, <3>2, <3>3 DEF RestoresLast
  <2>6. QED
    BY <1>1, <1>2, <2>1, <2>4, <2>5 DEF SizesKept, Known
<1>6. QED
  BY <1>3, <1>4, <1>5 DEF Broker

LEMMA MainSized == ASSUME TypeOK, SizesKept, LeaseIsLast, Main PROVE SizesKept'
<1>1. /\ replies # <<>> /\ replies' = Tail(replies) /\ UNCHANGED <<geom, desk, reportsSize>>
      /\ wire \in Seq(Call) /\ replies \in Seq(Reply) /\ Head(replies) \in Reply
  BY HeadTailProperties DEF Main, AdapterActs, AcquireGranted, CallEnds, RestoreSettles, TypeOK
<1>2. /\ Told(replies', Known) /\ Head(replies).ok
      /\ Head(replies).phase = "available" => Head(replies).size = Known
  BY <1>1, TailSized DEF SizesKept
<1>3. ASSUME wire' = wire, Head(replies).phase # "list", RestoresLast
      PROVE  RestoresLast'
  <2>1. ~Sized(Head(replies), "list")
    BY <1>3 DEF Sized
  <2>2. QED
    BY <1>1, <1>3, <2>1, TailSized DEF RestoresLast, PutsBack
<1>4. CASE AdapterActs
  <2> DEFINE call == [who |-> Head(replies).who, phase |-> "act",
                      id |-> Head(replies).id, size |-> Head(replies).size]
  <2>1. Head(replies).phase = "list" /\ wire' = Append(wire, call) /\ lease' = lease
    BY <1>4 DEF AdapterActs
  <2>2. call \in Call /\ call.phase = "act" /\ ~Sized(call, "list")
        /\ (Sized(call, "act") <=> Sized(Head(replies), "list"))
        /\ \A size : PutsBack(Head(replies), "list", size) => PutsBack(call, "act", size)
    BY <1>1, <2>1 DEF Call, Reply, Phases, Sized, PutsBack
  <2> HIDE DEF call
  <2>3. AsksInTime(wire') /\ (Asks(wire') => geom = desk)
    BY <1>1, <2>1, <2>2, AppendSized DEF SizesKept
  <2>4. ASSUME RestoresLast PROVE RestoresLast'
    <3>1. /\ Heals(wire, "list", desk) => Heals(wire', "list", desk)
          /\ Unsized(wire, "list") => Unsized(wire', "list")
      BY <1>1, <2>1, <2>2, AppendSized
    <3>2. Heals(replies, "list", desk) =>
             Heals(replies', "list", desk) \/ (Unsized(replies', "list") /\ Heals(wire', "act", desk))
      BY <1>1, <2>1, <2>2, AppendSized, TailSized
    <3>3. Unsized(replies, "list") =>
             /\ Unsized(replies', "list")
             /\ Heals(wire, "act", desk) => Heals(wire', "act", desk)
             /\ Unsized(wire, "act") => Unsized(wire', "act")
      BY <1>1, <2>1, <2>2, AppendSized, TailSized
    <3>4. QED
      BY <1>1, <2>4, <3>1, <3>2, <3>3 DEF RestoresLast
  <2>5. QED
    BY <1>1, <1>2, <2>1, <2>3, <2>4 DEF SizesKept, Known
<1>5. CASE AcquireGranted
  <2> DEFINE s == Head(replies).who
  <2>1. s \in Sessions /\ op[s].current = NoLease /\ wire' = wire
        /\ Head(replies).phase = "available" /\ nextId \in Ids
    BY <1>1, <1>5 DEF AcquireGranted, LeaseIsLast, Reply, TypeOK
  <2>2. lease' = [id |-> nextId, holder |-> s, left |-> Ttl, original |-> Head(replies).size]
    BY <1>5, <2>1 DEF AcquireGranted, Grant
  <2>3. lease' \in Lease /\ lease'.original = Known
    BY <1>1, <1>2, <2>1, <2>2, TerminalControlAssumption DEF Lease, Reply
  <2>4. lease' # NoLease
    BY <2>3, NoLeaseAssumption
  <2>5. ~reportsSize => RestoresLast'
    BY <1>3, <2>1 DEF SizesKept
  <2>6. QED
    BY <1>1, <1>2, <2>1, <2>3, <2>4, <2>5 DEF SizesKept, Known
<1>6. CASE CallEnds \/ RestoreSettles
  <2>1. UNCHANGED <<wire, lease>> /\ Head(replies).phase # "list"
    BY <1>2, <1>6 DEF CallEnds, RestoreSettles
  <2>2. QED
    BY <1>1, <1>2, <1>3, <2>1 DEF SizesKept, Known
<1>7. QED
  BY <1>4, <1>5, <1>6 DEF Main

(* Timers, disconnects and a desktop that keeps its size.                    *)
LEMMA OutsideSized ==
    ASSUME TypeOK, SizesKept, alive', \A a, b \in DesktopSizes : a = b,
           \/ Expire \/ Tick \/ Dispose \/ PtyExits
           \/ \E s \in Sessions : Close(s)
           \/ \E size \in DesktopSizes : DesktopResize(size)
    PROVE  SizesKept'
<1>1. CASE DesktopResize(desk)
  <2>1. geom' = desk /\ UNCHANGED <<lease, wire, replies, desk, reportsSize>>
    BY <1>1 DEF DesktopResize
  <2>2. RestoresLast => RestoresLast'
    BY <2>1 DEF RestoresLast
  <2>3. QED
    BY <2>1, <2>2 DEF SizesKept, Known
<1>2. CASE \/ Expire \/ Tick \/ Dispose
           \/ \E s \in Sessions : Close(s)
  <2>1. UNCHANGED <<replies, geom, desk, reportsSize>>
    BY <1>2 DEF Expire, Tick, Dispose, Close
  <2>2. \/ lease # NoLease /\ DropLease
        \/ lease # NoLease /\ wire' = wire /\ lease' = [lease EXCEPT !.left = lease.left - 1]
           /\ lease.left > 0
        \/ UNCHANGED <<lease, wire>>
    BY <1>2 DEF Expire, Expired, Tick, Dispose, Close
  <2>3. CASE lease # NoLease /\ wire' = wire /\ lease' = [lease EXCEPT !.left = lease.left - 1]
             /\ lease.left > 0
    <3>1. lease \in Lease /\ lease.left \in 1 .. Ttl /\ Ttl \in Nat
      BY <2>3, TerminalControlAssumption DEF TypeOK, Lease
    <3>2. lease'.original = lease.original /\ lease' \in Lease
      BY <2>3, <3>1 DEF Lease
    <3>3. QED
      BY <2>1, <2>3, <3>2, StillSized, NoLeaseAssumption
  <2>4. QED
    BY <2>1, <2>2, <2>3, DropSized, StillSized
<1>3. CASE PtyExits
  BY <1>3 DEF PtyExits
<1>4. QED
  BY <1>1, <1>2, <1>3 DEF DesktopResize, TypeOK

(* A PTY that has exited stays so, and an acquire overtaken is remembered.     *)
LEMMA HistoryStays ==
    ASSUME TypeOK, [Next]_vars
    PROVE  (alive' => alive) /\ (~overtaken' => ~overtaken)
<1>1. CASE \E s \in Sessions : ContinueAcquire(s)
  <2>1. PICK s \in Sessions : ContinueAcquire(s)
    BY <1>1
  <2>2. alive' = alive
    BY <2>1 DEF ContinueAcquire
  <2>3. ~overtaken' => ~overtaken
    BY <2>1, Zenon DEF ContinueAcquire
  <2>4. QED
    BY <2>2, <2>3
<1>2. CASE UNCHANGED <<alive, overtaken>>
  BY <1>2
<1>3. CASE PtyExits
  BY <1>3 DEF PtyExits
<1>4. QED
  BY <1>1, <1>2, <1>3 DEF Next, Start, Handler, RefuseStale, Renew, CallAdapter, Release,
     Released, Broker, ServeAvailable, ServeList, ServeAct, Main, AdapterActs, AcquireGranted,
     CallEnds, RestoreSettles, Expire, Tick, Close, Dispose, DesktopResize, vars

LEMMA NextSizeInv ==
    ASSUME OrderInv, SizeInv, [Next]_vars, \A a, b \in DesktopSizes : a = b
    PROVE  SizeInv'
<1> SUFFICES ASSUME alive', ~reacquired', ~overtaken' PROVE SizesKept'
  BY DEF SizeInv
<1>1. alive /\ ~reacquired /\ ~overtaken /\ TypeOK /\ LeaseIsLast /\ SizesKept
  BY HistoryStays, ReacquiredStays DEF OrderInv, SizeInv
<1>2. CASE UNCHANGED vars
  BY <1>1, <1>2, StillSized DEF vars
<1>3. CASE \E s \in Sessions, kind \in LeaseKinds \cup {"acquire"}, id \in 0 .. MaxLeases :
              Start(s, kind, id)
  BY <1>1, <1>3, StartSized
<1>4. CASE \E s \in Sessions : Handler(s)
  BY <1>1, <1>4, HandlerSized
<1>5. CASE Broker
  BY <1>1, <1>5, BrokerSized
<1>6. CASE Main
  BY <1>1, <1>6, MainSized
<1>7. CASE \/ Expire \/ Tick \/ Dispose \/ PtyExits
           \/ \E s \in Sessions : Close(s)
           \/ \E size \in DesktopSizes : DesktopResize(size)
  BY <1>1, <1>7, OutsideSized
<1>8. QED
  BY <1>2, <1>3, <1>4, <1>5, <1>6, <1>7 DEF Next

LEMMA InitSizeInv == Init => SizeInv
<1> SUFFICES ASSUME Init PROVE SizesKept
  BY DEF SizeInv
<1>1. Len(wire) = 0 /\ Len(replies) = 0 /\ lease = NoLease /\ geom = desk
  BY EmptySeq DEF Init
<1>2. RestoresLast
  BY <1>1 DEF RestoresLast, Unsized
<1>3. QED
  BY <1>1, <1>2 DEF SizesKept, Told, AsksInTime, Asks

(* For a desktop that keeps one size, whatever the number of phones and        *)
(* leases: once no lease is left and nothing is on its way, the PTY has the   *)
(* desktop's size again, whichever of release, expiry, disconnect and dispose *)
(* ended the leases.                                                         *)
THEOREM DesktopSizeComesBack ==
    ASSUME \A a, b \in DesktopSizes : a = b
    PROVE  Spec => []DesktopSizeRestored
<1>1. OrderInv /\ SizeInv /\ [Next]_vars => SizeInv'
  BY NextSizeInv
<1>2. SizeInv => DesktopSizeRestored
  <2> SUFFICES ASSUME SizeInv, ~reacquired, ~overtaken, alive, lease = NoLease,
                      wire = <<>>, replies = <<>>
               PROVE  geom = desk
    BY DEF DesktopSizeRestored
  <2>1. Len(wire) = 0 /\ Len(replies) = 0
    BY EmptySeq
  <2>2. QED
    BY <2>1 DEF SizeInv, SizesKept, RestoresLast, Heals
<1>3. QED
  BY <1>1, <1>2, InitSizeInv, OrderInvariant, PTL DEF Spec
=============================================================================
