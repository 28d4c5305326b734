-------------------------- MODULE SessionBrokerProofs --------------------------
(***************************************************************************)
(* That the idle exit takes no terminal with it, whatever the apps and brokers *)
(* do to each other; and, where one app at a time uses the user-data directory  *)
(* (electron/main.cjs:175), that brokers do not compete and the terminals of a  *)
(* running one can be found, whatever is killed or removed in between.         *)
(***************************************************************************)
EXTENDS SessionBroker, FiniteSetTheorems, TLAPS

Unpublished == {"starting", "locked"}
Holding == {"locked", "up", "closing"}

(* A broker's timers and terminals fit each other.                            *)
Sound(r) ==
    /\ r.releasing \subseteq r.terminals
    /\ r.phase \in {"gone", "starting", "locked"} => r.terminals = {} /\ ~r.idle
    /\ r.idle => r.terminals = {}

(* An app goes by a broker that had published itself, unless it waits for that, *)
(* and is connected to one that is there.                                    *)
Placed(r, brokers) ==
    /\ r.peer # None <=> r.phase \in {"hello", "asking", "on"}
    /\ r.phase # "off" => r.seen # None
    /\ r.seen # None /\ r.phase # "poll" => brokers[r.seen].phase \notin Unpublished
    /\ r.peer # None => brokers[r.peer].phase \in Holding
    /\ r.phase \in {"asking", "on"} => r.peer = r.seen

BrokerInv ==
    /\ info \in Pids \cup {None} /\ lock \in BOOLEAN /\ sock \in Pids \cup {None}
    /\ broker \in [Pids -> Broker] /\ \A b \in Pids : Sound(broker[b])
    /\ app \in [Apps -> App] /\ \A a \in Apps : Placed(app[a], broker)
    /\ faulted \in 0 .. MaxFaults
    /\ info # None => broker[info].phase \notin Unpublished

-----------------------------------------------------------------------------
LEMMA Numbers == Pids \subseteq Nat /\ None \notin Pids
BY SessionBrokerAssumption DEF Pids, None

LEMMA GoneBroker == /\ Gone \in Broker /\ Sound(Gone) /\ Gone.phase = "gone"
                    /\ \A phase \in {"starting", "locked"} :
                          /\ [Gone EXCEPT !.phase = phase] \in Broker
                          /\ Sound([Gone EXCEPT !.phase = phase])
                          /\ [Gone EXCEPT !.phase = phase].phase = phase
BY DEF Gone, Broker, Sound

LEMMA OffApp == Off \in App /\ Off.phase = "off" /\ Off.seen = None /\ Off.peer = None /\ \A f : Placed(Off, f)
BY DEF Off, App, Placed

(* What an app that is placed may rely on as brokers move on.                  *)
LEMMA PlacedStays ==
    ASSUME NEW r \in App, NEW f, NEW g, Placed(r, f),
           \A b \in Pids : b = r.seen /\ f[b].phase \notin Unpublished => g[b].phase \notin Unpublished,
           \A b \in Pids : b = r.peer /\ f[b].phase \in Holding => g[b].phase \in Holding
    PROVE  Placed(r, g)
BY DEF Placed, App

(* A timer that was rearmed fits the terminals.                              *)
LEMMA RearmedSound ==
    ASSUME NEW r \in Broker, r.releasing \subseteq r.terminals, r.phase \in {"up", "closing"}
    PROVE  Rearmed(r) \in Broker /\ Sound(Rearmed(r)) /\ Rearmed(r).phase = r.phase
<1> DEFINE empty == (r.terminals = {})
           new == [r EXCEPT !.idle = empty]
<1>1. empty \in BOOLEAN
  OBVIOUS
<1>2. new \in Broker /\ new.phase = r.phase /\ new.idle = empty /\ new.terminals = r.terminals /\ new.releasing = r.releasing
  <2> HIDE DEF empty
  <2>1. QED
    BY <1>1 DEF Broker
<1>3. Sound(new)
  <2> HIDE DEF new
  <2>1. QED
    BY <1>2 DEF Sound
<1>4. QED
  BY <1>2, <1>3 DEF Rearmed

(* What is left of a connection attempt that failed.                          *)
LEMMA AfterFailureFacts ==
    ASSUME NEW r \in App, NEW alive \in BOOLEAN, r.seen # None
    PROVE  /\ AfterFailure(r, alive) \in App
           /\ AfterFailure(r, alive).seen = r.seen /\ AfterFailure(r, alive).peer = None
           /\ AfterFailure(r, alive).phase \in {"check", "open", "poll"}
           /\ AfterFailure(r, alive).phase = "check" => ~alive
<1>1. r.try \in {"first", "again", "spawned"}
  BY DEF App
<1>2. CASE r.try = "first" /\ ~alive
  <2>1. AfterFailure(r, alive) = [r EXCEPT !.phase = "check", !.peer = None]
    BY <1>2 DEF AfterFailure
  <2>2. QED
    BY <1>2, <2>1 DEF App
<1>3. CASE r.try = "again" \/ (r.try = "first" /\ alive)
  <2>1. AfterFailure(r, alive) = [r EXCEPT !.phase = "open", !.try = "again", !.peer = None]
    BY <1>3 DEF AfterFailure
  <2>2. QED
    BY <2>1 DEF App
<1>4. CASE r.try = "spawned"
  <2>1. AfterFailure(r, alive) = [r EXCEPT !.phase = "poll", !.peer = None]
    BY <1>4 DEF AfterFailure
  <2>2. QED
    BY <2>1 DEF App
<1>5. CASE r.try = "first"
  BY <1>2, <1>3, <1>5, Zenon
<1>6. QED
  BY <1>1, <1>3, <1>4, <1>5, Zenon

LEMMA AfterFailurePlaced ==
    ASSUME NEW r \in App, NEW alive \in BOOLEAN, NEW f, NEW g, Placed(r, f), r.phase \in {"open", "hello"},
           \A b \in Pids : b = r.seen /\ f[b].phase \notin Unpublished => g[b].phase \notin Unpublished
    PROVE  AfterFailure(r, alive) \in App /\ Placed(AfterFailure(r, alive), g)
<1>1. r.seen \in Pids /\ f[r.seen].phase \notin Unpublished
  BY DEF Placed, App
<1>2. QED
  BY <1>1, AfterFailureFacts, Numbers DEF Placed

(* What is left when sockets to a broker close.                              *)
LEMMA DisconnectedPlaced ==
    ASSUME BrokerInv, NEW b \in Pids, NEW greetedOnly \in BOOLEAN, NEW alive \in BOOLEAN, NEW g,
           \A c \in Pids : c # b => g[c].phase = broker[c].phase,
           g[b].phase \notin Unpublished, greetedOnly => g[b].phase \in Holding
    PROVE  /\ Disconnected(b, greetedOnly, alive) \in [Apps -> App]
           /\ \A a \in Apps : Placed(Disconnected(b, greetedOnly, alive)[a], g)
<1> DEFINE d(a) == Disconnected(b, greetedOnly, alive)[a]
<1>1. ASSUME NEW a \in Apps PROVE d(a) \in App /\ Placed(d(a), g)
  <2>1. app[a] \in App /\ Placed(app[a], broker)
    BY DEF BrokerInv
  <2>2. CASE On(a, b)
    BY <2>2, OffApp DEF Disconnected
  <2>3. CASE ~On(a, b) /\ app[a].peer = b /\ ~greetedOnly
    <3>1. d(a) = AfterFailure(app[a], alive)
      BY <2>3 DEF Disconnected
    <3>2. app[a].phase = "hello"
      BY <2>1, <2>3, Numbers DEF On, Greeted, Placed
    <3>3. QED
      BY <2>1, <3>1, <3>2, AfterFailurePlaced
  <2>4. CASE ~On(a, b) /\ ~(app[a].peer = b /\ ~greetedOnly)
    <3>1. d(a) = app[a]
      BY <2>4 DEF Disconnected
    <3>2. QED
      BY <2>1, <2>4, <3>1, PlacedStays
  <2>5. QED
    BY <2>2, <2>3, <2>4
<1>2. Disconnected(b, greetedOnly, alive) = [a \in Apps |-> d(a)]
  BY DEF Disconnected
<1> HIDE DEF d
<1>3. QED
  BY <1>1, <1>2

-----------------------------------------------------------------------------
LEMMA InitBrokerInv == Init => BrokerInv
<1> SUFFICES ASSUME Init PROVE BrokerInv
  OBVIOUS
<1>1. broker \in [Pids -> Broker] /\ \A b \in Pids : Sound(broker[b])
  BY GoneBroker DEF Init
<1>2. app \in [Apps -> App] /\ \A a \in Apps : Placed(app[a], broker)
  BY OffApp DEF Init
<1>3. faulted \in 0 .. MaxFaults
  BY SessionBrokerAssumption DEF Init
<1>4. QED
  BY <1>1, <1>2, <1>3 DEF Init, BrokerInv

(* An app moves, and nothing else does.                                      *)
LEMMA AppMoves ==
    ASSUME BrokerInv, NEW a \in Apps, NEW r \in App, Placed(r, broker),
           app' = [app EXCEPT ![a] = r], broker' = broker,
           info' \in {None, info}, lock' \in BOOLEAN, sock' \in Pids \cup {None}, faulted' \in 0 .. MaxFaults
    PROVE  BrokerInv'
<1>1. app' \in [Apps -> App] /\ \A c \in Apps : app'[c] = IF c = a THEN r ELSE app[c]
  BY DEF BrokerInv
<1>2. QED
  BY <1>1 DEF BrokerInv

(* A process is started, under a pid that nothing refers to.                  *)
LEMMA SpawnKeeps ==
    ASSUME BrokerInv, NEW a \in Apps, Spawn(a),
           info' \in {None, info}, lock' \in BOOLEAN, sock' \in Pids \cup {None}, faulted' \in 0 .. MaxFaults
    PROVE  BrokerInv'
<1> DEFINE p == FreePid
           r == [phase |-> "poll", try |-> "spawned", seen |-> p, peer |-> None]
           new == [Gone EXCEPT !.phase = "starting"]
<1>1. p \in Pids /\ ~Referenced(p)
  BY DEF Spawn, FreePid
<1>2. broker' = [broker EXCEPT ![p] = new] /\ app' = [app EXCEPT ![a] = r]
  BY DEF Spawn
<1>3. new \in Broker /\ Sound(new)
  BY GoneBroker
<1> HIDE DEF p, new
<1>4. r \in App /\ r.phase = "poll" /\ r.seen = p /\ r.peer = None
  BY <1>1 DEF App
<1>5. Placed(r, broker')
  BY <1>1, <1>4, Numbers DEF Placed
<1> HIDE DEF r
<1>6. \A c \in Apps : p # app[c].seen /\ p # app[c].peer
  BY <1>1 DEF Referenced
<1>7. \A c \in Apps : Placed(app[c], broker')
  <2>1. \A b \in Pids : b # p => broker'[b] = broker[b]
    BY <1>2 DEF BrokerInv
  <2>2. QED
    BY <1>6, <2>1, PlacedStays DEF BrokerInv
<1>8. app' \in [Apps -> App] /\ \A c \in Apps : Placed(app'[c], broker')
  BY <1>2, <1>4, <1>5, <1>7 DEF BrokerInv
<1>9. broker' \in [Pids -> Broker] /\ \A b \in Pids : Sound(broker'[b])
  BY <1>1, <1>2, <1>3 DEF BrokerInv
<1>10. info' # None => broker'[info'].phase \notin Unpublished
  BY <1>1, <1>2 DEF BrokerInv, Referenced
<1>11. QED
  BY <1>8, <1>9, <1>10 DEF BrokerInv

(* A broker moves on, and apps with it.                                      *)
LEMMA BrokerMoves ==
    ASSUME BrokerInv, NEW b \in Pids, NEW r \in Broker, Sound(r), broker' = [broker EXCEPT ![b] = r],
           app' \in [Apps -> App], \A a \in Apps : Placed(app'[a], broker'),
           info' \in {None, info, b}, lock' \in BOOLEAN, sock' \in Pids \cup {None}, faulted' \in 0 .. MaxFaults,
           r.phase \in Unpublished => broker[b].phase \in Unpublished /\ info' # b
    PROVE  BrokerInv'
<1>1. broker' \in [Pids -> Broker] /\ \A c \in Pids : broker'[c] = IF c = b THEN r ELSE broker[c]
  BY DEF BrokerInv
<1>2. QED
  BY <1>1 DEF BrokerInv

(* ... while the apps stay as they are.                                      *)
LEMMA BrokerMovesAlone ==
    ASSUME BrokerInv, NEW b \in Pids, NEW r \in Broker, Sound(r), broker' = [broker EXCEPT ![b] = r],
           app' = app, UNCHANGED faulted,
           info' \in {None, info, b}, lock' \in BOOLEAN, sock' \in Pids \cup {None},
           r.phase \in Unpublished => broker[b].phase \in Unpublished /\ info' # b,
           broker[b].phase \in Holding => r.phase \in Holding
    PROVE  BrokerInv'
<1>1. \A c \in Pids : broker'[c] = IF c = b THEN r ELSE broker[c]
  BY DEF BrokerInv
<1>2. \A c \in Pids : /\ broker[c].phase \notin Unpublished => broker'[c].phase \notin Unpublished
                      /\ broker[c].phase \in Holding => broker'[c].phase \in Holding
  BY <1>1
<1>3. \A a \in Apps : app[a] \in App /\ Placed(app[a], broker)
  BY DEF BrokerInv
<1>4. \A a \in Apps : Placed(app[a], broker')
  BY <1>2, <1>3, PlacedStays
<1>5. app' \in [Apps -> App] /\ faulted' \in 0 .. MaxFaults /\ \A a \in Apps : Placed(app'[a], broker')
  BY <1>4 DEF BrokerInv
<1>6. QED
  BY <1>5, BrokerMoves

-----------------------------------------------------------------------------
(* connect().                                                               *)
LEMMA ConnectKeeps == ASSUME BrokerInv, NEW a \in Apps, Connect(a) PROVE BrokerInv'
<1>1. CASE info = None
  BY <1>1, SpawnKeeps DEF Connect, BrokerInv
<1>2. CASE info # None
  <2> DEFINE r == [phase |-> "open", try |-> "first", seen |-> info, peer |-> None]
  <2>1. app' = [app EXCEPT ![a] = r] /\ broker' = broker
    BY <1>2 DEF Connect
  <2>2. r \in App /\ Placed(r, broker)
    BY <1>2 DEF BrokerInv, App, Placed
  <2> HIDE DEF r
  <2>3. QED
    BY <2>1, <2>2, AppMoves DEF Connect, BrokerInv
<1>3. QED
  BY <1>1, <1>2

LEMMA OpenKeeps == ASSUME BrokerInv, NEW a \in Apps, OpenAccepted(a) \/ OpenFails(a) PROVE BrokerInv'
<1>1. app[a] \in App /\ Placed(app[a], broker) /\ app[a].phase = "open" /\ app[a].peer = None
  BY DEF BrokerInv, OpenAccepted, OpenFails, Placed
<1>2. CASE OpenAccepted(a)
  <2> DEFINE r == [app[a] EXCEPT !.phase = "hello", !.peer = sock]
  <2>1. app' = [app EXCEPT ![a] = r] /\ broker' = broker
    BY <1>2 DEF OpenAccepted
  <2>2. sock \in Pids /\ broker[sock].phase \in Holding
    BY <1>2 DEF OpenAccepted, Listening, BrokerInv, Holding
  <2>3. r \in App /\ Placed(r, broker)
    BY <1>1, <2>2, Numbers DEF App, Placed
  <2> HIDE DEF r
  <2>4. QED
    BY <1>2, <2>1, <2>3, AppMoves DEF OpenAccepted, BrokerInv
<1>3. CASE OpenFails(a)
  <2> DEFINE r == AfterFailure(app[a], Alive(app[a].seen))
  <2>1. app' = [app EXCEPT ![a] = r] /\ broker' = broker
    BY <1>3 DEF OpenFails, BrokerInv
  <2>2. Alive(app[a].seen) \in BOOLEAN
    BY DEF Alive
  <2>3. r \in App /\ Placed(r, broker)
    BY <1>1, <2>2, AfterFailurePlaced
  <2> HIDE DEF r
  <2>4. QED
    BY <1>3, <2>1, <2>3, AppMoves DEF OpenFails, BrokerInv
<1>4. QED
  BY <1>2, <1>3

LEMMA HelloKeeps == ASSUME BrokerInv, NEW a \in Apps, Hello(a) PROVE BrokerInv'
<1> DEFINE b == app[a].peer
<1>1. app[a] \in App /\ Placed(app[a], broker) /\ app[a].phase = "hello"
  BY DEF BrokerInv, Hello
<1>2. b \in Pids /\ broker[b].phase \in Holding /\ broker[b] \in Broker /\ Sound(broker[b])
  BY <1>1 DEF Placed, App, BrokerInv
<1>3. CASE b = app[a].seen
  <2> DEFINE r == [app[a] EXCEPT !.phase = "asking", !.try = "first"]
             new == [broker[b] EXCEPT !.idle = FALSE]
  <2>1. app' = [app EXCEPT ![a] = r] /\ broker' = [broker EXCEPT ![b] = new]
    BY <1>3 DEF Hello, BrokerInv
  <2>2. new \in Broker /\ Sound(new) /\ new.phase = broker[b].phase
    BY <1>2 DEF Broker, Sound
  <2> HIDE DEF new
  <2>3. r \in App /\ Placed(r, broker)
    BY <1>1, <1>3 DEF App, Placed
  <2> HIDE DEF r
  <2>4. \A c \in Pids : broker'[c].phase = broker[c].phase
    BY <1>2, <2>1, <2>2 DEF BrokerInv
  <2>5. \A c \in Apps : app'[c] \in App /\ app'[c] = IF c = a THEN r ELSE app[c]
    BY <2>1, <2>3 DEF BrokerInv
  <2>6. \A c \in Apps : app'[c] \in App /\ Placed(app'[c], broker)
    BY <2>3, <2>5 DEF BrokerInv
  <2>7. \A c \in Apps : Placed(app'[c], broker')
    BY <2>4, <2>6, PlacedStays
  <2>8. app' \in [Apps -> App]
    BY <2>1, <2>3 DEF BrokerInv
  <2>9. info' = info /\ lock' = lock /\ sock' = sock /\ faulted' = faulted
    BY DEF Hello
  <2>10. QED
    BY <1>2, <2>1, <2>2, <2>7, <2>8, <2>9, BrokerMoves DEF BrokerInv, Holding, Unpublished
<1>4. CASE b # app[a].seen
  <2> DEFINE r == AfterFailure(app[a], Alive(app[a].seen))
  <2>1. app' = [app EXCEPT ![a] = r] /\ broker' = broker
    BY <1>4 DEF Hello, BrokerInv
  <2>2. Alive(app[a].seen) \in BOOLEAN
    BY DEF Alive
  <2>3. r \in App /\ Placed(r, broker)
    BY <1>1, <2>2, AfterFailurePlaced
  <2> HIDE DEF r
  <2>4. QED
    BY <2>1, <2>3, AppMoves DEF Hello, BrokerInv
<1>5. QED
  BY <1>3, <1>4

LEMMA RetriesOverKeeps == ASSUME BrokerInv, NEW a \in Apps, RetriesOver(a) PROVE BrokerInv'
<1> DEFINE r == IF Alive(app[a].seen) THEN Off ELSE [app[a] EXCEPT !.phase = "check"]
<1>1. app[a] \in App /\ Placed(app[a], broker) /\ app[a].phase = "open"
  BY DEF BrokerInv, RetriesOver
<1>2. [app[a] EXCEPT !.phase = "check"] \in App /\ Placed([app[a] EXCEPT !.phase = "check"], broker)
  BY <1>1 DEF App, Placed
<1>3. r \in App /\ Placed(r, broker)
  BY <1>2, OffApp
<1>4. app' = [app EXCEPT ![a] = r] /\ broker' = broker
  BY DEF RetriesOver, BrokerInv
<1> HIDE DEF r
<1>5. QED
  BY <1>3, <1>4, AppMoves DEF RetriesOver, BrokerInv

(* An app that only changes phase while it clears the files, polls or opens.   *)
LEMMA StepsOn ==
    ASSUME BrokerInv, NEW a \in Apps, NEW next \in {"info", "lock", "path", "open"},
           app[a].phase \in {"check", "info", "lock", "poll"},
           next = "open" => broker[app[a].seen].phase \notin Unpublished,
           next # "open" => app[a].phase # "poll",
           app' = [app EXCEPT ![a].phase = next], broker' = broker, UNCHANGED <<sock, faulted>>,
           info' \in {None, info}, lock' \in BOOLEAN
    PROVE  BrokerInv'
<1> DEFINE r == [app[a] EXCEPT !.phase = next]
<1>1. app[a] \in App /\ Placed(app[a], broker)
  BY DEF BrokerInv
<1>2. r \in App /\ Placed(r, broker)
  BY <1>1 DEF App, Placed
<1>3. app' = [app EXCEPT ![a] = r]
  BY DEF BrokerInv
<1> HIDE DEF r
<1>4. QED
  BY <1>2, <1>3, AppMoves DEF BrokerInv

LEMMA ClearKeeps ==
    ASSUME BrokerInv, NEW a \in Apps, Check(a) \/ UnlinkInfo(a) \/ UnlinkLock(a) \/ UnlinkPath(a)
    PROVE  BrokerInv'
<1>1. CASE Check(a) /\ Ours(a)
  BY <1>1, StepsOn DEF Check, BrokerInv
<1>2. CASE Check(a) /\ ~Ours(a)
  BY <1>2, SpawnKeeps DEF Check, BrokerInv
<1>3. CASE UnlinkInfo(a)
  BY <1>3, StepsOn DEF UnlinkInfo, BrokerInv
<1>4. CASE UnlinkLock(a)
  BY <1>4, StepsOn DEF UnlinkLock, BrokerInv
<1>5. CASE UnlinkPath(a)
  BY <1>5, SpawnKeeps DEF UnlinkPath, BrokerInv
<1>6. QED
  BY <1>1, <1>2, <1>3, <1>4, <1>5

LEMMA PollKeeps == ASSUME BrokerInv, NEW a \in Apps, PollFinds(a) \/ PollEnds(a) PROVE BrokerInv'
<1>1. CASE PollFinds(a)
  BY <1>1, StepsOn DEF PollFinds, BrokerInv, Alive
<1>2. CASE PollEnds(a)
  BY <1>2, AppMoves, OffApp DEF PollEnds, BrokerInv
<1>3. QED
  BY <1>1, <1>2

-----------------------------------------------------------------------------
(* Requests: an app that was greeted, and its broker.                        *)
LEMMA GreetedFacts ==
    ASSUME BrokerInv, NEW a \in Apps, Greeted(a)
    PROVE  /\ app[a].peer \in Pids
           /\ app[a].seen = app[a].peer
           /\ broker[app[a].peer] \in Broker /\ Sound(broker[app[a].peer])
           /\ broker[app[a].peer].phase \in {"up", "closing"}
           /\ [app[a] EXCEPT !.phase = "on"] \in App /\ Placed([app[a] EXCEPT !.phase = "on"], broker)
<1>1. app[a] \in App /\ Placed(app[a], broker) /\ app[a].phase \in {"asking", "on"}
  BY DEF BrokerInv, Greeted
<1>2. app[a].peer \in Pids /\ app[a].seen = app[a].peer
  BY <1>1 DEF Placed, App
<1>3. broker[app[a].peer].phase \in {"up", "closing"}
  BY <1>1, <1>2, Numbers DEF Placed, Holding, Unpublished
<1>4. [app[a] EXCEPT !.phase = "on"] \in App /\ Placed([app[a] EXCEPT !.phase = "on"], broker)
  BY <1>1 DEF App, Placed
<1>5. QED
  BY <1>2, <1>3, <1>4 DEF BrokerInv

LEMMA AnswerKeeps ==
    ASSUME BrokerInv, NEW a \in Apps, Greeted(a), NEW terminals \in SUBSET Terminals,
           NEW releasing \in SUBSET terminals, Answer(a, terminals, releasing)
    PROVE  BrokerInv'
<1> DEFINE b == app[a].peer
           s == [broker[b] EXCEPT !.terminals = terminals, !.releasing = releasing]
           r == [app[a] EXCEPT !.phase = "on"]
<1>1. b \in Pids /\ broker[b] \in Broker /\ broker[b].phase \in {"up", "closing"}
  BY GreetedFacts
<1>2. s \in Broker /\ s.releasing \subseteq s.terminals /\ s.phase = broker[b].phase
  BY <1>1 DEF Broker
<1>3. r \in App /\ Placed(r, broker)
  BY GreetedFacts
<1>4. app' = [app EXCEPT ![a] = r] /\ broker' = [broker EXCEPT ![b] = Rearmed(s)]
  BY DEF Answer, BrokerInv
<1>5. info' = info /\ lock' = lock /\ sock' = sock /\ faulted' = faulted
  BY DEF Answer
<1> HIDE DEF s, r
<1>6. Rearmed(s) \in Broker /\ Sound(Rearmed(s)) /\ Rearmed(s).phase = broker[b].phase
  BY <1>1, <1>2, RearmedSound
<1>7. \A c \in Pids : broker'[c].phase = broker[c].phase
  BY <1>1, <1>4, <1>6 DEF BrokerInv
<1>8. app' \in [Apps -> App] /\ \A c \in Apps : app'[c] = IF c = a THEN r ELSE app[c]
  BY <1>3, <1>4 DEF BrokerInv
<1>9. \A c \in Apps : app'[c] \in App /\ Placed(app'[c], broker)
  BY <1>3, <1>8 DEF BrokerInv
<1>10. \A c \in Apps : Placed(app'[c], broker')
  BY <1>7, <1>9, PlacedStays
<1>11. QED
  BY <1>1, <1>4, <1>5, <1>6, <1>8, <1>10, BrokerMoves DEF BrokerInv, Unpublished

LEMMA RequestKeeps == ASSUME BrokerInv, NEW a \in Apps, Request(a) PROVE BrokerInv'
<1> DEFINE b == broker[app[a].peer]
<1>1. Greeted(a)
  BY DEF Request, Create, Release, ScheduleRelease, CancelRelease, OtherRequest
<1>2. b \in Broker /\ b.releasing \subseteq b.terminals
  BY <1>1, GreetedFacts DEF Sound
<1>3. b.terminals \in SUBSET Terminals
  BY <1>2 DEF Broker
<1> HIDE DEF b
<1>4. ASSUME NEW t \in Terminals, Create(a, t) PROVE BrokerInv'
  <2>1. Answer(a, b.terminals \cup {t}, b.releasing \ {t})
    BY <1>4 DEF Create, b
  <2>2. QED
    BY <1>1, <1>2, <1>3, <2>1, AnswerKeeps
<1>5. ASSUME NEW t \in Terminals, Release(a, t) PROVE BrokerInv'
  <2>1. Answer(a, b.terminals \ {t}, b.releasing \ {t})
    BY <1>5 DEF Release, b
  <2>2. QED
    BY <1>1, <1>2, <1>3, <2>1, AnswerKeeps
<1>6. ASSUME NEW t \in Terminals, ScheduleRelease(a, t) PROVE BrokerInv'
  <2>1. t \in b.terminals /\ Answer(a, b.terminals, b.releasing \cup {t})
    BY <1>6 DEF ScheduleRelease, b
  <2>2. QED
    BY <1>1, <1>2, <1>3, <2>1, AnswerKeeps
<1>7. ASSUME NEW t \in Terminals, CancelRelease(a, t) PROVE BrokerInv'
  <2>1. Answer(a, b.terminals, b.releasing \ {t})
    BY <1>7 DEF CancelRelease, b
  <2>2. QED
    BY <1>1, <1>2, <1>3, <2>1, AnswerKeeps
<1>8. ASSUME OtherRequest(a) PROVE BrokerInv'
  <2>1. Answer(a, b.terminals, b.releasing)
    BY <1>8 DEF OtherRequest, b
  <2>2. QED
    BY <1>1, <1>2, <1>3, <2>1, AnswerKeeps
<1>9. QED
  BY <1>4, <1>5, <1>6, <1>7, <1>8 DEF Request

(* An app that was greeted leaves, by itself or killed.                       *)
LEMMA LeaveKeeps ==
    ASSUME BrokerInv, NEW a \in Apps, Greeted(a), app' = [app EXCEPT ![a] = Off],
           broker' = [broker EXCEPT ![app[a].peer] = Rearmed(@)],
           UNCHANGED <<info, lock, sock>>, faulted' \in 0 .. MaxFaults
    PROVE  BrokerInv'
<1> DEFINE b == app[a].peer
<1>1. b \in Pids /\ broker[b] \in Broker /\ Sound(broker[b]) /\ broker[b].phase \in {"up", "closing"}
  BY GreetedFacts
<1>2. Rearmed(broker[b]) \in Broker /\ Sound(Rearmed(broker[b])) /\ Rearmed(broker[b]).phase = broker[b].phase
  BY <1>1, RearmedSound DEF Sound
<1>3. broker' = [broker EXCEPT ![b] = Rearmed(broker[b])]
  BY DEF BrokerInv
<1>4. \A c \in Pids : broker'[c].phase = broker[c].phase
  BY <1>1, <1>2, <1>3 DEF BrokerInv
<1>5. app' \in [Apps -> App] /\ \A c \in Apps : app'[c] = IF c = a THEN Off ELSE app[c]
  BY OffApp DEF BrokerInv
<1>6. \A c \in Apps : app'[c] \in App /\ Placed(app'[c], broker)
  BY <1>5, OffApp DEF BrokerInv
<1> HIDE DEF b
<1>7. ASSUME NEW c \in Apps PROVE Placed(app'[c], broker')
  <2> DEFINE r == app'[c]
  <2>1. r \in App /\ Placed(r, broker)
    BY <1>6
  <2> HIDE DEF r
  <2>2. /\ \A d \in Pids : d = r.seen /\ broker[d].phase \notin Unpublished => broker'[d].phase \notin Unpublished
        /\ \A d \in Pids : d = r.peer /\ broker[d].phase \in Holding => broker'[d].phase \in Holding
    BY <1>4
  <2>3. Placed(r, broker')
    BY <2>1, <2>2, PlacedStays, Zenon
  <2>4. QED
    BY <2>3 DEF r
<1>8. QED
  BY <1>1, <1>2, <1>3, <1>5, <1>7, BrokerMoves DEF BrokerInv, Unpublished

LEMMA DisconnectKeeps == ASSUME BrokerInv, NEW a \in Apps, Disconnect(a) PROVE BrokerInv'
BY LeaveKeeps DEF Disconnect, Greeted, BrokerInv

-----------------------------------------------------------------------------
(* The broker's own steps.                                                  *)
LEMMA TakeLockKeeps == ASSUME BrokerInv, NEW b \in Pids, TakeLock(b) PROVE BrokerInv'
<1>1. broker[b].phase = "starting" /\ broker[b] \in Broker /\ Sound(broker[b])
  BY DEF TakeLock, BrokerInv
<1>2. info # b
  BY <1>1, Numbers DEF BrokerInv, Unpublished
<1>3. CASE lock
  BY <1>1, <1>2, <1>3, GoneBroker, BrokerMovesAlone DEF TakeLock, BrokerInv, Holding, Unpublished
<1>4. CASE ~lock
  <2> DEFINE r == [broker[b] EXCEPT !.phase = "locked"]
  <2>1. r \in Broker /\ Sound(r) /\ r.phase = "locked"
    BY <1>1 DEF Broker, Sound
  <2>2. broker' = [broker EXCEPT ![b] = r]
    BY <1>4 DEF TakeLock, BrokerInv
  <2> HIDE DEF r
  <2>3. QED
    BY <1>1, <1>2, <1>4, <2>1, <2>2, BrokerMovesAlone DEF TakeLock, BrokerInv, Holding, Unpublished
<1>5. QED
  BY <1>3, <1>4

LEMMA PublishKeeps == ASSUME BrokerInv, NEW b \in Pids, Publish(b) PROVE BrokerInv'
<1> DEFINE s == [broker[b] EXCEPT !.phase = "up"]
<1>1. broker[b].phase = "locked" /\ broker[b] \in Broker /\ Sound(broker[b])
  BY DEF Publish, BrokerInv
<1>2. s \in Broker /\ s.releasing \subseteq s.terminals /\ s.phase = "up"
  BY <1>1 DEF Broker, Sound
<1>3. broker' = [broker EXCEPT ![b] = Rearmed(s)]
  BY DEF Publish, BrokerInv
<1> HIDE DEF s
<1>4. Rearmed(s) \in Broker /\ Sound(Rearmed(s)) /\ Rearmed(s).phase = "up"
  BY <1>2, RearmedSound
<1>5. QED
  BY <1>3, <1>4, BrokerMovesAlone DEF Publish, BrokerInv, Holding, Unpublished

LEMMA ReleaseTimerKeeps == ASSUME BrokerInv, NEW b \in Pids, NEW t \in Terminals, ReleaseTimer(b, t) PROVE BrokerInv'
<1> DEFINE r == [broker[b] EXCEPT !.terminals = @ \ {t}, !.releasing = @ \ {t}]
<1>1. broker[b].phase \in {"up", "closing"} /\ broker[b] \in Broker /\ Sound(broker[b])
  BY DEF ReleaseTimer, BrokerInv
<1>2. r \in Broker /\ Sound(r) /\ r.phase = broker[b].phase
  BY <1>1 DEF Broker, Sound
<1>3. broker' = [broker EXCEPT ![b] = r]
  BY DEF ReleaseTimer, BrokerInv
<1> HIDE DEF r
<1>4. QED
  BY <1>1, <1>2, <1>3, BrokerMovesAlone DEF ReleaseTimer, BrokerInv, Holding, Unpublished

LEMMA ClosesKeeps ==
    ASSUME BrokerInv, NEW b \in Pids, NEW terminals \in SUBSET Terminals, broker[b].phase = "up",
           Closes(b, terminals), faulted' \in 0 .. MaxFaults
    PROVE  BrokerInv'
<1> DEFINE r == [broker[b] EXCEPT !.phase = "closing", !.idle = FALSE, !.terminals = terminals,
                                  !.releasing = @ \cap terminals]
<1>1. broker[b] \in Broker
  BY DEF BrokerInv
<1>2. r \in Broker /\ Sound(r) /\ r.phase = "closing"
  BY <1>1 DEF Broker, Sound
<1>3. broker' = [broker EXCEPT ![b] = r]
  BY DEF Closes, BrokerInv
<1> HIDE DEF r
<1>4. \A c \in Pids : broker'[c] = IF c = b THEN r ELSE broker[c]
  BY <1>3 DEF BrokerInv
<1>5. app' = Disconnected(b, TRUE, TRUE) /\ info' = info /\ lock' = lock /\ sock' = None
  BY DEF Closes
<1>6. app' \in [Apps -> App] /\ \A a \in Apps : Placed(app'[a], broker')
  BY <1>2, <1>4, <1>5, DisconnectedPlaced DEF Unpublished, Holding
<1>7. QED
  BY <1>2, <1>3, <1>5, <1>6, BrokerMoves DEF BrokerInv, Unpublished

(* A broker is gone, by itself or killed.                                     *)
LEMMA GoneKeeps ==
    ASSUME BrokerInv, NEW b \in Pids, broker' = [broker EXCEPT ![b] = Gone],
           app' = Disconnected(b, FALSE, FALSE), info' \in {None, info}, lock' \in BOOLEAN,
           sock' \in {None, sock}, faulted' \in 0 .. MaxFaults
    PROVE  BrokerInv'
<1>1. \A c \in Pids : broker'[c] = IF c = b THEN Gone ELSE broker[c]
  BY DEF BrokerInv
<1>2. app' \in [Apps -> App] /\ \A a \in Apps : Placed(app'[a], broker')
  BY <1>1, GoneBroker, DisconnectedPlaced DEF Unpublished
<1>3. QED
  BY <1>2, GoneBroker, BrokerMoves DEF BrokerInv, Unpublished

LEMMA RecoverKeeps == ASSUME BrokerInv, NEW b \in Pids, Recover(b) PROVE BrokerInv'
<1>1. \A c \in Apps : app'[c] = app[c] /\ Placed(app[c], broker')
  BY DEF Recover, BrokerInv
<1>2. QED
  BY <1>1 DEF Recover, BrokerInv, Unpublished

(* Faults.                                                                 *)
LEMMA FaultCount == ASSUME BrokerInv, NEW kind, Fault(kind) PROVE faulted' \in 0 .. MaxFaults
BY SessionBrokerAssumption DEF Fault, BrokerInv

LEMMA PollTimesOutKeeps == ASSUME BrokerInv, NEW a \in Apps, PollTimesOut(a) PROVE BrokerInv'
<1> DEFINE b == app[a].seen
<1>1. app[a] \in App /\ Placed(app[a], broker) /\ app[a].phase = "poll" /\ faulted' \in 0 .. MaxFaults
  BY FaultCount DEF PollTimesOut, BrokerInv
<1>2. b \in Pids
  BY <1>1 DEF Placed, App
<1>3. CASE broker[b].phase = "starting"
  <2>1. broker' = [broker EXCEPT ![b] = Gone] /\ app' = [app EXCEPT ![a] = Off]
    BY <1>3 DEF PollTimesOut
  <2>2. \A c \in Pids : /\ broker[c].phase \notin Unpublished => broker'[c].phase \notin Unpublished
                        /\ broker[c].phase \in Holding => broker'[c].phase \in Holding
    BY <1>3, <2>1 DEF BrokerInv, Unpublished, Holding
  <2>3. app' \in [Apps -> App] /\ \A c \in Apps : app'[c] \in App /\ Placed(app'[c], broker)
    BY <2>1, OffApp DEF BrokerInv
  <2>4. \A c \in Apps : Placed(app'[c], broker')
    BY <2>2, <2>3, PlacedStays
  <2> HIDE DEF b
  <2>5. QED
    BY <1>1, <1>2, <2>1, <2>3, <2>4, GoneBroker, BrokerMoves DEF PollTimesOut, BrokerInv, Unpublished
<1>4. CASE broker[b].phase # "starting"
  BY <1>1, <1>4, OffApp, AppMoves DEF PollTimesOut, BrokerInv
<1>5. QED
  BY <1>3, <1>4

LEMMA BrokerKilledKeeps == ASSUME BrokerInv, NEW b \in Pids, BrokerKilled(b) PROVE BrokerInv'
BY GoneKeeps, FaultCount DEF BrokerKilled, BrokerInv

LEMMA AppKilledKeeps == ASSUME BrokerInv, NEW a \in Apps, AppKilled(a) PROVE BrokerInv'
<1>1. faulted' \in 0 .. MaxFaults
  BY FaultCount DEF AppKilled
<1>2. CASE Greeted(a)
  BY <1>1, <1>2, LeaveKeeps DEF AppKilled
<1>3. CASE ~Greeted(a)
  BY <1>1, <1>3, OffApp, AppMoves DEF AppKilled, BrokerInv
<1>4. QED
  BY <1>2, <1>3

LEMMA PathReapedKeeps == ASSUME BrokerInv, PathReaped PROVE BrokerInv'
<1>1. \A a \in Apps : app'[a] = app[a] /\ Placed(app[a], broker')
  BY DEF PathReaped, BrokerInv
<1>2. QED
  BY <1>1, FaultCount DEF PathReaped, BrokerInv, Unpublished

-----------------------------------------------------------------------------
LEMMA NextBrokerInv == ASSUME BrokerInv, [Next]_vars PROVE BrokerInv'
<1>1. ASSUME NEW a \in Apps, Connect(a) \/ Connecting(a) \/ Request(a) \/ Disconnect(a) PROVE BrokerInv'
  BY <1>1, ConnectKeeps, OpenKeeps, HelloKeeps, RetriesOverKeeps, ClearKeeps, PollKeeps, RequestKeeps,
     DisconnectKeeps DEF Connecting
<1>2. ASSUME NEW b \in Pids, Starts(b) PROVE BrokerInv'
  <2>1. Exited(b) => BrokerInv'
    BY GoneKeeps DEF Exited, BrokerInv
  <2>2. QED
    BY <1>2, <2>1, TakeLockKeeps, PublishKeeps, RecoverKeeps DEF Starts
<1>3. ASSUME NEW b \in Pids, TimerFires(b) PROVE BrokerInv'
  <2>1. broker[b].terminals \in SUBSET Terminals
    BY DEF BrokerInv, Broker
  <2>2. IdleExit(b) => BrokerInv'
    BY <2>1, ClosesKeeps DEF IdleExit, BrokerInv
  <2>3. QED
    BY <1>3, <2>2, ReleaseTimerKeeps DEF TimerFires
<1>4. ASSUME NEW b \in Pids, BrokerKilled(b) \/ Terminated(b) PROVE BrokerInv'
  <2>1. Terminated(b) => BrokerInv'
    BY ClosesKeeps, FaultCount DEF Terminated
  <2>2. QED
    BY <1>4, <2>1, BrokerKilledKeeps
<1>5. ASSUME NEW a \in Apps, AppKilled(a) \/ PollTimesOut(a) PROVE BrokerInv'
  BY <1>5, AppKilledKeeps, PollTimesOutKeeps
<1>6. CASE UNCHANGED vars
  BY <1>6 DEF vars, BrokerInv, Placed, Unpublished, Holding
<1>7. QED
  BY <1>1, <1>2, <1>3, <1>4, <1>5, <1>6, PathReapedKeeps DEF Next, AnyFault

(* What the broker and the app know of each other and of the files fits, in     *)
(* every state and for every set of apps, terminals, pids and faults.          *)
THEOREM BrokerInvariant == Spec => []BrokerInv
<1>1. BrokerInv /\ [Next]_vars => BrokerInv'
  BY NextBrokerInv
<1>2. QED
  BY <1>1, InitBrokerInv, PTL DEF Spec

(* Every variable keeps its type (the sets of electron/session-broker.cjs and   *)
(* the states of sessionBrokerClient's connect).                             *)
THEOREM TypeCorrect == Spec => []TypeOK
<1>1. BrokerInv => TypeOK
  BY DEF BrokerInv, TypeOK, Sound, Placed
<1>2. QED
  BY <1>1, BrokerInvariant, PTL

(* The idle exit takes no terminal with it: whatever is requested, released,    *)
(* disconnected or killed, its timer is armed only while there is none          *)
(* (scheduleNoClientExit, electron/session-broker.cjs:119).                    *)
THEOREM IdleExitTakesNothing == Spec => []IdleMeansEmpty
<1>1. BrokerInv => IdleMeansEmpty
  BY DEF BrokerInv, IdleMeansEmpty, Sound
<1>2. QED
  BY <1>1, BrokerInvariant, PTL

-----------------------------------------------------------------------------
(* One app at a time uses the directory.                                     *)
OneApp == \A a, c \in Apps : a = c

(* The files belong to the one broker that has the lock; it is named once it    *)
(* has published itself, and nobody else's listener is at the path.            *)
FilesFit ==
    /\ info # None => lock
    /\ \A b \in Pids : broker[b].phase \in Holding
                         => lock /\ \A c \in Pids : broker[c].phase \in Holding => c = b
    /\ \A b \in Pids : broker[b].phase = "locked" => info = None
    /\ \A b \in Pids : broker[b].phase \in {"up", "closing"} => info = b
    /\ \A b \in Pids : broker[b].phase \in {"locked", "up"} => sock \in {b, None}

(* The app knows of every broker there is, and clears the files of none.       *)
Clearing == {"check", "info", "lock", "path"}
AppFits(r, brokers, named) ==
    /\ r.phase \notin {"off", "poll"} => \A b \in Pids : brokers[b].phase # "gone" => b = r.seen
    /\ r.phase \in Clearing => \A b \in Pids : brokers[b].phase = "gone"
    /\ r.phase \in {"lock", "path"} => named = None
    /\ r.phase = "poll" => \A b \in Pids : brokers[b].phase = "starting" => b = r.seen

OneAppInv == FilesFit /\ \A a \in Apps : AppFits(app[a], broker, info)

LEMMA AppFitsStays ==
    ASSUME NEW r, NEW f, NEW g, NEW i, NEW j, AppFits(r, f, i),
           \A b \in Pids : g[b].phase # "gone" => f[b].phase # "gone",
           \A b \in Pids : g[b].phase = "starting" => f[b].phase = "starting",
           r.phase \in {"lock", "path"} => j = None
    PROVE  AppFits(r, g, j)
BY DEF AppFits, Clearing

(* No step of an app alone disturbs the files, but for those it clears.        *)
LEMMA SameBrokers ==
    ASSUME FilesFit, \A b \in Pids : broker'[b].phase = broker[b].phase,
           info' = info, lock' = lock, sock' \in {sock, None}
    PROVE  FilesFit'
BY DEF FilesFit, Holding

LEMMA OneAppMoves ==
    ASSUME BrokerInv, OneApp, OneAppInv, NEW a \in Apps, NEW r, AppFits(r, broker, info),
           app' = [app EXCEPT ![a] = r], \A b \in Pids : broker'[b].phase = broker[b].phase,
           UNCHANGED <<info, lock, sock>>
    PROVE  OneAppInv'
<1>1. \A c \in Apps : app'[c] = r
  BY DEF OneApp, BrokerInv
<1>2. AppFits(r, broker', info')
  BY AppFitsStays DEF AppFits
<1>3. FilesFit'
  BY SameBrokers DEF OneAppInv
<1>4. QED
  BY <1>1, <1>2, <1>3 DEF OneAppInv

(* A process is started while there is no other on its way.                   *)
LEMMA OneAppSpawns ==
    ASSUME BrokerInv, OneApp, OneAppInv, NEW a \in Apps, Spawn(a),
           \A b \in Pids : broker[b].phase # "starting", info' = info, lock' = lock, sock' \in {sock, None}
    PROVE  OneAppInv'
<1> DEFINE p == FreePid
           new == [Gone EXCEPT !.phase = "starting"]
           r == [phase |-> "poll", try |-> "spawned", seen |-> p, peer |-> None]
<1>1. p \in Pids /\ ~Referenced(p)
  BY DEF Spawn, FreePid
<1>2. broker' = [broker EXCEPT ![p] = new] /\ app' = [app EXCEPT ![a] = r]
  BY DEF Spawn
<1>3. new.phase = "starting"
  BY GoneBroker
<1> HIDE DEF p, new
<1>4. r.phase = "poll" /\ r.seen = p
  OBVIOUS
<1> HIDE DEF r
<1>5. \A b \in Pids : broker'[b].phase = IF b = p THEN "starting" ELSE broker[b].phase
  BY <1>1, <1>2, <1>3 DEF BrokerInv
<1>6. broker[p].phase = "gone" /\ info # p
  BY <1>1, Numbers DEF Referenced, Alive
<1>7. FilesFit'
  BY <1>5, <1>6 DEF OneAppInv, FilesFit, Holding
<1>8. AppFits(r, broker', info')
  BY <1>4, <1>5 DEF AppFits, Clearing
<1>9. \A c \in Apps : app'[c] = r
  BY <1>2 DEF OneApp, BrokerInv
<1>10. QED
  BY <1>7, <1>8, <1>9 DEF OneAppInv

LEMMA OneAppConnect ==
    ASSUME BrokerInv, OneApp, OneAppInv, NEW a \in Apps, Connect(a) PROVE OneAppInv'
<1>1. \A b \in Pids : broker[b].phase # "starting"
  <2>1. \A c \in Apps : app[c].seen = None
    BY OffApp DEF Connect, OneApp
  <2>2. QED
    BY <2>1, Numbers DEF Connect
<1>2. CASE info = None
  BY <1>1, <1>2, OneAppSpawns DEF Connect
<1>3. CASE info # None
  <2> DEFINE r == [phase |-> "open", try |-> "first", seen |-> info, peer |-> None]
  <2>1. app' = [app EXCEPT ![a] = r] /\ broker' = broker
    BY <1>3 DEF Connect
  <2>2. r.phase = "open" /\ r.seen = info
    OBVIOUS
  <2> HIDE DEF r
  <2>3. \A b \in Pids : broker[b].phase \in {"gone", "starting", "locked", "up", "closing"}
    BY DEF BrokerInv, Broker
  <2>4. AppFits(r, broker, info)
    BY <1>1, <1>3, <2>2, <2>3 DEF AppFits, OneAppInv, FilesFit, Clearing
  <2>5. QED
    BY <2>1, <2>4, OneAppMoves DEF Connect
<1>4. QED
  BY <1>2, <1>3

(* Attempts that fail leave an app that knows the one broker there can be.      *)
LEMMA AfterFailureFits ==
    ASSUME NEW r \in App, NEW alive \in BOOLEAN, NEW f, NEW i, r.seen # None, r.phase \notin {"off", "poll"},
           AppFits(r, f, i), r.seen \in Pids => (~alive <=> f[r.seen].phase = "gone")
    PROVE  AppFits(AfterFailure(r, alive), f, i)
<1> DEFINE n == AfterFailure(r, alive)
<1>1. n.seen = r.seen /\ n.phase \in {"check", "open", "poll"} /\ (n.phase = "check" => ~alive)
  BY AfterFailureFacts
<1> HIDE DEF n
<1>2. AppFits(n, f, i)
  BY <1>1 DEF AppFits, Clearing
<1>3. QED
  BY <1>2 DEF n

LEMMA OneAppConnecting ==
    ASSUME BrokerInv, OneApp, OneAppInv, NEW a \in Apps, Connecting(a) PROVE OneAppInv'
<1> DEFINE fits(r) == AppFits(r, broker, info)
<1>1. app[a] \in App /\ Placed(app[a], broker) /\ fits(app[a])
  BY DEF BrokerInv, OneAppInv
<1>2. app[a].phase \in {"open", "hello"} => app[a].seen \in Pids /\ fits(AfterFailure(app[a], Alive(app[a].seen)))
  BY <1>1, AfterFailureFits, Numbers DEF Alive, Placed, App
<1>3. CASE OpenAccepted(a)
  <2> DEFINE r == [app[a] EXCEPT !.phase = "hello", !.peer = sock]
  <2>1. r.phase = "hello" /\ r.seen = app[a].seen
    BY <1>1 DEF App
  <2>2. app' = [app EXCEPT ![a] = r] /\ app[a].phase = "open"
    BY <1>3 DEF OpenAccepted, BrokerInv
  <2> HIDE DEF r
  <2>3. fits(r)
    BY <1>1, <2>1, <2>2 DEF AppFits, Clearing
  <2>4. QED
    BY <1>3, <2>2, <2>3, OneAppMoves DEF OpenAccepted
<1>4. CASE OpenFails(a)
  BY <1>2, <1>4, OneAppMoves DEF OpenFails, BrokerInv
<1>5. CASE Hello(a) /\ app[a].peer = app[a].seen
  <2> DEFINE r == [app[a] EXCEPT !.phase = "asking", !.try = "first"]
  <2>1. r.phase = "asking" /\ r.seen = app[a].seen
    BY <1>1 DEF App
  <2>2. app' = [app EXCEPT ![a] = r] /\ app[a].phase = "hello"
    BY <1>5 DEF Hello, BrokerInv
  <2> HIDE DEF r
  <2>3. fits(r)
    BY <1>1, <2>1, <2>2 DEF AppFits, Clearing
  <2>4. \A b \in Pids : broker'[b].phase = broker[b].phase
    BY <1>5 DEF Hello, BrokerInv, Broker
  <2>5. QED
    BY <1>5, <2>2, <2>3, <2>4, OneAppMoves DEF Hello
<1>6. CASE Hello(a) /\ app[a].peer # app[a].seen
  BY <1>2, <1>6, OneAppMoves DEF Hello, BrokerInv
<1>7. CASE RetriesOver(a)
  <2> DEFINE r == [app[a] EXCEPT !.phase = "check"]
  <2>1. r.phase = "check" /\ r.seen = app[a].seen /\ app[a].phase = "open"
    BY <1>1, <1>7 DEF App, RetriesOver
  <2>2. app' = [app EXCEPT ![a] = IF Alive(app[a].seen) THEN Off ELSE r]
    BY <1>7 DEF RetriesOver, BrokerInv
  <2> HIDE DEF r
  <2>3. ~Alive(app[a].seen) => fits(r)
    BY <1>1, <1>2, <2>1 DEF AppFits, Clearing, Alive, Placed
  <2>4. fits(Off)
    BY OffApp DEF AppFits, Clearing
  <2>5. fits(IF Alive(app[a].seen) THEN Off ELSE r)
    BY <2>3, <2>4
  <2>6. QED
    BY <1>7, <2>2, <2>5, OneAppMoves DEF RetriesOver, BrokerInv
<1>8. CASE Check(a) \/ UnlinkInfo(a) \/ UnlinkLock(a) \/ UnlinkPath(a)
  <2>1. \A b \in Pids : broker[b].phase = "gone"
    BY <1>1, <1>8 DEF AppFits, Clearing, Check, UnlinkInfo, UnlinkLock, UnlinkPath
  <2>2. ASSUME NEW next \in {"info", "lock", "path"}, app' = [app EXCEPT ![a].phase = next], broker' = broker,
               next = "info" => info' = info /\ lock' = lock, next # "info" => info' = None
        PROVE  OneAppInv'
    <3>1. \A c \in Apps : app'[c] = [app[c] EXCEPT !.phase = next]
      BY <2>2 DEF OneApp, BrokerInv
    <3>2. ASSUME NEW c \in Apps PROVE app'[c].phase = next
      <4>1. app[c] \in App
        BY DEF BrokerInv
      <4>2. [app[c] EXCEPT !.phase = next].phase = next
        BY <4>1 DEF App
      <4>3. QED
        BY <3>1, <4>2
    <3>3. \A c \in Apps : AppFits(app'[c], broker', info')
      BY <2>1, <2>2, <3>2 DEF AppFits, Clearing
    <3>4. FilesFit'
      BY <2>1, <2>2 DEF OneAppInv, FilesFit, Holding
    <3>5. QED
      BY <3>3, <3>4 DEF OneAppInv
  <2>3. Check(a) /\ Ours(a) => OneAppInv'
    BY <2>2 DEF Check, BrokerInv
  <2>4. Check(a) /\ ~Ours(a) => OneAppInv'
    BY <2>1, OneAppSpawns DEF Check
  <2>5. UnlinkInfo(a) => OneAppInv'
    BY <2>2 DEF UnlinkInfo
  <2>6. UnlinkLock(a) => OneAppInv'
    BY <1>1, <2>2 DEF UnlinkLock, AppFits
  <2>7. UnlinkPath(a) => OneAppInv'
    BY <2>1, OneAppSpawns DEF UnlinkPath
  <2>8. QED
    BY <1>8, <2>3, <2>4, <2>5, <2>6, <2>7
<1>9. CASE PollFinds(a)
  <2> DEFINE r == [app[a] EXCEPT !.phase = "open"]
  <2>1. r.phase = "open" /\ r.seen = app[a].seen /\ app[a].phase = "poll" /\ info = app[a].seen /\ info # None
    BY <1>1, <1>9 DEF App, PollFinds, Alive
  <2>2. app' = [app EXCEPT ![a] = r]
    BY <1>9 DEF PollFinds, BrokerInv
  <2> HIDE DEF r
  <2>3. \A b \in Pids : broker[b].phase \in {"gone", "starting", "locked", "up", "closing"}
    BY DEF BrokerInv, Broker
  <2>4. fits(r)
    BY <1>1, <2>1, <2>3 DEF AppFits, Clearing, OneAppInv, FilesFit
  <2>5. QED
    BY <1>9, <2>2, <2>4, OneAppMoves DEF PollFinds, BrokerInv
<1>10. CASE PollEnds(a)
  <2>1. fits(Off)
    BY OffApp DEF AppFits, Clearing
  <2>2. QED
    BY <1>10, <2>1, OneAppMoves DEF PollEnds, BrokerInv
<1>11. QED
  BY <1>3, <1>4, <1>5, <1>6, <1>7, <1>8, <1>9, <1>10 DEF Connecting

LEMMA OneAppRequest ==
    ASSUME BrokerInv, OneApp, OneAppInv, NEW a \in Apps, Request(a) PROVE OneAppInv'
<1> DEFINE b == app[a].peer
           r == [app[a] EXCEPT !.phase = "on"]
<1>1. Greeted(a) /\ \E terminals \in SUBSET Terminals : \E releasing \in SUBSET terminals : Answer(a, terminals, releasing)
  <2>1. Greeted(a)
    BY DEF Request, Create, Release, ScheduleRelease, CancelRelease, OtherRequest
  <2>2. broker[b].terminals \subseteq Terminals /\ broker[b].releasing \subseteq broker[b].terminals
    BY <2>1, GreetedFacts DEF Broker, Sound
  <2>3. ASSUME NEW t \in Terminals, Create(a, t)
        PROVE  \E terminals \in SUBSET Terminals : \E releasing \in SUBSET terminals : Answer(a, terminals, releasing)
    <3>1. Answer(a, broker[b].terminals \cup {t}, broker[b].releasing \ {t})
      BY <2>3 DEF Create
    <3>2. QED
      BY <2>2, <3>1, Zenon
  <2>4. ASSUME NEW t \in Terminals, Release(a, t)
        PROVE  \E terminals \in SUBSET Terminals : \E releasing \in SUBSET terminals : Answer(a, terminals, releasing)
    <3>1. Answer(a, broker[b].terminals \ {t}, broker[b].releasing \ {t})
      BY <2>4 DEF Release
    <3>2. QED
      BY <2>2, <3>1, Zenon
  <2>5. ASSUME NEW t \in Terminals, ScheduleRelease(a, t)
        PROVE  \E terminals \in SUBSET Terminals : \E releasing \in SUBSET terminals : Answer(a, terminals, releasing)
    <3>1. t \in broker[b].terminals /\ Answer(a, broker[b].terminals, broker[b].releasing \cup {t})
      BY <2>5 DEF ScheduleRelease
    <3>2. QED
      BY <2>2, <3>1, Zenon
  <2>6. ASSUME NEW t \in Terminals, CancelRelease(a, t)
        PROVE  \E terminals \in SUBSET Terminals : \E releasing \in SUBSET terminals : Answer(a, terminals, releasing)
    <3>1. Answer(a, broker[b].terminals, broker[b].releasing \ {t})
      BY <2>6 DEF CancelRelease
    <3>2. QED
      BY <2>2, <3>1, Zenon
  <2>7. ASSUME OtherRequest(a)
        PROVE  \E terminals \in SUBSET Terminals : \E releasing \in SUBSET terminals : Answer(a, terminals, releasing)
    <3>1. Answer(a, broker[b].terminals, broker[b].releasing)
      BY <2>7 DEF OtherRequest
    <3>2. QED
      BY <2>2, <3>1, Zenon
  <2>8. QED
    BY <2>1, <2>3, <2>4, <2>5, <2>6, <2>7 DEF Request
<1>2. PICK terminals \in SUBSET Terminals, releasing \in SUBSET Terminals :
           releasing \subseteq terminals /\ Answer(a, terminals, releasing)
  BY <1>1
<1> DEFINE s == [broker[b] EXCEPT !.terminals = terminals, !.releasing = releasing]
<1>3. b \in Pids /\ broker[b] \in Broker /\ broker[b].phase \in {"up", "closing"}
  BY <1>1, GreetedFacts
<1>4. s \in Broker /\ s.releasing \subseteq s.terminals /\ s.phase = broker[b].phase
  BY <1>2, <1>3 DEF Broker
<1>5. app' = [app EXCEPT ![a] = r] /\ broker' = [broker EXCEPT ![b] = Rearmed(s)]
  BY <1>2 DEF Answer, BrokerInv
<1>6. r.phase = "on" /\ r.seen = app[a].seen
  BY DEF BrokerInv, App
<1> HIDE DEF s, r
<1>7. Rearmed(s).phase = broker[b].phase
  BY <1>3, <1>4, RearmedSound
<1>8. \A c \in Pids : broker'[c].phase = broker[c].phase
  BY <1>3, <1>5, <1>7 DEF BrokerInv
<1>9. AppFits(r, broker, info)
  BY <1>1, <1>6 DEF OneAppInv, AppFits, Clearing, Greeted
<1>10. QED
  BY <1>2, <1>5, <1>8, <1>9, OneAppMoves DEF Answer

LEMMA OneAppLeaves ==
    ASSUME BrokerInv, OneApp, OneAppInv, NEW a \in Apps, app' = [app EXCEPT ![a] = Off],
           \A b \in Pids : broker'[b].phase = broker[b].phase, UNCHANGED <<info, lock, sock>>
    PROVE  OneAppInv'
<1>1. AppFits(Off, broker, info)
  BY OffApp DEF AppFits, Clearing
<1>2. QED
  BY <1>1, OneAppMoves

LEMMA RearmedPhases ==
    ASSUME BrokerInv, NEW a \in Apps, Greeted(a), broker' = [broker EXCEPT ![app[a].peer] = Rearmed(@)]
    PROVE  \A b \in Pids : broker'[b].phase = broker[b].phase
<1> DEFINE b == app[a].peer
<1>1. b \in Pids /\ broker[b] \in Broker /\ Sound(broker[b]) /\ broker[b].phase \in {"up", "closing"}
  BY GreetedFacts
<1>2. Rearmed(broker[b]).phase = broker[b].phase
  BY <1>1, RearmedSound DEF Sound
<1>3. broker' = [broker EXCEPT ![b] = Rearmed(broker[b])]
  BY DEF BrokerInv
<1> HIDE DEF b
<1>4. QED
  BY <1>1, <1>2, <1>3 DEF BrokerInv

-----------------------------------------------------------------------------
(* Brokers go, or leave the state they started in: no app has to know more.    *)
LEMMA OneAppStarts ==
    ASSUME BrokerInv, OneAppInv, NEW b \in Pids, TakeLock(b) \/ Publish(b) \/ Recover(b) PROVE OneAppInv'
<1>1. \A c \in Pids : broker[c] \in Broker
  BY DEF BrokerInv
<1>2. CASE TakeLock(b)
  <2>1. app' = app /\ info' = info /\ \A c \in Pids : c # b => broker'[c] = broker[c]
    BY <1>2 DEF TakeLock, BrokerInv
  <2>2. broker[b].phase = "starting" /\ broker'[b].phase \in {"gone", "locked"}
    BY <1>1, <1>2, GoneBroker DEF TakeLock, BrokerInv, Broker
  <2>3. \A a \in Apps : AppFits(app'[a], broker', info')
    BY <2>1, <2>2 DEF OneAppInv, AppFits, Clearing
  <2>4. CASE lock
    <3>1. broker'[b].phase = "gone" /\ lock' = lock /\ sock' = sock
      BY <1>2, <2>4, GoneBroker DEF TakeLock, BrokerInv
    <3>2. FilesFit'
      BY <2>1, <3>1 DEF OneAppInv, FilesFit, Holding
    <3>3. QED
      BY <2>3, <3>2 DEF OneAppInv
  <2>5. CASE ~lock
    <3>1. broker'[b].phase = "locked" /\ lock' /\ sock' = b
      BY <1>1, <1>2, <2>5 DEF TakeLock, BrokerInv, Broker
    <3>2. info = None /\ \A c \in Pids : broker[c].phase \notin Holding
      BY <2>5 DEF OneAppInv, FilesFit
    <3>3. FilesFit'
      BY <2>1, <3>1, <3>2 DEF OneAppInv, FilesFit, Holding
    <3>4. QED
      BY <2>3, <3>3 DEF OneAppInv
  <2>6. QED
    BY <2>4, <2>5
<1>3. CASE Publish(b)
  <2> DEFINE s == [broker[b] EXCEPT !.phase = "up"]
  <2>1. s \in Broker /\ s.releasing \subseteq s.terminals /\ s.phase = "up" /\ broker[b].phase = "locked"
    BY <1>1, <1>3 DEF Publish, Broker, BrokerInv, Sound
  <2>2. broker' = [broker EXCEPT ![b] = Rearmed(s)]
    BY <1>3 DEF Publish, BrokerInv
  <2> HIDE DEF s
  <2>3. Rearmed(s).phase = "up"
    BY <2>1, RearmedSound
  <2>4. \A c \in Pids : broker'[c].phase = IF c = b THEN "up" ELSE broker[c].phase
    BY <2>2, <2>3 DEF BrokerInv
  <2>5. app' = app /\ info' = b /\ lock' = lock /\ sock' = sock
    BY <1>3 DEF Publish
  <2>6. \A a \in Apps : AppFits(app'[a], broker', info')
    BY <2>1, <2>4, <2>5 DEF OneAppInv, AppFits, Clearing
  <2>7. FilesFit'
    BY <2>1, <2>4, <2>5 DEF OneAppInv, FilesFit, Holding
  <2>8. QED
    BY <2>6, <2>7 DEF OneAppInv
<1>4. CASE Recover(b)
  <2>1. info = b
    BY <1>4 DEF Recover, OneAppInv, FilesFit
  <2>2. FilesFit'
    BY <1>4, <2>1 DEF Recover, OneAppInv, FilesFit, Holding
  <2>3. QED
    BY <1>4, <2>1, <2>2 DEF Recover, OneAppInv
<1>5. QED
  BY <1>2, <1>3, <1>4

LEMMA OneAppCloses ==
    ASSUME BrokerInv, OneAppInv, NEW b \in Pids, NEW terminals, broker[b].phase = "up", Closes(b, terminals)
    PROVE  OneAppInv'
<1> DEFINE r == [broker[b] EXCEPT !.phase = "closing", !.idle = FALSE, !.terminals = terminals,
                                  !.releasing = @ \cap terminals]
<1>1. r.phase = "closing"
  BY DEF BrokerInv, Broker
<1>2. broker' = [broker EXCEPT ![b] = r]
  BY DEF Closes, BrokerInv
<1> HIDE DEF r
<1>3. \A c \in Pids : broker'[c].phase = IF c = b THEN "closing" ELSE broker[c].phase
  BY <1>1, <1>2 DEF BrokerInv
<1>4. info' = info /\ lock' = lock /\ sock' = None /\ \A a \in Apps : app'[a] \in {Off, app[a]}
  BY DEF Closes, Disconnected
<1>5. ASSUME NEW a \in Apps PROVE AppFits(app'[a], broker', info')
  <2>1. AppFits(app[a], broker', info')
    BY <1>3, <1>4 DEF OneAppInv, AppFits, Clearing
  <2>2. AppFits(Off, broker', info')
    BY OffApp DEF AppFits, Clearing
  <2>3. QED
    BY <1>4, <2>1, <2>2
<1>6. FilesFit'
  BY <1>3, <1>4 DEF OneAppInv, FilesFit, Holding
<1>7. QED
  BY <1>5, <1>6 DEF OneAppInv

LEMMA OneAppGone ==
    ASSUME BrokerInv, OneAppInv, NEW b \in Pids, broker' = [broker EXCEPT ![b] = Gone],
           app' = Disconnected(b, FALSE, FALSE),
           \/ UNCHANGED <<info, lock, sock>>
           \/ broker[b].phase = "closing" /\ info' = None /\ lock' = FALSE /\ sock' = None
    PROVE  OneAppInv'
<1>1. \A c \in Pids : broker'[c].phase = IF c = b THEN "gone" ELSE broker[c].phase
  BY GoneBroker DEF BrokerInv
<1>2. info' \in {None, info}
  OBVIOUS
<1>3. ASSUME NEW a \in Apps PROVE AppFits(app'[a], broker', info')
  <2>1. app[a] \in App /\ Placed(app[a], broker) /\ AppFits(app[a], broker, info)
    BY DEF BrokerInv, OneAppInv
  <2>2. AppFits(app[a], broker', info')
    BY <1>1, <1>2, <2>1 DEF AppFits, Clearing
  <2>3. CASE On(a, b)
    <3>1. app'[a] = Off
      BY <2>3 DEF Disconnected
    <3>2. QED
      BY <3>1, OffApp DEF AppFits, Clearing
  <2>4. CASE ~On(a, b) /\ app[a].peer = b
    <3>1. app'[a] = AfterFailure(app[a], FALSE) /\ app[a].phase = "hello"
      BY <2>1, <2>4, Numbers DEF Disconnected, On, Greeted, Placed
    <3>2. app[a].seen = b
      BY <2>1, <2>4, <3>1, Numbers DEF AppFits, Clearing, Placed, Holding
    <3>3. AppFits(AfterFailure(app[a], FALSE), broker', info')
      BY <1>1, <2>1, <2>2, <3>1, <3>2, AfterFailureFits DEF Placed
    <3>4. QED
      BY <3>1, <3>3
  <2>5. CASE app[a].peer # b
    <3>1. app'[a] = app[a]
      BY <2>5 DEF Disconnected, On
    <3>2. QED
      BY <2>2, <3>1
  <2>6. QED
    BY <2>3, <2>4, <2>5
<1>4. FilesFit'
  <2>1. CASE UNCHANGED <<info, lock, sock>>
    BY <1>1, <2>1 DEF OneAppInv, FilesFit, Holding
  <2>2. CASE broker[b].phase = "closing" /\ info' = None /\ lock' = FALSE /\ sock' = None
    BY <1>1, <2>2 DEF OneAppInv, FilesFit, Holding
  <2>3. QED
    BY <2>1, <2>2
<1>5. QED
  BY <1>3, <1>4 DEF OneAppInv

LEMMA OneAppPollTimesOut ==
    ASSUME BrokerInv, OneApp, OneAppInv, NEW a \in Apps, PollTimesOut(a) PROVE OneAppInv'
<1> DEFINE b == app[a].seen
<1>1. \A c \in Apps : app'[c] = Off
  BY DEF PollTimesOut, OneApp, BrokerInv
<1>2. \A c \in Apps : AppFits(app'[c], broker', info')
  BY <1>1, OffApp DEF AppFits, Clearing
<1>3. \A c \in Pids : \/ broker'[c].phase = broker[c].phase
                      \/ broker[c].phase = "starting" /\ broker'[c].phase = "gone"
  BY GoneBroker DEF PollTimesOut, BrokerInv
<1>4. FilesFit'
  BY <1>3 DEF PollTimesOut, OneAppInv, FilesFit, Holding
<1>5. QED
  BY <1>2, <1>4 DEF OneAppInv

-----------------------------------------------------------------------------
LEMMA InitOneAppInv == Init => OneAppInv
BY GoneBroker, OffApp DEF Init, OneAppInv, FilesFit, AppFits, Clearing, Holding

LEMMA NextOneAppInv == ASSUME BrokerInv, OneApp, OneAppInv, [Next]_vars PROVE OneAppInv'
<1>1. ASSUME NEW a \in Apps, Connect(a) \/ Connecting(a) \/ Request(a) \/ Disconnect(a) PROVE OneAppInv'
  <2>1. Disconnect(a) => OneAppInv'
    BY OneAppLeaves, RearmedPhases DEF Disconnect, Greeted
  <2>2. QED
    BY <1>1, <2>1, OneAppConnect, OneAppConnecting, OneAppRequest
<1>2. ASSUME NEW b \in Pids, Starts(b) PROVE OneAppInv'
  BY <1>2, OneAppStarts, OneAppGone DEF Starts, Exited
<1>3. ASSUME NEW b \in Pids, TimerFires(b) PROVE OneAppInv'
  <2>1. ASSUME NEW t \in Terminals, ReleaseTimer(b, t) PROVE OneAppInv'
    <3>1. \A c \in Pids : broker'[c].phase = broker[c].phase
      BY <2>1 DEF ReleaseTimer, BrokerInv, Broker
    <3>2. FilesFit'
      BY <2>1, <3>1, SameBrokers DEF ReleaseTimer, OneAppInv
    <3>3. app' = app /\ info' = info
      BY <2>1 DEF ReleaseTimer
    <3>4. ASSUME NEW a \in Apps PROVE AppFits(app[a], broker', info)
      <4>1. AppFits(app[a], broker, info)
        BY DEF OneAppInv
      <4>2. QED
        BY <3>1, <4>1 DEF AppFits
    <3>5. QED
      BY <3>2, <3>3, <3>4 DEF OneAppInv
  <2>2. QED
    BY <1>3, <2>1, OneAppCloses DEF TimerFires, IdleExit
<1>4. ASSUME NEW b \in Pids, BrokerKilled(b) \/ Terminated(b) PROVE OneAppInv'
  BY <1>4, OneAppGone, OneAppCloses DEF BrokerKilled, Terminated
<1>5. ASSUME NEW a \in Apps, AppKilled(a) \/ PollTimesOut(a) PROVE OneAppInv'
  <2>1. CASE AppKilled(a) /\ Greeted(a)
    BY <2>1, OneAppLeaves, RearmedPhases DEF AppKilled
  <2>2. CASE AppKilled(a) /\ ~Greeted(a)
    BY <2>2, OneAppLeaves DEF AppKilled
  <2>3. QED
    BY <1>5, <2>1, <2>2, OneAppPollTimesOut
<1>6. CASE PathReaped
  BY <1>6 DEF PathReaped, OneAppInv, FilesFit, AppFits, Clearing, Holding
<1>7. CASE UNCHANGED vars
  BY <1>7 DEF vars, OneAppInv, FilesFit, AppFits, Clearing, Holding
<1>8. QED
  BY <1>1, <1>2, <1>3, <1>4, <1>5, <1>6, <1>7 DEF Next, AnyFault

(* With one app at a time the files always fit the brokers, whatever is killed,  *)
(* at whatever point.                                                        *)
THEOREM OneAppInvariant == ASSUME OneApp PROVE Spec => []OneAppInv
<1>1. BrokerInv /\ OneAppInv /\ [Next]_vars => OneAppInv'
  BY NextOneAppInv
<1>2. QED
  BY <1>1, BrokerInvariant, InitOneAppInv, PTL DEF Spec

(* Brokers do not compete: the lock file is opened exclusively                 *)
(* (electron/session-broker.cjs:538), and nobody removes the lock of a broker     *)
(* that lives.                                                               *)
THEOREM BrokersDoNotCompete == ASSUME OneApp PROVE Spec => []OneBroker
<1>1. ASSUME OneAppInv PROVE OneBroker
  <2> DEFINE S == {b \in Pids : broker[b].phase \in {"locked", "up"}}
  <2>1. \A b, c \in S : b = c
    BY <1>1 DEF OneAppInv, FilesFit, Holding
  <2>2. S = {} \/ \E b : S = {b}
    BY <2>1
  <2>3. Cardinality(S) \in {0, 1}
    BY <2>2, FS_EmptySet, FS_Singleton
  <2> HIDE DEF S
  <2>4. Cardinality(S) <= 1
    BY <2>3
  <2>5. QED
    BY <2>4 DEF OneBroker, S
<1>2. QED
  BY <1>1, OneAppInvariant, PTL

(* The next app finds the terminals: the files name their broker, and the path  *)
(* leads to it unless it has been removed (connect's _tryExisting,               *)
(* electron/ipc/sessionBrokerClient.cjs).                                      *)
THEOREM TerminalsStayFound == ASSUME OneApp PROVE Spec => []TerminalsAreFound
<1>1. OneAppInv => TerminalsAreFound
  BY DEF OneAppInv, FilesFit, Holding, TerminalsAreFound
<1>2. QED
  BY <1>1, OneAppInvariant, PTL

(* What an app removes belongs to no broker that lives.                        *)
THEOREM ReplacementsAreKept == ASSUME OneApp PROVE Spec => ReplacementsAreLeft
<1>1. OneAppInv => [\A a \in Apps : UnlinkInfo(a) \/ UnlinkLock(a) \/ UnlinkPath(a)
                      => \A b \in Pids : broker[b].phase \notin {"locked", "up"}]_vars
  BY DEF OneAppInv, AppFits, Clearing, UnlinkInfo, UnlinkLock, UnlinkPath
<1>2. QED
  BY <1>1, OneAppInvariant, PTL DEF ReplacementsAreLeft
=============================================================================
