----------------------------- MODULE CommandCache -----------------------------
(***************************************************************************)
(* The desktop's bounded idempotency cache for companion commands           *)
(* (electron/companion/commandCache.cjs), as the command router drives it    *)
(* (commandRouter.cjs): a command id that was answered is answered again     *)
(* from its receipt, one that is running is joined, and only otherwise does  *)
(* its handler run.                                                         *)
(*                                                                         *)
(* A caller is a session's route() call: a session has one command at a      *)
(* time, so there are as many callers as connections.  A command's content   *)
(* stands for its fingerprint.  The receipts map is a sequence in insertion   *)
(* order; a receipt is named by the run that produced it.                    *)
(***************************************************************************)
EXTENDS Selection

CONSTANTS
    Callers,     \* sessions routing commands
    CommandIds,
    Contents,    \* what a command may say, up to its fingerprint
    MaxEntries,  \* receipts kept
    Ttl,         \* ticks a receipt is kept
    MaxRuns      \* bound: handler executions in a behaviour

ASSUME CommandCacheAssumption ==
    /\ MaxEntries \in Nat \ {0}
    /\ Ttl \in Nat \ {0}
    /\ MaxRuns \in Nat

VARIABLES
    receipts,  \* the receipts map, oldest first
    inFlight,  \* the run in flight for each command id, 0 for none
    caller,    \* the command each caller awaits
    runs,      \* history: every execution of a handler
    age,       \* history: ticks since a command id last got a receipt
    touched    \* history: the other ids whose receipts were made or read since

vars == <<receipts, inFlight, caller, runs, age, touched>>

-----------------------------------------------------------------------------
Idle == [id |-> "none", content |-> "none", run |-> 0]
Awaiting == [id : CommandIds, content : Contents, run : 1 .. MaxRuns]
Entry == [id : CommandIds, content : Contents, run : 1 .. MaxRuns, left : 0 .. Ttl]
Run == [id : CommandIds, content : Contents, result : {"running", "applied", "failed"}]

TypeOK ==
    /\ receipts \in Seq(Entry) /\ Len(receipts) <= MaxEntries
    /\ inFlight \in [CommandIds -> 0 .. MaxRuns]
    /\ caller \in [Callers -> Awaiting \cup {Idle}]
    /\ runs \in Seq(Run)
    /\ age \in [CommandIds -> 0 .. Ttl]
    /\ touched \in [CommandIds -> SUBSET CommandIds]

(* #purgeExpired, which lookup and remember do first.                       *)
IsFresh(entry) == entry.left > 0
Fresh == Selected(receipts, {i \in DOMAIN receipts : IsFresh(receipts[i])})

Has(entries, id) == \E i \in DOMAIN entries : entries[i].id = id
Get(entries, id) == CHOOSE entry \in {entries[i] : i \in DOMAIN entries} : entry.id = id
Without(entries, id) == Selected(entries, {i \in DOMAIN entries : entries[i].id # id})

(* #assertSameFingerprint                                                   *)
AnyFingerprint(existing, requested) == TRUE     \* mutant
SameFingerprint(existing, requested) == existing = requested

(* A hit is deleted and set again, so it becomes the youngest.              *)
Refreshed(entries, entry) == Append(Without(entries, entry.id), entry)

(* #trim: the oldest receipts beyond maxEntries go.                         *)
TrimmedFull(entries) ==                         \* mutant: trims a cache at its limit
    IF Len(entries) >= MaxEntries THEN Tail(entries) ELSE entries
Trim(entries) ==
    SubSeq(entries, IF Len(entries) > MaxEntries THEN Len(entries) - MaxEntries + 1 ELSE 1,
           Len(entries))

Touch(id) ==
    touched' = [other \in CommandIds |-> IF other = id THEN {} ELSE touched[other] \cup {id}]

Init ==
    /\ receipts = <<>>
    /\ inFlight = [id \in CommandIds |-> 0]
    /\ caller = [c \in Callers |-> Idle]
    /\ runs = <<>>
    /\ age = [id \in CommandIds |-> 0]
    /\ touched = [id \in CommandIds |-> {}]

-----------------------------------------------------------------------------
(* execute, when a fresh receipt exists: answered at once.                  *)
AnswerFromReceipt(c, id, content) ==
    /\ caller[c] = Idle
    /\ Has(Fresh, id)
    /\ SameFingerprint(Get(Fresh, id).content, content)
    /\ receipts' = Refreshed(Fresh, Get(Fresh, id))
    /\ Touch(id)
    /\ UNCHANGED <<inFlight, caller, runs, age>>

(* execute, when the id was used for something else: it throws, and the     *)
(* transport closes the connection.                                         *)
Conflict(c, id, content) ==
    /\ caller[c] = Idle
    /\ IF Has(Fresh, id)
         THEN ~SameFingerprint(Get(Fresh, id).content, content)
         ELSE inFlight[id] # 0 /\ ~SameFingerprint(runs[inFlight[id]].content, content)
    /\ receipts' = Fresh
    /\ UNCHANGED <<inFlight, caller, runs, age, touched>>

(* execute, when the command is running: await the same promise.            *)
Join(c, id, content) ==
    /\ caller[c] = Idle
    /\ ~Has(Fresh, id)
    /\ inFlight[id] # 0
    /\ SameFingerprint(runs[inFlight[id]].content, content)
    /\ caller' = [caller EXCEPT ![c] = [id |-> id, content |-> content, run |-> inFlight[id]]]
    /\ receipts' = Fresh
    /\ UNCHANGED <<inFlight, runs, age, touched>>

(* execute, otherwise: the handler runs.                                    *)
StartRun(c, id, content) ==
    /\ caller[c] = Idle
    /\ ~Has(Fresh, id)
    /\ inFlight[id] = 0
    /\ Len(runs) < MaxRuns
    /\ runs' = Append(runs, [id |-> id, content |-> content, result |-> "running"])
    /\ inFlight' = [inFlight EXCEPT ![id] = Len(runs')]
    /\ caller' = [caller EXCEPT ![c] = [id |-> id, content |-> content, run |-> Len(runs')]]
    /\ receipts' = Fresh
    /\ UNCHANGED <<age, touched>>

Running(id) == inFlight[id] # 0 /\ runs[inFlight[id]].result = "running"

(* The handler returns a receipt, which is remembered.                      *)
Remember(id) ==
    /\ Running(id)
    /\ LET run == inFlight[id]
           entry == [id |-> id, content |-> runs[run].content, run |-> run, left |-> Ttl]
       IN /\ runs' = [runs EXCEPT ![run].result = "applied"]
          /\ receipts' = Trim(Append(Without(Fresh, id), entry))
    /\ age' = [age EXCEPT ![id] = 0]
    /\ Touch(id)
    /\ UNCHANGED <<inFlight, caller>>

(* The handler throws: nothing is remembered.                               *)
Fail(id) ==
    /\ Running(id)
    /\ runs' = [runs EXCEPT ![inFlight[id]].result = "failed"]
    /\ UNCHANGED <<receipts, inFlight, caller, age, touched>>

(* Mutant: a rejected promise stays in the in-flight map.                   *)
ClearApplied(id) ==
    /\ inFlight[id] # 0 /\ runs[inFlight[id]].result = "applied"
    /\ inFlight' = [inFlight EXCEPT ![id] = 0]
    /\ UNCHANGED <<receipts, caller, runs, age, touched>>

(* The finally of the in-flight promise, a microtask after it settled.      *)
Clear(id) ==
    /\ inFlight[id] # 0 /\ ~Running(id)
    /\ inFlight' = [inFlight EXCEPT ![id] = 0]
    /\ UNCHANGED <<receipts, caller, runs, age, touched>>

(* A caller of the in-flight promise goes on once its finally has run.       *)
Resume(c) ==
    /\ caller[c] # Idle
    /\ inFlight[caller[c].id] # caller[c].run
    /\ caller' = [caller EXCEPT ![c] = Idle]
    /\ UNCHANGED <<receipts, inFlight, runs, age, touched>>

Tick ==
    /\ receipts' = [i \in DOMAIN receipts |->
                      [receipts[i] EXCEPT !.left = IF @ > 0 THEN @ - 1 ELSE 0]]
    /\ age' = [id \in CommandIds |-> IF age[id] < Ttl THEN age[id] + 1 ELSE Ttl]
    /\ <<receipts', age'>> # <<receipts, age>>
    /\ UNCHANGED <<inFlight, caller, runs, touched>>

Execute(c, id, content) ==
    \/ AnswerFromReceipt(c, id, content) \/ Conflict(c, id, content)
    \/ Join(c, id, content) \/ StartRun(c, id, content)

Next ==
    \/ \E c \in Callers, id \in CommandIds, content \in Contents : Execute(c, id, content)
    \/ \E id \in CommandIds : Remember(id) \/ Fail(id) \/ Clear(id)
    \/ \E c \in Callers : Resume(c)
    \/ Tick

Spec == Init /\ [][Next]_vars

(* Every handler settles, and the microtasks behind it run.                 *)
FairSpec ==
    /\ Spec
    /\ \A id \in CommandIds : WF_vars(Remember(id) \/ Fail(id)) /\ WF_vars(Clear(id))
    /\ \A c \in Callers : WF_vars(Resume(c))

-----------------------------------------------------------------------------
LastRun(id) ==
    LET mine == {r \in DOMAIN runs : runs[r].id = id}
    IN CHOOSE r \in mine : \A q \in mine : q <= r

(* "A repeated command returns the prior receipt; it does not execute        *)
(* twice": a handler runs again for an id only when its last run threw, its  *)
(* receipt's time was up, or MaxEntries other commands were answered since   *)
(* the id last was.  Whoever repeats it, on whichever connection, and        *)
(* however the repeats overlap the run.                                      *)
AtMostOnce ==
    [][\A id \in CommandIds :
          /\ Len(runs') > Len(runs)
          /\ runs'[Len(runs')].id = id
          /\ \E r \in DOMAIN runs : runs[r].id = id
          => \/ runs[LastRun(id)].result = "failed"
             \/ runs[LastRun(id)].result = "applied" /\ age[id] = Ttl
             \/ runs[LastRun(id)].result = "applied" /\ Cardinality(touched[id]) >= MaxEntries]_vars

(* A caller is only ever given the outcome of the very command it sent:      *)
(* same id and same content, from the cache or from a joined run.            *)
ReceiptIsForCommand ==
    /\ \A c \in Callers : caller[c] # Idle =>
          runs[caller[c].run].id = caller[c].id /\ runs[caller[c].run].content = caller[c].content
    /\ \A i \in DOMAIN receipts :
          LET entry == receipts[i]
          IN runs[entry.run] = [id |-> entry.id, content |-> entry.content, result |-> "applied"]

(* Every routed command gets an answer, also when the run it joined throws.   *)
CallerAnswered == \A c \in Callers : (caller[c] # Idle) ~> (caller[c] = Idle)
=============================================================================
