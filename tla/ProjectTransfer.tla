---------------------------- MODULE ProjectTransfer ----------------------------
(***************************************************************************)
(* Moving a project from one window to another: the crash journal            *)
(* (electron/ipc/projectTransferJournal.cjs), the main process's handler      *)
(* (window:detach-project in electron/main.cjs) and the two renderers         *)
(* (src/store/store.ts, src/App.tsx).                                        *)
(*                                                                         *)
(* A window's store is the set of projects in it; a window exists on disk     *)
(* exactly when it has a store, because the manifest adopts every store it    *)
(* does not list (main.cjs loadWindowManifest).  A renderer writes its store  *)
(* when it flushes and again on pagehide, that is, whenever it is closed,     *)
(* quit or reloaded.  The app may crash between any two steps.               *)
(***************************************************************************)
EXTENDS Selection

CONSTANTS
    Projects, Windows,
    MaxMoves,      \* bound: moves started in a behaviour
    MaxExits,      \* bound: crashes, quits and windows closed
    Disturbances,  \* which of AllDisturbances may happen
    Closed, NoStore

(* slow target, slow source: the renderer answers after main's timer;         *)
(* refusal: the target has conflicting unsent content; reopen: a closed       *)
(* window is opened again; overlap: a move starts before the last one is      *)
(* resolved; uncommitted: the write that commits a move fails; unwritable:    *)
(* another journal write fails.                                              *)
AllDisturbances == {"slow target", "slow source", "refusal", "reopen", "overlap",
                    "uncommitted", "unwritable"}

ASSUME ProjectTransferAssumption ==
    /\ MaxMoves \in Nat /\ MaxExits \in Nat
    /\ Disturbances \subseteq AllDisturbances

VARIABLES
    disk,     \* the store saved for each window
    journal,  \* the journal's records, oldest first
    tabs,     \* the projects in each window's renderer, or Closed
    persist,  \* each renderer's store writer: silent, saved or pending
    adoptBoot,\* windows opened for an adoption: their renderer never rehydrates
    moves,    \* main's handlers of window:detach-project
    reloads,  \* windows main has told to reload
    closes,   \* windows main has told to close
    exits     \* bound

renderers == <<tabs, persist, adoptBoot>>
vars == <<disk, journal, renderers, moves, reloads, closes, exits>>

-----------------------------------------------------------------------------
May(disturbance) == disturbance \in Disturbances

MoveIds == 1 .. MaxMoves
Stages == {"none", "preparing", "flushed", "moving", "adopting", "rollback", "committed", "done"}

(* `adopt` is the tab:adopt message and its answer, `reply` what the source   *)
(* renderer's invoke has got; sourceLive and targetLive, whether the windows  *)
(* the handler captured have stayed open.                                    *)
Move == [stage : Stages, project : Projects, source : Windows, target : Windows,
         kind : {"existing", "new"}, closeSource : BOOLEAN,
         adopt : {"none", "sent", "ok", "refused"},
         reply : {"none", "awaited", "ok", "finishing"},
         sourceLive : BOOLEAN, targetLive : BOOLEAN]
NoMove == [stage |-> "none"]

Stores == {NoStore} \cup SUBSET Projects
Record == {r \in [id : MoveIds, project : Projects, source : Windows, target : Windows,
                  kind : {"existing", "new"}, closeSource : BOOLEAN,
                  phase : {"prepared", "target_committed"},
                  sourceBefore : SUBSET Projects, targetBefore : Stores] : r.source # r.target}

IsRecord(r) == r \in Record

TypeOK ==
    /\ disk \in [Windows -> Stores]
    /\ \A i \in DOMAIN journal : IsRecord(journal[i])
    /\ tabs \in [Windows -> {Closed} \cup SUBSET Projects]
    /\ persist \in [Windows -> {"silent", "saved", "pending"}]
    /\ adoptBoot \subseteq Windows /\ reloads \subseteq Windows /\ closes \subseteq Windows
    /\ moves \in [MoveIds -> Move \cup {NoMove}]
    /\ exits \in 0 .. MaxExits

Open(w) == tabs[w] # Closed

Active(m) == moves[m].stage \notin {"none", "done"}

(* A torn-off window stays hidden until its adoption is committed.          *)
Hidden(w) == \E m \in MoveIds :
    /\ Active(m) /\ moves[m].stage # "committed"
    /\ moves[m].kind = "new" /\ moves[m].target = w

(* A flush writes what is pending; pagehide writes that, or the last thing    *)
(* written once more.                                                        *)
Flushed(w) == IF persist[w] = "pending" THEN [disk EXCEPT ![w] = tabs[w]] ELSE disk
AfterFlush(w) == IF persist[w] = "pending" THEN [persist EXCEPT ![w] = "saved"] ELSE persist
Pagehidden(windows) ==
    [w \in Windows |-> IF w \in windows /\ Open(w) /\ persist[w] # "silent" THEN tabs[w] ELSE disk[w]]

HasRecord(m) == \E i \in DOMAIN journal : journal[i].id = m
RecordOf(m) == journal[CHOOSE i \in DOMAIN journal : journal[i].id = m]
WithoutRecord(m) == Selected(journal, {i \in DOMAIN journal : journal[i].id # m})

(* removeProjectFromStoreRaw on the current store or, if that is gone, on the *)
(* one captured when the move was prepared.                                  *)
SourceWithout(stores, r) ==
    (IF stores[r.source] = NoStore THEN r.sourceBefore ELSE stores[r.source]) \ {r.project}

(* What finishing a committed move leaves on disk, and restoring a prepared   *)
(* one.                                                                      *)
FinishedDisk(stores, r) ==
    [stores EXCEPT ![r.source] = IF r.closeSource THEN NoStore ELSE SourceWithout(stores, r)]
RestoredDisk(stores, r) == [stores EXCEPT ![r.target] = r.targetBefore]

(* recoverProjectTransfers: every record is resolved, oldest first.          *)
Recovered(stores) ==
    LET resolve(before, r) ==
            IF r.phase = "prepared" THEN RestoredDisk(before, r) ELSE FinishedDisk(before, r)
        upTo[i \in 0 .. Len(journal)] ==
            IF i = 0 THEN stores ELSE resolve(upTo[i - 1], journal[i])
    IN upTo[Len(journal)]

Init ==
    /\ \E home \in [Projects -> Windows] :
          LET in(w) == {p \in Projects : home[p] = w}
          IN /\ disk = [w \in Windows |-> IF in(w) = {} THEN NoStore ELSE in(w)]
             /\ tabs = [w \in Windows |-> IF in(w) = {} THEN Closed ELSE in(w)]
    /\ journal = <<>>
    /\ persist = [w \in Windows |-> "silent"]
    /\ adoptBoot = {} /\ reloads = {} /\ closes = {}
    /\ moves = [m \in MoveIds |-> NoMove]
    /\ exits = 0

-----------------------------------------------------------------------------
(* The user works in a window, and its store is written now and then.        *)
Edit(w) ==
    /\ Open(w) /\ persist[w] # "pending"
    /\ persist' = [persist EXCEPT ![w] = "pending"]
    /\ UNCHANGED <<disk, journal, tabs, adoptBoot, moves, reloads, closes, exits>>

Persist(w) ==
    /\ persist[w] = "pending"
    /\ disk' = Flushed(w) /\ persist' = AfterFlush(w)
    /\ UNCHANGED <<journal, tabs, adoptBoot, moves, reloads, closes, exits>>

OtherWindows(w) == Windows \ {w}                           \* existingProjectDropTarget

(* detachProjectToWindow: flush, and ask main to move the project into        *)
(* another window, or into a new one in a free slot.                         *)
Detach(m, w, p, target) ==
    /\ moves[m].stage = "none" /\ \A k \in 1 .. m - 1 : moves[k].stage # "none"
    /\ May("overlap") \/ (journal = <<>> /\ \A k \in MoveIds : ~Active(k))
    /\ Open(w) /\ ~Hidden(w) /\ p \in tabs[w]
    /\ target \in OtherWindows(w)
    /\ IF Open(target) THEN ~Hidden(target) ELSE disk[target] = NoStore
    /\ disk' = Flushed(w)
    /\ persist' = [AfterFlush(w) EXCEPT ![target] = IF Open(target) THEN @ ELSE "silent"]
    /\ tabs' = IF Open(target) THEN tabs ELSE [tabs EXCEPT ![target] = {}]
    /\ adoptBoot' = IF Open(target) THEN adoptBoot ELSE adoptBoot \cup {target}
    /\ moves' = [moves EXCEPT ![m] =
          [stage |-> "preparing", project |-> p, source |-> w, target |-> target,
           kind |-> IF Open(target) THEN "existing" ELSE "new",
           closeSource |-> Open(target) /\ w \in adoptBoot /\ Cardinality(tabs[w]) = 1,
           adopt |-> "none", reply |-> "awaited", sourceLive |-> TRUE, targetLive |-> TRUE]]
    /\ UNCHANGED <<journal, reloads, closes, exits>>

(* A renderer handles main's messages in the order main sent them: the answer *)
(* to its own move before what a later move asks of it.                      *)
Heard(w) == \A k \in MoveIds :
    moves[k].stage # "none" /\ moves[k].source = w => moves[k].reply # "ok"

(* The target renderer flushes and says it is prepared.                      *)
TargetFlushes(m) ==
    /\ moves[m].stage = "preparing" /\ moves[m].targetLive
    /\ Heard(moves[m].target)
    /\ disk' = Flushed(moves[m].target)
    /\ persist' = AfterFlush(moves[m].target)
    /\ moves' = [moves EXCEPT ![m].stage = "flushed"]
    /\ UNCHANGED <<journal, tabs, adoptBoot, reloads, closes, exits>>

(* A move that fails leaves an existing target alone and destroys a new one,  *)
(* with its store; `stores` is what is on disk otherwise.                    *)
Fail(m, stores) ==
    LET target == moves[m].target
        discard == moves[m].kind = "new"
    IN /\ disk' = IF discard THEN [stores EXCEPT ![target] = NoStore] ELSE stores
       /\ tabs' = IF discard THEN [tabs EXCEPT ![target] = Closed] ELSE tabs
       /\ persist' = IF discard THEN [persist EXCEPT ![target] = "silent"] ELSE persist
       /\ adoptBoot' = IF discard THEN adoptBoot \ {target} ELSE adoptBoot
       /\ moves' = [moves EXCEPT ![m].stage = "done", ![m].reply = "none",
                                 ![m].targetLive = @ /\ ~discard,
                                 ![m].adopt = IF discard THEN "none" ELSE @]

PrepareGivesUp(m) ==
    /\ moves[m].stage = "preparing"
    /\ May("slow target") \/ ~moves[m].targetLive
    /\ Fail(m, disk)
    /\ UNCHANGED <<journal, reloads, closes, exits>>

(* Another unresolved move out of the same window, or into the same one.      *)
Conflicts(m) == \E i \in DOMAIN journal :
    journal[i].source = moves[m].source \/ journal[i].target = moves[m].target

(* prepareProjectTransfer: record the move and both windows' stores.         *)
JournalPrepare(m) ==
    /\ moves[m].stage = "flushed"
    /\ LET v == moves[m]
       IN /\ disk[v.source] # NoStore /\ ~Conflicts(m)
          /\ journal' = Append(journal,
                [id |-> m, project |-> v.project, source |-> v.source, target |-> v.target,
                 kind |-> v.kind, closeSource |-> v.closeSource, phase |-> "prepared",
                 sourceBefore |-> disk[v.source], targetBefore |-> disk[v.target]])
    /\ moves' = [moves EXCEPT ![m].stage = "moving"]
    /\ UNCHANGED <<disk, renderers, reloads, closes, exits>>

JournalRefuses(m) ==
    /\ moves[m].stage = "flushed"
    /\ May("unwritable") \/ disk[moves[m].source] = NoStore \/ Conflicts(m)
    /\ Fail(m, disk)
    /\ UNCHANGED <<journal, reloads, closes, exits>>

(* transferAcpProject moved the project's agents, and the project is sent to  *)
(* the target window, if that is still there.                                *)
AgentsMove(m) ==
    /\ moves[m].stage = "moving"
    /\ moves' = [moves EXCEPT ![m].stage = IF moves[m].targetLive THEN "adopting" ELSE "rollback",
                              ![m].adopt = IF moves[m].targetLive THEN "sent" ELSE "none"]
    /\ UNCHANGED <<disk, journal, renderers, reloads, closes, exits>>

(* abortProjectTransfer, or its write fails and the record stays.            *)
Abort(m) ==
    \/ /\ journal' = WithoutRecord(m)
       /\ Fail(m, RestoredDisk(disk, RecordOf(m)))
    \/ /\ May("unwritable")
       /\ journal' = journal
       /\ Fail(m, disk)

(* The agents could not be moved.                                            *)
AgentsStay(m) ==
    /\ moves[m].stage = "moving"
    /\ Abort(m)
    /\ UNCHANGED <<reloads, closes, exits>>

(* Mutant: adopt without flushing.                                           *)
AdoptUnflushed(m) ==
    LET target == moves[m].target
    IN /\ tabs' = [tabs EXCEPT ![target] = @ \cup {moves[m].project}]
       /\ persist' = [persist EXCEPT ![target] = "pending"]
       /\ UNCHANGED disk

(* adoptProject's state change and its flush.                                *)
Adopt(m) ==
    LET target == moves[m].target
        adopted == tabs[target] \cup {moves[m].project}
        written == adopted # tabs[target] \/ persist[target] = "pending"
    IN /\ tabs' = [tabs EXCEPT ![target] = adopted]
       /\ disk' = IF written THEN [disk EXCEPT ![target] = adopted] ELSE disk
       /\ persist' = IF written THEN [persist EXCEPT ![target] = "saved"] ELSE persist

(* The target renderer gets tab:adopt, whether or not main still waits.      *)
TargetAdopts(m) ==
    /\ moves[m].stage # "none" /\ moves[m].adopt = "sent" /\ Heard(moves[m].target)
    /\ Adopt(m)
    /\ moves' = [moves EXCEPT ![m].adopt = "ok"]
    /\ UNCHANGED <<journal, adoptBoot, reloads, closes, exits>>

(* The target has newer unsent content; a pristine window cannot have.       *)
TargetRefuses(m) ==
    /\ May("refusal")
    /\ moves[m].stage # "none" /\ moves[m].adopt = "sent" /\ Heard(moves[m].target)
    /\ tabs[moves[m].target] # {}
    /\ moves' = [moves EXCEPT ![m].adopt = "refused"]
    /\ UNCHANGED <<disk, journal, renderers, reloads, closes, exits>>

(* markProjectTransferCommitted: the target has the project and its flush.    *)
Commit(m) ==
    /\ moves[m].stage = "adopting" /\ moves[m].adopt = "ok"
    /\ journal' = [i \in DOMAIN journal |->
          IF journal[i].id = m THEN [journal[i] EXCEPT !.phase = "target_committed"] ELSE journal[i]]
    /\ moves' = [moves EXCEPT ![m].stage = "committed", ![m].adopt = "none",
                              ![m].reply = IF @ = "awaited" THEN "ok" ELSE @]
    /\ UNCHANGED <<disk, renderers, reloads, closes, exits>>

(* The target refused, did not answer in 15 s, or the commit failed: main     *)
(* takes the agents back.                                                    *)
NotAdopted(m) ==
    /\ moves[m].stage = "adopting"
    /\ \/ moves[m].adopt \in {"none", "refused"}
       \/ May("slow target")
       \/ May("uncommitted") /\ moves[m].adopt = "ok"
    /\ moves' = [moves EXCEPT ![m].stage = "rollback",
                              ![m].adopt = IF @ = "sent" THEN @ ELSE "none"]
    /\ UNCHANGED <<disk, journal, renderers, reloads, closes, exits>>

(* ... and, when that is done, aborts and reloads an existing target.        *)
Rollback(m) ==
    /\ moves[m].stage = "rollback"
    /\ Abort(m)
    /\ reloads' = IF moves[m].kind = "existing" /\ moves[m].targetLive /\ journal' # journal
                  THEN reloads \cup {moves[m].target} ELSE reloads
    /\ UNCHANGED <<closes, exits>>

(* The source renderer gets main's answer: it drops the project, flushes,     *)
(* clears the store of a torn-off window that is now empty, and tells main.   *)
SourceRemoves(m) ==
    /\ moves[m].stage # "none" /\ moves[m].reply = "ok"
    /\ LET w == moves[m].source
           rest == tabs[w] \ {moves[m].project}
           empties == rest = {} /\ moves[m].closeSource /\ w \in adoptBoot
       IN IF rest = tabs[w]
            THEN UNCHANGED <<disk, tabs, persist>>
            ELSE /\ tabs' = [tabs EXCEPT ![w] = rest]
                 /\ disk' = [disk EXCEPT ![w] = IF empties THEN NoStore ELSE rest]
                 /\ persist' = [persist EXCEPT ![w] = IF empties THEN "silent" ELSE "saved"]
    /\ moves' = [moves EXCEPT ![m].reply = "finishing"]
    /\ UNCHANGED <<journal, adoptBoot, reloads, closes, exits>>

(* Mutant: there is no timer behind the source renderer's answer.            *)
SourceAnswers(m) == moves[m].reply = "finishing"

(* finalizeCompletedTransfer, by the source's message or after 30 s.         *)
SourceDone(m) == moves[m].reply \in {"finishing", "none"} \/ May("slow source")

Finish(m) ==
    /\ moves[m].stage = "committed" /\ SourceDone(m)
    /\ \E fallback \in BOOLEAN :
          /\ IF fallback THEN moves[m].reply = "none" \/ May("slow source") ELSE moves[m].reply = "finishing"
          /\ \/ /\ journal' = WithoutRecord(m)
                /\ disk' = FinishedDisk(disk, RecordOf(m))
                /\ LET live == IF moves[m].sourceLive THEN {moves[m].source} ELSE {}
                   IN IF moves[m].closeSource
                        THEN closes' = closes \cup live /\ reloads' = reloads
                        ELSE closes' = closes /\ reloads' = IF fallback THEN reloads \cup live ELSE reloads
             \/ May("unwritable") /\ UNCHANGED <<journal, disk, closes, reloads>>
    /\ moves' = [moves EXCEPT ![m].stage = "done", ![m].reply = IF @ = "finishing" THEN "none" ELSE @]
    /\ UNCHANGED <<renderers, exits>>

-----------------------------------------------------------------------------
(* The renderer of a window goes away: invokes it waited for and messages it  *)
(* had not handled are lost.                                                 *)
Orphaned(w, closed) ==
    [m \in MoveIds |->
        IF moves[m].stage = "none" THEN moves[m]
        ELSE [moves[m] EXCEPT
                !.reply = IF moves[m].source = w /\ @ \in {"awaited", "ok"} THEN "none" ELSE @,
                !.adopt = IF moves[m].target = w /\ @ = "sent" THEN "none" ELSE @,
                !.sourceLive = @ /\ ~(closed /\ moves[m].source = w),
                !.targetLive = @ /\ ~(closed /\ moves[m].target = w)]]

(* pagehide, then a boot that rehydrates from the store, unless the window    *)
(* was opened for an adoption.                                               *)
Reload(w) ==
    /\ w \in reloads
    /\ disk' = Pagehidden({w})
    /\ tabs' = [tabs EXCEPT ![w] = IF w \in adoptBoot \/ disk'[w] = NoStore THEN {} ELSE disk'[w]]
    /\ persist' = [persist EXCEPT ![w] = "silent"]
    /\ moves' = Orphaned(w, FALSE)
    /\ reloads' = reloads \ {w}
    /\ UNCHANGED <<journal, adoptBoot, closes, exits>>

(* A window is closed by main or by the user; its store stays.               *)
CloseWindow(w) ==
    /\ Open(w) /\ ~Hidden(w)
    /\ IF w \in closes THEN exits' = exits ELSE exits < MaxExits /\ exits' = exits + 1
    /\ disk' = Pagehidden({w})
    /\ tabs' = [tabs EXCEPT ![w] = Closed]
    /\ persist' = [persist EXCEPT ![w] = "silent"]
    /\ adoptBoot' = adoptBoot \ {w} /\ reloads' = reloads \ {w} /\ closes' = closes \ {w}
    /\ moves' = Orphaned(w, TRUE)
    /\ UNCHANGED journal

Reopen(w) ==
    /\ May("reopen")
    /\ ~Open(w) /\ disk[w] # NoStore
    /\ tabs' = [tabs EXCEPT ![w] = disk[w]]
    /\ UNCHANGED <<disk, journal, persist, adoptBoot, moves, reloads, closes, exits>>

(* The app crashes, or quits (every renderer hides its page), and is launched *)
(* again: the journal is resolved before any window opens.                   *)
Relaunch(quits) ==
    /\ exits < MaxExits /\ exits' = exits + 1
    /\ LET saved == IF quits THEN Pagehidden(Windows) ELSE disk
       IN \/ disk' = Recovered(saved) /\ journal' = <<>>
          \/ May("unwritable") /\ disk' = saved /\ journal' = journal
    /\ tabs' = [w \in Windows |-> IF Open(w) /\ disk'[w] # NoStore THEN disk'[w] ELSE Closed]
    /\ persist' = [w \in Windows |-> "silent"]
    /\ adoptBoot' = {} /\ reloads' = {} /\ closes' = {}
    /\ moves' = [m \in MoveIds |->
          IF moves[m].stage = "none" THEN moves[m]
          ELSE [moves[m] EXCEPT !.stage = "done", !.adopt = "none", !.reply = "none",
                                !.sourceLive = FALSE, !.targetLive = FALSE]]

Main(m) ==
    \/ PrepareGivesUp(m) \/ JournalPrepare(m) \/ JournalRefuses(m)
    \/ AgentsMove(m) \/ AgentsStay(m) \/ Commit(m) \/ NotAdopted(m) \/ Rollback(m) \/ Finish(m)
Renderer(m) == TargetFlushes(m) \/ TargetAdopts(m) \/ TargetRefuses(m) \/ SourceRemoves(m)

Next ==
    \/ \E m \in MoveIds, w, target \in Windows, p \in Projects : Detach(m, w, p, target)
    \/ \E m \in MoveIds : Main(m) \/ Renderer(m)
    \/ \E w \in Windows : Edit(w) \/ Persist(w) \/ Reload(w) \/ CloseWindow(w) \/ Reopen(w)
    \/ \E quits \in BOOLEAN : Relaunch(quits)

Spec == Init /\ [][Next]_vars

(* Main's timers fire and its handlers run; nothing is asked of renderers.    *)
FairSpec == Spec /\ \A m \in MoveIds : WF_vars(Main(m))

-----------------------------------------------------------------------------
(* Where a project would be if the app crashed now and was launched again.   *)
Homes == [p \in Projects |->
    LET stores == Recovered(disk)
    IN {w \in Windows : IF stores[w] = NoStore THEN FALSE ELSE p \in stores[w]}]

Abstract == INSTANCE ProjectHomes WITH homes <- Homes

(* "Crash-safe cross-window project transfer": wherever the app crashes,      *)
(* quits or closes a window, each project comes back in exactly one window,   *)
(* and a move changes that window in one step.                               *)
MovesAtomically == Abstract!Spec

(* Main reloads a renderer to discard what it still holds of a project that   *)
(* main has just taken out of its store: the reload brings nothing back.      *)
ReloadDiscardsStale == [][\A w \in Windows : Reload(w) => UNCHANGED Homes]_vars

(* Every journaled move is resolved while the app runs, even if neither       *)
(* renderer ever answers: no window stays locked against further moves.       *)
MovesSettle == \A m \in MoveIds : HasRecord(m) ~> ~HasRecord(m)
=============================================================================
