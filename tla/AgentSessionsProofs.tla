-------------------------- MODULE AgentSessionsProofs --------------------------
(***************************************************************************)
(* That Stop holds, that no agent is lost, taken from the window its turn       *)
(* reports to or from a visible card, and that one nobody needs has a timer,     *)
(* for any number of windows and agents.                                     *)
(***************************************************************************)
EXTENDS AgentSessions, TLAPS

(* Where agents are, and who asked for them.                                 *)
PlacesOK ==
    /\ open \subseteq Windows /\ homes \subseteq open /\ cards \subseteq homes
    /\ connections \in [Windows -> Agents \cup {None}]
    /\ connectTasks \in [Windows -> Agents \cup {None}]
    /\ waiting \subseteq Windows
    /\ connectionLeases \subseteq Windows /\ idleTimers \subseteq Windows
    /\ adopting \subseteq Adoptions
    /\ move \in [stage : Stages, from : Windows \cup {None}, to : Windows \cup {None},
                 agent : Agents \cup {None}]
    /\ IF move.stage = "none" THEN move = NoMove
       ELSE move.from \in Windows /\ move.to \in Windows /\ move.from # move.to
    /\ move.stage \in {"handover", "returning", "rollback"} => move.agent # None
    /\ unleased \subseteq cards /\ stranded \subseteq Agents /\ slipped \in BOOLEAN

(* While a stopped turn lasts, what the agent asks is cancelled, and nothing  *)
(* it asked before is still open.                                            *)
Stopped == \A a \in Agents : session[a].stop => session[a].cancelRequested /\ ~session[a].asks

SessionsOK ==
    /\ live \subseteq Agents
    /\ session \in [Agents -> Session]
    /\ \A a \in Agents \ live : session[a] = Idle
    /\ Stopped

(* Types, stops in force, and that nothing has slipped through: inductive.    *)
SessionInv == PlacesOK /\ SessionsOK /\ StopHolds

(* What is known of the agents that run.                                     *)
KnownOK == sender \in [Agents -> Windows \cup {None}] /\ contested \subseteq live

(* An agent without a turn has a well-formed, unstopped session.              *)
LEMMA IdleType == Idle \in Session /\ ~Idle.stop
  BY DEF Idle, Session

(* What there is of an agent without a turn: nothing.                        *)
LEMMA IdleFields ==
  /\ Idle.turn = "none" /\ ~Idle.current /\ ~Idle.cancelRequested /\ ~Idle.steer
  /\ Idle.watchdog = None /\ ~Idle.asks /\ Idle.home = None /\ ~Idle.stop
  BY DEF Idle

(* A session in which nothing is set is the idle one.                        *)
LEMMA IsIdle ==
  ASSUME NEW s \in Session, s.turn = "none", ~s.current, ~s.cancelRequested, ~s.steer,
         s.watchdog = None, ~s.asks, s.home = None, ~s.stop
  PROVE  s = Idle
  BY DEF Idle, Session

(* A turn that settles leaves a well-formed session that Stop has left.       *)
LEMMA SettledType ==
  ASSUME NEW s \in Session
  PROVE  Settled(s) \in Session /\ ~Settled(s).stop
<1>1. [Idle EXCEPT !.asks = s.asks] \in Session
  BY IdleType DEF Session
<1>2. ~[Idle EXCEPT !.asks = s.asks].stop
  BY DEF Session, Idle
<1> QED
  BY <1>1, <1>2 DEF Settled

(* The invariant gives the types.                                            *)
LEMMA InvImpliesType == SessionInv /\ KnownOK => TypeOK
  BY DEF SessionInv, KnownOK, PlacesOK, SessionsOK, TypeOK

(* Ending agents, whichever, keeps sessions well-formed and stops in force.    *)
LEMMA EndKeeps ==
  ASSUME SessionsOK, NEW as, End(as)
  PROVE  SessionsOK'
  BY IdleType DEF SessionsOK, Stopped, End

(* So does a destroyed window, which also cancels what an agent asks.          *)
LEMMA EndAndCancelKeeps ==
  ASSUME SessionsOK, NEW as, NEW b, EndAndCancel(as, b)
  PROVE  SessionsOK'
<1>1. \A a \in Agents : [session[a] EXCEPT !.asks = FALSE] \in Session
  BY DEF SessionsOK, Session
<1>2. [Idle EXCEPT !.asks = FALSE] = Idle
  <2>1. [Idle EXCEPT !.asks = FALSE] \in Session
    BY IdleType DEF Session
  <2> QED
    BY <2>1, IsIdle DEF Idle
<1>3. session' \in [Agents -> Session] /\ live' \subseteq Agents
  BY <1>1, IdleType DEF SessionsOK, EndAndCancel
<1>4. \A a \in Agents \ live' : session'[a] = Idle
  BY <1>2 DEF SessionsOK, EndAndCancel
<1>5. ASSUME NEW a \in Agents, session'[a].stop PROVE session'[a].cancelRequested /\ ~session'[a].asks
  <2>1. session[a] \in Session
    BY DEF SessionsOK
  <2> QED
    BY <1>5, <2>1, IdleType DEF SessionsOK, Stopped, EndAndCancel, Session
<1> QED
  BY <1>3, <1>4, <1>5 DEF SessionsOK, Stopped

(* A step of a live agent keeps them if its new session has them.            *)
LEMMA InSessionKeeps ==
  ASSUME SessionsOK, NEW a \in Agents, a \in live, NEW s \in Session,
         s.stop => s.cancelRequested /\ ~s.asks, InSession(a, s)
  PROVE  SessionsOK'
  BY DEF SessionsOK, Stopped, InSession

(* A connect ends at most the agent of its slot and starts an unused one.      *)
LEMMA ConnectNowKeeps ==
  ASSUME PlacesOK, SessionsOK, NEW w \in Windows, NEW f \in BOOLEAN, ConnectNow(w, f)
  PROVE  SessionsOK'
<1>1. CASE UNCHANGED <<live, session>>
  BY <1>1 DEF SessionsOK, Stopped
<1>2. CASE \E a \in Unused : /\ live' = (live \ {connections[w]}) \cup {a}
                             /\ session' = [b \in Agents |-> IF b = connections[w] THEN Idle ELSE session[b]]
  BY <1>2, IdleType DEF SessionsOK, Stopped, Unused
<1> QED
  BY <1>1, <1>2 DEF ConnectNow

(* The invariant holds before any window is open.                            *)
LEMMA InitSession == Init => SessionInv
<1> SUFFICES ASSUME Init PROVE SessionInv
  OBVIOUS
<1>1. PlacesOK /\ StopHolds
  BY DEF Init, PlacesOK, StopHolds, NoMove, Stages
<1>2. SessionsOK
  BY IdleType DEF Init, SessionsOK, Stopped
<1> QED
  BY <1>1, <1>2 DEF SessionInv

(* Every action of windows, agents and moves keeps the invariant.             *)
LEMMA StepSession == SessionInv /\ Step => SessionInv'
<1> SUFFICES ASSUME SessionInv, Step PROVE SessionInv'
  OBVIOUS
<1> USE AgentSessionsAssumption DEF SessionInv
<1>1. ASSUME NEW w \in Windows, OpenWindow(w) PROVE SessionInv'
  <2>1. PlacesOK' /\ StopHolds'
    BY <1>1 DEF OpenWindow, Dropped, slots, moves, history, PlacesOK, StopHolds
  <2>2. SessionsOK'
    BY <1>1 DEF OpenWindow, SessionsOK, Stopped
  <2> QED
    BY <2>1, <2>2
<1>2. ASSUME NEW w \in Windows, OpenProject(w) PROVE SessionInv'
  <2>1. PlacesOK' /\ StopHolds'
    BY <1>2 DEF OpenProject, keeping, slots, moves, history, PlacesOK, StopHolds
  <2>2. SessionsOK'
    BY <1>2 DEF OpenProject, SessionsOK, Stopped
  <2> QED
    BY <2>1, <2>2
<1>3. ASSUME NEW w \in Windows, Mount(w) PROVE SessionInv'
  <2>1. PlacesOK' /\ StopHolds'
    BY <1>3 DEF Mount, Leased, slots, moves, PlacesOK, StopHolds
  <2>2. SessionsOK'
    BY <1>3 DEF Mount, SessionsOK, Stopped
  <2> QED
    BY <2>1, <2>2
<1>4. ASSUME NEW w \in Windows, Unmount(w) PROVE SessionInv'
  <2>1. PlacesOK' /\ StopHolds'
    BY <1>4 DEF Unmount, Unleased, slots, moves, PlacesOK, StopHolds
  <2>2. SessionsOK'
    BY <1>4 DEF Unmount, SessionsOK, Stopped
  <2> QED
    BY <2>1, <2>2
<1>5. ASSUME NEW w \in Windows, Destroy(w) PROVE SessionInv'
  <2>1. PlacesOK' /\ StopHolds'
    BY <1>5 DEF Destroy, Unleased, keeping, slots, moves, PlacesOK, StopHolds
  <2>2. SessionsOK'
    BY <1>5, EndAndCancelKeeps DEF Destroy, SessionsOK, Stopped
  <2> QED
    BY <2>1, <2>2
<1>6. ASSUME NEW w \in Windows, Connected(w) PROVE SessionInv'
  <2>1. PlacesOK' /\ StopHolds'
    BY <1>6 DEF Connected, windows, moves, history, PlacesOK, StopHolds
  <2>2. SessionsOK'
    BY <1>6, EndKeeps DEF Connected, SessionsOK, Stopped
  <2> QED
    BY <2>1, <2>2
<1>7. ASSUME NEW w \in Windows, ConnectFails(w) PROVE SessionInv'
  <2>1. PlacesOK' /\ StopHolds'
    BY <1>7 DEF ConnectFails, windows, moves, keeping, history, PlacesOK, StopHolds
  <2>2. SessionsOK'
    BY <1>7, EndKeeps DEF ConnectFails, SessionsOK, Stopped
  <2> QED
    BY <2>1, <2>2
<1>8. ASSUME NEW w \in Windows, Disconnect(w) PROVE SessionInv'
  <2>1. PlacesOK' /\ StopHolds'
    BY <1>8 DEF Disconnect, Dropped, windows, moves, PlacesOK, StopHolds
  <2>2. SessionsOK'
    BY <1>8, EndKeeps DEF Disconnect, SessionsOK, Stopped
  <2> QED
    BY <2>1, <2>2
<1>9. ASSUME NEW w \in Windows, IdlePark(w) PROVE SessionInv'
  <2>1. PlacesOK' /\ StopHolds'
    BY <1>9 DEF IdlePark, windows, moves, history, PlacesOK, StopHolds
  <2>2. SessionsOK'
    BY <1>9, EndKeeps DEF IdlePark, SessionsOK, Stopped
  <2> QED
    BY <2>1, <2>2
<1>10. ASSUME NEW r \in adopting, Adopted(r) PROVE SessionInv'
  <2>0. r \in Adoptions
    BY DEF PlacesOK
  <2>1. PlacesOK' /\ StopHolds'
    BY <1>10, <2>0 DEF Adopted, Adoptions, windows, PlacesOK, StopHolds
  <2>2. SessionsOK'
    BY <1>10 DEF Adopted, SessionsOK, Stopped
  <2> QED
    BY <2>1, <2>2
<1>11. ASSUME NEW r \in adopting, AdoptionFails(r) PROVE SessionInv'
  <2>1. PlacesOK' /\ StopHolds'
    BY <1>11 DEF AdoptionFails, windows, slots, keeping, history, PlacesOK, StopHolds
  <2>2. SessionsOK'
    BY <1>11 DEF AdoptionFails, SessionsOK, Stopped
  <2> QED
    BY <2>1, <2>2
<1>12. ASSUME NEW w \in Windows, NEW f \in BOOLEAN, Connect(w, f) PROVE SessionInv'
  <2>1. PlacesOK' /\ StopHolds'
    BY <1>12 DEF Connect, ConnectNow, Unused, windows, moves, keeping, PlacesOK, StopHolds
  <2>2. SessionsOK'
    BY <1>12, ConnectNowKeeps DEF Connect, SessionsOK, Stopped
  <2> QED
    BY <2>1, <2>2
<1>13. ASSUME NEW w \in Windows, NEW f \in BOOLEAN, ConnectWaited(w, f) PROVE SessionInv'
  <2>1. PlacesOK' /\ StopHolds'
    BY <1>13 DEF ConnectWaited, ConnectNow, Unused, windows, moves, keeping, PlacesOK, StopHolds
  <2>2. SessionsOK'
    BY <1>13, ConnectNowKeeps DEF ConnectWaited, SessionsOK, Stopped
  <2> QED
    BY <2>1, <2>2
<1>14. ASSUME NEW w \in Windows, NEW to \in Windows, StartMove(w, to) PROVE SessionInv'
  <2>1. PlacesOK' /\ StopHolds'
    BY <1>14 DEF StartMove, windows, slots, keeping, history, Stages, PlacesOK, StopHolds
  <2>2. SessionsOK'
    BY <1>14 DEF StartMove, SessionsOK, Stopped
  <2> QED
    BY <2>1, <2>2
<1>15. ASSUME NEW w \in Windows, NEW a \in Agents, StartAdopting(w, a) PROVE SessionInv'
  <2>0. Owner(a) \in Windows
    BY <1>15 DEF StartAdopting, Orphan, IsConnected, Owner
  <2>1. PlacesOK' /\ StopHolds'
    BY <1>15, <2>0 DEF StartAdopting, Adoptions, windows, slots, keeping, history, PlacesOK, StopHolds
  <2>2. SessionsOK'
    BY <1>15 DEF StartAdopting, SessionsOK, Stopped
  <2> QED
    BY <2>1, <2>2
<1>16. ASSUME NEW a \in Agents, Exit(a) PROVE SessionInv'
  <2>1. PlacesOK' /\ StopHolds'
    BY <1>16 DEF Exit, windows, slots, keeping, moves, history, PlacesOK, StopHolds
  <2>2. SessionsOK'
    BY <1>16, EndKeeps DEF Exit, SessionsOK, Stopped
  <2> QED
    BY <2>1, <2>2
<1>17. ASSUME NEW a \in Agents, PromptAnswered(a) PROVE SessionInv'
  <2> DEFINE s == Answered(session[a])
  <2>1. session[a] \in Session /\ a \in live
    BY <1>17, IdleFields DEF PromptAnswered, Reaches, SessionsOK
  <2>2. session[a].stop => session[a].cancelRequested /\ ~session[a].asks
    BY DEF SessionsOK, Stopped
  <2>3. s \in Session
    BY <1>17, <2>1, SettledType DEF Answered, Session
  <2>4. s.stop => s.cancelRequested /\ ~s.asks
    BY <1>17, <2>1, <2>2, SettledType DEF Answered, Session
  <2>5. InSession(a, s)
    BY <1>17 DEF PromptAnswered
  <2>6. slipped' = FALSE
    BY <1>17, <2>1, <2>2 DEF PromptAnswered, PlacesOK, StopHolds, Session
  <2>7. SessionsOK'
    BY <2>1, <2>3, <2>4, <2>5, InSessionKeeps
  <2> QED
    BY <2>5, <2>6, <2>7 DEF InSession, windows, slots, keeping, moves, PlacesOK, StopHolds
<1>18. ASSUME NEW a \in Agents, SteerAnswered(a) PROVE SessionInv'
  <2> DEFINE s == IF session[a].turn = "flushing" THEN Settled(session[a]) ELSE [session[a] EXCEPT !.steer = FALSE]
  <2>1. session[a] \in Session /\ a \in live
    BY <1>18, IdleFields DEF SteerAnswered, Reaches, SessionsOK
  <2>2. session[a].stop => session[a].cancelRequested /\ ~session[a].asks
    BY DEF SessionsOK, Stopped
  <2>3. s \in Session
    BY <1>18, <2>1, SettledType DEF Session
  <2>4. s.stop => s.cancelRequested /\ ~s.asks
    BY <1>18, <2>1, <2>2, SettledType DEF Session
  <2>5. InSession(a, s)
    BY <1>18 DEF SteerAnswered
  <2>6. slipped' = FALSE
    BY <1>18, <2>1, <2>2 DEF SteerAnswered, PlacesOK, StopHolds, Session
  <2>7. SessionsOK'
    BY <2>1, <2>3, <2>4, <2>5, InSessionKeeps
  <2> QED
    BY <2>5, <2>6, <2>7 DEF InSession, windows, slots, keeping, moves, PlacesOK, StopHolds
<1>19. ASSUME NEW a \in Agents, FlushTimer(a) PROVE SessionInv'
  <2> DEFINE s == Settled(session[a])
  <2>1. session[a] \in Session /\ a \in live
    BY <1>19, IdleFields DEF FlushTimer, Reaches, SessionsOK
  <2>2. session[a].stop => session[a].cancelRequested /\ ~session[a].asks
    BY DEF SessionsOK, Stopped
  <2>3. s \in Session
    BY <1>19, <2>1, SettledType DEF Session
  <2>4. s.stop => s.cancelRequested /\ ~s.asks
    BY <1>19, <2>1, <2>2, SettledType DEF Session
  <2>5. InSession(a, s)
    BY <1>19 DEF FlushTimer
  <2>6. slipped' = FALSE
    BY <1>19, <2>1, <2>2 DEF FlushTimer, PlacesOK, StopHolds, Session
  <2>7. SessionsOK'
    BY <2>1, <2>3, <2>4, <2>5, InSessionKeeps
  <2> QED
    BY <2>5, <2>6, <2>7 DEF InSession, windows, slots, keeping, moves, PlacesOK, StopHolds
<1>20. ASSUME NEW a \in Agents, CancelTimeout(a) PROVE SessionInv'
  <2>0. session[a].watchdog \in Windows
    BY <1>20 DEF CancelTimeout, SessionsOK, Session
  <2>1. PlacesOK' /\ StopHolds'
    BY <1>20, <2>0 DEF CancelTimeout, Dropped, windows, moves, PlacesOK, StopHolds
  <2>2. SessionsOK'
    BY <1>20, EndKeeps DEF CancelTimeout, SessionsOK, Stopped
  <2> QED
    BY <2>1, <2>2
<1>21. ASSUME NEW a \in Agents, Ask(a) PROVE SessionInv'
  <2> DEFINE s == [session[a] EXCEPT !.asks = TRUE]
  <2>1. session[a] \in Session /\ a \in live
    BY <1>21, IdleFields DEF Ask, Reaches, SessionsOK
  <2>2. session[a].stop => session[a].cancelRequested /\ ~session[a].asks
    BY DEF SessionsOK, Stopped
  <2>3. s \in Session
    BY <1>21, <2>1, SettledType DEF Session
  <2>4. s.stop => s.cancelRequested /\ ~s.asks
    BY <1>21, <2>1, <2>2, SettledType DEF Ask, Session
  <2>5. InSession(a, s)
    BY <1>21 DEF Ask
  <2>6. slipped' = FALSE
    BY <1>21, <2>1, <2>2 DEF Ask, PlacesOK, StopHolds, Session
  <2>7. SessionsOK'
    BY <2>1, <2>3, <2>4, <2>5, InSessionKeeps
  <2> QED
    BY <2>5, <2>6, <2>7 DEF InSession, windows, slots, keeping, moves, PlacesOK, StopHolds
<1>22. ASSUME NEW a \in Agents, AllowAtOnce(a) PROVE SessionInv'
  <2> DEFINE s == session[a]
  <2>1. session[a] \in Session /\ a \in live
    BY <1>22, IdleFields DEF AllowAtOnce, Reaches, SessionsOK
  <2>2. session[a].stop => session[a].cancelRequested /\ ~session[a].asks
    BY DEF SessionsOK, Stopped
  <2>3. s \in Session
    BY <1>22, <2>1, SettledType DEF Session
  <2>4. s.stop => s.cancelRequested /\ ~s.asks
    BY <1>22, <2>1, <2>2, SettledType DEF Session
  <2>5. InSession(a, s)
    BY <1>22 DEF AllowAtOnce
  <2>6. slipped' = FALSE
    BY <1>22, <2>1, <2>2 DEF AllowAtOnce, PlacesOK, StopHolds, Session
  <2>7. SessionsOK'
    BY <2>1, <2>3, <2>4, <2>5, InSessionKeeps
  <2> QED
    BY <2>5, <2>6, <2>7 DEF InSession, windows, slots, keeping, moves, PlacesOK, StopHolds
<1>23. ASSUME NEW a \in Agents, NEW allowed \in BOOLEAN, Respond(a, allowed) PROVE SessionInv'
  <2> DEFINE s == [session[a] EXCEPT !.asks = FALSE]
  <2>1. session[a] \in Session /\ a \in live
    BY <1>23, IdleFields DEF Respond, Reaches, SessionsOK
  <2>2. session[a].stop => session[a].cancelRequested /\ ~session[a].asks
    BY DEF SessionsOK, Stopped
  <2>3. s \in Session
    BY <1>23, <2>1, SettledType DEF Session
  <2>4. s.stop => s.cancelRequested /\ ~s.asks
    BY <1>23, <2>1, <2>2, SettledType DEF Session
  <2>5. InSession(a, s)
    BY <1>23 DEF Respond
  <2>6. slipped' = FALSE
    BY <1>23, <2>1, <2>2 DEF Respond, PlacesOK, StopHolds, Session
  <2>7. SessionsOK'
    BY <2>1, <2>3, <2>4, <2>5, InSessionKeeps
  <2> QED
    BY <2>5, <2>6, <2>7 DEF InSession, windows, slots, keeping, moves, PlacesOK, StopHolds
<1>24. ASSUME NEW a \in Agents, NEW actor \in Actors, Prompt(actor, a) PROVE SessionInv'
  <2> DEFINE s == [Settled(session[a]) EXCEPT !.turn = "running", !.current = TRUE, !.home = actor]
  <2>1. session[a] \in Session /\ a \in live
    BY <1>24, IdleFields DEF Prompt, Reaches, SessionsOK
  <2>2. session[a].stop => session[a].cancelRequested /\ ~session[a].asks
    BY DEF SessionsOK, Stopped
  <2>3. s \in Session
    BY <1>24, <2>1, SettledType DEF Session, Actors
  <2>4. s.stop => s.cancelRequested /\ ~s.asks
    BY <1>24, <2>1, <2>2, SettledType DEF Session
  <2>5. InSession(a, s)
    BY <1>24 DEF Prompt
  <2>6. slipped' = FALSE
    BY <1>24, <2>1, <2>2 DEF Prompt, PlacesOK, StopHolds, Session
  <2>7. SessionsOK'
    BY <2>1, <2>3, <2>4, <2>5, InSessionKeeps
  <2> QED
    BY <2>5, <2>6, <2>7 DEF InSession, windows, slots, keeping, moves, PlacesOK, StopHolds
<1>25. ASSUME NEW a \in Agents, NEW actor \in Actors, Steer(actor, a) PROVE SessionInv'
  <2> DEFINE s == [session[a] EXCEPT !.steer = TRUE]
  <2>1. session[a] \in Session /\ a \in live
    BY <1>25, IdleFields DEF Steer, Reaches, SessionsOK
  <2>2. session[a].stop => session[a].cancelRequested /\ ~session[a].asks
    BY DEF SessionsOK, Stopped
  <2>3. s \in Session
    BY <1>25, <2>1, SettledType DEF Session
  <2>4. s.stop => s.cancelRequested /\ ~s.asks
    BY <1>25, <2>1, <2>2, SettledType DEF Session
  <2>5. InSession(a, s)
    BY <1>25 DEF Steer
  <2>6. slipped' = FALSE
    BY <1>25, <2>1, <2>2 DEF Steer, PlacesOK, StopHolds, Session
  <2>7. SessionsOK'
    BY <2>1, <2>3, <2>4, <2>5, InSessionKeeps
  <2> QED
    BY <2>5, <2>6, <2>7 DEF InSession, windows, slots, keeping, moves, PlacesOK, StopHolds
<1>26. ASSUME NEW a \in Agents, NEW actor \in Actors, Cancel(actor, a) PROVE SessionInv'
  <2> DEFINE s == [session[a] EXCEPT
            !.cancelRequested = CancelRequested(session[a]),
            !.asks = FALSE, !.current = FALSE,
            !.watchdog = IF session[a].turn # "none" /\ @ = None THEN Owner(a) ELSE @,
            !.stop = session[a].turn # "none"]
  <2>1. session[a] \in Session /\ a \in live
    BY <1>26, IdleFields DEF Cancel, Reaches, SessionsOK
  <2>2. session[a].stop => session[a].cancelRequested /\ ~session[a].asks
    BY DEF SessionsOK, Stopped
  <2>0. Owner(a) \in Windows
    <3>1. \E w \in Windows : connections[w] = a
      BY <1>26, AgentSessionsAssumption DEF Cancel, Reaches, Actors
    <3> QED
      BY <3>1 DEF Owner
  <2>3. s \in Session
    <3>1. CancelRequested(session[a]) \in BOOLEAN
      BY <2>1 DEF CancelRequested, Session
    <3>2. (IF session[a].turn # "none" /\ session[a].watchdog = None THEN Owner(a) ELSE session[a].watchdog)
            \in Windows \cup {None}
      BY <2>1, <2>0 DEF Session
    <3> QED
      BY <2>1, <3>1, <3>2 DEF Session
  <2>4. s.stop => s.cancelRequested /\ ~s.asks
    BY <1>26, <2>1, <2>2, <2>0, SettledType DEF CancelRequested, Session
  <2>5. InSession(a, s)
    BY <1>26 DEF Cancel
  <2>6. slipped' = FALSE
    BY <1>26, <2>1, <2>2 DEF Cancel, PlacesOK, StopHolds, Session
  <2>7. SessionsOK'
    BY <2>1, <2>3, <2>4, <2>5, InSessionKeeps
  <2> QED
    BY <2>5, <2>6, <2>7 DEF InSession, windows, slots, keeping, moves, PlacesOK, StopHolds
<1>27. ASSUME HandedOver PROVE SessionInv'
  <2>1. PlacesOK' /\ StopHolds'
    <3>1. move \in [stage : Stages, from : Windows, to : Windows, agent : Agents]
      BY <1>27 DEF HandedOver, PlacesOK, NoMove
    <3>2. CASE move' = [move EXCEPT !.stage = "applied"] /\ Apply(move.from, move.to)
               /\ unleased' = unleased \cup (cards \cap {move.from})
      BY <1>27, <3>1, <3>2
      DEF HandedOver, Apply, windows, keeping, Stages, NoMove, PlacesOK, StopHolds
    <3>3. CASE move' = [move EXCEPT !.stage = "returning"] /\ UNCHANGED <<connections, keeping, unleased>>
      BY <1>27, <3>1, <3>3
      DEF HandedOver, windows, keeping, Stages, NoMove, PlacesOK, StopHolds
    <3> QED
      BY <1>27, <3>2, <3>3 DEF HandedOver
  <2>2. SessionsOK'
    BY <1>27 DEF HandedOver, SessionsOK, Stopped
  <2> QED
    BY <2>1, <2>2
<1>28. ASSUME HandoverFails PROVE SessionInv'
  <2>1. PlacesOK' /\ StopHolds'
    BY <1>28 DEF HandoverFails, windows, slots, keeping, history, Stages, NoMove, PlacesOK,
       StopHolds
  <2>2. SessionsOK'
    BY <1>28 DEF HandoverFails, SessionsOK, Stopped
  <2> QED
    BY <2>1, <2>2
<1>29. ASSUME Returned PROVE SessionInv'
  <2>1. PlacesOK' /\ StopHolds'
    BY <1>29 DEF Returned, windows, slots, keeping, history, Stages, NoMove, PlacesOK, StopHolds
  <2>2. SessionsOK'
    BY <1>29 DEF Returned, SessionsOK, Stopped
  <2> QED
    BY <2>1, <2>2
<1>30. ASSUME TargetShows PROVE SessionInv'
  <2>1. PlacesOK' /\ StopHolds'
    BY <1>30 DEF TargetShows, slots, keeping, moves, history, PlacesOK, StopHolds
  <2>2. SessionsOK'
    BY <1>30 DEF TargetShows, SessionsOK, Stopped
  <2> QED
    BY <2>1, <2>2
<1>31. ASSUME Commit PROVE SessionInv'
  <2>1. PlacesOK' /\ StopHolds'
    BY <1>31 DEF Commit, slots, keeping, Unleased, Stages, NoMove, PlacesOK, StopHolds
  <2>2. SessionsOK'
    BY <1>31 DEF Commit, SessionsOK, Stopped
  <2> QED
    BY <2>1, <2>2
<1>32. ASSUME Rollback PROVE SessionInv'
  <2>1. PlacesOK' /\ StopHolds'
    BY <1>32 DEF Rollback, Disposed, TargetDrops, Dropped, keeping, Stages, NoMove, PlacesOK,
       StopHolds
  <2>2. SessionsOK'
    BY <1>32, EndKeeps DEF Rollback, Disposed, SessionsOK, Stopped
  <2> QED
    BY <2>1, <2>2
<1>33. ASSUME RolledBack PROVE SessionInv'
  <2>1. PlacesOK' /\ StopHolds'
    BY <1>33 DEF RolledBack, Apply, TargetDrops, keeping, Stages, NoMove, PlacesOK, StopHolds
  <2>2. SessionsOK'
    BY <1>33 DEF RolledBack, SessionsOK, Stopped
  <2> QED
    BY <2>1, <2>2
<1>34. ASSUME RollbackFails PROVE SessionInv'
  <2>1. PlacesOK' /\ StopHolds'
    BY <1>34 DEF RollbackFails, Disposed, TargetDrops, Dropped, keeping, Stages, NoMove,
       PlacesOK, StopHolds
  <2>2. SessionsOK'
    BY <1>34, EndKeeps DEF RollbackFails, Disposed, SessionsOK, Stopped
  <2> QED
    BY <2>1, <2>2
<1>35. ASSUME RollbackEmpty PROVE SessionInv'
  <2>1. PlacesOK' /\ StopHolds'
    BY <1>35 DEF RollbackEmpty, TargetDrops, slots, keeping, Stages, NoMove, PlacesOK, StopHolds
  <2>2. SessionsOK'
    BY <1>35 DEF RollbackEmpty, SessionsOK, Stopped
  <2> QED
    BY <2>1, <2>2
<1>36. ASSUME NEW w \in Windows, WindowStep(w) PROVE SessionInv'
  BY <1>36, <1>1, <1>2, <1>3, <1>4, <1>5, <1>6, <1>7, <1>8, <1>9, <1>12, <1>14, <1>15
  DEF WindowStep
<1>37. ASSUME NEW a \in Agents, AgentStep(a) PROVE SessionInv'
  BY <1>37, <1>16, <1>17, <1>18, <1>19, <1>20, <1>21, <1>22, <1>23, <1>24, <1>25, <1>26
  DEF AgentStep
<1>38. ASSUME MoveStep PROVE SessionInv'
  BY <1>38, <1>27, <1>28, <1>29, <1>30, <1>31, <1>32, <1>33, <1>34, <1>35 DEF MoveStep
<1>39. CASE \E w \in Waited, f \in BOOLEAN : ConnectWaited(w, f)
  <2>1. PICK w \in Waited, f \in BOOLEAN : ConnectWaited(w, f)
    BY <1>39
  <2>2. w \in Windows
    BY <2>1 DEF ConnectWaited, PlacesOK
  <2> QED
    BY <2>1, <2>2, <1>13
<1>40. CASE Others
  BY <1>40, <1>10, <1>11, <1>36, <1>37, <1>38 DEF Others, AdoptionStep
<1> QED
  BY <1>39, <1>40 DEF Step

(* Where nothing changes, it holds as before.                                *)
LEMMA NextSession == SessionInv /\ [Next]_vars => SessionInv'
<1>1. SessionInv /\ UNCHANGED vars => SessionInv'
  BY DEF vars, windows, slots, keeping, moves, history, SessionInv, PlacesOK, SessionsOK, Stopped, StopHolds
<1> QED
  BY <1>1, StepSession DEF Next

(* The invariant of turns and requests holds.                                *)
THEOREM SessionInvariant == Spec => []SessionInv
  BY InitSession, NextSession, PTL DEF Spec

(* Who is bound and who is contested is worked out anew after every step.      *)
LEMMA KnownInvariant == Spec => []KnownOK
<1>1. Init => KnownOK
  BY DEF Init, KnownOK
<1>2. ASSUME KnownOK, Bound, Remembered PROVE KnownOK'
  <2>1. ASSUME NEW a \in Agents PROVE sender'[a] \in Windows \cup {None}
    BY <1>2 DEF KnownOK, Bound, IsConnected, IsConnecting, Owner
  <2>2. \A a \in contested' : a \in live'
    BY <1>2 DEF Remembered, Rivalled
  <2> QED
    BY <1>2, <2>1, <2>2 DEF KnownOK, Bound
<1>3. KnownOK /\ [Next]_vars => KnownOK'
  BY <1>2 DEF Next, vars, KnownOK
<1> QED
  BY <1>1, <1>3, PTL DEF Spec

(* Every variable is typed, and an agent that ended has no turn left.         *)
THEOREM TypeCorrect == Spec => []TypeOK
  BY SessionInvariant, KnownInvariant, InvImpliesType, PTL

(* Nothing is allowed between a Stop and the settling of its turn, for any    *)
(* windows and agents, however status, moves and crashes interleave.          *)
THEOREM StopAlwaysHolds == Spec => []StopHolds
<1>1. SessionInv => StopHolds
  BY DEF SessionInv
<1> QED
  BY SessionInvariant, <1>1, PTL

-----------------------------------------------------------------------------
(* The move has taken its agent to the target's slot.                        *)
WithTarget == move.stage \in {"applied", "rollback"}

(* An agent is in one place: a handshake, an adoption and a move each take up  *)
(* an agent that no other has, whatever slots they have in common.            *)
OneSlot ==
    /\ \A u, v \in Windows :
          /\ connections[u] = connections[v] /\ connections[u] # None => u = v
          /\ connectTasks[u] = connectTasks[v] /\ connectTasks[u] # None => u = v
          /\ connectTasks[u] # None => connectTasks[u] # connections[v]
    /\ \A v \in Windows : connectTasks[v] # None => connectTasks[v] # move.agent
    /\ \A v \in Windows : connections[v] = move.agent /\ move.agent # None
          => v = IF WithTarget THEN move.to ELSE move.from
    /\ \A r \in adopting :
          /\ r.agent # move.agent
          /\ \A v \in Windows : connectTasks[v] # r.agent /\ (connections[v] = r.agent => v = r.slot)
          /\ \A q \in adopting : q.agent = r.agent => q = r

(* Agents that leave a slot, a connect, an adoption or a move stay in one.     *)
Shrinks ==
    /\ \A w \in Windows : /\ connections'[w] \in {connections[w], None}
                          /\ connectTasks'[w] \in {connectTasks[w], None}
    /\ adopting' \subseteq adopting
    /\ \/ move'.agent = None
       \/ move'.agent = move.agent /\ move'.from = move.from /\ move'.to = move.to
          /\ (WithTarget' <=> WithTarget)

LEMMA ShrinksKeeps == ASSUME SessionInv, OneSlot, Shrinks PROVE OneSlot'
<1> USE AgentSessionsAssumption DEF Shrinks
<1>1. \A r \in adopting : r.agent # None
  BY DEF SessionInv, PlacesOK, Adoptions
<1> QED
  BY <1>1 DEF OneSlot

LEMMA StepOneSlot == ASSUME SessionInv, OneSlot, Step PROVE OneSlot'
<1> USE AgentSessionsAssumption
<1>0. PlacesOK /\ SessionsOK
  BY DEF SessionInv
<1>1. ASSUME NEW w \in Windows, NEW f \in BOOLEAN, Connect(w, f) \/ ConnectWaited(w, f) PROVE OneSlot'
  <2>1. UNCHANGED moves
    BY <1>1 DEF Connect, ConnectWaited
  <2>2. CASE UNCHANGED <<connections, connectTasks>>
    BY <2>1, <2>2 DEF moves, OneSlot, WithTarget
  <2>3. CASE \E a \in Unused : /\ connections' = [connections EXCEPT ![w] = None]
                               /\ connectTasks' = [connectTasks EXCEPT ![w] = a]
    <3>1. PICK a \in Unused : /\ connections' = [connections EXCEPT ![w] = None]
                              /\ connectTasks' = [connectTasks EXCEPT ![w] = a]
      BY <2>3
    <3>2. a # None /\ a # move.agent
          /\ (\A v \in Windows : connections[v] # a /\ connectTasks[v] # a)
          /\ \A r \in adopting : r.agent # a /\ r.agent # None
      BY <3>1, <1>0 DEF Unused, Named, terminalOwnerMoves, PlacesOK, Adoptions
    <3>3. \A v \in Windows : /\ connections'[v] = IF v = w THEN None ELSE connections[v]
                             /\ connectTasks'[v] = IF v = w THEN a ELSE connectTasks[v]
      BY <3>1, <1>0 DEF PlacesOK
    <3> QED
      BY <2>1, <3>2, <3>3 DEF moves, OneSlot, WithTarget
  <2> QED
    BY <1>1, <2>2, <2>3 DEF Connect, ConnectWaited, ConnectNow
<1>2. ASSUME NEW w \in Windows, Connected(w) PROVE OneSlot'
  <2>1. CASE w \in open
    <3>1. \A v \in Windows : /\ connections'[v] = IF v = w THEN connectTasks[w] ELSE connections[v]
                             /\ connectTasks'[v] = IF v = w THEN None ELSE connectTasks[v]
      BY <1>2, <2>1, <1>0 DEF Connected, PlacesOK
    <3>2. UNCHANGED moves /\ connectTasks[w] # None
          /\ \A r \in adopting : r.agent # None
      BY <1>2, <1>0 DEF Connected, SessionsOK, PlacesOK, Adoptions
    <3> QED
      BY <3>1, <3>2 DEF moves, OneSlot, WithTarget
  <2>2. CASE w \notin open
    <3>1. Shrinks
      BY <1>2, <2>2, <1>0 DEF Connected, PlacesOK, Shrinks, moves, WithTarget
    <3> QED
      BY <3>1, ShrinksKeeps
  <2> QED
    BY <2>1, <2>2
<1>3. ASSUME NEW r \in adopting, Adopted(r) PROVE OneSlot'
  <2>1. r.agent # None /\ r.slot \in Windows /\ r.window \in Windows /\ r.agent # move.agent
        /\ \A q \in adopting : q.agent # None
    BY <1>0 DEF PlacesOK, Adoptions, OneSlot
  <2>2. \A v \in Windows : connections'[v] = IF v = r.window THEN r.agent
                                             ELSE IF v = r.slot THEN None ELSE connections[v]
    BY <1>3, <1>0, <2>1 DEF Adopted, PlacesOK
  <2>3. UNCHANGED <<connectTasks, move>> /\ adopting' = adopting \ {r}
    BY <1>3 DEF Adopted
  <2> QED
    BY <2>1, <2>2, <2>3 DEF OneSlot, WithTarget
<1>4. ASSUME NEW w \in Windows, NEW a \in Agents, StartAdopting(w, a) PROVE OneSlot'
  <2> DEFINE r == [window |-> w, agent |-> a, slot |-> Owner(a)]
  <2>1. /\ connections[Owner(a)] = a /\ Owner(a) \in Windows /\ a # None
        /\ UNCHANGED <<connections, connectTasks, move>>
        /\ a # move.agent /\ \A q \in adopting : q.agent # a
    BY <1>4 DEF StartAdopting, Orphan, IsConnected, Owner, slots, terminalOwnerMoves
  <2>2. adopting' = adopting \cup {r} /\ r.agent = a /\ r.slot = Owner(a)
    BY <1>4 DEF StartAdopting
  <2>3. \A v \in Windows : connectTasks[v] # a /\ (connections[v] = a => v = Owner(a))
    BY <2>1 DEF OneSlot
  <2> HIDE DEF r
  <2> QED
    BY <2>1, <2>2, <2>3 DEF OneSlot, WithTarget
<1>5. ASSUME NEW w \in Windows, NEW to \in Windows, StartMove(w, to) PROVE OneSlot'
  <2>1. /\ move'.from = w /\ move'.to = to /\ move'.agent = connections[w]
        /\ move'.stage = (IF connections[w] = None THEN "applied" ELSE "handover")
        /\ UNCHANGED <<connections, connectTasks, adopting>>
        /\ connections[w] # None => connections[w] \notin terminalOwnerMoves
    BY <1>5 DEF StartMove, slots
  <2>2. \A r \in adopting : r.agent # None /\ (connections[w] # None => r.agent # connections[w])
    BY <2>1, <1>0 DEF PlacesOK, Adoptions, terminalOwnerMoves
  <2> QED
    BY <2>1, <2>2 DEF OneSlot, WithTarget
<1>6. ASSUME HandedOver, connections[move.from] = move.agent, Apply(move.from, move.to),
             move' = [move EXCEPT !.stage = "applied"]
      PROVE  OneSlot'
  <2>1. /\ move'.stage = "applied" /\ move'.agent = move.agent /\ move'.to = move.to
        /\ move.agent # None
        /\ move.from \in Windows /\ move.to \in Windows /\ move.from # move.to
        /\ UNCHANGED <<connectTasks, adopting>>
    BY <1>6, <1>0 DEF HandedOver, PlacesOK, NoMove
  <2>2. \A v \in Windows : connections'[v] = IF v = move.to THEN move.agent
                                             ELSE IF v = move.from THEN None ELSE connections[v]
    BY <1>6, <2>1, <1>0 DEF Apply, PlacesOK
  <2> QED
    BY <2>1, <2>2, <1>0 DEF OneSlot, WithTarget, PlacesOK, Adoptions
<1>7. ASSUME RolledBack PROVE OneSlot'
  <2>1. /\ move' = NoMove /\ move.agent # None
        /\ move.from \in Windows /\ move.to \in Windows /\ move.from # move.to
        /\ UNCHANGED <<connectTasks, adopting>> /\ Apply(move.to, move.from)
    BY <1>7, <1>0 DEF RolledBack, PlacesOK, NoMove
  <2>2. \A v \in Windows : connections'[v] = IF v = move.from THEN move.agent
                                             ELSE IF v = move.to THEN None ELSE connections[v]
    BY <2>1, <1>0 DEF Apply, PlacesOK
  <2> QED
    BY <2>1, <2>2, <1>0 DEF OneSlot, WithTarget, NoMove, PlacesOK, Adoptions
<1>8. CASE UNCHANGED slots /\ UNCHANGED moves
  BY <1>8 DEF slots, moves, OneSlot, WithTarget
<1>9. ASSUME NEW w \in Windows, ConnectFails(w) \/ Disconnect(w) \/ IdlePark(w) PROVE OneSlot'
  <2>1. Shrinks
    BY <1>9, <1>0 DEF ConnectFails, Disconnect, IdlePark, moves, PlacesOK, Shrinks, WithTarget
  <2> QED
    BY <2>1, ShrinksKeeps
<1>10. ASSUME NEW a \in Agents, CancelTimeout(a) PROVE OneSlot'
  <2>1. Shrinks
    BY <1>10, <1>0 DEF CancelTimeout, moves, PlacesOK, Shrinks, WithTarget
  <2> QED
    BY <2>1, ShrinksKeeps
<1>11. ASSUME \/ HandedOver /\ UNCHANGED connections /\ move' = [move EXCEPT !.stage = "returning"]
              \/ HandoverFails \/ Returned \/ Commit \/ Rollback \/ RollbackEmpty \/ RollbackFails
              \/ \E r \in adopting : AdoptionFails(r)
       PROVE  OneSlot'
  <2>1. Shrinks
    BY <1>11, <1>0
    DEF HandedOver, HandoverFails, Returned, Commit, Rollback, RollbackEmpty, RollbackFails, Disposed,
        AdoptionFails, slots, PlacesOK, Shrinks, WithTarget, NoMove
  <2> QED
    BY <2>1, ShrinksKeeps
<1>12. ASSUME NEW w \in Windows, WindowStep(w) PROVE OneSlot'
  <2>1. CASE OpenWindow(w) \/ OpenProject(w) \/ Mount(w) \/ Unmount(w) \/ Destroy(w)
    BY <2>1, <1>8 DEF OpenWindow, OpenProject, Mount, Unmount, Destroy
  <2> QED
    BY <1>12, <2>1, <1>1, <1>2, <1>4, <1>5, <1>9 DEF WindowStep
<1>13. ASSUME NEW a \in Agents, AgentStep(a) PROVE OneSlot'
  BY <1>13, <1>8, <1>10 DEF AgentStep, Exit, PromptAnswered, SteerAnswered, FlushTimer, Ask, AllowAtOnce,
     Respond, Prompt, Steer, Cancel, InSession, moves
<1>14. ASSUME MoveStep PROVE OneSlot'
  <2>1. HandedOver => \/ UNCHANGED connections /\ move' = [move EXCEPT !.stage = "returning"]
                      \/ /\ connections[move.from] = move.agent /\ Apply(move.from, move.to)
                         /\ move' = [move EXCEPT !.stage = "applied"]
    BY DEF HandedOver
  <2>2. CASE TargetShows
    BY <2>2, <1>8 DEF TargetShows
  <2> QED
    BY <1>14, <2>1, <2>2, <1>6, <1>7, <1>11 DEF MoveStep
<1>15. CASE \E w \in Waited, f \in BOOLEAN : ConnectWaited(w, f)
  <2>1. PICK w \in Waited, f \in BOOLEAN : ConnectWaited(w, f)
    BY <1>15
  <2>2. w \in Windows
    BY <2>1, <1>0 DEF ConnectWaited, PlacesOK
  <2> QED
    BY <2>1, <2>2, <1>1
<1>16. CASE Others
  BY <1>16, <1>3, <1>11, <1>12, <1>13, <1>14 DEF Others, AdoptionStep
<1> QED
  BY <1>15, <1>16 DEF Step

(* No agent is in two places, for any windows and agents.                     *)
LEMMA OneSlotInvariant == Spec => []OneSlot
<1>1. Init => OneSlot
  BY AgentSessionsAssumption DEF Init, OneSlot, NoMove
<1>2. SessionInv /\ OneSlot /\ [Next]_vars => OneSlot'
  <2>1. OneSlot /\ UNCHANGED vars => OneSlot'
    BY DEF vars, slots, moves, OneSlot, WithTarget
  <2> QED
    BY <2>1, StepOneSlot DEF Next
<1> QED
  BY <1>1, <1>2, SessionInvariant, PTL DEF Spec

-----------------------------------------------------------------------------
(* What keeps agents in their slots.                                         *)
(* An agent belongs to the window of its slot.                               *)
Senders == \A a \in live, w \in Windows : a \in {connections[w], connectTasks[w]} => sender[a] = w

(* An orphan belongs to the window that is gone, even out of its slot.        *)
Orphans == \A r \in adopting :
    r.slot \notin open /\ r.slot # r.window /\ (r.agent \in live => sender[r.agent] = r.slot)

(* The window a turn reports to, if it lives, is the one its agent belongs to. *)
Homes == \A a \in live : session[a].home \in open => sender[a] = session[a].home

(* A turn that reports to a window is one; neither the agent that moves nor   *)
(* one that is being connected has any.                                      *)
Turns ==
    /\ \A a \in Agents : session[a].turn = "none" => session[a].home = None
    /\ move.agent # None => session[move.agent].turn = "none"
    /\ \A w \in Windows : connectTasks[w] # None => session[connectTasks[w]].turn = "none"

(* An agent whose slot another may get is known to be, and who is bound, what  *)
(* is lost and what is leased is as the properties say: inductive.            *)
KeepingInv ==
    /\ Rivalled \subseteq contested
    /\ Senders /\ Orphans /\ Homes /\ Turns
    /\ NoAgentLost /\ (cards \ unleased \subseteq connectionLeases)

(* An agent that runs has a slot, or is being connected to one.               *)
Placed(a) == \E w \in Windows : a \in {connections[w], connectTasks[w]}

(* What a step does to places: only the agent of a move or of an adoption gets *)
(* to another slot, an agent that leaves its slot had not the only claim to it *)
(* unless it ends, and one that starts is being connected.                    *)
Displaces ==
    /\ \A a \in live \cap live', v \in Windows : a \in {connections'[v], connectTasks'[v]} =>
          \/ a \in {connections[v], connectTasks[v]} \/ a = move.agent
          \/ \E r \in adopting \ adopting' : a = r.agent
    /\ \A a \in live \cap live', v \in Windows : a \in {connections[v], connectTasks[v]} =>
          Placed(a)' \/ Claims(v) # {a}
    /\ \A a \in live' \ live : session'[a] = Idle /\ \E w \in Windows : connectTasks'[w] = a
    /\ adopting \subseteq adopting' \/ UNCHANGED <<open, session>>

LEMMA StepPlaces == ASSUME SessionInv, OneSlot, Step PROVE Displaces
<1> USE AgentSessionsAssumption
<1>0. PlacesOK /\ SessionsOK
  BY DEF SessionInv
<1>1. ASSUME UNCHANGED <<connections, connectTasks>>, live' \subseteq live,
             adopting \subseteq adopting' \/ UNCHANGED <<open, session>>
      PROVE  Displaces
  BY <1>1, <1>0 DEF Displaces, Placed
<1>2. ASSUME NEW a, End({a}), adopting' = adopting,
             \A v \in Windows : connections'[v] = connections[v] \/ (connections[v] = a /\ connections'[v] = None),
             \A v \in Windows : connectTasks'[v] = connectTasks[v] \/ (connectTasks[v] = a /\ connectTasks'[v] = None)
      PROVE  Displaces
  BY <1>2, <1>0 DEF Displaces, Placed, End, SessionsOK
<1>3. ASSUME NEW w \in Windows, NEW f \in BOOLEAN, Connect(w, f) \/ ConnectWaited(w, f) PROVE Displaces
  <2>1. adopting' = adopting
    BY <1>3 DEF Connect, ConnectWaited, moves
  <2>2. CASE UNCHANGED <<connections, connectTasks, live>>
    BY <2>1, <2>2, <1>1
  <2>3. CASE ConnectNow(w, f) /\ connectTasks[w] = None /\ ~UNCHANGED <<connections, connectTasks, live>>
    <3>1. PICK a \in Unused : /\ connections' = [connections EXCEPT ![w] = None]
                              /\ connectTasks' = [connectTasks EXCEPT ![w] = a]
                              /\ live' = (live \ {connections[w]}) \cup {a}
                              /\ session' = [b \in Agents |-> IF b = connections[w] THEN Idle ELSE session[b]]
      BY <2>3 DEF ConnectNow
    <3>2. a \in Agents \ live /\ session[a] = Idle
      BY <3>1, <1>0 DEF Unused, SessionsOK
    <3>3. \A v \in Windows : /\ connections'[v] = IF v = w THEN None ELSE connections[v]
                             /\ connectTasks'[v] = IF v = w THEN a ELSE connectTasks[v]
      BY <3>1, <1>0 DEF PlacesOK
    <3> QED
      BY <2>1, <2>3, <3>1, <3>2, <3>3, <1>0 DEF Displaces, Placed, SessionsOK
  <2> QED
    BY <1>3, <2>2, <2>3 DEF Connect, ConnectWaited, ConnectNow
<1>4. ASSUME NEW w \in Windows, Connected(w) PROVE Displaces
  <2>1. CASE w \in open
    <3>1. \A v \in Windows : /\ connections'[v] = IF v = w THEN connectTasks[w] ELSE connections[v]
                             /\ connectTasks'[v] = IF v = w THEN None ELSE connectTasks[v]
      BY <1>4, <2>1, <1>0 DEF Connected, PlacesOK
    <3>2. UNCHANGED <<adopting, live>> /\ connectTasks[w] \in live
      BY <1>4, <2>1 DEF Connected, moves
    <3>3. connectTasks[w] \in Claims(w)
      BY <3>2, <1>0 DEF Claims, SessionsOK
    <3> QED
      BY <3>1, <3>2, <3>3, <1>0 DEF Displaces, Placed, SessionsOK
  <2>2. CASE w \notin open
    BY <1>4, <2>2, <1>2, <1>0 DEF Connected, moves, PlacesOK
  <2> QED
    BY <2>1, <2>2
<1>5. ASSUME NEW r \in adopting, Adopted(r) PROVE Displaces
  <2>1. r.agent # None /\ r.slot \in Windows /\ r.window \in Windows
    BY <1>0 DEF PlacesOK, Adoptions
  <2>2. \A v \in Windows : connections'[v] = IF v = r.window THEN r.agent
                                             ELSE IF v = r.slot THEN None ELSE connections[v]
    BY <1>5, <1>0, <2>1 DEF Adopted, PlacesOK
  <2>3. UNCHANGED <<connectTasks, live, open, session>> /\ adopting' = adopting \ {r}
    BY <1>5 DEF Adopted, windows
  <2>4. r.agent \in Claims(r.window) /\ r.agent \in Claims(r.slot)
    BY DEF Claims
  <2> QED
    BY <2>1, <2>2, <2>3, <2>4, <1>0 DEF Displaces, Placed, SessionsOK
<1>6. ASSUME HandedOver \/ RolledBack PROVE Displaces
  <2>1. CASE UNCHANGED connections
    BY <1>6, <2>1, <1>1 DEF HandedOver, RolledBack
  <2>2. CASE Apply(move.from, move.to) \/ Apply(move.to, move.from)
    <3>1. /\ move.agent # None /\ move.from \in Windows /\ move.to \in Windows /\ move.from # move.to
          /\ UNCHANGED <<connectTasks, live, adopting>>
      BY <1>6, <1>0 DEF HandedOver, RolledBack, PlacesOK, NoMove
    <3>2. \E v \in {move.from, move.to} :
            \A u \in Windows : connections'[u] = IF u = v THEN move.agent
                                                 ELSE IF u \in {move.from, move.to} THEN None ELSE connections[u]
      BY <2>2, <3>1, <1>0 DEF Apply, PlacesOK
    <3>3. \A v \in {move.from, move.to} : move.agent \in Claims(v)
      BY <3>1 DEF Claims, projectMoves
    <3> QED
      BY <3>1, <3>2, <3>3, <1>0 DEF Displaces, Placed, SessionsOK
  <2> QED
    BY <1>6, <2>1, <2>2 DEF HandedOver, RolledBack
<1>7. ASSUME NEW w \in Windows, ConnectFails(w) \/ IdlePark(w) PROVE Displaces
  <2>1. CASE ConnectFails(w)
    BY <2>1, <1>2, <1>0 DEF ConnectFails, moves, PlacesOK
  <2>2. CASE IdlePark(w) /\ UNCHANGED connections
    BY <2>2, <1>1 DEF IdlePark, End, moves
  <2>3. CASE IdlePark(w) /\ ~UNCHANGED connections
    BY <2>3, <1>2, <1>0 DEF IdlePark, moves, PlacesOK
  <2> QED
    BY <1>7, <2>1, <2>2, <2>3
<1>8. ASSUME NEW w \in Windows, Disconnect(w) PROVE Displaces
  <2>1. UNCHANGED <<connectTasks, adopting>>
        /\ \A v \in Windows : connections'[v] = connections[v] \/ (v = w /\ connections'[v] = None)
    BY <1>8, <1>0 DEF Disconnect, moves, PlacesOK
  <2>2. live' \subseteq live /\ (~UNCHANGED connections => connections[w] \notin live')
    BY <1>8 DEF Disconnect, End
  <2> QED
    BY <2>1, <2>2, <1>0 DEF Displaces, Placed, SessionsOK
<1>9. ASSUME NEW a \in Agents, CancelTimeout(a) PROVE Displaces
  BY <1>9, <1>2, <1>0 DEF CancelTimeout, moves, PlacesOK
<1>10. ASSUME Rollback \/ RollbackFails PROVE Displaces
  <2>1. adopting' = adopting /\ connectTasks' = connectTasks
    BY <1>10 DEF Rollback, RollbackFails
  <2>2. CASE Disposed
    BY <2>1, <2>2, <1>2, <1>0 DEF Disposed, PlacesOK
  <2>3. CASE UNCHANGED <<connections, live>>
    BY <2>1, <2>3, <1>1
  <2> QED
    BY <1>10, <2>2, <2>3 DEF Rollback, RollbackFails
<1>11. ASSUME NEW w \in Windows, WindowStep(w) PROVE Displaces
  <2>1. CASE OpenWindow(w) \/ OpenProject(w) \/ Mount(w) \/ Unmount(w) \/ Destroy(w)
             \/ (\E to \in Windows : StartMove(w, to)) \/ \E a \in Agents : StartAdopting(w, a)
    BY <2>1, <1>1 DEF OpenWindow, OpenProject, Mount, Unmount, Destroy, EndAndCancel, StartMove, StartAdopting,
       slots, moves
  <2> QED
    BY <1>11, <2>1, <1>3, <1>4, <1>7, <1>8 DEF WindowStep
<1>12. ASSUME NEW a \in Agents, AgentStep(a) PROVE Displaces
  BY <1>12, <1>1, <1>9 DEF AgentStep, Exit, End, PromptAnswered, SteerAnswered, FlushTimer, Ask, AllowAtOnce,
     Respond, Prompt, Steer, Cancel, InSession, slots, moves
<1>13. ASSUME MoveStep PROVE Displaces
  <2>1. CASE HandoverFails \/ Returned \/ TargetShows \/ Commit \/ RollbackEmpty
    BY <2>1, <1>1 DEF HandoverFails, Returned, TargetShows, Commit, RollbackEmpty, slots, moves
  <2> QED
    BY <1>13, <2>1, <1>6, <1>10 DEF MoveStep
<1>14. ASSUME NEW r \in adopting, AdoptionFails(r) PROVE Displaces
  BY <1>14, <1>1 DEF AdoptionFails, slots, windows
<1>15. CASE \E w \in Waited, f \in BOOLEAN : ConnectWaited(w, f)
  <2>1. PICK w \in Waited, f \in BOOLEAN : ConnectWaited(w, f)
    BY <1>15
  <2>2. w \in Windows
    BY <2>1, <1>0 DEF ConnectWaited, PlacesOK
  <2> QED
    BY <2>1, <2>2, <1>3
<1>16. CASE Others
  BY <1>16, <1>5, <1>11, <1>12, <1>13, <1>14 DEF Others, AdoptionStep
<1> QED
  BY <1>15, <1>16 DEF Step

(* A turn keeps the window it reports to, and begins with an agent the prompt   *)
(* came to through that window's slot.                                       *)
KeepsHome == \A a \in Agents : session'[a].home \in Windows =>
    session'[a].home = session[a].home \/ (connections[session'[a].home] = a /\ UNCHANGED connections)

LEMMA StepTurns == ASSUME SessionInv, OneSlot, Turns, Step PROVE Turns' /\ KeepsHome
<1> USE AgentSessionsAssumption
<1>0. PlacesOK /\ SessionsOK
  BY DEF SessionInv
<1>1. ASSUME \A a \in Agents : \/ session'[a] = Idle
                               \/ session'[a].turn = session[a].turn /\ session'[a].home = session[a].home,
             move'.agent \in {None, move.agent},
             \A w \in Windows : \/ connectTasks'[w] \in {None, connectTasks[w]}
                                \/ connectTasks'[w] \in Agents /\ session'[connectTasks'[w]] = Idle
      PROVE  Turns' /\ KeepsHome
  BY <1>1, <1>0, IdleFields DEF Turns, KeepsHome, PlacesOK
<1>2. ASSUME NEW as, End(as) PROVE \A a \in Agents : session'[a] = Idle \/ session'[a] = session[a]
  BY <1>2 DEF End
<1>3. ASSUME NEW a \in Agents, NEW s, InSession(a, s), s.turn = "none" => s.home = None,
             s.turn # "none" => session[a].turn # "none" \/ (a # move.agent /\ \A w \in Windows : connectTasks[w] # a),
             s.home \in Windows => s.home = session[a].home \/ connections[s.home] = a
      PROVE  Turns' /\ KeepsHome
  <2>1. \A b \in Agents : session'[b] = IF b = a THEN s ELSE session[b]
    BY <1>3, <1>0 DEF InSession, SessionsOK
  <2>2. UNCHANGED <<connections, connectTasks, move>>
    BY <1>3 DEF InSession, slots, moves
  <2> QED
    BY <1>3, <2>1, <2>2, <1>0 DEF Turns, KeepsHome, PlacesOK
<1>4. ASSUME NEW w \in Windows, WindowStep(w) PROVE Turns' /\ KeepsHome
  <2>1. CASE OpenWindow(w) \/ OpenProject(w) \/ Mount(w) \/ Unmount(w) \/ \E a \in Agents : StartAdopting(w, a)
    BY <2>1, <1>1 DEF OpenWindow, OpenProject, Mount, Unmount, StartAdopting, slots, moves
  <2>2. CASE Destroy(w)
    <3>1. \A a \in Agents : \/ session'[a] = Idle
                            \/ session'[a].turn = session[a].turn /\ session'[a].home = session[a].home
      BY <2>2, <1>0 DEF Destroy, EndAndCancel, SessionsOK, Session
    <3> QED
      BY <2>2, <3>1, <1>1 DEF Destroy, slots, moves
  <2>3. CASE Connected(w) \/ ConnectFails(w) \/ Disconnect(w) \/ IdlePark(w)
    <3>1. \A a \in Agents : session'[a] = Idle \/ session'[a] = session[a]
      BY <2>3, <1>2 DEF Connected, ConnectFails, Disconnect, IdlePark
    <3>2. move' = move /\ \A v \in Windows : connectTasks'[v] \in {None, connectTasks[v]}
      BY <2>3, <1>0 DEF Connected, ConnectFails, Disconnect, IdlePark, moves, PlacesOK
    <3> QED
      BY <3>1, <3>2, <1>1
  <2>4. ASSUME NEW to \in Windows, StartMove(w, to) PROVE Turns' /\ KeepsHome
    <3>1. move'.agent = connections[w] /\ UNCHANGED <<connections, connectTasks, session>>
      BY <2>4 DEF StartMove, slots
    <3>2. connections[w] # None => session[connections[w]].turn = "none"
      BY <2>4 DEF StartMove, Safe, Busy
    <3> QED
      BY <3>1, <3>2 DEF Turns, KeepsHome
  <2>5. ASSUME NEW f \in BOOLEAN, Connect(w, f) PROVE Turns' /\ KeepsHome
    <3>1. CASE UNCHANGED <<connectTasks, session>>
      BY <2>5, <3>1, <1>1 DEF Connect, moves
    <3>2. CASE ConnectNow(w, f) /\ ~UNCHANGED <<connectTasks, session>>
      <4>1. PICK a \in Unused : /\ connectTasks' = [connectTasks EXCEPT ![w] = a]
                                /\ session' = [b \in Agents |-> IF b = connections[w] THEN Idle ELSE session[b]]
        BY <3>2 DEF ConnectNow
      <4>2. a \in Agents /\ session[a] = Idle
        BY <4>1, <1>0 DEF Unused, SessionsOK
      <4>3. \A v \in Windows : connectTasks'[v] = IF v = w THEN a ELSE connectTasks[v]
        BY <4>1, <1>0 DEF PlacesOK
      <4> QED
        BY <2>5, <4>1, <4>2, <4>3, <1>1 DEF Connect, moves
    <3> QED
      BY <2>5, <3>1, <3>2 DEF Connect
  <2> QED
    BY <1>4, <2>1, <2>2, <2>3, <2>4, <2>5 DEF WindowStep
<1>5. ASSUME NEW w \in Windows, NEW f \in BOOLEAN, ConnectWaited(w, f) PROVE Turns' /\ KeepsHome
  <2>1. CASE UNCHANGED <<connectTasks, session>>
    BY <1>5, <2>1, <1>1 DEF ConnectWaited, moves
  <2>2. CASE ~UNCHANGED <<connectTasks, session>>
    <3>1. PICK a \in Unused : /\ connectTasks' = [connectTasks EXCEPT ![w] = a]
                              /\ session' = [b \in Agents |-> IF b = connections[w] THEN Idle ELSE session[b]]
      BY <1>5, <2>2 DEF ConnectWaited, ConnectNow
    <3>2. a \in Agents /\ session[a] = Idle
      BY <3>1, <1>0 DEF Unused, SessionsOK
    <3>3. \A v \in Windows : connectTasks'[v] = IF v = w THEN a ELSE connectTasks[v]
      BY <3>1, <1>0 DEF PlacesOK
    <3> QED
      BY <1>5, <3>1, <3>2, <3>3, <1>1 DEF ConnectWaited, moves
  <2> QED
    BY <2>1, <2>2
<1>6. ASSUME NEW a \in Agents, AgentStep(a) PROVE Turns' /\ KeepsHome
  <2>1. session[a] \in Session /\ (session[a].turn = "none" => session[a].home = None)
        /\ Settled(session[a]).turn = "none" /\ Settled(session[a]).home = None
    BY <1>0 DEF SessionsOK, Turns, Settled, Idle
  <2>2. CASE Exit(a) \/ CancelTimeout(a)
    <3>1. \A b \in Agents : session'[b] = Idle \/ session'[b] = session[b]
      BY <2>2, <1>2 DEF Exit, CancelTimeout
    <3> QED
      BY <2>2, <3>1, <1>1 DEF Exit, CancelTimeout, slots, moves
  <2>3. CASE PromptAnswered(a)
    BY <2>1, <2>3, <1>3 DEF PromptAnswered, Answered, Session
  <2>4. CASE SteerAnswered(a)
    BY <2>1, <2>4, <1>3 DEF SteerAnswered, Session
  <2>5. CASE FlushTimer(a)
    BY <2>1, <2>5, <1>3 DEF FlushTimer
  <2>6. CASE Ask(a) \/ AllowAtOnce(a) \/ \E allowed \in BOOLEAN : Respond(a, allowed)
    BY <2>1, <2>6, <1>3 DEF Ask, AllowAtOnce, Respond, Session
  <2>7. ASSUME NEW actor \in Actors, Prompt(actor, a) PROVE Turns' /\ KeepsHome
    <3> DEFINE s == [Settled(session[a]) EXCEPT !.turn = "running", !.current = TRUE, !.home = actor]
    <3>1. InSession(a, s) /\ a # move.agent /\ s.turn = "running" /\ s.home = actor
      BY <2>1, <2>7, SettledType DEF Prompt, terminalOwnerMoves, Session
    <3>2. actor \in Windows => connections[actor] = a
      BY <2>7 DEF Prompt, Reaches
    <3>3. \E w \in Windows : connections[w] = a
      BY <2>7, <1>0 DEF Prompt, Reaches, Actors, SessionsOK
    <3>4. \A w \in Windows : connectTasks[w] # a
      BY <3>3, <1>0 DEF OneSlot
    <3> QED
      BY <3>1, <3>2, <3>4, <1>3
  <2>8. ASSUME NEW actor \in Actors, Steer(actor, a) \/ Cancel(actor, a) PROVE Turns' /\ KeepsHome
    BY <2>1, <2>8, <1>3 DEF Steer, Cancel, Session
  <2> QED
    BY <1>6, <2>2, <2>3, <2>4, <2>5, <2>6, <2>7, <2>8 DEF AgentStep
<1>7. ASSUME MoveStep PROVE Turns' /\ KeepsHome
  <2>1. connectTasks' = connectTasks
    BY <1>7 DEF MoveStep, HandedOver, HandoverFails, Returned, TargetShows, Commit, Rollback, RollbackEmpty,
       RolledBack, RollbackFails, slots
  <2>2. move'.agent \in {None, move.agent}
    BY <1>7, <1>0 DEF MoveStep, HandedOver, HandoverFails, Returned, TargetShows, Commit, Rollback, RollbackEmpty,
       RolledBack, RollbackFails, moves, NoMove, PlacesOK
  <2>3. \A a \in Agents : session'[a] = Idle \/ session'[a] = session[a]
    <3>1. CASE Disposed
      BY <3>1, <1>2 DEF Disposed
    <3>2. CASE UNCHANGED session
      BY <3>2
    <3> QED
      BY <1>7, <3>1, <3>2 DEF MoveStep, HandedOver, HandoverFails, Returned, TargetShows, Commit, Rollback,
         RollbackEmpty, RolledBack, RollbackFails
  <2> QED
    BY <2>1, <2>2, <2>3, <1>1
<1>8. ASSUME NEW r \in adopting, Adopted(r) \/ AdoptionFails(r) PROVE Turns' /\ KeepsHome
  BY <1>8, <1>1 DEF Adopted, AdoptionFails, slots
<1>9. CASE \E w \in Waited, f \in BOOLEAN : ConnectWaited(w, f)
  <2>1. PICK w \in Waited, f \in BOOLEAN : ConnectWaited(w, f)
    BY <1>9
  <2>2. w \in Windows
    BY <2>1, <1>0 DEF ConnectWaited, PlacesOK
  <2> QED
    BY <2>1, <2>2, <1>5
<1>10. CASE Others
  BY <1>10, <1>4, <1>6, <1>7, <1>8 DEF Others, AdoptionStep
<1> QED
  BY <1>9, <1>10 DEF Step

(* A window that opens is named by no adoption and no turn, and an adoption    *)
(* begins with the agent of a slot whose window is gone.                      *)
Opens ==
    /\ \A w \in open' \ open : /\ \A r \in adopting : w # r.slot
                               /\ \A a \in Agents : session[a].home # w
    /\ \A r \in adopting' \ adopting : /\ r.slot \in Windows \ open' /\ connections'[r.slot] = r.agent
                                       /\ r.slot # r.window

LEMMA StepOpens == ASSUME SessionInv, Step PROVE Opens
<1> USE AgentSessionsAssumption
<1>0. PlacesOK
  BY DEF SessionInv
<1>1. ASSUME open' \subseteq open, adopting' \subseteq adopting PROVE Opens
  BY <1>1 DEF Opens
<1>2. ASSUME NEW w \in Windows, NEW a \in Agents, StartAdopting(w, a) PROVE Opens
  <2> DEFINE r == [window |-> w, agent |-> a, slot |-> Owner(a)]
  <2>1. Owner(a) \in Windows \ open /\ connections[Owner(a)] = a /\ connections[w] = None
    BY <1>2 DEF StartAdopting, Orphan, IsConnected, Owner
  <2>2. adopting' = adopting \cup {r} /\ UNCHANGED <<open, connections>>
    BY <1>2 DEF StartAdopting, windows, slots
  <2>3. r.slot = Owner(a) /\ r.window = w /\ r.agent = a
    OBVIOUS
  <2> HIDE DEF r
  <2> QED
    BY <2>1, <2>2, <2>3 DEF Opens
<1>3. ASSUME NEW w \in Windows, WindowStep(w) PROVE Opens
  <2>1. CASE OpenWindow(w)
    BY <2>1 DEF OpenWindow, moves, Opens
  <2>2. CASE OpenProject(w) \/ Mount(w) \/ Unmount(w) \/ Destroy(w) \/ Connected(w) \/ ConnectFails(w)
             \/ Disconnect(w) \/ IdlePark(w) \/ (\E f \in BOOLEAN : Connect(w, f)) \/ \E to \in Windows : StartMove(w, to)
    BY <2>2, <1>1 DEF OpenProject, Mount, Unmount, Destroy, Connected, ConnectFails, Disconnect, IdlePark,
       Connect, StartMove, windows, moves
  <2> QED
    BY <1>3, <2>1, <2>2, <1>2 DEF WindowStep
<1>4. ASSUME NEW a \in Agents, AgentStep(a) PROVE Opens
  BY <1>4, <1>1 DEF AgentStep, Exit, CancelTimeout, PromptAnswered, SteerAnswered, FlushTimer, Ask, AllowAtOnce,
     Respond, Prompt, Steer, Cancel, InSession, windows, moves
<1>5. ASSUME MoveStep PROVE Opens
  BY <1>5, <1>1 DEF MoveStep, HandedOver, HandoverFails, Returned, TargetShows, Commit, Rollback, RollbackEmpty,
     RolledBack, RollbackFails, windows, moves
<1>6. ASSUME NEW r \in adopting, Adopted(r) \/ AdoptionFails(r) PROVE Opens
  BY <1>6, <1>1 DEF Adopted, AdoptionFails, windows
<1>7. ASSUME NEW w, NEW f, ConnectWaited(w, f) PROVE Opens
  BY <1>7, <1>1 DEF ConnectWaited, windows, moves
<1> QED
  BY <1>3, <1>4, <1>5, <1>6, <1>7 DEF Step, Others, AdoptionStep

(* An agent that gets to no other slot belongs to the window it did.           *)
LEMMA SenderStays ==
  ASSUME SessionInv, OneSlot', Senders, Bound, NEW a \in live, a \in live',
         \A v \in Windows : a \in {connections'[v], connectTasks'[v]} => a \in {connections[v], connectTasks[v]}
  PROVE  sender'[a] = sender[a]
<1>1. a \in Agents
  BY DEF SessionInv, SessionsOK
<1>2. CASE IsConnected(a)'
  <2>1. PICK v \in Windows : connections'[v] = a
    BY <1>2 DEF IsConnected
  <2>2. Owner(a)' \in Windows /\ connections'[Owner(a)'] = a
    BY <2>1 DEF Owner
  <2>3. sender[a] = Owner(a)'
    BY <2>2 DEF Senders
  <2> QED
    BY <1>1, <1>2, <2>3 DEF Bound
<1>3. CASE ~IsConnected(a)' /\ IsConnecting(a)'
  <2> DEFINE v == CHOOSE w \in Windows : connectTasks'[w] = a
  <2>1. v \in Windows /\ connectTasks'[v] = a
    BY <1>3 DEF IsConnecting
  <2>2. sender[a] = v
    BY <2>1 DEF Senders
  <2>3. sender'[a] = v
    BY <1>1, <1>3 DEF Bound
  <2> QED
    BY <2>2, <2>3
<1>4. CASE ~IsConnected(a)' /\ ~IsConnecting(a)'
  BY <1>1, <1>4 DEF Bound
<1> QED
  BY <1>2, <1>3, <1>4

(* An agent belongs to the window of the one slot it has after the step.       *)
LEMMA StepSenders == ASSUME SessionInv', OneSlot', Bound PROVE Senders'
<1> USE AgentSessionsAssumption
<1> SUFFICES ASSUME NEW a \in live', NEW w \in Windows, a \in {connections'[w], connectTasks'[w]}
             PROVE  sender'[a] = w
  BY DEF Senders
<1>1. a \in Agents /\ a # None
  BY DEF SessionInv, SessionsOK
<1>2. CASE connections'[w] = a
  <2>1. IsConnected(a)'
    BY <1>2 DEF IsConnected
  <2>2. Owner(a)' \in Windows /\ connections'[Owner(a)'] = a
    BY <1>2 DEF Owner
  <2>3. Owner(a)' = w
    BY <1>1, <1>2, <2>2 DEF OneSlot
  <2> QED
    BY <1>1, <2>1, <2>3 DEF Bound
<1>3. CASE connectTasks'[w] = a
  <2> DEFINE v == CHOOSE u \in Windows : connectTasks'[u] = a
  <2>1. IsConnecting(a)' /\ ~IsConnected(a)'
    BY <1>1, <1>3 DEF IsConnecting, IsConnected, OneSlot
  <2>2. v \in Windows /\ connectTasks'[v] = a
    BY <1>3
  <2>3. sender'[a] = v
    BY <1>1, <2>1 DEF Bound
  <2>4. v = w
    BY <1>1, <1>3, <2>2 DEF OneSlot
  <2> QED
    BY <2>3, <2>4
<1> QED
  BY <1>2, <1>3

(* A mounted card's slot loses its lease only with the knowledge `unleased`    *)
(* keeps: an orphan's lease is that of a window that is gone.                 *)
LEMMA StepLeases ==
  ASSUME SessionInv, Orphans, cards \ unleased \subseteq connectionLeases, Step
  PROVE  cards' \ unleased' \subseteq connectionLeases'
<1> USE AgentSessionsAssumption
<1>0. PlacesOK
  BY DEF SessionInv
<1> DEFINE Goal == cards' \ unleased' \subseteq connectionLeases'
<1>1. ASSUME cards' \subseteq cards, unleased \subseteq unleased', connectionLeases \subseteq connectionLeases' PROVE Goal
  BY <1>1
<1>2. ASSUME NEW w \in Windows, WindowStep(w) PROVE Goal
  <2>1. CASE OpenWindow(w)
    BY <2>1, <1>0 DEF OpenWindow, Dropped, history, PlacesOK
  <2>2. CASE Mount(w)
    BY <2>2 DEF Mount, Leased
  <2>3. CASE Unmount(w)
    BY <2>3 DEF Unmount, Unleased
  <2>4. CASE Destroy(w)
    BY <2>4 DEF Destroy, Unleased, keeping
  <2>5. CASE Disconnect(w)
    BY <2>5 DEF Disconnect, Dropped, windows
  <2>6. CASE OpenProject(w) \/ Connected(w) \/ ConnectFails(w) \/ IdlePark(w) \/ (\E f \in BOOLEAN : Connect(w, f))
             \/ (\E to \in Windows : StartMove(w, to)) \/ \E a \in Agents : StartAdopting(w, a)
    BY <2>6, <1>1 DEF OpenProject, Connected, ConnectFails, IdlePark, Connect, StartMove, StartAdopting,
       windows, keeping, history
  <2> QED
    BY <1>2, <2>1, <2>2, <2>3, <2>4, <2>5, <2>6 DEF WindowStep
<1>3. ASSUME NEW a \in Agents, AgentStep(a) PROVE Goal
  <2>1. CASE CancelTimeout(a)
    BY <2>1 DEF CancelTimeout, Dropped, windows
  <2> QED
    BY <1>3, <2>1, <1>1 DEF AgentStep, Exit, PromptAnswered, SteerAnswered, FlushTimer, Ask, AllowAtOnce,
       Respond, Prompt, Steer, Cancel, InSession, windows, keeping, history
<1>4. ASSUME MoveStep PROVE Goal
  <2>1. CASE HandedOver
    BY <2>1, <1>1 DEF HandedOver, Apply, windows, keeping
  <2>2. CASE Commit
    BY <2>2 DEF Commit, Unleased, keeping
  <2>3. CASE Rollback
    BY <2>3 DEF Rollback, Disposed, TargetDrops, Dropped, keeping
  <2>4. CASE RollbackEmpty
    BY <2>4 DEF RollbackEmpty, TargetDrops, keeping
  <2>5. CASE RolledBack
    BY <2>5, <1>0 DEF RolledBack, Apply, TargetDrops, PlacesOK
  <2>6. CASE RollbackFails
    BY <2>6 DEF RollbackFails, Disposed, TargetDrops, Dropped
  <2> QED
    BY <1>4, <2>1, <2>2, <2>3, <2>4, <2>5, <2>6, <1>1
    DEF MoveStep, HandoverFails, Returned, TargetShows, windows, keeping, history
<1>5. ASSUME NEW r \in adopting, Adopted(r) PROVE Goal
  <2>1. r.slot \notin cards
    BY <1>0 DEF Orphans, PlacesOK
  <2> QED
    BY <1>5, <2>1 DEF Adopted, windows
<1>6. ASSUME NEW r \in adopting, AdoptionFails(r) PROVE Goal
  BY <1>6, <1>1 DEF AdoptionFails, windows, keeping, history
<1>7. ASSUME NEW w, NEW f, ConnectWaited(w, f) PROVE Goal
  BY <1>7, <1>1 DEF ConnectWaited, windows, keeping
<1> QED
  BY <1>2, <1>3, <1>4, <1>5, <1>6, <1>7 DEF Step, Others, AdoptionStep

(* Whoever is put in an agent's slot had a claim to it before, so an agent that *)
(* loses its slot was contested; one that is not any more has a slot again.   *)
LEMMA NextKeeping ==
  ASSUME SessionInv, SessionInv', OneSlot, OneSlot', KeepingInv, Step, Bound, Remembered
  PROVE  KeepingInv'
<1> USE AgentSessionsAssumption DEF KeepingInv
<1>0. PlacesOK /\ PlacesOK' /\ SessionsOK /\ SessionsOK'
  BY DEF SessionInv
<1>1. Displaces /\ Opens /\ Turns' /\ KeepsHome
  BY StepPlaces, StepOpens, StepTurns
<1>2. Rivalled' \subseteq contested'
  BY DEF Remembered
<1>3. Senders'
  BY StepSenders
<1>4. cards' \ unleased' \subseteq connectionLeases'
  BY StepLeases
<1>5. Orphans'
  <2> SUFFICES ASSUME NEW r \in adopting'
               PROVE  r.slot \notin open' /\ r.slot # r.window /\ (r.agent \in live' => sender'[r.agent] = r.slot)
    BY DEF Orphans
  <2>1. CASE r \notin adopting
    <3>1. r.slot \in Windows \ open' /\ connections'[r.slot] = r.agent /\ r.slot # r.window
      BY <2>1, <1>1 DEF Opens
    <3> QED
      BY <3>1, <1>3 DEF Senders
  <2>2. CASE r \in adopting
    <3>1. r.slot \notin open' /\ r.slot # r.window
      BY <2>2, <1>1 DEF Opens, Orphans
    <3>2. ASSUME r.agent \in live' PROVE sender'[r.agent] = r.slot
      <4>1. r.agent \in live
        BY <3>2, <1>0, <1>1 DEF Displaces, OneSlot, SessionsOK
      <4>2. \A v \in Windows : r.agent \in {connections'[v], connectTasks'[v]}
                => r.agent \in {connections[v], connectTasks[v]}
        BY <2>2, <3>2, <4>1, <1>1 DEF Displaces, OneSlot
      <4>3. sender'[r.agent] = sender[r.agent]
        BY <3>2, <4>1, <4>2, SenderStays
      <4> QED
        BY <2>2, <4>1, <4>3 DEF Orphans
    <3> QED
      BY <3>1, <3>2
  <2> QED
    BY <2>1, <2>2
<1>6. Homes'
  <2> SUFFICES ASSUME NEW a \in live', session'[a].home \in open'
               PROVE  sender'[a] = session'[a].home
    BY DEF Homes
  <2> DEFINE h == session'[a].home
  <2>1. h \in Windows /\ a \in Agents
    BY <1>0 DEF PlacesOK, SessionsOK
  <2>2. a \in live
    BY <2>1, <1>0, <1>1 DEF Displaces, Idle
  <2>3. CASE connections[h] = a /\ UNCHANGED connections
    BY <2>1, <2>3, <1>3 DEF Senders
  <2>4. CASE h = session[a].home
    <3>1. h \in open /\ sender[a] = h
      BY <2>1, <2>2, <2>4, <1>1 DEF Opens, Homes
    <3>2. a # move.agent
      BY <2>1, <2>4, <1>0 DEF Turns
    <3>3. \A r \in adopting : a # r.agent
      BY <2>2, <3>1 DEF Orphans
    <3>4. sender'[a] = sender[a]
      BY <2>2, <3>2, <3>3, <1>1, SenderStays DEF Displaces
    <3> QED
      BY <3>1, <3>4
  <2> QED
    BY <2>1, <2>3, <2>4, <1>1 DEF KeepsHome
<1>7. NoAgentLost'
  <2> SUFFICES ASSUME NEW a \in live', a \notin contested' PROVE Placed(a)'
    BY DEF NoAgentLost, Placed
  <2>1. CASE a \notin live
    BY <2>1, <1>1 DEF Displaces, Placed
  <2>2. CASE a \in contested
    BY <2>2 DEF Remembered, IsConnected, IsConnecting, Placed
  <2>3. CASE a \in live \ contested
    <3>1. PICK w \in Windows : a \in {connections[w], connectTasks[w]}
      BY <2>3 DEF NoAgentLost
    <3>2. a \in Claims(w)
      BY <3>1, <2>3, <1>0 DEF Claims, SessionsOK
    <3>3. Claims(w) = {a}
      BY <2>3, <3>2 DEF Rivalled
    <3> QED
      BY <2>3, <3>1, <3>3, <1>1 DEF Displaces
  <2> QED
    BY <2>1, <2>2, <2>3
<1> QED
  BY <1>1, <1>2, <1>3, <1>4, <1>5, <1>6, <1>7

(* What keeps agents in their slots holds.                                   *)
THEOREM KeepingInvariant == Spec => []KeepingInv
<1>1. Init => KeepingInv
  BY DEF Init, KeepingInv, Senders, Orphans, Homes, Turns, NoAgentLost, Rivalled, NoMove, Idle
<1>2. SessionInv /\ SessionInv' /\ OneSlot /\ OneSlot' /\ KeepingInv /\ [Next]_vars => KeepingInv'
  <2>1. KeepingInv /\ UNCHANGED vars => KeepingInv'
    BY DEF vars, windows, slots, keeping, moves, history, KeepingInv, Senders, Orphans, Homes, Turns, NoAgentLost,
       Rivalled, Claims, projectMoves
  <2> QED
    BY <2>1, NextKeeping DEF Next
<1> QED
  BY <1>1, <1>2, SessionInvariant, OneSlotInvariant, PTL DEF Spec

(* Every agent that runs and that no other replaced, or is about to, is in a    *)
(* slot or being connected to one, whatever overlaps (acp:connect, acp:status,  *)
(* transferAcpProject, electron/ipc/acpHandler.cjs).                         *)
THEOREM NoAgentIsLost == Spec => []NoAgentLost
<1>1. KeepingInv => NoAgentLost
  BY DEF KeepingInv
<1> QED
  BY <1>1, KeepingInvariant, PTL

(* The window that sent the prompt of a turn has its agent until the turn ends, *)
(* whatever moves and adoptions come in between, unless another agent had or    *)
(* claimed the slot too.                                                     *)
THEOREM TurnsKeepTheirHome == Spec => []TurnsReportHome
<1>1. SessionInv /\ KeepingInv => TurnsReportHome
  <2> SUFFICES ASSUME SessionInv, KeepingInv, NEW a \in live \ contested, session[a].home \in open
               PROVE  connections[session[a].home] = a
    BY DEF TurnsReportHome
  <2>1. PICK w \in Windows : a \in {connections[w], connectTasks[w]}
    BY DEF KeepingInv, NoAgentLost
  <2>2. w = session[a].home
    BY <2>1 DEF KeepingInv, Senders, Homes
  <2>3. a # None /\ session[a].home # None /\ a \in Agents
    BY AgentSessionsAssumption DEF SessionInv, PlacesOK, SessionsOK
  <2>4. connectTasks[w] # a
    BY <2>3 DEF KeepingInv, Turns
  <2> QED
    BY <2>1, <2>2, <2>4
<1> QED
  BY <1>1, SessionInvariant, KeepingInvariant, PTL

(* A mounted card has its agent leased, through handshakes, adoptions and       *)
(* moves that overlap, unless main dropped or took away its lease.            *)
THEOREM CardsStayWarm == Spec => []CardsKeepAgents
<1>1. KeepingInv => CardsKeepAgents
  BY DEF KeepingInv, CardsKeepAgents
<1> QED
  BY <1>1, KeepingInvariant, PTL

-----------------------------------------------------------------------------
(* What lets every agent that nobody needs go in the end.                    *)
(* The slot of a closed window has no agent to park: none that lives, one      *)
(* that is stranded there, or one that a move is about to take back.          *)
Gone(w) ==
    /\ w \notin open
    /\ \/ connections[w] \notin live \ stranded
       \/ WithTarget /\ w = move.to /\ connections[w] = move.agent

(* Timers and leases see to every agent that no card shows; what is in the     *)
(* target of a move without an agent does not depend on the card, which a     *)
(* rollback takes away.                                                      *)
Timed(w) == w \in idleTimers \/ w \in connectionLeases \cap open \/ Gone(w)
SeenTo ==
    /\ \A w \in Windows : connections[w] \in live \ stranded => w \in cards \/ Timed(w)
    /\ move # NoMove /\ move.agent = None /\ connections[move.to] \in live \ stranded => Timed(move.to)

(* A timer that gives way to a lease leaves a lease that will be dropped.      *)
LeasedTimers == \A w \in idleTimers \cap connectionLeases : w \in open \/ Gone(w)

(* Every agent has a timer or somebody: inductive.                           *)
IdleInv == SeenTo /\ LeasedTimers

(* Where the windows, the slots and the timers stay as they are, it is enough  *)
(* that no agent starts.                                                     *)
LEMMA StillSeen ==
  ASSUME SessionInv, IdleInv,
         UNCHANGED <<open, cards, connections, keeping, stranded>>, live' \subseteq live,
         \/ move' = move
         \/ move # NoMove /\ move'.agent = move.agent /\ move'.to = move.to /\ (WithTarget' <=> WithTarget)
         \/ ~WithTarget /\ move' = NoMove
  PROVE  IdleInv'
<1> USE AgentSessionsAssumption DEF IdleInv
<1>0. PlacesOK /\ SessionsOK
  BY DEF SessionInv
<1>1. \A w \in Windows : Gone(w) => Gone(w)'
  BY <1>0 DEF Gone, WithTarget, NoMove
<1>2. \A w \in Windows : Timed(w) => Timed(w)'
  BY <1>1 DEF Timed, keeping
<1>3. SeenTo'
  BY <1>0, <1>2 DEF SeenTo, PlacesOK, NoMove
<1>4. LeasedTimers'
  BY <1>0, <1>1 DEF LeasedTimers, keeping, PlacesOK
<1> QED
  BY <1>3, <1>4

(* A slot may lose its lease and its timer once it is empty, or its agent is    *)
(* stranded, timed still, or a card's that moves.                            *)
LEMMA Emptied ==
  ASSUME SessionInv, IdleInv, NEW w \in Windows,
         UNCHANGED <<open, cards, move>>, live' \subseteq live, stranded \subseteq stranded',
         \A v \in Windows \ {w} : connections'[v] = connections[v],
         connections'[w] \in {connections[w], None},
         connectionLeases \ {w} \subseteq connectionLeases', connectionLeases' \subseteq connectionLeases,
         idleTimers' = idleTimers \ {w},
         connections'[w] \in live' \ stranded' => Timed(w)' \/ (w \in cards /\ move.agent # None)
  PROVE  IdleInv'
<1> USE AgentSessionsAssumption DEF IdleInv
<1>0. PlacesOK /\ SessionsOK
  BY DEF SessionInv
<1>1. \A v \in Windows : Gone(v) => Gone(v)'
  BY <1>0 DEF Gone, WithTarget, SessionsOK
<1>2. \A v \in Windows \ {w} : Timed(v) => Timed(v)'
  BY <1>1 DEF Timed
<1>3. SeenTo'
  BY <1>0, <1>2 DEF SeenTo, Timed, PlacesOK, SessionsOK
<1>4. LeasedTimers'
  BY <1>0, <1>1 DEF LeasedTimers, PlacesOK
<1> QED
  BY <1>3, <1>4

LEMMA StepSeen == ASSUME SessionInv, SessionInv', OneSlot, Orphans, IdleInv, Step PROVE IdleInv'
<1> USE AgentSessionsAssumption DEF IdleInv
<1>0. PlacesOK /\ PlacesOK' /\ SessionsOK /\ SessionsOK'
  BY DEF SessionInv

<1>1. ASSUME NEW w \in Windows, OpenWindow(w) PROVE IdleInv'
  <2>1. /\ w \notin open /\ open' = open \cup {w} /\ connections[w] = None /\ Dropped(w)
        /\ w \notin {move.from, move.to}
        /\ UNCHANGED <<cards, connections, move, live, stranded>>
    BY <1>1 DEF OpenWindow, slots, moves, history, projectMoves
  <2>2. \A v \in Windows \ {w} : (Gone(v)' <=> Gone(v)) /\ (Timed(v)' <=> Timed(v))
    BY <2>1 DEF Gone, Timed, WithTarget, Dropped
  <2>3. SeenTo'
    BY <2>1, <2>2, <1>0 DEF SeenTo, SessionsOK, PlacesOK
  <2>4. LeasedTimers'
    BY <2>1, <2>2, <1>0 DEF LeasedTimers, Dropped, PlacesOK
  <2> QED
    BY <2>3, <2>4
<1>2. ASSUME NEW w \in Windows, Mount(w) \/ Unmount(w) PROVE IdleInv'
  <2>1. /\ w \in open /\ UNCHANGED <<open, connections, move, live, stranded>>
        /\ (Leased(w) /\ cards' = cards \cup {w}) \/ (Unleased(w) /\ cards' = cards \ {w})
    <3>1. CASE Mount(w)
      BY <3>1, <1>0 DEF Mount, slots, moves, PlacesOK
    <3>2. CASE Unmount(w)
      BY <3>2, <1>0 DEF Unmount, slots, moves, PlacesOK
    <3> QED
      BY <1>2, <3>1, <3>2
  <2>2. \A v \in Windows : (Gone(v)' <=> Gone(v)) /\ (Timed(v) => Timed(v)')
    BY <2>1 DEF Gone, Timed, WithTarget, Leased, Unleased
  <2>3. Timed(w)'
    BY <2>1 DEF Timed, Leased, Unleased
  <2>4. SeenTo'
    BY <2>1, <2>2, <2>3, <1>0 DEF SeenTo, PlacesOK
  <2>5. LeasedTimers'
    BY <2>1, <2>2, <1>0 DEF LeasedTimers, Leased, Unleased, PlacesOK
  <2> QED
    BY <2>4, <2>5
<1>3. ASSUME NEW w \in Windows, Destroy(w) PROVE IdleInv'
  <2>1. /\ w \in open /\ open' = open \ {w} /\ cards' = cards \ {w} /\ live' \subseteq live
        /\ UNCHANGED <<connections, move, stranded>>
        /\ (connections[w] = None /\ UNCHANGED keeping) \/ Unleased(w)
    BY <1>3 DEF Destroy, EndAndCancel, slots, moves
  <2>2. \A v \in Windows : Gone(v) => Gone(v)'
    BY <2>1 DEF Gone, WithTarget
  <2>3. \A v \in Windows \ {w} : Timed(v) => Timed(v)'
    BY <2>1, <2>2 DEF Timed, Unleased, keeping
  <2>4. connections[w] # None => Timed(w)'
    BY <2>1 DEF Timed, Unleased
  <2>5. SeenTo'
    BY <2>1, <2>3, <2>4, <1>0 DEF SeenTo, SessionsOK, PlacesOK
  <2>6. connections[w] = None => Gone(w)'
    BY <2>1, <1>0 DEF Gone, SessionsOK
  <2>7. LeasedTimers'
    BY <2>1, <2>2, <2>6, <1>0 DEF LeasedTimers, Unleased, keeping, PlacesOK
  <2> QED
    BY <2>5, <2>7
<1>4. ASSUME NEW w \in Windows, Connected(w) PROVE IdleInv'
  <2>1. CASE w \in open
    <3>1. /\ \A v \in Windows \ {w} : connections'[v] = connections[v]
          /\ UNCHANGED <<open, cards, connectionLeases, move, live, stranded>>
          /\ idleTimers' = IF w \in connectionLeases THEN idleTimers ELSE idleTimers \cup {w}
      BY <1>4, <2>1, <1>0 DEF Connected, windows, moves, history, PlacesOK
    <3>2. \A v \in Windows \ {w} : (Gone(v)' <=> Gone(v)) /\ (Timed(v) => Timed(v)')
      BY <2>1, <3>1 DEF Gone, Timed, WithTarget
    <3>3. Timed(w)'
      BY <2>1, <3>1 DEF Timed
    <3>4. SeenTo'
      BY <3>1, <3>2, <3>3, <1>0 DEF SeenTo, PlacesOK
    <3>5. LeasedTimers'
      BY <2>1, <3>1, <3>2, <1>0 DEF LeasedTimers, PlacesOK
    <3> QED
      BY <3>4, <3>5
  <2>2. CASE w \notin open
    BY <1>4, <2>2, StillSeen DEF Connected, End, windows, moves, history, keeping
  <2> QED
    BY <2>1, <2>2
<1>5. ASSUME NEW w \in Windows, Disconnect(w) PROVE IdleInv'
  <2>1. /\ w \in cards /\ w \in open /\ Dropped(w) /\ live' \subseteq live
        /\ UNCHANGED <<open, cards, move, stranded>>
        /\ \A v \in Windows \ {w} : connections'[v] = connections[v]
        /\ connections'[w] \in {connections[w], None}
        /\ connections[w] \notin terminalOwnerMoves => connections'[w] = None
    BY <1>5, <1>0 DEF Disconnect, End, windows, moves, PlacesOK
  <2>2. \A r \in adopting : r.agent # connections[w]
    BY <2>1 DEF OneSlot, Orphans
  <2>3. connections'[w] # None => connections[w] = move.agent /\ move.agent # None
    BY <2>1, <2>2 DEF terminalOwnerMoves
  <2>4. connections'[w] \in live' => w \in cards /\ move.agent # None
    BY <2>1, <2>3, <1>0 DEF SessionsOK
  <2> QED
    BY <2>1, <2>4, Emptied DEF Dropped
<1>6. ASSUME NEW w \in Windows, IdlePark(w) PROVE IdleInv'
  <2>1. /\ w \in idleTimers /\ idleTimers' = idleTimers \ {w} /\ live' \subseteq live
        /\ UNCHANGED <<open, cards, move, stranded, connectionLeases>>
        /\ \A v \in Windows \ {w} : connections'[v] = connections[v]
        /\ connections'[w] \in {connections[w], None}
        /\ connections'[w] \in live => w \in connectionLeases
    BY <1>6, <1>0 DEF IdlePark, End, windows, moves, history, PlacesOK, SessionsOK
  <2>2. Gone(w) => Gone(w)'
    BY <2>1, <1>0 DEF Gone, WithTarget, SessionsOK
  <2>3. connections'[w] \in live => Timed(w)'
    BY <2>1, <2>2 DEF LeasedTimers, Timed
  <2> QED
    BY <2>1, <2>3, Emptied
<1>7. ASSUME NEW w \in Windows, NEW f \in BOOLEAN, Connect(w, f) \/ ConnectWaited(w, f) PROVE IdleInv'
  <2>1. UNCHANGED <<windows, keeping, moves>>
        /\ (ConnectNow(w, f) \/ UNCHANGED <<connections, connectTasks, live, session, stranded>>)
    BY <1>7 DEF Connect, ConnectWaited
  <2>2. CASE UNCHANGED <<connections, connectTasks, live, session, stranded>>
    BY <2>1, <2>2, StillSeen DEF windows, moves
  <2>3. CASE \E a \in Unused : /\ connections' = [connections EXCEPT ![w] = None]
                               /\ live' = (live \ {connections[w]}) \cup {a}
                               /\ stranded' = stranded \ {a}
    <3>1. PICK a \in Unused : /\ connections' = [connections EXCEPT ![w] = None]
                              /\ live' = (live \ {connections[w]}) \cup {a}
                              /\ stranded' = stranded \ {a}
      BY <2>3
    <3>2. a \in Agents \ live /\ a # move.agent /\ \A v \in Windows : connections[v] # a
      BY <3>1 DEF Unused, Named, terminalOwnerMoves
    <3>3. \A v \in Windows : connections'[v] = IF v = w THEN None ELSE connections[v]
      BY <3>1, <1>0 DEF PlacesOK
    <3>4. UNCHANGED <<open, cards, connectionLeases, idleTimers, move>>
      BY <2>1 DEF windows, keeping, moves
    <3>5. \A v \in Windows : Gone(v) => Gone(v)'
      BY <3>1, <3>2, <3>3, <3>4, <1>0 DEF Gone, WithTarget, SessionsOK
    <3>6. \A v \in Windows : Timed(v) => Timed(v)'
      BY <3>4, <3>5 DEF Timed
    <3>7. \A v \in Windows : connections'[v] \in live' \ stranded' => connections[v] \in live \ stranded
      BY <3>1, <3>2, <3>3, <1>0 DEF SessionsOK
    <3>8. SeenTo'
      BY <3>4, <3>6, <3>7, <1>0 DEF SeenTo, PlacesOK
    <3>9. LeasedTimers'
      BY <3>4, <3>5, <1>0 DEF LeasedTimers, PlacesOK
    <3> QED
      BY <3>8, <3>9
  <2> QED
    BY <2>1, <2>2, <2>3 DEF ConnectNow
<1>8. ASSUME NEW w \in Windows, NEW to \in Windows, StartMove(w, to) PROVE IdleInv'
  <2>1. /\ move'.to = to /\ move'.agent = connections[w]
        /\ move'.stage = (IF connections[w] = None THEN "applied" ELSE "handover")
        /\ UNCHANGED <<open, cards, connections, connectionLeases, idleTimers, live, stranded>>
        /\ move = NoMove /\ to \notin cards
    BY <1>8, <1>0 DEF StartMove, windows, slots, keeping, history, PlacesOK
  <2>2. \A v \in Windows : (Gone(v) => Gone(v)') /\ (Timed(v) => Timed(v)')
    BY <2>1 DEF Gone, Timed, WithTarget, NoMove
  <2>3. SeenTo'
    BY <2>1, <2>2, <1>0 DEF SeenTo, PlacesOK
  <2>4. LeasedTimers'
    BY <2>1, <2>2, <1>0 DEF LeasedTimers, PlacesOK
  <2> QED
    BY <2>3, <2>4
<1>9. ASSUME NEW a \in Agents, CancelTimeout(a) PROVE IdleInv'
  <2>0. PICK w : session[a].watchdog = w
    OBVIOUS
  <2>1. /\ w \in Windows /\ Dropped(w) /\ live' \subseteq live
        /\ UNCHANGED <<open, cards, move>>
        /\ \A v \in Windows \ {w} : connections'[v] = connections[v]
        /\ connections'[w] \in {connections[w], None}
        /\ stranded' = stranded \cup ({connections'[w]} \ {None})
    BY <1>9, <2>0, <1>0 DEF CancelTimeout, End, windows, moves, PlacesOK, SessionsOK, Session
  <2>2. connections'[w] \notin live' \ stranded'
    BY <2>1, <1>0 DEF SessionsOK
  <2> QED
    BY <2>1, <2>2, Emptied DEF Dropped
<1>10. ASSUME NEW r \in adopting, Adopted(r) PROVE IdleInv'
  <2>0. PICK w, k, a : r.window = w /\ r.slot = k /\ r.agent = a
    OBVIOUS
  <2>1. /\ k \in Windows \ open /\ w \in Windows /\ k # w /\ a \in Agents /\ a # move.agent
        /\ UNCHANGED <<open, cards, move, live>>
    BY <1>10, <2>0, <1>0 DEF Adopted, windows, Orphans, OneSlot, Adoptions, PlacesOK
  <2>2. /\ connectionLeases' = (connectionLeases \ {k}) \cup IF k \in connectionLeases THEN {w} ELSE {}
        /\ idleTimers' = (idleTimers \ {k}) \cup IF w \in connectionLeases' THEN {} ELSE {w}
        /\ stranded' = IF w \in open THEN stranded \ {a} ELSE stranded \cup {a}
        /\ \A v \in Windows : connections'[v] = IF v = w THEN a ELSE IF v = k THEN None ELSE connections[v]
    BY <1>10, <2>0, <2>1, <1>0 DEF Adopted, PlacesOK
  <2>3. \A v \in Windows \ {w, k} : connections[v] # a
    BY <2>0, <2>1 DEF OneSlot
  <2>4. \A v \in Windows \ {w} : Gone(v) => Gone(v)'
    BY <2>1, <2>2, <2>3, <1>0 DEF Gone, WithTarget, SessionsOK
  <2>5. Gone(k)' /\ (w \notin open => Gone(w)')
    <3>1. connections'[k] = None /\ None \notin live'
      BY <2>1, <2>2, <1>0 DEF SessionsOK
    <3>2. connections'[w] = a /\ (w \notin open => a \in stranded')
      BY <2>1, <2>2
    <3> QED
      BY <2>1, <3>1, <3>2 DEF Gone
  <2>6. \A v \in Windows \ {w, k} : Timed(v) => Timed(v)'
    BY <2>1, <2>2, <2>4 DEF Timed
  <2>7. Timed(w)' /\ Timed(k)'
    BY <2>1, <2>2, <2>5 DEF Timed
  <2>8. SeenTo'
    BY <2>1, <2>2, <2>3, <2>6, <2>7, <1>0 DEF SeenTo, PlacesOK
  <2>9. LeasedTimers'
    BY <2>1, <2>2, <2>4, <2>5, <1>0 DEF LeasedTimers, PlacesOK
  <2> QED
    BY <2>8, <2>9
<1>11. ASSUME HandedOver PROVE IdleInv'
  <2>1. /\ move.stage = "handover" /\ move # NoMove /\ ~WithTarget /\ move.agent # None
        /\ move.from \in Windows /\ move.to \in Windows /\ move.from # move.to
        /\ UNCHANGED <<open, cards, live, stranded>>
    BY <1>11, <1>0 DEF HandedOver, windows, PlacesOK, NoMove, WithTarget
  <2>2. CASE UNCHANGED <<connections, keeping>> /\ move' = [move EXCEPT !.stage = "returning"]
    <3>1. move'.agent = move.agent /\ move'.to = move.to /\ ~WithTarget'
      BY <2>2, <1>0 DEF PlacesOK, WithTarget
    <3> QED
      BY <2>1, <2>2, <3>1, StillSeen
  <2>3. CASE Apply(move.from, move.to) /\ move' = [move EXCEPT !.stage = "applied"]
             /\ connections[move.from] = move.agent
    <3>0. PICK u, k : u = move.to /\ k = move.from
      OBVIOUS
    <3>1. move'.agent = move.agent /\ move'.to = move.to /\ WithTarget'
      BY <2>3, <1>0 DEF PlacesOK, WithTarget
    <3>2. /\ connectionLeases' = (connectionLeases \ {k}) \cup IF k \in connectionLeases THEN {u} ELSE {}
          /\ idleTimers' = (idleTimers \ {k, u}) \cup IF k \in connectionLeases THEN {} ELSE {u}
          /\ \A v \in Windows : connections'[v] = IF v = u THEN move.agent
                                                  ELSE IF v = k THEN None ELSE connections[v]
      BY <2>1, <2>3, <3>0, <1>0 DEF Apply, PlacesOK
    <3>3. \A v \in Windows : Gone(v) => Gone(v)'
      BY <2>1, <3>0, <3>1, <3>2, <1>0 DEF Gone, SessionsOK
    <3>4. \A v \in Windows \ {k, u} : Timed(v) => Timed(v)'
      BY <2>1, <3>2, <3>3 DEF Timed
    <3>5. u \notin open => Gone(u)'
      BY <2>1, <3>0, <3>1, <3>2 DEF Gone
    <3>6. Timed(u)'
      BY <2>1, <3>2, <3>5 DEF Timed
    <3>7. SeenTo'
      BY <2>1, <3>0, <3>1, <3>2, <3>4, <3>6, <1>0 DEF SeenTo, SessionsOK
    <3>8. LeasedTimers'
      BY <2>1, <3>0, <3>2, <3>3, <3>5, <1>0 DEF LeasedTimers, PlacesOK
    <3> QED
      BY <3>7, <3>8
  <2> QED
    BY <1>11, <2>2, <2>3 DEF HandedOver
<1>12. ASSUME HandoverFails \/ Returned PROVE IdleInv'
  <2>1. ~WithTarget /\ move' = NoMove /\ UNCHANGED <<windows, slots, keeping, live, history>>
    BY <1>12 DEF HandoverFails, Returned, WithTarget
  <2> QED
    BY <2>1, StillSeen DEF windows, slots, history
<1>13. ASSUME Commit PROVE IdleInv'
  <2>0. PICK u : u = move.from
    OBVIOUS
  <2>1. /\ move' = NoMove /\ move # NoMove /\ move.to \in open /\ u \in Windows
        /\ cards' = cards \ {u}
        /\ IF u \in cards THEN Unleased(u) ELSE UNCHANGED keeping
        /\ UNCHANGED <<open, connections, live, stranded>>
    BY <1>13, <2>0, <1>0 DEF Commit, slots, PlacesOK, NoMove
  <2>2. \A v \in Windows : Gone(v) => Gone(v)'
    BY <2>1 DEF Gone
  <2>3. \A v \in Windows : Timed(v) => Timed(v)'
    BY <2>1, <2>2, <1>0 DEF Timed, Unleased, keeping, PlacesOK
  <2>4. u \in cards => Timed(u)'
    BY <2>1 DEF Timed, Unleased
  <2>5. SeenTo'
    BY <2>1, <2>3, <2>4 DEF SeenTo
  <2>6. LeasedTimers'
    BY <2>1, <2>2, <1>0 DEF LeasedTimers, Unleased, keeping, PlacesOK
  <2> QED
    BY <2>5, <2>6
<1>14. ASSUME Disposed, TargetDrops, move' = NoMove, UNCHANGED open,
              move # NoMove, move.to \in Windows
       PROVE  IdleInv'
  <2>0. PICK u : u = move.to
    OBVIOUS
  <2>1. /\ Dropped(u) /\ live' \subseteq live /\ cards' = cards \ {u} /\ move.agent \notin live'
        /\ \A v \in Windows \ {u} : connections'[v] = connections[v]
        /\ stranded' = stranded \cup ({connections'[u]} \ {None})
    BY <1>14, <2>0, <1>0 DEF Disposed, End, TargetDrops, PlacesOK
  <2>2. connections'[u] \notin live' \ stranded'
    BY <2>1, <1>0 DEF SessionsOK
  <2>3. \A v \in Windows : Gone(v) => Gone(v)'
    BY <1>14, <2>0, <2>1, <2>2 DEF Gone
  <2>4. \A v \in Windows \ {u} : Timed(v) => Timed(v)'
    BY <1>14, <2>1, <2>3 DEF Timed, Dropped
  <2>5. SeenTo'
    BY <1>14, <2>0, <2>1, <2>2, <2>4, <1>0 DEF SeenTo
  <2>6. LeasedTimers'
    BY <1>14, <2>1, <2>3, <1>0 DEF LeasedTimers, Dropped, PlacesOK
  <2> QED
    BY <2>5, <2>6
<1>15. ASSUME Rollback PROVE IdleInv'
  <2>1. move # NoMove /\ move.to \in Windows /\ WithTarget
    BY <1>15, <1>0 DEF Rollback, PlacesOK, NoMove, WithTarget
  <2>2. CASE Disposed /\ TargetDrops /\ move' = NoMove
    BY <1>15, <2>1, <2>2, <1>14 DEF Rollback
  <2>3. CASE move' = [move EXCEPT !.stage = "rollback"] /\ UNCHANGED <<connections, keeping, stranded, live, cards>>
    <3>1. WithTarget' /\ move'.agent = move.agent /\ move'.to = move.to
      BY <2>3, <1>0 DEF PlacesOK, WithTarget
    <3> QED
      BY <1>15, <2>1, <2>3, <3>1, StillSeen DEF Rollback
  <2> QED
    BY <1>15, <2>2, <2>3 DEF Rollback
<1>16. ASSUME RollbackFails PROVE IdleInv'
  BY <1>16, <1>0, <1>14 DEF RollbackFails, PlacesOK, NoMove
<1>17. ASSUME RollbackEmpty PROVE IdleInv'
  <2>1. /\ move # NoMove /\ move.agent = None /\ move.to \in Windows /\ move' = NoMove
        /\ cards' = cards \ {move.to} /\ UNCHANGED <<open, connections, keeping, live, stranded>>
    BY <1>17, <1>0 DEF RollbackEmpty, TargetDrops, slots, PlacesOK, NoMove
  <2>2. \A v \in Windows : Gone(v) => Gone(v)'
    BY <2>1, <1>0 DEF Gone, SessionsOK
  <2>3. \A v \in Windows : Timed(v) => Timed(v)'
    BY <2>1, <2>2 DEF Timed, keeping
  <2>4. SeenTo'
    BY <2>1, <2>3 DEF SeenTo
  <2>5. LeasedTimers'
    BY <2>1, <2>2, <1>0 DEF LeasedTimers, keeping, PlacesOK
  <2> QED
    BY <2>4, <2>5
<1>18. ASSUME RolledBack PROVE IdleInv'
  <2>0. PICK u, k : u = move.from /\ k = move.to
    OBVIOUS
  <2>1. /\ move # NoMove /\ move' = NoMove /\ Apply(k, u) /\ move.agent # None
        /\ u \in Windows /\ k \in Windows /\ u # k
        /\ cards' = cards \ {k} /\ UNCHANGED <<open, live>>
        /\ stranded' = IF u \in open THEN stranded ELSE stranded \cup {move.agent}
    BY <1>18, <2>0, <1>0 DEF RolledBack, TargetDrops, PlacesOK, NoMove
  <2>2. /\ connectionLeases' = (connectionLeases \ {k}) \cup IF k \in connectionLeases THEN {u} ELSE {}
        /\ idleTimers' = (idleTimers \ {k, u}) \cup IF k \in connectionLeases THEN {} ELSE {u}
        /\ \A v \in Windows : connections'[v] = IF v = u THEN move.agent
                                                ELSE IF v = k THEN None ELSE connections[v]
    BY <2>1, <1>0 DEF Apply, PlacesOK
  <2>3. \A v \in Windows \ {u} : Gone(v) => Gone(v)'
    BY <2>0, <2>1, <2>2, <1>0 DEF Gone, SessionsOK
  <2>4. u \notin open => Gone(u)'
    BY <2>1, <2>2 DEF Gone
  <2>5. \A v \in Windows \ {u, k} : Timed(v) => Timed(v)'
    BY <2>1, <2>2, <2>3 DEF Timed
  <2>6. Timed(u)'
    BY <2>1, <2>2, <2>4 DEF Timed
  <2>7. SeenTo'
    BY <2>1, <2>2, <2>5, <2>6, <1>0 DEF SeenTo, SessionsOK
  <2>8. LeasedTimers'
    BY <2>1, <2>2, <2>3, <2>4, <1>0 DEF LeasedTimers, PlacesOK
  <2> QED
    BY <2>7, <2>8
<1>19. ASSUME NEW w \in Windows, WindowStep(w) PROVE IdleInv'
  <2>1. CASE OpenProject(w) \/ ConnectFails(w) \/ \E a \in Agents : StartAdopting(w, a)
    BY <2>1, StillSeen DEF OpenProject, ConnectFails, End, StartAdopting, windows, slots, moves, history
  <2> QED
    BY <1>19, <2>1, <1>1, <1>2, <1>3, <1>4, <1>5, <1>6, <1>7, <1>8 DEF WindowStep
<1>20. ASSUME NEW a \in Agents, AgentStep(a) PROVE IdleInv'
  <2>1. CASE Exit(a)
    BY <2>1, StillSeen DEF Exit, End, windows, slots, moves, history
  <2>2. ASSUME NEW s, InSession(a, s) PROVE IdleInv'
    BY <2>2, StillSeen DEF InSession, windows, slots, moves
  <2> QED
    BY <1>20, <2>1, <2>2, <1>9 DEF AgentStep, PromptAnswered, SteerAnswered, FlushTimer, Ask, AllowAtOnce,
       Respond, Prompt, Steer, Cancel
<1>21. ASSUME MoveStep PROVE IdleInv'
  <2>1. CASE TargetShows
    BY <2>1, StillSeen DEF TargetShows, slots, moves, history
  <2> QED
    BY <1>21, <2>1, <1>11, <1>12, <1>13, <1>15, <1>16, <1>17, <1>18 DEF MoveStep
<1>22. ASSUME NEW r \in adopting, AdoptionFails(r) PROVE IdleInv'
  BY <1>22, StillSeen DEF AdoptionFails, windows, slots, history
<1>23. CASE \E w \in Waited, f \in BOOLEAN : ConnectWaited(w, f)
  <2>1. PICK w \in Waited, f \in BOOLEAN : ConnectWaited(w, f)
    BY <1>23
  <2>2. w \in Windows
    BY <2>1, <1>0 DEF ConnectWaited, PlacesOK
  <2> QED
    BY <2>1, <2>2, <1>7
<1>24. CASE Others
  BY <1>24, <1>10, <1>19, <1>20, <1>21, <1>22 DEF Others, AdoptionStep
<1> QED
  BY <1>23, <1>24 DEF Step

(* What lets idle agents go holds.                                           *)
THEOREM IdleInvariant == Spec => []IdleInv
<1>1. Init => IdleInv
  BY AgentSessionsAssumption DEF Init, IdleInv, SeenTo, LeasedTimers, NoMove
<1>2. SessionInv /\ SessionInv' /\ OneSlot /\ KeepingInv /\ IdleInv /\ [Next]_vars => IdleInv'
  <2>1. SessionInv /\ IdleInv /\ UNCHANGED vars => IdleInv'
    BY StillSeen DEF vars, windows, slots, moves, history
  <2> QED
    BY <2>1, StepSeen DEF Next, KeepingInv
<1> QED
  BY <1>1, <1>2, SessionInvariant, OneSlotInvariant, KeepingInvariant, PTL DEF Spec

(* An agent that is connected is seen by a card, leased by a window that lives *)
(* or has an idle timer, whatever handshakes, moves, adoptions and crashes      *)
(* overlap, unless it is stranded (scheduleIdlePark, releaseAcpRenderer,       *)
(* electron/ipc/acpHandler.cjs).                                             *)
THEOREM IdleAgentsDoGo == Spec => []IdleAgentsGo
<1>1. IdleInv => IdleAgentsGo
  BY DEF IdleInv, SeenTo, Timed, Gone, IdleAgentsGo
<1> QED
  BY <1>1, IdleInvariant, PTL
=============================================================================
