------------------------- MODULE CompanionAccessProofs -------------------------
(***************************************************************************)
(* That access follows the device store, for any number of devices, codes and *)
(* sockets: the inductive invariant AccessInv, and what follows from it.        *)
(***************************************************************************)
EXTENDS CompanionAccess, FiniteSetTheorems, TLAPS

(* What the three parts remember of a code: the window waits for one only      *)
(* before it has stored a device and before it was told how it ended.          *)
Codes ==
    /\ devices = disk
    /\ \A o \in Offers :
          /\ offers[o] = "unseen" => record[o] = "none" /\ stored[o] = Nobody /\ told[o] = "nothing"
          /\ offers[o] = "open" => record[o] # "none"
          /\ record[o] # "none" => stored[o] = Nobody /\ told[o] = "nothing"

Begins == {"closed", "bootstrap"}
Shakes == {"message3", "key", "sas"}

(* A socket in a handshake for a code is the one the window waits for.         *)
Phones ==
    \A s \in Sockets :
        /\ socket[s].phase \in Begins => socket[s].offer = Nobody
        /\ socket[s].phase \notin Begins => socket[s].device \in Devices
        /\ socket[s].phase \in Shakes /\ socket[s].offer # Nobody =>
              /\ socket[s].grant \in Grants
              /\ record[socket[s].offer] # "none"
              /\ offers[socket[s].offer] \in {"claimed", "over"}
        /\ socket[s].phase = "sas" =>
              /\ socket[s].offer # Nobody
              /\ record[socket[s].offer] \in {"confirm", "confirmed"}

(* No two sockets are in a handshake for the same code.                       *)
Alone ==
    \A s, t \in Sockets :
        /\ socket[s].phase \in Shakes /\ socket[t].phase \in Shakes
        /\ socket[s].offer = socket[t].offer /\ socket[s].offer # Nobody
        => s = t

Truthful == "unsent" \notin Faults => ReportsAreTrue

AccessInv ==
    /\ TypeOK
    /\ Codes /\ Phones /\ Alone
    /\ RightsAreCurrent
    /\ ClientsAreCounted
    /\ Truthful

-----------------------------------------------------------------------------
(* Which sockets are counted.                                               *)
LEMMA Shaking ==
    ASSUME TypeOK
    PROVE  /\ Handshakes = {s \in Sockets : socket[s].phase \in Shakes \cup {"bootstrap"}}
           /\ Handshakes \subseteq Sockets /\ IsFiniteSet(Handshakes)
           /\ Cardinality(Handshakes) \in Nat
<1>1. \A s \in Sockets : socket[s].phase \in Shakes \cup {"bootstrap", "closed", "authenticated"}
  BY DEF TypeOK, Socket, Shakes
<1>2. Handshakes = {s \in Sockets : socket[s].phase \in Shakes \cup {"bootstrap"}}
  BY <1>1 DEF Handshakes, Authenticated, In, Shakes
<1>3. Handshakes \subseteq Sockets
  BY DEF Handshakes
<1>4. IsFiniteSet(Handshakes)
  BY <1>3, FS_Subset, CompanionAccessAssumption
<1>5. QED
  BY <1>2, <1>3, <1>4, FS_CardinalityType

LEMMA ShakingNext ==
    ASSUME socket' \in [Sockets -> Socket]
    PROVE  Handshakes' = {s \in Sockets : socket'[s].phase \in Shakes \cup {"bootstrap"}}
<1>1. \A s \in Sockets : socket'[s].phase \in Shakes \cup {"bootstrap", "closed", "authenticated"}
  BY DEF Socket, Shakes
<1>2. QED
  BY <1>1 DEF Handshakes, Authenticated, In, Shakes

LEMMA ClosedSocket == Closed \in Socket /\ Closed.phase = "closed" /\ Closed.offer = Nobody
BY DEF Closed, Socket

(* Closing sockets keeps the count.                                          *)
LEMMA ClosesCounted ==
    ASSUME TypeOK, ClientsAreCounted, NEW closing \in SUBSET Sockets, Closes(closing)
    PROVE  /\ socket' \in [Sockets -> Socket]
           /\ \A s \in Sockets : socket'[s] = IF s \in closing THEN Closed ELSE socket[s]
           /\ ClientsAreCounted' /\ clients' \in 0 .. MaxUnauthenticated
<1>1. /\ socket' \in [Sockets -> Socket]
      /\ \A s \in Sockets : socket'[s] = IF s \in closing THEN Closed ELSE socket[s]
  BY ClosedSocket DEF Closes, TypeOK
<1>2. Handshakes' = Handshakes \ closing
  BY <1>1, Shaking, ShakingNext, ClosedSocket DEF Shakes
<1>3. Cardinality(Handshakes \ closing) = Cardinality(Handshakes) - Cardinality(Handshakes \cap closing)
  BY Shaking, FS_Difference
<1>4. Handshakes \cap closing = closing \cap Handshakes
  OBVIOUS
<1>5. clients' = clients - Cardinality(closing \cap Handshakes)
  BY DEF Closes
<1>6. clients' = Cardinality(Handshakes')
  BY <1>2, <1>3, <1>4, <1>5 DEF ClientsAreCounted
<1>7. Cardinality(closing \cap Handshakes) \in Nat /\ Cardinality(Handshakes \ closing) \in Nat
  BY Shaking, FS_Intersection, FS_Difference, FS_CardinalityType
<1>8. clients' \in 0 .. MaxUnauthenticated
  BY <1>2, <1>5, <1>6, <1>7, CompanionAccessAssumption DEF TypeOK
<1>9. QED
  BY <1>1, <1>6, <1>8 DEF ClientsAreCounted

(* A socket that stays in the handshake is still counted; one that leaves it   *)
(* is not.                                                                  *)
LEMMA StaysCounted ==
    ASSUME TypeOK, ClientsAreCounted, NEW s \in Sockets, NEW r \in Socket,
           socket[s].phase \in Shakes \cup {"bootstrap"}, r.phase \in Shakes,
           socket' = [socket EXCEPT ![s] = r], clients' = clients
    PROVE  ClientsAreCounted'
<1>1. socket' \in [Sockets -> Socket]
  BY DEF TypeOK
<1>2. Handshakes' = Handshakes
  BY <1>1, Shaking, ShakingNext DEF TypeOK
<1>3. QED
  BY <1>2 DEF ClientsAreCounted

LEMMA AuthenticatedCounted ==
    ASSUME TypeOK, ClientsAreCounted, NEW s \in Sockets, NEW r \in Socket,
           socket[s].phase \in Shakes, r.phase = "authenticated",
           socket' = [socket EXCEPT ![s] = r], clients' = clients - 1
    PROVE  ClientsAreCounted' /\ clients' \in 0 .. MaxUnauthenticated
<1>1. socket' \in [Sockets -> Socket]
  BY DEF TypeOK
<1>2. Handshakes' = Handshakes \ {s} /\ s \in Handshakes
  BY <1>1, Shaking, ShakingNext DEF TypeOK, Shakes
<1>3. Cardinality(Handshakes \ {s}) = Cardinality(Handshakes) - 1 /\ IsFiniteSet(Handshakes \ {s})
  BY <1>2, Shaking, FS_RemoveElement
<1>4. clients' = Cardinality(Handshakes')
  BY <1>2, <1>3 DEF ClientsAreCounted
<1>5. Cardinality(Handshakes') \in Nat
  BY <1>2, <1>3, FS_CardinalityType
<1>6. QED
  BY <1>4, <1>5, CompanionAccessAssumption DEF ClientsAreCounted, TypeOK

-----------------------------------------------------------------------------
LEMMA InitAccessInv == Init => AccessInv
<1> SUFFICES ASSUME Init PROVE AccessInv
  OBVIOUS
<1>1. socket \in [Sockets -> Socket] /\ \A s \in Sockets : socket[s] = Closed
  BY ClosedSocket DEF Init
<1>2. TypeOK
  BY <1>1, CompanionAccessAssumption DEF Init, TypeOK
<1>3. Codes
  BY DEF Init, Codes
<1>4. Phones /\ Alone
  BY <1>1, ClosedSocket DEF Phones, Alone, Begins, Shakes
<1>5. RightsAreCurrent
  BY <1>1, ClosedSocket DEF RightsAreCurrent, Authenticated, In
<1>6. Handshakes = {}
  BY <1>1, <1>2, ClosedSocket, Shaking DEF Shakes
<1>7. ClientsAreCounted
  BY <1>6, FS_EmptySet DEF Init, ClientsAreCounted
<1>8. Truthful
  BY DEF Init, Truthful, ReportsAreTrue
<1>9. QED
  BY <1>2, <1>3, <1>4, <1>5, <1>7, <1>8 DEF AccessInv

(* Sockets that close leave what the others have.                            *)
LEMMA ClosesKeeps ==
    ASSUME AccessInv, NEW closing \in SUBSET Sockets, Closes(closing), devices' = devices
    PROVE  RightsAreCurrent' /\ Alone'
<1>1. \A s \in Sockets : socket'[s] = IF s \in closing THEN Closed ELSE socket[s]
  BY ClosesCounted DEF AccessInv
<1>2. RightsAreCurrent'
  BY <1>1, ClosedSocket DEF AccessInv, RightsAreCurrent, Authenticated, In
<1>3. Alone'
  BY <1>1, ClosedSocket DEF AccessInv, Alone, Shakes
<1>4. QED
  BY <1>2, <1>3

(* Pairings whose every socket closes may end.                               *)
LEMMA EndsKeeps ==
    ASSUME AccessInv, NEW closing \in SUBSET Sockets, NEW pairings \in SUBSET Offers,
           NEW report \in {"failed", "expired", "cancelled"},
           Closes(closing), Finishes(pairings, report),
           \A s \in Sockets : socket[s].phase \in Shakes /\ socket[s].offer \in pairings => s \in closing,
           offers' \in [Offers -> {"unseen", "open", "claimed", "over"}],
           \A o \in Offers : /\ offers'[o] = "unseen" => offers[o] = "unseen"
                             /\ offers'[o] = "open" => offers[o] = "open" /\ o \notin pairings
                             /\ offers[o] \in {"claimed", "over"} => offers'[o] \in {"claimed", "over"},
           UNCHANGED <<store, stored>>, listening' \in BOOLEAN
    PROVE  AccessInv'
<1>1. /\ \A s \in Sockets : socket'[s] = IF s \in closing THEN Closed ELSE socket[s]
      /\ socket' \in [Sockets -> Socket]
      /\ ClientsAreCounted' /\ clients' \in 0 .. MaxUnauthenticated
  BY ClosesCounted DEF AccessInv
<1>2. /\ record' = [o \in Offers |-> IF o \in pairings THEN "none" ELSE record[o]]
      /\ told' = [o \in Offers |-> IF o \in pairings /\ record[o] # "none" THEN report ELSE told[o]]
  BY DEF Finishes, Pending
<1>3. TypeOK'
  BY <1>1, <1>2 DEF AccessInv, TypeOK, store
<1>4. Codes'
  BY <1>2 DEF AccessInv, Codes, store
<1>5. Phones'
  BY <1>1, <1>2, ClosedSocket DEF AccessInv, Phones, Begins, Shakes, TypeOK, Socket
<1>6. Truthful'
  BY <1>2 DEF AccessInv, Truthful, ReportsAreTrue, Codes, store
<1>7. RightsAreCurrent' /\ Alone'
  BY ClosesKeeps DEF store
<1>8. QED
  BY <1>1, <1>3, <1>4, <1>5, <1>6, <1>7 DEF AccessInv

(* A handshake fails.                                                        *)
LEMMA FailsKeeps ==
    ASSUME AccessInv, NEW s \in Sockets, Fails(s)
    PROVE  AccessInv'
<1>1. PairingOf({s}) = {socket[t].offer : t \in {s} \cap Handshakes} \cap Offers
  BY DEF PairingOf
<1>2. \A t \in Sockets : socket[t].phase \in Shakes /\ socket[t].offer \in PairingOf({s}) => t \in {s}
  BY <1>1, Shaking, CompanionAccessAssumption DEF AccessInv, Alone, Phones, Begins
<1>3. \A o \in PairingOf({s}) : offers[o] # "open"
  BY <1>1, Shaking, CompanionAccessAssumption DEF AccessInv, Phones, Begins
<1>4. /\ Closes({s}) /\ Finishes(PairingOf({s}), "failed")
      /\ UNCHANGED <<store, stored, offers, listening>>
  BY DEF Fails, Ends
<1>5. PairingOf({s}) \in SUBSET Offers /\ {s} \in SUBSET Sockets
  BY DEF PairingOf
<1>6. QED
  BY <1>2, <1>3, <1>4, <1>5, EndsKeeps DEF AccessInv, TypeOK

-----------------------------------------------------------------------------
(* A socket that goes on in its handshake.                                   *)
LEMMA GoesOnKeeps ==
    ASSUME AccessInv, NEW s \in Sockets, NEW r \in Socket,
           socket[s].phase \in Shakes \cup {"bootstrap"}, r.phase \in Shakes, r.device \in Devices,
           socket' = [socket EXCEPT ![s] = r],
           UNCHANGED <<listening, store, clients, told, stored>>,
           offers' \in [Offers -> {"unseen", "open", "claimed", "over"}],
           record' \in [Offers -> {"none", "awaiting", "confirm", "confirmed"}],
           Codes',
           \A o \in Offers : /\ record[o] # "none" => record'[o] # "none"
                             /\ record[o] \in {"confirm", "confirmed"} => record'[o] \in {"confirm", "confirmed"}
                             /\ offers[o] \in {"claimed", "over"} => offers'[o] \in {"claimed", "over"},
           r.offer # Nobody =>
               /\ r.grant \in Grants /\ record'[r.offer] # "none" /\ offers'[r.offer] \in {"claimed", "over"}
               /\ \A t \in Sockets : socket[t].phase \in Shakes /\ socket[t].offer = r.offer => t = s,
           r.phase = "sas" => r.offer # Nobody /\ record'[r.offer] \in {"confirm", "confirmed"}
    PROVE  AccessInv'
<1>1. /\ socket' \in [Sockets -> Socket]
      /\ \A t \in Sockets : socket'[t] = IF t = s THEN r ELSE socket[t]
  BY DEF AccessInv, TypeOK
<1>2. TypeOK'
  BY <1>1 DEF AccessInv, TypeOK, store
<1>3. \A t \in Sockets : socket[t] \in Socket
  BY DEF AccessInv, TypeOK
<1>4. Phones'
  BY <1>1, <1>3 DEF AccessInv, Phones, Begins, Shakes, Socket
<1>5. Alone'
  BY <1>1 DEF AccessInv, Alone
<1>6. RightsAreCurrent'
  BY <1>1 DEF AccessInv, RightsAreCurrent, Authenticated, In, Shakes, store
<1>7. ClientsAreCounted'
  BY StaysCounted DEF AccessInv
<1>8. Truthful'
  BY DEF AccessInv, Truthful, ReportsAreTrue
<1>9. QED
  BY <1>2, <1>4, <1>5, <1>6, <1>7, <1>8 DEF AccessInv

(* A code is shown.                                                         *)
LEMMA StartPairingKeeps == ASSUME AccessInv, NEW o \in Offers, StartPairing(o) PROVE AccessInv'
<1>1. TypeOK'
  BY DEF AccessInv, TypeOK, StartPairing, store
<1>2. Codes'
  BY DEF AccessInv, TypeOK, Codes, StartPairing, store
<1>3. \A s \in Sockets : socket[s] \in Socket
  BY DEF AccessInv, TypeOK
<1>4. Phones'
  <2>1. /\ socket' = socket
        /\ \A x \in Offers : x # o => offers'[x] = offers[x] /\ record'[x] = record[x]
    BY DEF AccessInv, TypeOK, StartPairing
  <2>2. \A s \in Sockets : socket[s].phase \in Shakes /\ socket[s].offer # Nobody
            => socket[s].offer \in Offers /\ socket[s].offer # o
    BY <1>3 DEF AccessInv, Phones, StartPairing, Socket
  <2>3. QED
    BY <2>1, <2>2 DEF AccessInv, Phones, Shakes
<1>5. Alone' /\ RightsAreCurrent' /\ ClientsAreCounted' /\ Truthful'
  BY DEF AccessInv, Alone, RightsAreCurrent, Authenticated, ClientsAreCounted, Handshakes, In,
         Truthful, ReportsAreTrue, StartPairing, store
<1>6. QED
  BY <1>1, <1>2, <1>4, <1>5 DEF AccessInv

(* The time of a code passes.                                               *)
LEMMA ExpireKeeps == ASSUME AccessInv, NEW o \in Offers, Expire(o) PROVE AccessInv'
<1>1. \A s \in Sockets : socket[s] \in Socket
  BY DEF AccessInv, TypeOK
<1>2. \A s \in Sockets :
          /\ socket'[s] \in Socket
          /\ socket'[s].phase = socket[s].phase /\ socket'[s].offer = socket[s].offer
          /\ socket'[s].device = socket[s].device /\ socket'[s].grant = socket[s].grant
  <2> TAKE s \in Sockets
  <2> DEFINE left == socket[s].session /\ s \notin SocketsOf(o)
  <2>1. left \in BOOLEAN
    OBVIOUS
  <2>2. socket'[s] = [socket[s] EXCEPT !.session = left]
    BY DEF Expire
  <2> HIDE DEF left
  <2>3. QED
    BY <1>1, <2>1, <2>2 DEF Socket
<1>3. socket' \in [Sockets -> Socket]
  BY <1>2 DEF Expire
<1>4. offers' = [offers EXCEPT ![o] = "over"] /\ offers[o] \in {"open", "claimed"}
  BY DEF Expire, Over
<1>5. TypeOK'
  BY <1>3, <1>4 DEF AccessInv, TypeOK, Expire, store, window
<1>6. Codes'
  BY <1>4 DEF AccessInv, TypeOK, Codes, Expire, store, window
<1>7. Phones'
  BY <1>1, <1>2, <1>4 DEF AccessInv, TypeOK, Phones, Expire, Socket, window
<1>8. Alone'
  BY <1>2 DEF AccessInv, Alone
<1>12. RightsAreCurrent'
  <2>1. devices' = devices
    BY DEF Expire, store
  <2>2. Authenticated' = Authenticated
    BY <1>2 DEF Authenticated, In
  <2>3. Authenticated \subseteq Sockets
    BY DEF Authenticated, In
  <2>4. QED
    BY <1>2, <2>1, <2>2, <2>3 DEF AccessInv, RightsAreCurrent
<1>9. Handshakes' = Handshakes
  BY <1>2, <1>3, Shaking, ShakingNext DEF AccessInv
<1>10. ClientsAreCounted' /\ Truthful'
  BY <1>9 DEF AccessInv, ClientsAreCounted, Truthful, ReportsAreTrue, Expire, window
<1>11. QED
  BY <1>5, <1>6, <1>7, <1>8, <1>10, <1>12 DEF AccessInv

LEMMA SocketsOfOffer ==
    ASSUME AccessInv, NEW o \in Offers
    PROVE  /\ SocketsOf(o) \in SUBSET Sockets
           /\ \A s \in Sockets : socket[s].phase \in Shakes /\ socket[s].offer \in {o} => s \in SocketsOf(o)
BY Shaking DEF AccessInv, SocketsOf

LEMMA RecordTimerKeeps == ASSUME AccessInv, NEW o \in Offers, RecordTimer(o) PROVE AccessInv'
BY SocketsOfOffer, EndsKeeps DEF RecordTimer, AccessInv, TypeOK

LEMMA CancelKeeps == ASSUME AccessInv, NEW o \in Offers, Cancel(o) PROVE AccessInv'
<1>1. offers' = [offers EXCEPT ![o] = "over"] /\ offers[o] # "unseen"
  BY DEF Cancel, Over, Pending, AccessInv, Codes
<1>2. QED
  BY <1>1, SocketsOfOffer, EndsKeeps DEF Cancel, AccessInv, TypeOK

-----------------------------------------------------------------------------
(* A socket is accepted.                                                     *)
LEMMA AcceptKeeps == ASSUME AccessInv, NEW s \in Sockets, Accept(s) PROVE AccessInv'
<1> DEFINE r == [socket[s] EXCEPT !.phase = "bootstrap"]
<1>1. /\ socket[s] \in Socket /\ socket[s].phase = "closed"
      /\ socket' = [socket EXCEPT ![s] = r] /\ clients' = clients + 1 /\ clients < MaxUnauthenticated
      /\ UNCHANGED <<listening, store, offers, window, stored>>
  BY DEF Accept, In, AccessInv, TypeOK
<1>2. r \in Socket /\ r.phase = "bootstrap" /\ r.offer = Nobody
  BY <1>1 DEF Socket, AccessInv, Phones, Begins
<1> HIDE DEF r
<1>3. /\ socket' \in [Sockets -> Socket]
      /\ \A t \in Sockets : socket'[t] = IF t = s THEN r ELSE socket[t]
  BY <1>1, <1>2 DEF AccessInv, TypeOK
<1>4. clients' \in 0 .. MaxUnauthenticated
  BY <1>1, CompanionAccessAssumption DEF AccessInv, TypeOK
<1>5. TypeOK'
  BY <1>1, <1>3, <1>4 DEF AccessInv, TypeOK, store, window
<1>6. Codes' /\ Truthful'
  BY <1>1 DEF AccessInv, Codes, Truthful, ReportsAreTrue, store, window
<1>7. Phones' /\ Alone' /\ RightsAreCurrent'
  BY <1>1, <1>2, <1>3 DEF AccessInv, Phones, Alone, RightsAreCurrent, Authenticated, In, Begins, Shakes, store, window
<1>8. Handshakes' = Handshakes \cup {s} /\ s \notin Handshakes
  BY <1>1, <1>2, <1>3, Shaking, ShakingNext DEF AccessInv, Shakes
<1>9. Cardinality(Handshakes \cup {s}) = Cardinality(Handshakes) + 1
  BY <1>8, Shaking, FS_AddElement DEF AccessInv
<1>10. ClientsAreCounted'
  BY <1>1, <1>8, <1>9 DEF AccessInv, ClientsAreCounted
<1>11. QED
  BY <1>5, <1>6, <1>7, <1>10 DEF AccessInv

(* A phone has scanned a code.                                              *)
LEMMA PairStartKeeps ==
    ASSUME AccessInv, NEW s \in Sockets, NEW d \in Devices, NEW o \in Offers, PairStart(s, d, o)
    PROVE  AccessInv'
<1>0. s \in Sockets /\ socket[s].phase = "bootstrap"
  BY DEF PairStart, In
<1> DEFINE Claimed == offers[o] = "open" /\ offers' = [offers EXCEPT ![o] = "claimed"]
                       /\ UNCHANGED <<listening, store, stored>>
<1>1. ASSUME Claimed, NEW g \in Grants, UNCHANGED <<clients, window>>,
             socket' = [socket EXCEPT ![s] = [Begun(s, d) EXCEPT !.offer = o, !.grant = g]]
      PROVE  AccessInv'
  <2> DEFINE r == [Begun(s, d) EXCEPT !.offer = o, !.grant = g]
  <2>1. /\ r \in Socket /\ r.phase = "message3" /\ r.device = d /\ r.offer = o /\ r.grant = g
    BY DEF Begun, Closed, Socket
  <2> HIDE DEF r
  <2>2. Codes'
    BY <1>1 DEF AccessInv, TypeOK, Codes, store, window
  <2>3. \A t \in Sockets : socket[t].phase \in Shakes /\ socket[t].offer = o => t = s
    BY <1>1, CompanionAccessAssumption DEF AccessInv, Phones
  <2>4. offers[o] = "open" /\ record[o] # "none"
    BY <1>1 DEF AccessInv, Codes
  <2>5. QED
    BY <1>0, <1>1, <2>1, <2>2, <2>3, <2>4, GoesOnKeeps DEF AccessInv, TypeOK, window, Shakes, r
<1>2. ASSUME Claimed, Closes({s}), Finishes({o}, "failed")
      PROVE  AccessInv'
  <2>1. \A t \in Sockets : socket[t].phase \in Shakes /\ socket[t].offer \in {o} => t \in {s}
    BY <1>2, CompanionAccessAssumption DEF AccessInv, Phones
  <2>2. {s} \in SUBSET Sockets /\ {o} \in SUBSET Offers
    OBVIOUS
  <2>3. QED
    BY <1>2, <2>1, <2>2, EndsKeeps DEF AccessInv, TypeOK
<1>3. CASE Fails(s)
  BY <1>3, FailsKeeps
<1>4. QED
  BY <1>1, <1>2, <1>3 DEF PairStart

(* A phone connects again.                                                   *)
LEMMA ResumeStartKeeps ==
    ASSUME AccessInv, NEW s \in Sockets, NEW d \in Devices, ResumeStart(s, d)
    PROVE  AccessInv'
<1>1. CASE Fails(s)
  BY <1>1, FailsKeeps
<1>2. CASE /\ socket' = [socket EXCEPT ![s] = [Begun(s, d) EXCEPT !.known = Paired(d)]]
           /\ UNCHANGED <<listening, store, offers, clients, window, stored>>
  <2> DEFINE known == devices[d] # Nobody
             r == [Begun(s, d) EXCEPT !.known = known]
  <2>1. known \in BOOLEAN
    OBVIOUS
  <2>2. /\ r \in Socket /\ r.phase = "message3" /\ r.device = d /\ r.offer = Nobody
    <3> HIDE DEF known
    <3>1. QED
      BY <2>1 DEF Begun, Closed, Socket
  <2>3. socket' = [socket EXCEPT ![s] = r]
    BY <1>2 DEF Paired
  <2> HIDE DEF r
  <2>4. socket[s].phase = "bootstrap" /\ Codes'
    BY <1>2 DEF ResumeStart, In, AccessInv, Codes, store, window
  <2>5. QED
    BY <1>2, <2>2, <2>3, <2>4, GoesOnKeeps DEF AccessInv, TypeOK, window, Shakes
<1>3. QED
  BY <1>1, <1>2 DEF ResumeStart

(* A socket that goes on for the same code, which the window may have heard of. *)
LEMMA SameCodeKeeps ==
    ASSUME AccessInv, NEW s \in Sockets, NEW r \in Socket,
           socket[s].phase \in Shakes, r.phase \in Shakes,
           r.device = socket[s].device, r.offer = socket[s].offer, r.grant = socket[s].grant,
           socket' = [socket EXCEPT ![s] = r],
           UNCHANGED <<listening, store, offers, clients, told, stored>>,
           record' \in [Offers -> {"none", "awaiting", "confirm", "confirmed"}],
           \A o \in Offers : /\ record'[o] # "none" <=> record[o] # "none"
                             /\ record[o] \in {"confirm", "confirmed"} => record'[o] \in {"confirm", "confirmed"},
           r.phase = "sas" => r.offer # Nobody /\ record'[r.offer] \in {"confirm", "confirmed"}
    PROVE  AccessInv'
<1>1. \A t \in Sockets : socket[t] \in Socket
  BY DEF AccessInv, TypeOK
<1>2. r.device \in Devices /\ Codes'
  BY DEF AccessInv, Phones, Begins, Shakes, Codes, store
<1>3. r.offer # Nobody =>
          /\ r.grant \in Grants /\ record'[r.offer] # "none" /\ offers'[r.offer] \in {"claimed", "over"}
          /\ \A t \in Sockets : socket[t].phase \in Shakes /\ socket[t].offer = r.offer => t = s
  BY <1>1 DEF AccessInv, Phones, Alone, Socket
<1>4. QED
  BY <1>2, <1>3, GoesOnKeeps DEF AccessInv, TypeOK

(* The third message.                                                       *)
LEMMA Message3Keeps == ASSUME AccessInv, NEW s \in Sockets, Message3(s) PROVE AccessInv'
<1>1. CASE Fails(s)
  BY <1>1, FailsKeeps
<1>2. CASE /\ socket' = [socket EXCEPT ![s].phase = "key"]
           /\ UNCHANGED <<listening, store, offers, clients, window, stored>>
  <2> DEFINE r == [socket[s] EXCEPT !.phase = "key"]
  <2>1. socket[s] \in Socket /\ socket[s].phase = "message3"
    BY DEF Message3, In, AccessInv, TypeOK
  <2>2. /\ r \in Socket /\ r.phase = "key" /\ r.device = socket[s].device
        /\ r.offer = socket[s].offer /\ r.grant = socket[s].grant
    BY <2>1 DEF Socket
  <2>3. socket' = [socket EXCEPT ![s] = r]
    BY <1>2
  <2> HIDE DEF r
  <2>4. QED
    BY <1>2, <2>1, <2>2, <2>3, SameCodeKeeps DEF AccessInv, TypeOK, window, Shakes
<1>3. QED
  BY <1>1, <1>2 DEF Message3

(* A handshake that is done: the socket gets the rights its device has by now. *)
LEMMA ActivatedKeeps ==
    ASSUME AccessInv, NEW s \in Sockets, socket[s].phase \in Shakes,
           devices' \in [Devices -> Grants \cup {Nobody}], devices'[socket[s].device] # Nobody,
           \A d \in Devices : devices[d] # Nobody => devices'[d] = devices[d],
           socket' = Activated(s), clients' = clients - 1
    PROVE  /\ socket' \in [Sockets -> Socket]
           /\ \A t \in Sockets : t # s => socket'[t] = socket[t]
           /\ socket'[s].phase = "authenticated" /\ socket'[s].device = socket[s].device
           /\ clients' \in 0 .. MaxUnauthenticated
           /\ ClientsAreCounted' /\ RightsAreCurrent' /\ Alone'
<1> DEFINE r == [socket[s] EXCEPT !.phase = "authenticated", !.grant = devices'[socket[s].device]]
<1>1. socket[s] \in Socket /\ socket[s].device \in Devices
  BY DEF AccessInv, TypeOK, Phones, Begins, Shakes
<1>2. /\ r \in Socket /\ r.phase = "authenticated" /\ r.device = socket[s].device
      /\ r.grant = devices'[socket[s].device]
  BY <1>1 DEF Socket
<1>3. socket' = [socket EXCEPT ![s] = r]
  BY DEF Activated
<1> HIDE DEF r
<1>4. /\ socket' \in [Sockets -> Socket]
      /\ \A t \in Sockets : socket'[t] = IF t = s THEN r ELSE socket[t]
  BY <1>2, <1>3 DEF AccessInv, TypeOK
<1>5. ClientsAreCounted' /\ clients' \in 0 .. MaxUnauthenticated
  BY <1>2, <1>3, AuthenticatedCounted DEF AccessInv
<1>6. Alone'
  BY <1>2, <1>4 DEF AccessInv, Alone, Shakes
<1>7. RightsAreCurrent'
  <2>1. \A t \in Sockets : socket[t].phase = "authenticated" => socket[t].device \in Devices
    BY DEF AccessInv, Phones, Begins
  <2>2. QED
    BY <1>2, <1>4, <2>1 DEF AccessInv, RightsAreCurrent, Authenticated, In
<1>8. QED
  BY <1>2, <1>4, <1>5, <1>6, <1>7

(* A phone that was paired before is connected.                              *)
LEMMA ResumeConfirmedKeeps == ASSUME AccessInv, NEW s \in Sockets, ResumeConfirmed(s) PROVE AccessInv'
<1>1. CASE Fails(s)
  BY <1>1, FailsKeeps
<1>2. CASE /\ Paired(socket[s].device) /\ UNCHANGED store
           /\ socket' = Activated(s) /\ clients' = clients - 1
           /\ UNCHANGED <<listening, offers, window, stored>>
  <2>1. socket[s].phase \in Shakes /\ devices' = devices /\ devices'[socket[s].device] # Nobody
    BY <1>2 DEF ResumeConfirmed, In, Shakes, Paired, store
  <2>2. /\ socket' \in [Sockets -> Socket]
        /\ \A t \in Sockets : t # s => socket'[t] = socket[t]
        /\ socket'[s].phase = "authenticated" /\ socket'[s].device = socket[s].device
        /\ clients' \in 0 .. MaxUnauthenticated
        /\ ClientsAreCounted' /\ RightsAreCurrent' /\ Alone'
    BY <1>2, <2>1, ActivatedKeeps DEF AccessInv, TypeOK
  <2>3. TypeOK'
    BY <1>2, <2>2 DEF AccessInv, TypeOK, store, window
  <2>4. Codes' /\ Truthful'
    BY <1>2 DEF AccessInv, Codes, Truthful, ReportsAreTrue, store, window
  <2>5. socket[s].device \in Devices
    BY <2>1 DEF AccessInv, Phones, Begins, Shakes
  <2>6. Phones'
    BY <1>2, <2>2, <2>5 DEF AccessInv, Phones, Begins, Shakes, window
  <2>7. QED
    BY <2>2, <2>3, <2>4, <2>6 DEF AccessInv
<1>3. QED
  BY <1>1, <1>2 DEF ResumeConfirmed

(* The window shows the phrase.                                              *)
LEMMA PairConfirmedKeeps == ASSUME AccessInv, NEW s \in Sockets, PairConfirmed(s) PROVE AccessInv'
<1>1. CASE Fails(s)
  BY <1>1, FailsKeeps
<1>2. CASE /\ socket' = [socket EXCEPT ![s].phase = "sas"]
           /\ record' = [record EXCEPT ![socket[s].offer] = "confirm"]
           /\ UNCHANGED <<listening, store, offers, clients, told, stored>>
  <2> DEFINE r == [socket[s] EXCEPT !.phase = "sas"]
  <2>1. socket[s] \in Socket /\ socket[s].phase = "key" /\ socket[s].offer \in Offers
    BY DEF PairConfirmed, In, AccessInv, TypeOK, Socket
  <2>2. /\ r \in Socket /\ r.phase = "sas" /\ r.device = socket[s].device
        /\ r.offer = socket[s].offer /\ r.grant = socket[s].grant
    BY <2>1 DEF Socket
  <2>3. socket' = [socket EXCEPT ![s] = r]
    BY <1>2
  <2> HIDE DEF r
  <2>4. record[socket[s].offer] # "none"
    BY <2>1, CompanionAccessAssumption DEF AccessInv, Phones, Shakes
  <2>5. /\ record' \in [Offers -> {"none", "awaiting", "confirm", "confirmed"}]
        /\ \A o \in Offers : /\ record'[o] # "none" <=> record[o] # "none"
                             /\ record[o] \in {"confirm", "confirmed"} => record'[o] \in {"confirm", "confirmed"}
        /\ r.offer # Nobody /\ record'[r.offer] \in {"confirm", "confirmed"}
    BY <1>2, <2>1, <2>2, <2>4, CompanionAccessAssumption DEF AccessInv, TypeOK
  <2>6. QED
    BY <1>2, <2>1, <2>2, <2>3, <2>5, SameCodeKeeps DEF Shakes
<1>3. QED
  BY <1>1, <1>2 DEF PairConfirmed

-----------------------------------------------------------------------------
(* Finalizing stores the device, and the code is used up.                    *)
LEMMA FinalizeKeeps ==
    ASSUME AccessInv, NEW s \in Sockets, socket[s].phase = "sas", Finalize(s)
    PROVE  AccessInv'
<1> DEFINE d == socket[s].device
           o == socket[s].offer
<1>1. /\ socket[s] \in Socket /\ socket[s].phase \in Shakes
      /\ d \in Devices /\ o \in Offers /\ socket[s].grant \in Grants
      /\ record[o] # "none" /\ offers[o] \in {"claimed", "over"}
      /\ stored[o] = Nobody /\ told[o] = "nothing"
  BY DEF AccessInv, TypeOK, Phones, Codes, Begins, Shakes, Socket
<1>2. CASE Fails(s)
  BY <1>2, FailsKeeps
<1>3. CASE /\ ~Paired(d)
           /\ devices' = [devices EXCEPT ![d] = socket[s].grant] /\ disk' = devices'
           /\ stored' = [stored EXCEPT ![o] = d]
           /\ \/ /\ socket' = Activated(s) /\ clients' = clients - 1
                 /\ Finishes({o}, "paired")
              \/ May("unsent") /\ Ends({s})
           /\ UNCHANGED <<listening, offers>>
  <2>1. /\ devices' \in [Devices -> Grants \cup {Nobody}] /\ devices[d] = Nobody
        /\ devices'[d] = socket[s].grant /\ devices'[d] # Nobody
        /\ \A e \in Devices : devices[e] # Nobody => devices'[e] = devices[e]
        /\ stored' \in [Offers -> Devices \cup {Nobody}] /\ stored'[o] = d /\ d # Nobody
        /\ \A x \in Offers : x # o => stored'[x] = stored[x]
    BY <1>1, <1>3, CompanionAccessAssumption DEF AccessInv, TypeOK, Paired
  <2> HIDE DEF d, o
  <2>2. \A t \in Sockets : socket[t].phase \in Shakes /\ socket[t].offer = o => t = s
    BY <1>1, CompanionAccessAssumption DEF AccessInv, Alone, o
  <2>3. CASE socket' = Activated(s) /\ clients' = clients - 1 /\ Finishes({o}, "paired")
    <3>1. /\ socket' \in [Sockets -> Socket]
          /\ \A t \in Sockets : t # s => socket'[t] = socket[t]
          /\ socket'[s].phase = "authenticated" /\ socket'[s].device = d
          /\ clients' \in 0 .. MaxUnauthenticated
          /\ ClientsAreCounted' /\ RightsAreCurrent' /\ Alone'
      BY <1>1, <2>1, <2>3, ActivatedKeeps DEF d
    <3>2. /\ record' = [x \in Offers |-> IF x = o THEN "none" ELSE record[x]]
          /\ told' = [x \in Offers |-> IF x = o THEN "paired" ELSE told[x]]
      BY <1>1, <2>3 DEF Finishes, Pending, o, AccessInv, TypeOK
    <3>3. TypeOK'
      BY <1>3, <2>1, <3>1, <3>2 DEF AccessInv, TypeOK
    <3>4. Codes'
      BY <1>1, <1>3, <2>1, <3>2 DEF AccessInv, Codes, o
    <3>5. Phones'
      BY <1>1, <1>3, <2>2, <3>1, <3>2 DEF AccessInv, TypeOK, Phones, Begins, Shakes, Socket
    <3>6. Truthful'
      BY <1>1, <2>1, <3>2 DEF AccessInv, Truthful, ReportsAreTrue, o
    <3>7. QED
      BY <3>1, <3>3, <3>4, <3>5, <3>6 DEF AccessInv
  <2>4. CASE May("unsent") /\ Ends({s})
    <3>1. s \in Handshakes /\ PairingOf({s}) = {o}
      <4>1. s \in Handshakes
        BY <1>1, Shaking DEF AccessInv
      <4>2. QED
        BY <1>1, <4>1 DEF PairingOf, o
    <3>2. Closes({s}) /\ Finishes({o}, "failed")
      BY <2>4, <3>1 DEF Ends
    <3>3. {s} \in SUBSET Sockets
      OBVIOUS
    <3>4. /\ socket' \in [Sockets -> Socket]
          /\ \A t \in Sockets : socket'[t] = IF t = s THEN Closed ELSE socket[t]
          /\ ClientsAreCounted' /\ clients' \in 0 .. MaxUnauthenticated
      BY <3>2, <3>3, ClosesCounted DEF AccessInv
    <3>5. /\ record' = [x \in Offers |-> IF x = o THEN "none" ELSE record[x]]
          /\ told' = [x \in Offers |-> IF x = o THEN "failed" ELSE told[x]]
      BY <1>1, <3>2 DEF Finishes, Pending, o, AccessInv, TypeOK
    <3>6. TypeOK'
      BY <1>3, <2>1, <3>4, <3>5 DEF AccessInv, TypeOK
    <3>7. Codes'
      BY <1>1, <1>3, <2>1, <3>5 DEF AccessInv, Codes, o
    <3>8. Phones'
      BY <1>3, <2>2, <3>4, <3>5, ClosedSocket DEF AccessInv, TypeOK, Phones, Begins, Shakes, Socket
    <3>9. Alone'
      BY <3>4, ClosedSocket DEF AccessInv, Alone, Shakes
    <3>10. RightsAreCurrent'
      <4>1. \A t \in Sockets : socket[t].phase = "authenticated" => socket[t].device \in Devices
        BY DEF AccessInv, Phones, Begins
      <4>2. QED
        BY <2>1, <3>4, <4>1, ClosedSocket DEF AccessInv, RightsAreCurrent, Authenticated, In
    <3>11. Truthful'
      BY <2>4 DEF May, Truthful
    <3>12. QED
      BY <3>4, <3>6, <3>7, <3>8, <3>9, <3>10, <3>11 DEF AccessInv
  <2>5. QED
    BY <1>3, <2>3, <2>4
<1>4. QED
  BY <1>2, <1>3 DEF Finalize

(* The user confirms the phrase.                                             *)
LEMMA ConfirmPairingKeeps == ASSUME AccessInv, NEW s \in Sockets, ConfirmPairing(s) PROVE AccessInv'
<1>1. socket[s] \in Socket /\ socket[s].phase = "sas" /\ record[socket[s].offer] = "confirm"
  BY DEF ConfirmPairing, In, AccessInv, TypeOK
<1>2. CASE Fails(s)
  BY <1>2, FailsKeeps
<1>3. CASE Finalize(s)
  BY <1>1, <1>3, FinalizeKeeps
<1>4. CASE /\ socket' = [socket EXCEPT ![s].local = TRUE]
           /\ record' = [record EXCEPT ![socket[s].offer] = "confirmed"]
           /\ UNCHANGED <<listening, store, offers, clients, told, stored>>
  <2> DEFINE r == [socket[s] EXCEPT !.local = TRUE]
  <2>1. /\ r \in Socket /\ r.phase = "sas" /\ r.device = socket[s].device
        /\ r.offer = socket[s].offer /\ r.grant = socket[s].grant
    BY <1>1 DEF Socket
  <2>2. socket' = [socket EXCEPT ![s] = r]
    BY <1>4
  <2> HIDE DEF r
  <2>3. socket[s].offer # Nobody /\ socket[s].offer \in Offers
    BY <1>1 DEF AccessInv, Phones, Socket
  <2>4. /\ record' \in [Offers -> {"none", "awaiting", "confirm", "confirmed"}]
        /\ \A o \in Offers : /\ record'[o] # "none" <=> record[o] # "none"
                             /\ record[o] \in {"confirm", "confirmed"} => record'[o] \in {"confirm", "confirmed"}
        /\ r.offer # Nobody /\ record'[r.offer] \in {"confirm", "confirmed"}
    BY <1>1, <1>4, <2>1, <2>3 DEF AccessInv, TypeOK
  <2>5. QED
    BY <1>1, <1>4, <2>1, <2>2, <2>4, SameCodeKeeps DEF Shakes
<1>5. QED
  BY <1>2, <1>3, <1>4 DEF ConfirmPairing

LEMMA PhoneConfirmsKeeps == ASSUME AccessInv, NEW s \in Sockets, PhoneConfirms(s) PROVE AccessInv'
<1>1. socket[s] \in Socket /\ socket[s].phase = "sas"
  BY DEF PhoneConfirms, In, AccessInv, TypeOK
<1>2. CASE Fails(s)
  BY <1>2, FailsKeeps
<1>3. CASE Finalize(s)
  BY <1>1, <1>3, FinalizeKeeps
<1>4. CASE /\ socket' = [socket EXCEPT ![s].remote = TRUE]
           /\ UNCHANGED <<listening, store, offers, clients, window, stored>>
  <2> DEFINE r == [socket[s] EXCEPT !.remote = TRUE]
  <2>1. /\ r \in Socket /\ r.phase = "sas" /\ r.device = socket[s].device
        /\ r.offer = socket[s].offer /\ r.grant = socket[s].grant
    BY <1>1 DEF Socket
  <2>2. socket' = [socket EXCEPT ![s] = r]
    BY <1>4
  <2> HIDE DEF r
  <2>3. r.offer # Nobody /\ record[r.offer] \in {"confirm", "confirmed"}
    BY <1>1, <2>1 DEF AccessInv, Phones
  <2>4. QED
    BY <1>1, <1>4, <2>1, <2>2, <2>3, SameCodeKeeps DEF AccessInv, TypeOK, window, Shakes
<1>5. QED
  BY <1>2, <1>3, <1>4 DEF PhoneConfirms

-----------------------------------------------------------------------------
(* The rights of a device change, and its connections close.                  *)
LEMMA GrantKeeps ==
    ASSUME AccessInv, NEW d \in Devices, NEW g \in Grants \cup {Nobody},
           devices' = [devices EXCEPT ![d] = g], disk' = devices', Closes(ConnectionsOf(d)),
           UNCHANGED <<listening, offers, window, stored>>
    PROVE  AccessInv'
<1>1. ConnectionsOf(d) = {s \in Sockets : socket[s].phase = "authenticated" /\ socket[s].device = d}
  BY DEF ConnectionsOf, Authenticated, In
<1>2. ConnectionsOf(d) \in SUBSET Sockets
  BY <1>1
<1>3. /\ socket' \in [Sockets -> Socket]
      /\ \A s \in Sockets : socket'[s] = IF s \in ConnectionsOf(d) THEN Closed ELSE socket[s]
      /\ ClientsAreCounted' /\ clients' \in 0 .. MaxUnauthenticated
  BY <1>2, ClosesCounted DEF AccessInv
<1>4. TypeOK'
  BY <1>3 DEF AccessInv, TypeOK, window
<1>5. Codes' /\ Truthful'
  BY DEF AccessInv, Codes, Truthful, ReportsAreTrue, window
<1>6. Phones' /\ Alone'
  BY <1>3, ClosedSocket DEF AccessInv, Phones, Alone, Begins, Shakes, window
<1>7. RightsAreCurrent'
  <2>1. \A s \in Sockets : socket[s].phase = "authenticated" => socket[s].device \in Devices
    BY DEF AccessInv, Phones, Begins
  <2>2. QED
    BY <1>1, <1>3, <2>1, ClosedSocket DEF AccessInv, TypeOK, RightsAreCurrent, Authenticated, In
<1>8. QED
  BY <1>3, <1>4, <1>5, <1>6, <1>7 DEF AccessInv

(* Turning the companion off closes every socket and ends every pairing.      *)
LEMMA DisableKeeps == ASSUME AccessInv, Disable PROVE AccessInv'
<1>1. /\ Closes(Sockets) /\ Finishes(Offers, "failed") /\ listening' \in BOOLEAN
      /\ offers' = [o \in Offers |-> IF record[o] # "none" THEN "over" ELSE offers[o]]
      /\ UNCHANGED <<store, stored>>
  BY DEF Disable, PendingOver, Pending
<1>2. /\ offers' \in [Offers -> {"unseen", "open", "claimed", "over"}]
      /\ \A o \in Offers : /\ offers'[o] = "unseen" => offers[o] = "unseen"
                           /\ offers'[o] # "open"
                           /\ offers[o] \in {"claimed", "over"} => offers'[o] \in {"claimed", "over"}
  BY <1>1 DEF AccessInv, TypeOK, Codes
<1>3. Sockets \in SUBSET Sockets /\ Offers \in SUBSET Offers
  OBVIOUS
<1>4. QED
  BY <1>1, <1>2, <1>3, EndsKeeps

LEMMA EnableKeeps == ASSUME AccessInv, Enable PROVE AccessInv'
BY DEF Enable, AccessInv, TypeOK, Codes, Phones, Alone, RightsAreCurrent, Authenticated,
       ClientsAreCounted, Handshakes, In, Truthful, ReportsAreTrue, store, window

(* A launch knows what is on disk, which is what the last run knew.           *)
LEMMA CrashKeeps == ASSUME AccessInv, Crash PROVE AccessInv'
<1>1. socket' \in [Sockets -> Socket] /\ \A s \in Sockets : socket'[s] = Closed
  BY ClosedSocket DEF Crash
<1>2. TypeOK'
  BY <1>1, CompanionAccessAssumption DEF AccessInv, TypeOK, Crash
<1>3. Codes'
  BY DEF AccessInv, TypeOK, Codes, Crash
<1>4. Phones' /\ Alone' /\ RightsAreCurrent'
  BY <1>1, ClosedSocket DEF Phones, Alone, RightsAreCurrent, Authenticated, In, Begins, Shakes
<1>5. Handshakes' = {}
  BY <1>1, ClosedSocket, ShakingNext DEF Shakes
<1>6. ClientsAreCounted'
  BY <1>5, FS_EmptySet DEF ClientsAreCounted, Crash
<1>7. Truthful'
  BY DEF AccessInv, Truthful, ReportsAreTrue, Crash
<1>8. QED
  BY <1>2, <1>3, <1>4, <1>6, <1>7 DEF AccessInv

-----------------------------------------------------------------------------
LEMMA NextAccessInv == AccessInv /\ [Next]_vars => AccessInv'
<1> SUFFICES ASSUME AccessInv, [Next]_vars PROVE AccessInv'
  OBVIOUS
<1>1. ASSUME NEW s \in Sockets, Phone(s) PROVE AccessInv'
  <2>1. ASSUME NEW d \in Devices, ResumeStart(s, d) PROVE AccessInv'
    BY <2>1, ResumeStartKeeps
  <2>2. ASSUME NEW d \in Devices, NEW o \in Offers, PairStart(s, d, o) PROVE AccessInv'
    BY <2>2, PairStartKeeps
  <2>3. CASE Accept(s)
    BY <2>3, AcceptKeeps
  <2>4. CASE Message3(s)
    BY <2>4, Message3Keeps
  <2>5. CASE ResumeConfirmed(s)
    BY <2>5, ResumeConfirmedKeeps
  <2>6. CASE PairConfirmed(s)
    BY <2>6, PairConfirmedKeeps
  <2>7. CASE PhoneConfirms(s)
    BY <2>7, PhoneConfirmsKeeps
  <2>8. CASE Leave(s)
    BY <2>8, FailsKeeps DEF Leave
  <2>9. QED
    BY <1>1, <2>1, <2>2, <2>3, <2>4, <2>5, <2>6, <2>7, <2>8 DEF Phone
<1>2. CASE User
  <2>1. ASSUME NEW o \in Offers, StartPairing(o) PROVE AccessInv'
    BY <2>1, StartPairingKeeps
  <2>2. ASSUME NEW o \in Offers, Cancel(o) PROVE AccessInv'
    BY <2>2, CancelKeeps
  <2>3. ASSUME NEW s \in Sockets, ConfirmPairing(s) PROVE AccessInv'
    BY <2>3, ConfirmPairingKeeps
  <2>4. ASSUME NEW d \in Devices, Revoke(d) PROVE AccessInv'
    BY <2>4, GrantKeeps DEF Revoke
  <2>5. ASSUME NEW d \in Devices, NEW g \in Grants, SetCapabilities(d, g) PROVE AccessInv'
    BY <2>5, GrantKeeps DEF SetCapabilities
  <2>6. CASE Disable
    BY <2>6, DisableKeeps
  <2>7. CASE Enable
    BY <2>7, EnableKeeps
  <2>8. QED
    BY <1>2, <2>1, <2>2, <2>3, <2>4, <2>5, <2>6, <2>7 DEF User
<1>3. CASE Time
  <2>1. ASSUME NEW o \in Offers, Expire(o) PROVE AccessInv'
    BY <2>1, ExpireKeeps
  <2>2. ASSUME NEW o \in Offers, RecordTimer(o) PROVE AccessInv'
    BY <2>2, RecordTimerKeeps
  <2>3. ASSUME NEW s \in Sockets, AuthTimer(s) PROVE AccessInv'
    BY <2>3, FailsKeeps DEF AuthTimer
  <2>4. QED
    BY <1>3, <2>1, <2>2, <2>3 DEF Time
<1>4. CASE Crash
  BY <1>4, CrashKeeps
<1>5. CASE UNCHANGED vars
  BY <1>5 DEF vars, store, window, AccessInv, TypeOK, Codes, Phones, Alone, RightsAreCurrent,
              Authenticated, ClientsAreCounted, Handshakes, In, Truthful, ReportsAreTrue
<1>6. QED
  BY <1>1, <1>2, <1>3, <1>4, <1>5 DEF Next

(* The inductive invariant: store, codes, sockets and the count agree          *)
(* (companion/pairing.cjs, companion/bonjourTransport.cjs,                    *)
(* companion/deviceStore.cjs and ipc/companionHandler.cjs).                   *)
THEOREM AccessInvariant == Spec => []AccessInv
<1>1. Init => AccessInv
  BY InitAccessInv
<1>2. AccessInv /\ [Next]_vars => AccessInv'
  BY NextAccessInv
<1>3. QED
  BY <1>1, <1>2, PTL DEF Spec

(* Every variable of the companion's access control is typed, and no more      *)
(* clients are let in than the transport's limit.                            *)
THEOREM TypeCorrect == Spec => []TypeOK
<1>1. AccessInv => TypeOK
  BY DEF AccessInv
<1>2. QED
  BY <1>1, AccessInvariant, PTL

(* Whoever is connected is paired and has the rights its device has now        *)
(* (deviceStore.cjs:238-250, 276-322).                                       *)
THEOREM RightsStayCurrent == Spec => []RightsAreCurrent
<1>1. AccessInv => RightsAreCurrent
  BY DEF AccessInv
<1>2. QED
  BY <1>1, AccessInvariant, PTL

(* The transport's counter of unauthenticated clients never drifts             *)
(* (bonjourTransport.cjs:448-449, 569, 591).                                 *)
THEOREM CountIsRight == Spec => []ClientsAreCounted
<1>1. AccessInv => ClientsAreCounted
  BY DEF AccessInv
<1>2. QED
  BY <1>1, AccessInvariant, PTL

(* The pairing window is told the truth, if the frame that tells a phone that   *)
(* it is paired always fits its socket (companionHandler.cjs:354-382).         *)
THEOREM ReportsStayTrue == ASSUME "unsent" \notin Faults PROVE Spec => []ReportsAreTrue
<1>1. AccessInv => ReportsAreTrue
  BY DEF AccessInv, Truthful
<1>2. QED
  BY <1>1, AccessInvariant, PTL

-----------------------------------------------------------------------------
(* Finalizing is what brings a device into the store.                         *)
LEMMA FinalizeBrings ==
    ASSUME AccessInv, NEW s \in Sockets, socket[s].phase = "sas", Finalize(s),
           NEW d \in Devices, devices[d] = Nobody, devices'[d] # Nobody
    PROVE  \E o \in Offers : /\ stored[o] = Nobody /\ stored'[o] = d
                             /\ record[o] \in {"confirm", "confirmed"}
<1> DEFINE o == socket[s].offer
<1>1. /\ o \in Offers /\ record[o] \in {"confirm", "confirmed"} /\ stored[o] = Nobody
      /\ socket[s].device \in Devices
  BY DEF AccessInv, TypeOK, Phones, Codes, Begins, Shakes, Socket
<1>2. CASE Fails(s)
  BY <1>2 DEF Fails, store
<1>3. CASE /\ devices' = [devices EXCEPT ![socket[s].device] = socket[s].grant]
           /\ stored' = [stored EXCEPT ![o] = socket[s].device]
  <2>1. d = socket[s].device
    BY <1>3 DEF AccessInv, TypeOK
  <2>2. stored'[o] = d
    BY <1>1, <1>3, <2>1 DEF AccessInv, TypeOK
  <2>3. QED
    BY <1>1, <2>2
<1>4. QED
  BY <1>2, <1>3 DEF Finalize

LEMMA StepBrings ==
    ASSUME AccessInv, Next, NEW d \in Devices, devices[d] = Nobody, devices'[d] # Nobody
    PROVE  \E o \in Offers : /\ stored[o] = Nobody /\ stored'[o] = d
                             /\ record[o] \in {"confirm", "confirmed"}
<1>1. devices' # devices
  OBVIOUS
<1>2. ASSUME NEW s \in Sockets, PhoneConfirms(s) \/ ConfirmPairing(s) PROVE Finalize(s) /\ socket[s].phase = "sas"
  BY <1>1, <1>2 DEF PhoneConfirms, ConfirmPairing, Fails, In, store
<1>3. ASSUME NEW s \in Sockets, Phone(s) PROVE PhoneConfirms(s)
  BY <1>1, <1>3 DEF Phone, PairStart, ResumeStart, Accept, Message3, ResumeConfirmed, PairConfirmed, Leave, Fails, store
<1>4. CASE User
  <2>1. ASSUME NEW e \in Devices, NEW g \in Grants, SetCapabilities(e, g) PROVE FALSE
    BY <2>1 DEF SetCapabilities, Paired, AccessInv, TypeOK
  <2>2. ASSUME NEW e \in Devices, Revoke(e) PROVE FALSE
    BY <2>2 DEF Revoke, Paired, AccessInv, TypeOK
  <2>3. \E s \in Sockets : ConfirmPairing(s)
    BY <1>1, <1>4, <2>1, <2>2 DEF User, StartPairing, Cancel, Disable, Enable, store
  <2>4. QED
    BY <1>2, <2>3, FinalizeBrings
<1>5. CASE Time
  BY <1>1, <1>5 DEF Time, Expire, RecordTimer, AuthTimer, Fails, store
<1>6. CASE Crash
  BY <1>1, <1>6 DEF Crash, AccessInv, Codes
<1>7. QED
  BY <1>2, <1>3, <1>4, <1>5, <1>6, FinalizeBrings DEF Next

(* A device comes into the store only by a code that has brought no other and    *)
(* that the window still waits for (pairing.cjs:188-217, 338-351).             *)
THEOREM PairedOnlyByItsCode == Spec => PairedByItsCode
<1> DEFINE Brings ==
        \A d \in Devices : devices[d] = Nobody /\ devices'[d] # Nobody =>
            \E o \in Offers : /\ stored[o] = Nobody /\ stored'[o] = d
                              /\ record[o] \in {"confirm", "confirmed"}
<1>1. AccessInv /\ [Next]_vars => [Brings]_vars
  BY StepBrings
<1>2. QED
  BY <1>1, AccessInvariant, PTL DEF Spec, PairedByItsCode
=============================================================================
