--------------------------- MODULE CompanionAccess ---------------------------
(***************************************************************************)
(* How a phone gets access to the desktop, and loses it: the pairing window    *)
(* of the desktop (ipc/companionHandler.cjs), the sockets and their handshakes *)
(* (companion/bonjourTransport.cjs), the offers and handshake sessions         *)
(* (companion/pairing.cjs), and the paired devices with their grants           *)
(* (companion/deviceStore.cjs).                                             *)
(*                                                                         *)
(* Every frame, click and timer is handled in one go, so each is one action;   *)
(* what is hard is the order in which they come, and that three parts remember  *)
(* the same pairing: the handler its record, the transport its socket, and the  *)
(* pairing manager its offer and session.  What a frame says is left to the     *)
(* cryptography: a phone sends the next frame of its handshake.               *)
(***************************************************************************)
EXTENDS Naturals, FiniteSets

CONSTANTS
    Devices,
    Grants,              \* the capability sets a device may have
    Offers,              \* pairing codes that are ever shown
    Sockets,
    MaxHandshakes,       \* MAX_ACTIVE_HANDSHAKES
    MaxUnauthenticated,  \* MAX_UNAUTHENTICATED_CLIENTS
    Faults,              \* which of AllFaults may happen
    Nobody

(* "unwritable": the device store cannot be written.  "slow": a frame does not *)
(* fit in the socket's queue.  "unsent": not even the one that tells the phone  *)
(* that it is paired.  "crash": the app is killed, and launched again.        *)
AllFaults == {"unwritable", "slow", "unsent", "crash"}

ASSUME CompanionAccessAssumption ==
    /\ Nobody \notin Devices \cup Grants \cup Offers
    /\ IsFiniteSet(Sockets)
    /\ MaxHandshakes \in Nat /\ MaxUnauthenticated \in Nat
    /\ Faults \subseteq AllFaults

VARIABLES
    listening,  \* the transport accepts sockets
    devices,    \* the grant of each paired device, in memory
    disk,       \* ... and in the device store's file
    offers,     \* pairing codes: not shown yet, open, claimed by a phone, or over
    socket,     \* what the transport and the pairing manager know of each socket
    clients,    \* unauthenticatedClients
    record,     \* activePairings: what the pairing window waits for
    told,       \* what the pairing window was told in the end
    stored      \* history: the device each pairing code has brought into the store

store == <<devices, disk>>
window == <<record, told>>
vars == <<listening, store, offers, socket, clients, window, stored>>

-----------------------------------------------------------------------------
(* `session`: the pairing manager has a session for the socket; `known`: the   *)
(* device was paired when it resumed; local and remote: who has confirmed the   *)
(* phrase; `grant`: what the code asks for, then what the gateway session may   *)
(* do.                                                                      *)
Socket == [phase : {"closed", "bootstrap", "message3", "key", "sas", "authenticated"},
           device : Devices \cup {Nobody}, offer : Offers \cup {Nobody},
           session : BOOLEAN, known : BOOLEAN, local : BOOLEAN, remote : BOOLEAN,
           grant : Grants \cup {Nobody}]
Closed == [phase |-> "closed", device |-> Nobody, offer |-> Nobody, session |-> FALSE,
           known |-> FALSE, local |-> FALSE, remote |-> FALSE, grant |-> Nobody]

In(phase) == {s \in Sockets : socket[s].phase = phase}
Authenticated == In("authenticated")
Handshakes == Sockets \ (In("closed") \cup Authenticated)
Paired(d) == devices[d] # Nobody
Pending(o) == record[o] # "none"

TypeOK ==
    /\ listening \in BOOLEAN
    /\ devices \in [Devices -> Grants \cup {Nobody}] /\ disk \in [Devices -> Grants \cup {Nobody}]
    /\ offers \in [Offers -> {"unseen", "open", "claimed", "over"}]
    /\ socket \in [Sockets -> Socket]
    /\ clients \in 0 .. MaxUnauthenticated
    /\ record \in [Offers -> {"none", "awaiting", "confirm", "confirmed"}]
    /\ told \in [Offers -> {"nothing", "paired", "failed", "expired", "cancelled"}]
    /\ stored \in [Offers -> Devices \cup {Nobody}]

Init ==
    /\ listening = TRUE
    /\ devices = [d \in Devices |-> Nobody] /\ disk = devices
    /\ offers = [o \in Offers |-> "unseen"]
    /\ socket = [s \in Sockets |-> Closed] /\ clients = 0
    /\ record = [o \in Offers |-> "none"] /\ told = [o \in Offers |-> "nothing"]
    /\ stored = [o \in Offers |-> Nobody]

May(fault) == fault \in Faults
Succeeds(fault) == {TRUE} \cup (IF May(fault) THEN {FALSE} ELSE {})

-----------------------------------------------------------------------------
(* closeState on some sockets.                                              *)
ClosesAll(closing) ==          \* mutant: counts authenticated ones too
    /\ socket' = [s \in Sockets |-> IF s \in closing THEN Closed ELSE socket[s]]
    /\ clients' = IF Cardinality(closing) > clients THEN 0 ELSE clients - Cardinality(closing)
Closes(closing) ==
    /\ socket' = [s \in Sockets |-> IF s \in closing THEN Closed ELSE socket[s]]
    /\ clients' = clients - Cardinality(closing \cap Handshakes)

(* finishPairing, for what is still pending.                                *)
Finishes(pairings, report) ==
    /\ record' = [o \in Offers |-> IF o \in pairings THEN "none" ELSE record[o]]
    /\ told' = [o \in Offers |-> IF o \in pairings /\ Pending(o) THEN report ELSE told[o]]

PairingOf(closing) == {socket[s].offer : s \in closing \cap Handshakes} \cap Offers

(* Sockets close, and the pairings they were about fail (pairingFailed).      *)
Ends(closing) == Closes(closing) /\ Finishes(PairingOf(closing), "failed")

Fails(s) == Ends({s}) /\ UNCHANGED <<listening, store, offers, stored>>

(* What the pairing manager and the transport have of a pairing.             *)
SocketsOf(o) == {s \in Handshakes : socket[s].offer = o}
Over(o) == [offers EXCEPT ![o] = "over"]

-----------------------------------------------------------------------------
(* The pairing window: a code is shown.                                      *)
StartPairing(o) ==
    /\ listening /\ offers[o] = "unseen"
    /\ offers' = [offers EXCEPT ![o] = "open"]
    /\ record' = [record EXCEPT ![o] = "awaiting"]
    /\ UNCHANGED <<listening, store, socket, clients, told, stored>>

(* The time of a code passes: from then on prune removes the offer and the     *)
(* session before anyone can use them.                                      *)
Expire(o) ==
    /\ offers[o] \in {"open", "claimed"}
    /\ offers' = Over(o)
    /\ socket' = [s \in Sockets |-> [socket[s] EXCEPT !.session = @ /\ s \notin SocketsOf(o)]]
    /\ UNCHANGED <<listening, store, clients, window, stored>>

(* The record's timer, set to the same time.                                 *)
RecordTimerIfClaimed(o) ==     \* mutant
    /\ Pending(o) /\ offers[o] = "over" /\ SocketsOf(o) # {}
    /\ Closes(SocketsOf(o)) /\ Finishes({o}, "expired")
    /\ UNCHANGED <<listening, store, offers, stored>>
RecordTimer(o) ==
    /\ Pending(o) /\ offers[o] = "over"
    /\ Closes(SocketsOf(o)) /\ Finishes({o}, "expired")
    /\ UNCHANGED <<listening, store, offers, stored>>

CancelQuietly(o) ==            \* mutant
    /\ Pending(o)
    /\ Finishes({o}, "cancelled") /\ offers' = Over(o)
    /\ UNCHANGED <<listening, store, socket, clients, stored>>
Cancel(o) ==
    /\ Pending(o)
    /\ Closes(SocketsOf(o)) /\ Finishes({o}, "cancelled") /\ offers' = Over(o)
    /\ UNCHANGED <<listening, store, stored>>

-----------------------------------------------------------------------------
AcceptAny(s) ==                \* mutant
    /\ listening /\ s \in In("closed")
    /\ socket' = [socket EXCEPT ![s].phase = "bootstrap"]
    /\ clients' = clients + 1
    /\ UNCHANGED <<listening, store, offers, window, stored>>
Accept(s) ==
    /\ listening /\ s \in In("closed") /\ clients < MaxUnauthenticated
    /\ socket' = [socket EXCEPT ![s].phase = "bootstrap"]
    /\ clients' = clients + 1
    /\ UNCHANGED <<listening, store, offers, window, stored>>

(* Sessions that were completed stay until their socket closes.              *)
Busy == Cardinality({s \in Sockets : socket[s].session}) >= MaxHandshakes

Begun(s, d) == [Closed EXCEPT !.phase = "message3", !.device = d, !.session = TRUE]

(* A phone has scanned a code: it is claimed before anything else is done.    *)
PairStart(s, d, o) ==
    /\ s \in In("bootstrap") /\ offers[o] # "unseen"
    /\ \/ /\ offers[o] = "open" /\ ~Busy
          /\ offers' = [offers EXCEPT ![o] = "claimed"]
          /\ \/ \E g \in Grants : socket' =
                   [socket EXCEPT ![s] = [Begun(s, d) EXCEPT !.offer = o, !.grant = g]]
                /\ UNCHANGED <<clients, window>>
             \/ May("slow") /\ Closes({s}) /\ Finishes({o}, "failed")
          /\ UNCHANGED <<listening, store, stored>>
       \/ (offers[o] # "open" \/ Busy) /\ Fails(s)

(* A phone that has been paired connects again.                              *)
ResumeStart(s, d) ==
    /\ s \in In("bootstrap") /\ \E o \in Offers : stored[o] = d
    /\ \/ /\ ~Busy
          /\ socket' = [socket EXCEPT ![s] = [Begun(s, d) EXCEPT !.known = Paired(d)]]
          /\ UNCHANGED <<listening, store, offers, clients, window, stored>>
       \/ (Busy \/ May("slow")) /\ Fails(s)

(* completeHandshake: the phone has proved who it is.                        *)
Recognized(s) ==
    /\ socket[s].session
    /\ IF socket[s].offer = Nobody THEN socket[s].known ELSE ~Paired(socket[s].device)
Message3(s) ==
    /\ s \in In("message3")
    /\ \/ /\ Recognized(s)
          /\ socket' = [socket EXCEPT ![s].phase = "key"]
          /\ UNCHANGED <<listening, store, offers, clients, window, stored>>
       \/ (~Recognized(s) \/ May("slow")) /\ Fails(s)

(* activate: from here on the socket is registered with its device.          *)
Activated(s) == [socket EXCEPT ![s].phase = "authenticated", ![s].grant = devices'[socket[s].device]]

(* receiveKeyConfirmation and, for a device that was paired before, markSeen   *)
(* and activate, which fails if the device has been revoked meanwhile.        *)
ResumeConfirmed(s) ==
    /\ s \in In("key") /\ socket[s].offer = Nobody
    /\ \/ /\ socket[s].session /\ Paired(socket[s].device)
          /\ UNCHANGED store
          /\ socket' = Activated(s) /\ clients' = clients - 1
          /\ UNCHANGED <<listening, offers, window, stored>>
       \/ /\ ~socket[s].session \/ ~Paired(socket[s].device) \/ May("unwritable")
          /\ Fails(s)

(* ... else the window shows the phrase.                                     *)
PairConfirmed(s) ==
    /\ s \in In("key") /\ socket[s].offer # Nobody
    /\ IF socket[s].session
       THEN /\ socket' = [socket EXCEPT ![s].phase = "sas"]
            /\ record' = [record EXCEPT ![socket[s].offer] = "confirm"]
            /\ UNCHANGED <<listening, store, offers, clients, told, stored>>
       ELSE Fails(s)

-----------------------------------------------------------------------------
(* finalizePairing stores the device, once both sides have confirmed; then the *)
(* phone is told, and the socket is activated.                               *)
Finalize(s) ==
    LET d == socket[s].device
        o == socket[s].offer
    IN \/ /\ ~Paired(d)
          /\ devices' = [devices EXCEPT ![d] = socket[s].grant] /\ disk' = devices'
          /\ stored' = [stored EXCEPT ![o] = d]
          /\ \/ /\ socket' = Activated(s) /\ clients' = clients - 1
                /\ Finishes({o}, "paired")
             \/ May("unsent") /\ Ends({s})
          /\ UNCHANGED <<listening, offers>>
       \/ (Paired(d) \/ May("unwritable")) /\ Fails(s)

(* The user confirms the phrase in the window.                               *)
ConfirmPairing(s) ==
    /\ s \in In("sas") /\ record[socket[s].offer] = "confirm"
    /\ CASE ~socket[s].session -> Fails(s)
         [] socket[s].session /\ socket[s].remote -> Finalize(s)
         [] OTHER -> \/ /\ socket' = [socket EXCEPT ![s].local = TRUE]
                        /\ record' = [record EXCEPT ![socket[s].offer] = "confirmed"]
                        /\ UNCHANGED <<listening, store, offers, clients, told, stored>>
                     \/ May("slow") /\ Fails(s)

(* The user confirms the phrase on the phone.                                *)
PhoneConfirms(s) ==
    /\ s \in In("sas") /\ ~socket[s].remote
    /\ CASE ~socket[s].session -> Fails(s)
         [] socket[s].session /\ socket[s].local -> Finalize(s)
         [] OTHER -> /\ socket' = [socket EXCEPT ![s].remote = TRUE]
                     /\ UNCHANGED <<listening, store, offers, clients, window, stored>>

-----------------------------------------------------------------------------
(* The phone goes away, or has not authenticated itself in thirty seconds.    *)
Leave(s) == s \notin In("closed") /\ Fails(s)
AuthTimer(s) == s \in Handshakes /\ Fails(s)

(* Closing what is registered with a device: closeConnections.               *)
ConnectionsOf(d) == {s \in Authenticated : socket[s].device = d}

SetCapabilitiesQuietly(d, g) ==   \* mutant
    /\ Paired(d)
    /\ devices' = [devices EXCEPT ![d] = g] /\ disk' = devices'
    /\ UNCHANGED <<listening, offers, socket, clients, window, stored>>
SetCapabilities(d, g) ==
    /\ Paired(d)
    /\ devices' = [devices EXCEPT ![d] = g] /\ disk' = devices'
    /\ Closes(ConnectionsOf(d))
    /\ UNCHANGED <<listening, offers, window, stored>>

RevokeUnsaved(d) ==            \* mutant
    /\ Paired(d)
    /\ devices' = [devices EXCEPT ![d] = Nobody]
    /\ disk' = IF May("unwritable") THEN disk ELSE devices'
    /\ Closes(ConnectionsOf(d))
    /\ UNCHANGED <<listening, offers, window, stored>>
Revoke(d) ==
    /\ Paired(d)
    /\ devices' = [devices EXCEPT ![d] = Nobody] /\ disk' = devices'
    /\ Closes(ConnectionsOf(d))
    /\ UNCHANGED <<listening, offers, window, stored>>

(* setEnabled: turning the companion off ends everything.                    *)
PendingOver == [o \in Offers |-> IF Pending(o) THEN "over" ELSE offers[o]]
Disable ==
    /\ listening /\ listening' = FALSE
    /\ Closes(Sockets) /\ Finishes(Offers, "failed") /\ offers' = PendingOver
    /\ UNCHANGED <<store, stored>>

Enable ==
    /\ ~listening /\ listening' = TRUE
    /\ UNCHANGED <<store, offers, socket, clients, window, stored>>

(* The app is killed and launched again: the store's file is what is left.    *)
Crash ==
    /\ May("crash")
    /\ devices' = disk
    /\ socket' = [s \in Sockets |-> Closed] /\ clients' = 0
    /\ record' = [o \in Offers |-> "none"]
    /\ offers' = [o \in Offers |-> IF offers[o] = "unseen" THEN "unseen" ELSE "over"]
    /\ UNCHANGED <<listening, disk, told, stored>>

Phone(s) ==
    \/ \E d \in Devices : ResumeStart(s, d) \/ \E o \in Offers : PairStart(s, d, o)
    \/ Accept(s) \/ Message3(s) \/ ResumeConfirmed(s) \/ PairConfirmed(s) \/ PhoneConfirms(s) \/ Leave(s)
User ==
    \/ \E o \in Offers : StartPairing(o) \/ Cancel(o)
    \/ \E s \in Sockets : ConfirmPairing(s)
    \/ \E d \in Devices : Revoke(d) \/ \E g \in Grants : SetCapabilities(d, g)
    \/ Disable \/ Enable
Time ==
    \/ \E o \in Offers : Expire(o) \/ RecordTimer(o)
    \/ \E s \in Sockets : AuthTimer(s)

Next == (\E s \in Sockets : Phone(s)) \/ User \/ Time \/ Crash

Spec == Init /\ [][Next]_vars

(* Time passes and the pairing window's timers fire; nothing is asked of phones *)
(* or users.                                                                *)
FairSpec == Spec /\ \A o \in Offers : WF_vars(Expire(o)) /\ WF_vars(RecordTimer(o))

-----------------------------------------------------------------------------
(* "A live downgrade or revoke applies to open connections immediately"        *)
(* (docs/superpowers/specs/2026-07-17-mobile-companion-design.md:119): whoever  *)
(* is connected is paired, and may do what its device may do now, also when the *)
(* handshake overlapped the change.                                         *)
RightsAreCurrent ==
    \A s \in Authenticated : socket[s].grant # Nobody /\ socket[s].grant = devices[socket[s].device]

(* The limit on clients that have not authenticated themselves counts just     *)
(* those: a leak would lock every phone out for good.                        *)
ClientsAreCounted == clients = Cardinality(Handshakes)

(* The window is told the truth: a pairing it was told is over has stored no    *)
(* device and never will, and one it was told has succeeded has.             *)
ReportsAreTrue ==
    \A o \in Offers :
        /\ told[o] = "paired" => stored[o] # Nobody
        /\ told[o] \in {"failed", "expired", "cancelled"} => stored[o] = Nobody

(* A device comes into the store, or back into it, only by a code that has     *)
(* brought no other and that the window still waits for: a restart after a      *)
(* write that failed brings nothing back.                                    *)
PairedByItsCode ==
    [][\A d \in Devices : devices[d] = Nobody /\ devices'[d] # Nobody =>
          \E o \in Offers : /\ stored[o] = Nobody /\ stored'[o] = d
                            /\ record[o] \in {"confirm", "confirmed"}]_vars

(* Every pairing the window waits for comes to an end.                        *)
PairingEnds == \A o \in Offers : Pending(o) ~> ~Pending(o)
=============================================================================
