------------------------------ MODULE Datagram ------------------------------
(***************************************************************************)
(* What the mesh promises to the applications at its stations: a best      *)
(* effort datagram service.  A packet may be lost and may be overtaken,    *)
(* but it is delivered only to those it is addressed to, at most once      *)
(* between two reboots of the receiver, and whatever answers it asks for   *)
(* are sent exactly when it is delivered: nobody answers for a station     *)
(* that did not get the packet, and no answer is lost inside the station.  *)
(*                                                                         *)
(* Request <<s, n>> is the nth request of station s, sent[s][n].           *)
(***************************************************************************)
EXTENDS Naturals, Sequences

CONSTANTS
    Stations, Broadcasts, Localhost,
    Asked    \* Asked[s]: what s sends of its own accord, [to, params]

VARIABLES
    sent,    \* sent[s]: sequence of [to, params]
    inbox,   \* inbox[s]: sequence of [uid, boot]
    boot     \* boot[s]: number of reboots of s

vars == <<sent, inbox, boot>>

Init ==
    /\ sent = [s \in Stations |-> <<>>]
    /\ inbox = [s \in Stations |-> <<>>]
    /\ boot = [s \in Stations |-> 0]

\* The application, or the beacon, sends something.
Send(s) ==
    /\ \E q \in Asked[s] : sent' = [sent EXCEPT ![s] = Append(@, q)]
    /\ UNCHANGED <<inbox, boot>>

Answer(from, flag) == <<[to |-> from, params |-> {flag}]>>

\* The answers that a unicast request q of station from asks for.
AnswersTo(q, from) ==
    IF q.to \in Broadcasts THEN <<>>
    ELSE (IF "C" \in q.params /\ "CO" \notin q.params THEN Answer(from, "CO") ELSE <<>>)
         \o (IF "PING" \in q.params THEN Answer(from, "PONG")
             ELSE IF "RREQ" \in q.params THEN Answer(from, "RRSP") ELSE <<>>)

AddressedTo(s, from, q) ==
    \/ q.to = s
    \/ q.to \in Broadcasts /\ from # s
    \/ q.to = Localhost /\ from = s

DeliveredSinceBoot(s, uid) ==
    \E i \in 1..Len(inbox[s]) : inbox[s][i] = [uid |-> uid, boot |-> boot[s]]

Deliver(s, from, n) ==
    /\ AddressedTo(s, from, sent[from][n])
    /\ ~DeliveredSinceBoot(s, <<from, n>>)
    /\ inbox' = [inbox EXCEPT ![s] = Append(@, [uid |-> <<from, n>>, boot |-> boot[s]])]
    /\ sent' = [sent EXCEPT ![s] = @ \o AnswersTo(sent[from][n], from)]
    /\ UNCHANGED boot

Reboot(s) ==
    /\ boot' = [boot EXCEPT ![s] = @ + 1]
    /\ UNCHANGED <<sent, inbox>>

Next ==
    \E s \in Stations :
        \/ Send(s)
        \/ \E from \in Stations : \E n \in 1..Len(sent[from]) : Deliver(s, from, n)
        \/ Reboot(s)

Spec == Init /\ [][Next]_vars
=============================================================================
