-------------------------- MODULE AbstractExchange --------------------------
(***************************************************************************)
(* What an exchange promises its clients, whatever carries the data.       *)
(*                                                                         *)
(* Every worker sends a finite stream of messages to every worker of an    *)
(* exchange and ends each of the streams.  A worker receives the messages  *)
(* of each stream in order and without loss, and is told that there are no *)
(* more messages only when every stream that leads to it has ended and has *)
(* been received completely (runtime/src/net/tcp/exchange_service.hpp,     *)
(* SendMessage and ReceiveMessage).                                        *)
(***************************************************************************)
EXTENDS Naturals

CONSTANTS Hosts,      \* the workers
          Exchanges   \* the exchanges they run

VARIABLES sent,   \* sent[h][e][r]: messages h has sent to r in e
          ended,  \* ended[h][e]: the receivers whose stream from h has ended
          got,    \* got[h][e][s]: messages of s that h has received in e
          eos     \* eos[h]: the exchanges that signalled end-of-stream to h

vars == <<sent, ended, got, eos>>

Init ==
    /\ sent = [h \in Hosts |-> [e \in Exchanges |-> [r \in Hosts |-> 0]]]
    /\ ended = [h \in Hosts |-> [e \in Exchanges |-> {}]]
    /\ got = [h \in Hosts |-> [e \in Exchanges |-> [s \in Hosts |-> 0]]]
    /\ eos = [h \in Hosts |-> {}]

Send(h, e, r) ==
    /\ r \notin ended[h][e]
    /\ sent' = [sent EXCEPT ![h][e][r] = @ + 1]
    /\ UNCHANGED <<ended, got, eos>>

EndStream(h, e, r) ==
    /\ r \notin ended[h][e]
    /\ ended' = [ended EXCEPT ![h][e] = @ \cup {r}]
    /\ UNCHANGED <<sent, got, eos>>

Receive(h, e, s) ==
    /\ e \notin eos[h]
    /\ got[h][e][s] < sent[s][e][h]
    /\ got' = [got EXCEPT ![h][e][s] = @ + 1]
    /\ UNCHANGED <<sent, ended, eos>>

SignalEndOfStream(h, e) ==
    /\ e \notin eos[h]
    /\ \A s \in Hosts : h \in ended[s][e] /\ got[h][e][s] = sent[s][e][h]
    /\ eos' = [eos EXCEPT ![h] = @ \cup {e}]
    /\ UNCHANGED <<sent, ended, got>>

Next ==
    \E h \in Hosts, e \in Exchanges :
        \/ \E r \in Hosts : Send(h, e, r) \/ EndStream(h, e, r) \/ Receive(h, e, r)
        \/ SignalEndOfStream(h, e)

Spec == Init /\ [][Next]_vars
=============================================================================
