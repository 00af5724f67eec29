-------------------------- MODULE ExchangeService --------------------------
(***************************************************************************)
(* The TCP exchange: the ExchangeService singleton of every worker process *)
(* (runtime/src/net/tcp/exchange_service.cpp) together with the operator   *)
(* that drives it (runtime/src/operators/exchange_tcp.cpp).                *)
(*                                                                         *)
(* In every worker process run                                             *)
(*   - the main fiber: the operators of the query plan, then the service's *)
(*     destructor;                                                         *)
(*   - one sender fiber per host, one acceptor fiber and one receiver      *)
(*     fiber per accepted connection, all on the thread of the main fiber; *)
(*   - one consume thread per exchange operator, a std::thread.            *)
(* A fiber runs only while the main fiber waits in a fiber operation       *)
(* (ReceiveMessage, the joins of the destructor).                          *)
(*                                                                         *)
(* A message is its number in its stream; kEndStream bears the last one.   *)
(***************************************************************************)
EXTENDS Integers, Sequences, FiniteSets

CONSTANTS N,          \* number of hosts (num_hosts)
          Exchanges,  \* exchange IDs
          Plan,       \* the operator calls of the main fiber, alike on each host
          Slots,      \* messages a sink or a source channel holds
          WireSlots,  \* messages a connection holds, the one being written included
          MaxMsgs     \* MaxMsgs[h][e][r]: bound on the payloads from h to r in e

Hosts == 0 .. N - 1
Calls == [op : {"open", "next", "close"}, ex : Exchanges]

ASSUME NAssumption == N \in Nat \ {0}
ASSUME SlotsAssumption ==
    /\ Slots \in Nat \ {0}
    /\ WireSlots \in Nat \ {0}
    /\ MaxMsgs \in [Hosts -> [Exchanges -> [Hosts -> Nat]]]
(* An exchange ID belongs to one operator, which is opened, drained and    *)
(* closed once.                                                            *)
ASSUME PlanAssumption ==
    /\ Plan \in Seq(Calls)
    /\ \A i, j \in DOMAIN Plan : Plan[i] = Plan[j] => i = j
    /\ \A i \in DOMAIN Plan :
        /\ Plan[i].op = "next" =>
            \E j \in 1 .. i - 1 : Plan[j] = [op |-> "open", ex |-> Plan[i].ex]
        /\ Plan[i].op = "close" =>
            \E j \in 1 .. i - 1 : Plan[j] = [op |-> "next", ex |-> Plan[i].ex]

VARIABLES
    ip,         \* ip[h]: the call of Plan the main fiber of h is in
    thread,     \* thread[h][e]: what the consume thread pushes next
    sent,       \* sent[h][e][r]: payloads pushed for r
    sink,       \* sink[h][r]: sinks_[r] of h
    conn,       \* conn[h][r]: state of the sender fiber of h for r
    wire,       \* wire[h][r]: the TCP stream from h to r
    receiver,   \* receiver[h][s]: state of the receiver fiber of h for s
    held,       \* held[h][s]: the payload that fiber is about to push
    registered, \* registered[h]: the keys of exchanges_
    source,     \* source[h][e]: buffer of source_
    closed,     \* closed[h][e]: source_ is closed
    remaining,  \* remaining[h][e]: num_remaining_receivers_
    got,        \* got[h][e][s]: number of the last payload received from s
    eos,        \* eos[h]: exchanges whose ReceiveMessage has returned {}
    phase       \* phase[h]: life cycle of the service

opVars   == <<ip, thread, got, eos>>
sendVars == <<sent, sink, conn, wire>>
recvVars == <<receiver, held, registered, source, closed, remaining>>
vars     == <<opVars, sendVars, recvVars, phase>>

Message == [op : {"kMessage", "kEndStream"}, ex : Exchanges, num : Nat]
Payload == [src : Hosts, num : Nat]
Thread  == [pc : {"idle", "payload", "ends", "done"}, to : Hosts]

Idle     == [pc |-> "idle", to |-> 0]
Done     == [pc |-> "done", to |-> 0]

----------------------------------------------------------------------------
(* The call the main fiber is in; "exit" after the last one. *)
Op(h) == IF ip[h] \in DOMAIN Plan THEN Plan[ip[h]].op ELSE "exit"
Ex(h) == Plan[ip[h]].ex

(* The fibers of h share the thread of the main fiber, which blocks in     *)
(* open and in close without yielding to them (std::thread::join).         *)
FibersRun(h) == Op(h) \in {"next", "exit"} /\ phase[h] \notin {"down", "stopped"}

(* ended[h][e]: the receivers to which h has pushed the end of its stream, *)
(* as the state t of its consume thread tells.                             *)
EndedBy(t) ==
    CASE t.pc = "done" -> Hosts
      [] t.pc = "ends" -> 0 .. t.to - 1
      [] OTHER -> {}
ended == [h \in Hosts |-> [e \in Exchanges |-> EndedBy(thread[h][e])]]

Init ==
    /\ ip = [h \in Hosts |-> 1]
    /\ thread = [h \in Hosts |-> [e \in Exchanges |-> Idle]]
    /\ sent = [h \in Hosts |-> [e \in Exchanges |-> [r \in Hosts |-> 0]]]
    /\ sink = [h \in Hosts |-> [r \in Hosts |-> <<>>]]
    /\ conn = [h \in Hosts |-> [r \in Hosts |-> "connecting"]]
    /\ wire = [h \in Hosts |-> [r \in Hosts |-> <<>>]]
    /\ receiver = [h \in Hosts |-> [s \in Hosts |-> "none"]]
    /\ held = [h \in Hosts |-> [s \in Hosts |-> <<>>]]
    /\ registered = [h \in Hosts |-> {}]
    /\ source = [h \in Hosts |-> [e \in Exchanges |-> <<>>]]
    /\ closed = [h \in Hosts |-> [e \in Exchanges |-> FALSE]]
    /\ remaining = [h \in Hosts |-> [e \in Exchanges |-> N]]
    /\ got = [h \in Hosts |-> [e \in Exchanges |-> [s \in Hosts |-> 0]]]
    /\ eos = [h \in Hosts |-> {}]
    /\ phase = [h \in Hosts |-> "down"]

----------------------------------------------------------------------------
(* Registering an exchange is idempotent: the local open() and the first   *)
(* message of a remote host race for it.  The entry of an exchange that is *)
(* not registered is kept at its initial value.                            *)
StartExchange(h, e) == registered' = [registered EXCEPT ![h] = @ \cup {e}]

(* Mutant: open() leaves it to the first message to register the exchange. *)
OpenUnregistered(h) ==
    /\ Op(h) = "open"
    /\ phase' = [phase EXCEPT ![h] = IF @ = "down" THEN "running" ELSE @]
    /\ ip' = [ip EXCEPT ![h] = @ + 1]
    /\ UNCHANGED <<thread, got, eos, sendVars, recvVars>>

(* ExchangeTcpOperator::open; the first use constructs the service. *)
Open(h) ==
    /\ Op(h) = "open"
    /\ phase' = [phase EXCEPT ![h] = IF @ = "down" THEN "running" ELSE @]
    /\ StartExchange(h, Ex(h))
    /\ ip' = [ip EXCEPT ![h] = @ + 1]
    /\ UNCHANGED <<thread, got, eos, sendVars, receiver, held, source, closed,
                   remaining>>

(* What upstream_->next() may make the consume thread of h for e push next *)
(* when it has pushed n[r] payloads for every r: a payload for some host,  *)
(* or the ends.                                                            *)
Upstream(h, e, n) ==
    {[pc |-> "payload", to |-> r] : r \in {q \in Hosts : n[q] < MaxMsgs[h][e][q]}}
        \cup {[pc |-> "ends", to |-> 0]}

(* The first call of next() starts the consume thread. *)
StartConsumeUpstream(h) ==
    /\ Op(h) = "next"
    /\ thread[h][Ex(h)].pc = "idle"
    /\ \E t \in Upstream(h, Ex(h), sent[h][Ex(h)]) : thread' = [thread EXCEPT ![h][Ex(h)] = t]
    /\ UNCHANGED <<ip, got, eos, sendVars, recvVars, phase>>

(* SendMessage of a payload by a consume thread, which waits for a free    *)
(* slot of the sink, and the call of upstream_->next() that follows.       *)
SendPayload(h, e) ==
    LET r == thread[h][e].to
        n == [sent[h][e] EXCEPT ![r] = @ + 1]
    IN  /\ thread[h][e].pc = "payload"
        /\ Len(sink[h][r]) < Slots
        /\ sink' = [sink EXCEPT ![h][r] =
                        Append(@, [op |-> "kMessage", ex |-> e, num |-> n[r]])]
        /\ sent' = [sent EXCEPT ![h][e] = n]
        /\ \E t \in Upstream(h, e, n) : thread' = [thread EXCEPT ![h][e] = t]
        /\ UNCHANGED <<ip, got, eos, conn, wire, recvVars, phase>>

(* SendMessage of an empty optional, to one host after the other. *)
SendEndStream(h, e) ==
    LET r == thread[h][e].to IN
    /\ thread[h][e].pc = "ends"
    /\ Len(sink[h][r]) < Slots
    /\ sink' = [sink EXCEPT ![h][r] =
                    Append(@, [op |-> "kEndStream", ex |-> e, num |-> sent[h][e][r] + 1])]
    /\ thread' = [thread EXCEPT ![h][e] =
                    IF r = N - 1 THEN Done ELSE [pc |-> "ends", to |-> r + 1]]
    /\ UNCHANGED <<ip, got, eos, sent, conn, wire, recvVars, phase>>

(* ReceiveMessage returns the next payload... *)
ReceiveMessage(h) ==
    LET e == Ex(h)
        m == Head(source[h][e])
    IN  /\ Op(h) = "next"
        /\ thread[h][e].pc # "idle"
        /\ e \in registered[h]
        /\ source[h][e] # <<>>
        /\ source' = [source EXCEPT ![h][e] = Tail(@)]
        /\ got' = [got EXCEPT ![h][e][m.src] = m.num]
        /\ UNCHANGED <<ip, thread, eos, sendVars, receiver, held, registered,
                       closed, remaining, phase>>

(* Mutant: the source is closed, but nobody looks whether it is drained. *)
ReceiveEndUndrained(h) ==
    LET e == Ex(h) IN
    /\ Op(h) = "next"
    /\ thread[h][e].pc # "idle"
    /\ e \in registered[h]
    /\ closed[h][e]
    /\ eos' = [eos EXCEPT ![h] = @ \cup {e}]
    /\ ip' = [ip EXCEPT ![h] = @ + 1]
    /\ UNCHANGED <<thread, got, sendVars, recvVars, phase>>

(* Mutant: a source without payloads is taken for one that is at its end. *)
ReceiveEndUnclosed(h) ==
    LET e == Ex(h) IN
    /\ Op(h) = "next"
    /\ thread[h][e].pc # "idle"
    /\ e \in registered[h]
    /\ source[h][e] = <<>>
    /\ eos' = [eos EXCEPT ![h] = @ \cup {e}]
    /\ ip' = [ip EXCEPT ![h] = @ + 1]
    /\ UNCHANGED <<thread, got, sendVars, recvVars, phase>>

(* ... and the empty optional once the source is closed and drained; the   *)
(* operator is at its end and the main fiber goes on with the plan.        *)
ReceiveEndOfStream(h) ==
    LET e == Ex(h) IN
    /\ Op(h) = "next"
    /\ thread[h][e].pc # "idle"
    /\ e \in registered[h]
    /\ source[h][e] = <<>>
    /\ closed[h][e]
    /\ eos' = [eos EXCEPT ![h] = @ \cup {e}]
    /\ ip' = [ip EXCEPT ![h] = @ + 1]
    /\ UNCHANGED <<thread, got, sendVars, recvVars, phase>>

(* ExchangeTcpOperator::close joins the consume thread, then FinishExchange *)
(* erases the exchange.                                                    *)
Close(h) ==
    LET e == Ex(h) IN
    /\ Op(h) = "close"
    /\ thread[h][e].pc = "done"
    /\ registered' = [registered EXCEPT ![h] = @ \ {e}]
    /\ source' = [source EXCEPT ![h][e] = <<>>]
    /\ closed' = [closed EXCEPT ![h][e] = FALSE]
    /\ remaining' = [remaining EXCEPT ![h][e] = N]
    /\ ip' = [ip EXCEPT ![h] = @ + 1]
    /\ UNCHANGED <<thread, got, eos, sendVars, receiver, held, phase>>

----------------------------------------------------------------------------
(* Mutant: the connection that a retry has set up is not used. *)
ConnectForgets(h, r) ==
    /\ FibersRun(h)
    /\ conn[h][r] = "connecting"
    /\ phase[r] \in {"running", "sinksClosed"}
    /\ UNCHANGED vars

(* RunSender: connecting succeeds when the other side listens; a refused   *)
(* attempt is repeated after a pause.                                      *)
Connect(h, r) ==
    /\ FibersRun(h)
    /\ conn[h][r] = "connecting"
    /\ phase[r] \in {"running", "sinksClosed"}
    /\ conn' = [conn EXCEPT ![h][r] = "connected"]
    /\ UNCHANGED <<opVars, sent, sink, wire, recvVars, phase>>

(* RunSender: pops a message, once the write of the previous one is done,  *)
(* and writes it to the socket.                                            *)
SenderWrite(h, r) ==
    /\ FibersRun(h)
    /\ conn[h][r] = "connected"
    /\ Len(wire[h][r]) < WireSlots
    /\ sink[h][r] # <<>>
    /\ wire' = [wire EXCEPT ![h][r] = Append(@, Head(sink[h][r]))]
    /\ sink' = [sink EXCEPT ![h][r] = Tail(@)]
    /\ UNCHANGED <<opVars, sent, conn, recvVars, phase>>

(* RunSender returns, which closes the socket, when its sink is closed and *)
(* drained.                                                                *)
SenderReturn(h, r) ==
    /\ FibersRun(h)
    /\ conn[h][r] = "connected"
    /\ Len(wire[h][r]) < WireSlots
    /\ sink[h][r] = <<>>
    /\ phase[h] = "sinksClosed"
    /\ conn' = [conn EXCEPT ![h][r] = "returned"]
    /\ UNCHANGED <<opVars, sent, sink, wire, recvVars, phase>>

(* RunAcceptor: every host connects once, so that the bound num_hosts on   *)
(* the accepted connections is the one on the set of senders.              *)
Accept(h, s) ==
    /\ FibersRun(h)
    /\ phase[h] \in {"running", "sinksClosed"}
    /\ conn[s][h] # "connecting"
    /\ receiver[h][s] = "none"
    /\ receiver' = [receiver EXCEPT ![h][s] = "reading"]
    /\ UNCHANGED <<opVars, sendVars, held, registered, source, closed, remaining,
                   phase>>

(* Mutant: the first kEndStream closes the source. *)
CountFirstEnd(h, e) ==
    /\ remaining' = [remaining EXCEPT ![h][e] = @ - 1]
    /\ closed' = [closed EXCEPT ![h][e] = TRUE]

(* Mutant: kEndStream is counted twice. *)
CountEndTwice(h, e) ==
    /\ remaining' = [remaining EXCEPT ![h][e] = @ - 2]
    /\ closed' = [closed EXCEPT ![h][e] = @ \/ remaining[h][e] = 1]

(* kEndStream is counted, and the last one closes the source. *)
CountEnd(h, e) ==
    /\ remaining' = [remaining EXCEPT ![h][e] = @ - 1]
    /\ closed' = [closed EXCEPT ![h][e] = @ \/ remaining[h][e] = 1]

(* RunReceiver: reads a header and registers its exchange.  Of a message   *)
(* other than kEndStream the payload is read, to be pushed.                *)
ReadMessage(h, s) ==
    LET m == Head(wire[s][h]) IN
    /\ FibersRun(h)
    /\ receiver[h][s] = "reading"
    /\ held[h][s] = <<>>
    /\ wire[s][h] # <<>>
    /\ wire' = [wire EXCEPT ![s][h] = Tail(@)]
    /\ StartExchange(h, m.ex)
    /\ \/ /\ m.op = "kEndStream"
          /\ CountEnd(h, m.ex)
          /\ UNCHANGED held
       \/ /\ m.op = "kMessage"
          /\ held' = [held EXCEPT ![h][s] = <<m>>]
          /\ UNCHANGED <<remaining, closed>>
    /\ UNCHANGED <<opVars, sent, sink, conn, receiver, source, phase>>

(* RunReceiver: pushes the payload, waiting for a free slot; a closed      *)
(* source refuses it, which the fiber does not notice.                     *)
PushPayload(h, s) ==
    LET m == Head(held[h][s])
        e == m.ex
    IN  /\ FibersRun(h)
        /\ held[h][s] # <<>>
        /\ closed[h][e] \/ Len(source[h][e]) < Slots
        /\ source' = [source EXCEPT ![h][e] =
                         IF closed[h][e] THEN @ ELSE Append(@, [src |-> s, num |-> m.num])]
        /\ held' = [held EXCEPT ![h][s] = <<>>]
        /\ UNCHANGED <<opVars, sendVars, receiver, registered, closed, remaining, phase>>

(* RunReceiver returns at the end of the TCP stream. *)
ReceiverReturn(h, s) ==
    /\ FibersRun(h)
    /\ receiver[h][s] = "reading"
    /\ held[h][s] = <<>>
    /\ wire[s][h] = <<>>
    /\ conn[s][h] = "returned"
    /\ receiver' = [receiver EXCEPT ![h][s] = "returned"]
    /\ UNCHANGED <<opVars, sendVars, held, registered, source, closed, remaining, phase>>

----------------------------------------------------------------------------
(* ~ExchangeService, run when the main thread exits: closes the sinks,     *)
(* joins the senders, closes the acceptor, joins the receivers.            *)
CloseSinks(h) ==
    /\ Op(h) = "exit"
    /\ phase[h] = "running"
    /\ phase' = [phase EXCEPT ![h] = "sinksClosed"]
    /\ UNCHANGED <<opVars, sendVars, recvVars>>

CloseAcceptor(h) ==
    /\ phase[h] = "sinksClosed"
    /\ \A r \in Hosts : conn[h][r] = "returned"
    /\ phase' = [phase EXCEPT ![h] = "acceptorClosed"]
    /\ UNCHANGED <<opVars, sendVars, recvVars>>

(* Mutant: the receivers are not joined. *)
StopUnjoined(h) ==
    /\ phase[h] = "acceptorClosed"
    /\ phase' = [phase EXCEPT ![h] = "stopped"]
    /\ UNCHANGED <<opVars, sendVars, recvVars>>

Stop(h) ==
    /\ phase[h] = "acceptorClosed"
    /\ \A s \in Hosts : receiver[h][s] # "reading"
    /\ phase' = [phase EXCEPT ![h] = "stopped"]
    /\ UNCHANGED <<opVars, sendVars, recvVars>>

(* All workers have exited. *)
Terminated ==
    /\ \A h \in Hosts : phase[h] = "stopped"
    /\ UNCHANGED vars

MainFiber(h) ==
    \/ Open(h) \/ StartConsumeUpstream(h) \/ ReceiveMessage(h)
    \/ ReceiveEndOfStream(h) \/ Close(h)
    \/ CloseSinks(h) \/ CloseAcceptor(h) \/ Stop(h)

ConsumeThread(h, e) == SendPayload(h, e) \/ SendEndStream(h, e)

SenderFiber(h, r) == Connect(h, r) \/ SenderWrite(h, r) \/ SenderReturn(h, r)

ReceiverFiber(h, s) ==
    Accept(h, s) \/ ReadMessage(h, s) \/ PushPayload(h, s) \/ ReceiverReturn(h, s)

Next ==
    \/ \E h \in Hosts :
        \/ MainFiber(h)
        \/ \E e \in Exchanges : ConsumeThread(h, e)
        \/ \E r \in Hosts : SenderFiber(h, r) \/ ReceiverFiber(h, r)
    \/ Terminated

Spec == Init /\ [][Next]_vars

(* Threads are scheduled by the operating system, the fibers of a thread   *)
(* round-robin, and TCP delivers what was written.                         *)
Fairness ==
    \A h \in Hosts :
        /\ WF_vars(MainFiber(h))
        /\ \A e \in Exchanges : WF_vars(ConsumeThread(h, e))
        /\ \A r \in Hosts : WF_vars(SenderFiber(h, r)) /\ WF_vars(ReceiverFiber(h, r))

FairSpec == Spec /\ Fairness

----------------------------------------------------------------------------
(* The calls of the plan that the main fiber of h has completed. *)
Past(h, op, e) == \E i \in DOMAIN Plan : i < ip[h] /\ Plan[i] = [op |-> op, ex |-> e]

(* Per host, per pair of hosts, and per host and exchange. *)
PerHost(S) == [Hosts -> S]
PerPair(S) == [Hosts -> [Hosts -> S]]
PerExchange(S) == [Hosts -> [Exchanges -> S]]

(* Types of the state; num_remaining_receivers_ never wraps below zero. *)
TypeOK ==
    /\ ip \in PerHost(Nat)
    /\ thread \in PerExchange(Thread)
    /\ sent \in PerExchange([Hosts -> Nat])
    /\ sink \in PerPair(Seq(Message))
    /\ conn \in PerPair({"connecting", "connected", "returned"})
    /\ wire \in PerPair(Seq(Message))
    /\ receiver \in PerPair({"none", "reading", "returned"})
    /\ held \in PerPair(Seq(Message))
    /\ registered \in PerHost(SUBSET Exchanges)
    /\ source \in PerExchange(Seq(Payload))
    /\ closed \in PerExchange(BOOLEAN)
    /\ remaining \in PerExchange(0 .. N)
    /\ got \in PerExchange([Hosts -> Nat])
    /\ eos \in PerHost(SUBSET Exchanges)
    /\ phase \in PerHost({"down", "running", "sinksClosed", "acceptorClosed", "stopped"})

(* ReceiveMessage signals end-of-stream only after every host, the own one *)
(* included, has ended its stream and all its payloads have been returned. *)
EndOfStreamComplete ==
    \A h \in Hosts : \A e \in eos[h], s \in Hosts :
        h \in ended[s][e] /\ got[h][e][s] = sent[s][e][h]

(* The lookups exchanges_.at(id) of ReceiveMessage and of the receivers    *)
(* find the exchange, whoever of open() and the receivers came first.      *)
ExchangeFound ==
    \A h \in Hosts :
        /\ Op(h) = "next" => Ex(h) \in registered[h]
        /\ \A s \in Hosts : held[h][s] # <<>> => Head(held[h][s]).ex \in registered[h]

(* FinishExchange is final: no message that is still on its way registers  *)
(* the exchange again.                                                     *)
FinishedStaysErased ==
    \A h \in Hosts, e \in Exchanges : Past(h, "close", e) => e \notin registered[h]

(* No receiver pushes to a source that another one has closed: RunReceiver *)
(* ignores the result of push, so the payload would be lost.               *)
NoPayloadRefused ==
    \A h, s \in Hosts : held[h][s] # <<>> => ~closed[h][Head(held[h][s]).ex]

(* The destructor leaves nothing behind: when it has closed the acceptor   *)
(* every host has been accepted, and when it returns every host has closed *)
(* its connection and all that came over it has been read.                 *)
ShutdownComplete ==
    \A h, s \in Hosts :
        /\ phase[h] \in {"acceptorClosed", "stopped"} => receiver[h][s] # "none"
        /\ phase[h] = "stopped" =>
            /\ conn[s][h] = "returned"
            /\ sink[h][s] = <<>> /\ wire[s][h] = <<>> /\ held[h][s] = <<>>

(* The service implements the exchange that its clients rely on. *)
Abstract == INSTANCE AbstractExchange WITH Hosts <- Hosts, Exchanges <- Exchanges,
                sent <- sent, ended <- ended, got <- got, eos <- eos
ImplementsExchange == Abstract!Spec

(* Every worker gets to the end of its plan and out of the destructor. *)
Termination == <>(\A h \in Hosts : phase[h] = "stopped")

(* "Sending an empty optional signals that no more data is going to be     *)
(* sent, i.e., sends kEndStream": a consume thread whose upstream is at    *)
(* its end gets rid of all its kEndStream messages.                        *)
EndStreamSent ==
    \A h \in Hosts, e \in Exchanges :
        (thread[h][e].pc = "ends") ~> (thread[h][e].pc = "done")

----------------------------------------------------------------------------
(* An inductive invariant.  What is on its way from s to h, oldest first,  *)
(* is one queue: moving a message from the sink to the socket or from the  *)
(* socket to the receiver leaves it as it is.                              *)
Pipe(s, h) == (held[h][s] \o wire[s][h]) \o sink[s][h]

EndInPipe(s, h, e) ==
    \E i \in DOMAIN Pipe(s, h) : Pipe(s, h)[i].op = "kEndStream" /\ Pipe(s, h)[i].ex = e

(* The hosts whose kEndStream h has still to count. *)
Pending(h, e) == {s \in Hosts : h \notin ended[s][e] \/ EndInPipe(s, h, e)}

(* The messages of a stream are in a pipe in the order of their numbers,   *)
(* none is received yet, and kEndStream bears the number after the last.   *)
PipeInv ==
    \A s, h \in Hosts, e \in Exchanges : \A i \in DOMAIN Pipe(s, h) :
        LET m == Pipe(s, h)[i] IN
        m.ex = e =>
            /\ \A j \in 1 .. i - 1 : Pipe(s, h)[j].ex = e => Pipe(s, h)[j].num < m.num
            /\ got[h][e][s] < m.num
            /\ m.op = "kMessage" => m.num <= sent[s][e][h]
            /\ m.op = "kEndStream" => h \in ended[s][e] /\ m.num = sent[s][e][h] + 1
            /\ s \in Pending(h, e)

(* So are those in a source, and they precede those in the pipe. *)
SourceInv ==
    \A s, h \in Hosts, e \in Exchanges : \A i \in DOMAIN source[h][e] :
        LET m == source[h][e][i] IN
        m.src = s =>
            /\ \A j \in 1 .. i - 1 : source[h][e][j].src = s => source[h][e][j].num < m.num
            /\ got[h][e][s] < m.num /\ m.num <= sent[s][e][h]
            /\ \A j \in DOMAIN Pipe(s, h) : Pipe(s, h)[j].ex = e => m.num < Pipe(s, h)[j].num

(* No payload is lost. *)
InTransit(s, h, e, n) ==
    \/ \E i \in DOMAIN source[h][e] : source[h][e][i] = [src |-> s, num |-> n]
    \/ \E i \in DOMAIN Pipe(s, h) : Pipe(s, h)[i].ex = e /\ Pipe(s, h)[i].num = n
NoLoss ==
    \A s, h \in Hosts, e \in Exchanges :
        /\ got[h][e][s] <= sent[s][e][h]
        /\ \A n \in 1 .. sent[s][e][h] : got[h][e][s] < n => InTransit(s, h, e, n)

(* An exchange that is not finished counts the streams still to be ended,  *)
(* and its source is closed when there are none.                           *)
Erased(h, e) == e \notin registered[h] /\ source[h][e] = <<>> /\ ~closed[h][e]
Counting(h, e) ==
    /\ remaining[h][e] = Cardinality(Pending(h, e))
    /\ closed[h][e] <=> Pending(h, e) = {}
    /\ Past(h, "open", e) => e \in registered[h]
CountInv ==
    \A h \in Hosts, e \in Exchanges :
        /\ Past(h, "close", e) => Erased(h, e)
        /\ ~Past(h, "close", e) => Counting(h, e)

(* The exchanges that are drained are those whose next() is past. *)
Complete(h, e) ==
    Pending(h, e) = {} /\ \A s \in Hosts : got[h][e][s] = sent[s][e][h]
EosInv ==
    \A h \in Hosts, e \in Exchanges :
        /\ e \in eos[h] <=> Past(h, "next", e)
        /\ e \in eos[h] => Complete(h, e)

(* A receiver holds at most one payload, of a registered exchange. *)
HeldInv ==
    \A h, s \in Hosts :
        held[h][s] # <<>> =>
            /\ held[h][s] = <<Head(held[h][s])>>
            /\ Head(held[h][s]).op = "kMessage"
            /\ Head(held[h][s]).ex \in registered[h]

(* The state of the service, proved to be invariant in                     *)
(* ExchangeServiceProofs.                                                  *)
IndInv ==
    TypeOK /\ PipeInv /\ SourceInv /\ NoLoss /\ CountInv /\ EosInv /\ HeldInv
=============================================================================
