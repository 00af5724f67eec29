------------------------ MODULE ExchangeServiceSend -------------------------
(***************************************************************************)
(* Type correctness of the steps of the TCP exchange, how a step moves a   *)
(* host along its plan, facts that the proofs of several steps share;      *)
(* SendMessage preserves the inductive invariant, and every step the life  *)
(* cycle of a worker.                                                      *)
(***************************************************************************)
EXTENDS ExchangeService, TLAPS

(* Sequences as functions of their indices. *)
LEMMA SeqElement ==
    ASSUME NEW S, NEW s \in Seq(S)
    PROVE  DOMAIN s = 1 .. Len(s) /\ Len(s) \in Nat /\ \A i \in DOMAIN s : s[i] \in S
OBVIOUS

(* Two of them are equal if they have the same length and elements. *)
LEMMA SeqSame ==
    ASSUME NEW S, NEW s \in Seq(S), NEW t \in Seq(S),
           Len(s) = Len(t), \A i \in 1 .. Len(s) : s[i] = t[i]
    PROVE  s = t
OBVIOUS

(* Only the empty sequence has no index. *)
LEMMA SeqEmpty ==
    ASSUME NEW S
    PROVE  \A s \in Seq(S) : s # <<>> <=> Len(s) # 0
OBVIOUS

(* How a pipe, the concatenation of the payload a receiver holds, a socket *)
(* and a sink, changes with its parts: SenderWrite...                      *)
LEMMA PipeWrite ==
    ASSUME NEW a \in Seq(Message), NEW b \in Seq(Message), NEW c \in Seq(Message), c # <<>>
    PROVE  (a \o Append(b, Head(c))) \o Tail(c) = (a \o b) \o c
<1> DEFINE p == (a \o Append(b, Head(c))) \o Tail(c)
           q == (a \o b) \o c
<1>1. p \in Seq(Message) /\ q \in Seq(Message)
  OBVIOUS
<1>2. Len(p) = Len(q)
  OBVIOUS
<1>3. ASSUME NEW i \in 1 .. Len(q) PROVE p[i] = q[i]
  <2>1. CASE i <= Len(a)
    BY <2>1
  <2>2. CASE Len(a) < i /\ i <= Len(a) + Len(b)
    BY <2>2
  <2>3. CASE i = Len(a) + Len(b) + 1
    BY <2>3
  <2>4. CASE i > Len(a) + Len(b) + 1
    BY <2>4
  <2> QED BY <2>1, <2>2, <2>3, <2>4
<1> QED BY <1>1, <1>2, <1>3, SeqSame, Zenon

(* ... ReadMessage of a payload... *)
LEMMA PipeHold ==
    ASSUME NEW b \in Seq(Message), NEW c \in Seq(Message), b # <<>>
    PROVE  (<<Head(b)>> \o Tail(b)) \o c = (<<>> \o b) \o c
<1>1. <<Head(b)>> \o Tail(b) = b
  <2>1. <<Head(b)>> \o Tail(b) \in Seq(Message) /\ Len(<<Head(b)>> \o Tail(b)) = Len(b)
    OBVIOUS
  <2>2. ASSUME NEW i \in 1 .. Len(b) PROVE (<<Head(b)>> \o Tail(b))[i] = b[i]
    OBVIOUS
  <2> QED BY <2>1, <2>2, SeqSame, Zenon
<1>2. <<>> \o b = b
  OBVIOUS
<1> QED BY <1>1, <1>2, Zenon

(* ... ReadMessage of kEndStream... *)
LEMMA PipeEnd ==
    ASSUME NEW b \in Seq(Message), NEW c \in Seq(Message), b # <<>>
    PROVE  /\ (<<>> \o Tail(b)) \o c = Tail((<<>> \o b) \o c)
           /\ (<<>> \o b) \o c # <<>>
           /\ ((<<>> \o b) \o c)[1] = Head(b)
<1>1. <<>> \o b = b /\ <<>> \o Tail(b) = Tail(b)
  OBVIOUS
<1>2. Tail(b) \o c \in Seq(Message) /\ b \o c \in Seq(Message) /\ b \o c # <<>> /\ (b \o c)[1] = Head(b)
  OBVIOUS
<1>3. Len(Tail(b) \o c) = Len(Tail(b \o c))
  BY <1>2
<1>4. ASSUME NEW i \in 1 .. Len(Tail(b) \o c) PROVE (Tail(b) \o c)[i] = Tail(b \o c)[i]
  BY <1>2
<1>5. Tail(b) \o c = Tail(b \o c)
  BY <1>2, <1>3, <1>4, SeqSame
<1> QED BY <1>1, <1>2, <1>5, Zenon

(* ... PushPayload... *)
LEMMA PipePush ==
    ASSUME NEW x \in Message, NEW b \in Seq(Message), NEW c \in Seq(Message)
    PROVE  /\ (<<>> \o b) \o c = Tail((<<x>> \o b) \o c)
           /\ (<<x>> \o b) \o c # <<>>
           /\ ((<<x>> \o b) \o c)[1] = x
<1> DEFINE d == <<x>> \o b
<1>1. d \in Seq(Message) /\ d # <<>> /\ Len(d) = Len(b) + 1 /\ d[1] = x
  OBVIOUS
<1>2. \A i \in 1 .. Len(b) : d[i + 1] = b[i]
  OBVIOUS
<1> HIDE DEF d
<1>3. Tail(d) = b
  <2>1. Tail(d) \in Seq(Message) /\ Len(Tail(d)) = Len(b)
    BY <1>1
  <2>2. \A i \in 1 .. Len(b) : Tail(d)[i] = b[i]
    BY <1>1, <1>2
  <2> QED BY <2>1, <2>2, SeqSame, Zenon
<1>4. /\ (<<>> \o Tail(d)) \o c = Tail((<<>> \o d) \o c)
      /\ (<<>> \o d) \o c # <<>>
      /\ ((<<>> \o d) \o c)[1] = Head(d)
  BY <1>1, PipeEnd, Zenon
<1>5. <<>> \o d = d /\ Head(d) = d[1]
  BY <1>1
<1> QED BY <1>1, <1>3, <1>4, <1>5, Zenon DEF d

(* ... and SendMessage. *)
LEMMA PipeSend ==
    ASSUME NEW a \in Seq(Message), NEW b \in Seq(Message), NEW c \in Seq(Message), NEW m \in Message
    PROVE  (a \o b) \o Append(c, m) = Append((a \o b) \o c, m)
<1> DEFINE d == a \o b
           p == d \o Append(c, m)
           q == Append(d \o c, m)
<1>0. d \in Seq(Message)
  OBVIOUS
<1> HIDE DEF d
<1>1. p \in Seq(Message) /\ q \in Seq(Message) /\ Len(p) = Len(q)
  BY <1>0
<1>2. ASSUME NEW i \in 1 .. Len(p) PROVE p[i] = q[i]
  <2>1. CASE i <= Len(d)
    BY <2>1, <1>0
  <2>2. CASE i > Len(d) /\ i <= Len(d) + Len(c)
    BY <2>2, <1>0
  <2>3. CASE i = Len(d) + Len(c) + 1
    BY <2>3, <1>0
  <2> QED BY <1>0, <2>1, <2>2, <2>3
<1>3. p = q
  BY <1>1, <1>2, SeqSame, Zenon
<1> QED BY <1>3, Zenon DEF d

----------------------------------------------------------------------------
(* Looking up and updating the functions that make up the state. *)
LEMMA HostUpdate ==
    ASSUME NEW S, NEW f \in PerHost(S), NEW h \in Hosts, NEW v \in S
    PROVE  /\ [f EXCEPT ![h] = v] \in PerHost(S)
           /\ f[h] \in S
           /\ \A x \in Hosts : [f EXCEPT ![h] = v][x] = IF x = h THEN v ELSE f[x]
BY Zenon DEF PerHost

(* ... of one indexed by two hosts... *)
LEMMA PairUpdate ==
    ASSUME NEW S, NEW f \in PerPair(S), NEW h \in Hosts, NEW r \in Hosts, NEW v \in S
    PROVE  /\ [f EXCEPT ![h][r] = v] \in PerPair(S)
           /\ f[h][r] \in S
           /\ \A x, y \in Hosts :
                [f EXCEPT ![h][r] = v][x][y] = IF x = h /\ y = r THEN v ELSE f[x][y]
BY Zenon DEF PerPair

(* ... of one indexed by a host and an exchange... *)
LEMMA ExchangeUpdate ==
    ASSUME NEW S, NEW f \in PerExchange(S), NEW h \in Hosts, NEW e \in Exchanges, NEW v \in S
    PROVE  /\ [f EXCEPT ![h][e] = v] \in PerExchange(S)
           /\ f[h][e] \in S
           /\ \A x \in Hosts, y \in Exchanges :
                [f EXCEPT ![h][e] = v][x][y] = IF x = h /\ y = e THEN v ELSE f[x][y]
BY Zenon DEF PerExchange

(* ... and of the number of a stream. *)
LEMMA CountUpdate ==
    ASSUME NEW f \in PerExchange([Hosts -> Nat]), NEW h \in Hosts, NEW e \in Exchanges,
           NEW r \in Hosts, NEW v \in Nat
    PROVE  /\ [f EXCEPT ![h][e][r] = v] \in PerExchange([Hosts -> Nat])
           /\ f[h][e][r] \in Nat
           /\ \A x, z \in Hosts, y \in Exchanges :
                [f EXCEPT ![h][e][r] = v][x][y][z]
                    = IF x = h /\ y = e /\ z = r THEN v ELSE f[x][y][z]
BY DEF PerExchange

(* ... to which one is added. *)
LEMMA CountNext ==
    \A c \in [Hosts -> Nat], r \in Hosts : [c EXCEPT ![r] = @ + 1] \in [Hosts -> Nat]
OBVIOUS

(* The types of the values of the counters. *)
LEMMA Lookup ==
    ASSUME TypeOK
    PROVE  /\ \A h \in Hosts : ip[h] \in Nat /\ registered[h] \subseteq Exchanges
                               /\ eos[h] \subseteq Exchanges
           /\ \A h, r \in Hosts : /\ sink[h][r] \in Seq(Message)
                                  /\ wire[h][r] \in Seq(Message)
                                  /\ held[h][r] \in Seq(Message)
           /\ \A h \in Hosts, e \in Exchanges :
                /\ thread[h][e] \in Thread
                /\ source[h][e] \in Seq(Payload)
                /\ closed[h][e] \in BOOLEAN
                /\ remaining[h][e] \in 0 .. N
                /\ \A r \in Hosts : sent[h][e][r] \in Nat /\ got[h][e][r] \in Nat
BY DEF TypeOK, PerHost, PerPair, PerExchange

(* The call the main fiber is in. *)
LEMMA PlanCall ==
    ASSUME NEW h \in Hosts, Op(h) # "exit"
    PROVE  /\ ip[h] \in DOMAIN Plan
           /\ Op(h) \in {"open", "next", "close"}
           /\ Ex(h) \in Exchanges
           /\ Plan[ip[h]] = [op |-> Op(h), ex |-> Ex(h)]
<1>1. ip[h] \in DOMAIN Plan /\ Op(h) = Plan[ip[h]].op
  BY Zenon DEF Op
<1>2. Plan[ip[h]] \in Calls
  BY <1>1, PlanAssumption
<1> QED BY <1>1, <1>2, Zenon DEF Calls, Ex

(* A pipe is a sequence of messages. *)
LEMMA PipeType ==
    ASSUME TypeOK, NEW s \in Hosts, NEW h \in Hosts
    PROVE  /\ Pipe(s, h) \in Seq(Message)
           /\ DOMAIN Pipe(s, h) = 1 .. Len(Pipe(s, h)) /\ Len(Pipe(s, h)) \in Nat
           /\ \A i \in DOMAIN Pipe(s, h) :
                /\ Pipe(s, h)[i] \in Message
                /\ Pipe(s, h)[i].op \in {"kMessage", "kEndStream"}
                /\ Pipe(s, h)[i].ex \in Exchanges
                /\ Pipe(s, h)[i].num \in Nat
<1>1. held[h][s] \in Seq(Message) /\ wire[s][h] \in Seq(Message) /\ sink[s][h] \in Seq(Message)
  BY Lookup, Zenon
<1>2. Pipe(s, h) \in Seq(Message)
  BY <1>1 DEF Pipe
<1>3. \A i \in DOMAIN Pipe(s, h) : Pipe(s, h)[i] \in Message
  BY <1>2, SeqElement, Zenon
<1>4. \A m \in Message : m.op \in {"kMessage", "kEndStream"} /\ m.ex \in Exchanges /\ m.num \in Nat
  BY Zenon DEF Message
<1> QED BY <1>2, <1>3, <1>4

(* A source is a sequence of payloads. *)
LEMMA SourceType ==
    ASSUME TypeOK, NEW h \in Hosts, NEW e \in Exchanges
    PROVE  /\ source[h][e] \in Seq(Payload)
           /\ DOMAIN source[h][e] = 1 .. Len(source[h][e]) /\ Len(source[h][e]) \in Nat
           /\ \A i \in DOMAIN source[h][e] :
                /\ source[h][e][i] \in Payload
                /\ source[h][e][i].src \in Hosts
                /\ source[h][e][i].num \in Nat
                /\ source[h][e][i] = [src |-> source[h][e][i].src, num |-> source[h][e][i].num]
<1>1. source[h][e] \in Seq(Payload)
  BY Lookup, Zenon
<1>2. \A i \in DOMAIN source[h][e] : source[h][e][i] \in Payload
  BY <1>1, SeqElement, Zenon
<1>3. \A m \in Payload : m.src \in Hosts /\ m.num \in Nat /\ m = [src |-> m.src, num |-> m.num]
  BY DEF Payload
<1> QED BY <1>1, <1>2, <1>3

(* Each step keeps the types, given what it does to the counters. *)
LEMMA TypeStep ==
    ASSUME TypeOK, [Next]_vars, remaining' \in PerExchange(0 .. N)
    PROVE  TypeOK'
<1>a. /\ ip \in PerHost(Nat)
      /\ registered \in PerHost(SUBSET Exchanges)
      /\ eos \in PerHost(SUBSET Exchanges)
  BY Zenon DEF TypeOK
<1>b. /\ thread \in PerExchange(Thread)
      /\ sent \in PerExchange([Hosts -> Nat])
      /\ source \in PerExchange(Seq(Payload))
      /\ closed \in PerExchange(BOOLEAN)
  BY Zenon DEF TypeOK
<1>c. /\ sink \in PerPair(Seq(Message))
      /\ wire \in PerPair(Seq(Message))
      /\ held \in PerPair(Seq(Message))
  BY Zenon DEF TypeOK
<1>1. ASSUME NEW h \in Hosts, Open(h) PROVE TypeOK'
  <2>1. Ex(h) \in Exchanges
    BY <1>1, PlanCall, Zenon DEF Open
  <2>2. ip' \in PerHost(Nat)
    BY <1>1, <1>a DEF Open, PerHost
  <2>4. registered' \in PerHost(SUBSET Exchanges)
    BY <1>1, <2>1, <1>a, Zenon DEF Open, StartExchange, PerHost
  <2>3. phase' \in PerHost({"down", "running", "sinksClosed", "acceptorClosed", "stopped"})
    BY <1>1, Zenon DEF Open, TypeOK, PerHost
  <2> QED BY <1>1, <2>2, <2>3, <2>4, Zenon DEF Open, sendVars, TypeOK
<1>2. ASSUME NEW h \in Hosts, StartConsumeUpstream(h) PROVE TypeOK'
  <2>1. Ex(h) \in Exchanges
    BY <1>2, PlanCall, Zenon DEF StartConsumeUpstream
  <2>2. Upstream(h, Ex(h), sent[h][Ex(h)]) \subseteq Thread
    BY NAssumption DEF Upstream, Thread, Hosts
  <2>3. thread' \in PerExchange(Thread)
    BY <1>2, <2>1, <2>2, <1>b DEF StartConsumeUpstream, PerExchange
  <2> QED BY <1>2, <2>3, Zenon DEF StartConsumeUpstream, sendVars, recvVars, TypeOK
<1>3. ASSUME NEW h \in Hosts, NEW e \in Exchanges, SendPayload(h, e) PROVE TypeOK'
  <2> DEFINE r == thread[h][e].to
             n == [sent[h][e] EXCEPT ![r] = @ + 1]
             m == [op |-> "kMessage", ex |-> e, num |-> n[r]]
  <2>0. r \in Hosts /\ sink[h][r] \in Seq(Message)
    BY Lookup, Zenon DEF Thread
  <2>1. r \in Hosts /\ sent[h][e] \in [Hosts -> Nat] /\ sink[h][r] \in Seq(Message)
    BY <1>b, <2>0, Zenon DEF PerExchange
  <2>2. n \in [Hosts -> Nat] /\ m \in Message
    <3>1. n \in [Hosts -> Nat]
      BY <2>1, CountNext, Zenon
    <3>2. n[r] \in Nat
      <4> HIDE DEF r, n
      <4> QED BY <2>1, <3>1, Zenon
    <3> QED BY <3>1, <3>2, Zenon DEF Message
  <2>3. Upstream(h, e, n) \subseteq Thread
    BY NAssumption DEF Upstream, Thread, Hosts
  <2>4. /\ sink' = [sink EXCEPT ![h][r] = Append(@, m)]
        /\ sent' = [sent EXCEPT ![h][e] = n]
        /\ \E t \in Upstream(h, e, n) : thread' = [thread EXCEPT ![h][e] = t]
        /\ UNCHANGED <<ip, got, eos, conn, wire, recvVars, phase>>
    BY <1>3, Zenon DEF SendPayload
  <2> HIDE DEF r, n, m
  <2>5. sink' \in PerPair(Seq(Message))
    <3>1. Append(sink[h][r], m) \in Seq(Message)
      BY <2>1, <2>2
    <3> QED BY <2>1, <2>4, <3>1, PairUpdate, ZenonT(30) DEF TypeOK
  <2>6. sent' \in PerExchange([Hosts -> Nat])
    BY <2>2, <2>4, <1>b, Zenon DEF PerExchange
  <2>7. thread' \in PerExchange(Thread)
    BY <2>3, <2>4, <1>b DEF PerExchange
  <2> QED BY <2>4, <2>5, <2>6, <2>7, Zenon DEF recvVars, TypeOK
<1>4. ASSUME NEW h \in Hosts, NEW e \in Exchanges, SendEndStream(h, e) PROVE TypeOK'
  <2> DEFINE r == thread[h][e].to
             m == [op |-> "kEndStream", ex |-> e, num |-> sent[h][e][r] + 1]
             t == IF r = N - 1 THEN Done ELSE [pc |-> "ends", to |-> r + 1]
  <2>1. r \in Hosts /\ sent[h][e][r] \in Nat /\ sink[h][r] \in Seq(Message)
    BY Lookup, Zenon DEF Thread
  <2>2. m \in Message
    BY <2>1 DEF Message
  <2>3. t \in Thread
    BY <2>1, NAssumption DEF Thread, Done, Hosts
  <2>4. /\ sink' = [sink EXCEPT ![h][r] = Append(@, m)]
        /\ thread' = [thread EXCEPT ![h][e] = t]
        /\ UNCHANGED <<ip, got, eos, sent, conn, wire, recvVars, phase>>
    BY <1>4, Zenon DEF SendEndStream
  <2> HIDE DEF r, m, t
  <2>5. sink' \in PerPair(Seq(Message))
    <3>1. Append(sink[h][r], m) \in Seq(Message)
      BY <2>1, <2>2
    <3> QED BY <2>1, <2>4, <3>1, PairUpdate, ZenonT(30) DEF TypeOK
  <2>6. thread' \in PerExchange(Thread)
    BY <2>3, <2>4, ExchangeUpdate, Zenon DEF TypeOK
  <2> QED BY <2>4, <2>5, <2>6, Zenon DEF recvVars, TypeOK
<1>5. ASSUME NEW h \in Hosts, ReceiveMessage(h) PROVE TypeOK'
  <2> DEFINE e == Ex(h)
             m == Head(source[h][e])
  <2>1. e \in Exchanges /\ source[h][e] \in Seq(Payload) /\ source[h][e] # <<>>
    BY <1>5, PlanCall, Lookup, Zenon DEF ReceiveMessage
  <2>2. m \in Payload /\ Tail(source[h][e]) \in Seq(Payload)
    BY <2>1
  <2>3. m.src \in Hosts /\ m.num \in Nat
    BY <2>2, Zenon DEF Payload
  <2>4. /\ source' = [source EXCEPT ![h][e] = Tail(@)]
        /\ got' = [got EXCEPT ![h][e][m.src] = m.num]
        /\ UNCHANGED <<ip, thread, eos, sendVars, receiver, held, registered,
                       closed, remaining, phase>>
    BY <1>5, Zenon DEF ReceiveMessage
  <2> HIDE DEF e, m
  <2>5. source' \in PerExchange(Seq(Payload))
    BY <2>1, <2>2, <2>4, ExchangeUpdate, Zenon DEF TypeOK
  <2>6. got' \in PerExchange([Hosts -> Nat])
    BY <2>1, <2>3, <2>4, CountUpdate, Zenon DEF TypeOK
  <2> QED BY <2>4, <2>5, <2>6, Zenon DEF sendVars, TypeOK
<1>6. ASSUME NEW h \in Hosts, ReceiveEndOfStream(h) PROVE TypeOK'
  <2>1. Ex(h) \in Exchanges
    BY <1>6, PlanCall, Zenon DEF ReceiveEndOfStream
  <2>2. ip' \in PerHost(Nat)
    BY <1>6, <1>a DEF ReceiveEndOfStream, PerHost
  <2>3. eos' \in PerHost(SUBSET Exchanges)
    BY <1>6, <2>1, <1>a, Zenon DEF ReceiveEndOfStream, PerHost
  <2> QED BY <1>6, <2>2, <2>3, Zenon DEF ReceiveEndOfStream, sendVars, recvVars, TypeOK
<1>7. ASSUME NEW h \in Hosts, Close(h) PROVE TypeOK'
  <2>1. Ex(h) \in Exchanges
    BY <1>7, PlanCall, Zenon DEF Close
  <2>2. ip' \in PerHost(Nat)
    BY <1>7, <1>a DEF Close, PerHost
  <2>5. registered' \in PerHost(SUBSET Exchanges)
    BY <1>7, <1>a, Zenon DEF Close, PerHost
  <2>3. <<>> \in Seq(Payload) /\ FALSE \in BOOLEAN
    OBVIOUS
  <2>4. source' \in PerExchange(Seq(Payload)) /\ closed' \in PerExchange(BOOLEAN)
    BY <1>7, <2>1, <2>3, <1>b, Zenon DEF Close, PerExchange
  <2> QED BY <1>7, <2>2, <2>4, <2>5, Zenon DEF Close, sendVars, TypeOK
<1>8. ASSUME NEW h \in Hosts, CloseSinks(h) \/ CloseAcceptor(h) \/ Stop(h) PROVE TypeOK'
  <2>1. phase' \in PerHost({"down", "running", "sinksClosed", "acceptorClosed", "stopped"})
    BY <1>8, Zenon DEF CloseSinks, CloseAcceptor, Stop, TypeOK, PerHost
  <2>2. UNCHANGED <<opVars, sendVars, recvVars>>
    BY <1>8, Zenon DEF CloseSinks, CloseAcceptor, Stop
  <2> QED BY <2>1, <2>2, Zenon DEF opVars, sendVars, recvVars, TypeOK
<1>9. ASSUME NEW h \in Hosts, NEW r \in Hosts, Connect(h, r) \/ SenderReturn(h, r) PROVE TypeOK'
  <2>1. conn' \in PerPair({"connecting", "connected", "returned"})
    <3>1. conn \in PerPair({"connecting", "connected", "returned"})
      BY Zenon DEF TypeOK
    <3>2. \/ conn' = [conn EXCEPT ![h][r] = "connected"]
          \/ conn' = [conn EXCEPT ![h][r] = "returned"]
      BY <1>9, Zenon DEF Connect, SenderReturn
    <3>3. "connected" \in {"connecting", "connected", "returned"} /\ "returned" \in {"connecting", "connected", "returned"}
      BY Zenon
    <3>4. [conn EXCEPT ![h][r] = "connected"] \in PerPair({"connecting", "connected", "returned"})
      BY <3>1, <3>3, PairUpdate, Zenon
    <3>5. [conn EXCEPT ![h][r] = "returned"] \in PerPair({"connecting", "connected", "returned"})
      BY <3>1, <3>3, PairUpdate, Zenon
    <3> QED BY <3>2, <3>4, <3>5, Zenon
  <2>2. UNCHANGED <<opVars, sent, sink, wire, recvVars, phase>>
    BY <1>9, Zenon DEF Connect, SenderReturn
  <2> QED BY <2>1, <2>2, Zenon DEF opVars, recvVars, TypeOK
<1>10. ASSUME NEW h \in Hosts, NEW r \in Hosts, SenderWrite(h, r) PROVE TypeOK'
  <2>1. wire[h][r] \in Seq(Message) /\ sink[h][r] \in Seq(Message) /\ sink[h][r] # <<>>
    BY <1>10, Lookup, Zenon DEF SenderWrite
  <2>2. Append(wire[h][r], Head(sink[h][r])) \in Seq(Message) /\ Tail(sink[h][r]) \in Seq(Message)
    BY <2>1
  <2>3. wire' \in PerPair(Seq(Message))
    <3> DEFINE v == Append(wire[h][r], Head(sink[h][r]))
    <3>1. wire' = [wire EXCEPT ![h][r] = v]
      BY <1>10, Zenon DEF SenderWrite
    <3>2. v \in Seq(Message)
      BY <2>2, Zenon
    <3> HIDE DEF v
    <3> QED BY <3>1, <3>2, <1>c, PairUpdate, Zenon
  <2>4. sink' \in PerPair(Seq(Message))
    <3>1. sink' = [sink EXCEPT ![h][r] = Tail(sink[h][r])]
      BY <1>10, Zenon DEF SenderWrite
    <3> QED BY <3>1, <2>2, <1>c, PairUpdate, Zenon
  <2> QED BY <1>10, <2>3, <2>4, Zenon DEF SenderWrite, opVars, recvVars, TypeOK
<1>11. ASSUME NEW h \in Hosts, NEW s \in Hosts, Accept(h, s) \/ ReceiverReturn(h, s) PROVE TypeOK'
  <2>1. receiver' \in PerPair({"none", "reading", "returned"})
    <3>1. receiver \in PerPair({"none", "reading", "returned"})
      BY Zenon DEF TypeOK
    <3>2. \/ receiver' = [receiver EXCEPT ![h][s] = "reading"]
          \/ receiver' = [receiver EXCEPT ![h][s] = "returned"]
      BY <1>11, Zenon DEF Accept, ReceiverReturn
    <3>3. "reading" \in {"none", "reading", "returned"} /\ "returned" \in {"none", "reading", "returned"}
      BY Zenon
    <3>4. [receiver EXCEPT ![h][s] = "reading"] \in PerPair({"none", "reading", "returned"})
      BY <3>1, <3>3, PairUpdate, Zenon
    <3>5. [receiver EXCEPT ![h][s] = "returned"] \in PerPair({"none", "reading", "returned"})
      BY <3>1, <3>3, PairUpdate, Zenon
    <3> QED BY <3>2, <3>4, <3>5, Zenon
  <2>2. UNCHANGED <<opVars, sendVars, held, registered, source, closed, remaining, phase>>
    BY <1>11, Zenon DEF Accept, ReceiverReturn
  <2> QED BY <2>1, <2>2, Zenon DEF opVars, sendVars, TypeOK
<1>12. ASSUME NEW h \in Hosts, NEW s \in Hosts, ReadMessage(h, s) PROVE TypeOK'
  <2> DEFINE m == Head(wire[s][h])
  <2>0. wire[s][h] \in Seq(Message) /\ wire[s][h] # <<>>
    BY <1>12, Lookup, Zenon DEF ReadMessage
  <2>1. m \in Message /\ Tail(wire[s][h]) \in Seq(Message)
    BY <2>0
  <2>2. m.ex \in Exchanges /\ <<m>> \in Seq(Message)
    BY <2>1 DEF Message
  <2>3. /\ wire' = [wire EXCEPT ![s][h] = Tail(@)]
        /\ registered' = [registered EXCEPT ![h] = @ \cup {m.ex}]
        /\ UNCHANGED <<opVars, sent, sink, conn, receiver, source, phase>>
    BY <1>12, Zenon DEF ReadMessage, StartExchange
  <2>4. held' = held \/ held' = [held EXCEPT ![h][s] = <<m>>]
    BY <1>12, Zenon DEF ReadMessage, CountEnd
  <2>5. closed' = closed \/ closed' = [closed EXCEPT ![h][m.ex] = @ \/ remaining[h][m.ex] = 1]
    BY <1>12, Zenon DEF ReadMessage, CountEnd
  <2> HIDE DEF m
  <2>6. held' \in PerPair(Seq(Message))
    <3>1. CASE held' = held
      BY <3>1, <1>c, Zenon
    <3>2. CASE held' = [held EXCEPT ![h][s] = <<m>>]
      BY <3>2, <2>2, <1>c, PairUpdate, Zenon
    <3> QED BY <2>4, <3>1, <3>2, Zenon
  <2>7. closed' \in PerExchange(BOOLEAN)
    <3>1. (closed[h][m.ex] \/ remaining[h][m.ex] = 1) \in BOOLEAN
      BY Zenon
    <3>2. CASE closed' = closed
      BY <3>2, <1>b, Zenon
    <3>3. CASE closed' = [closed EXCEPT ![h][m.ex] = @ \/ remaining[h][m.ex] = 1]
      BY <3>1, <3>3, <2>2, <1>b, ExchangeUpdate, Zenon
    <3> QED BY <2>5, <3>2, <3>3, Zenon
  <2>8. wire' \in PerPair(Seq(Message))
    BY <2>1, <2>3, PairUpdate, Zenon DEF TypeOK
  <2>9. registered' \in PerHost(SUBSET Exchanges)
    BY <2>2, <2>3, <1>a, Zenon DEF PerHost
  <2> QED BY <2>3, <2>6, <2>7, <2>8, <2>9, Zenon DEF opVars, TypeOK
<1>13. ASSUME NEW h \in Hosts, NEW s \in Hosts, PushPayload(h, s) PROVE TypeOK'
  <2> DEFINE m == Head(held[h][s])
             x == [src |-> s, num |-> m.num]
             q == IF closed[h][m.ex] THEN source[h][m.ex] ELSE Append(source[h][m.ex], x)
  <2>0. held[h][s] \in Seq(Message) /\ held[h][s] # <<>>
    BY <1>13, Lookup, Zenon DEF PushPayload
  <2>1. m \in Message
    BY <2>0
  <2>2. m.ex \in Exchanges /\ x \in Payload
    BY <2>1, Zenon DEF Message, Payload
  <2>3. q \in Seq(Payload)
    BY <2>2, Lookup
  <2>4. /\ source' = [source EXCEPT ![h][m.ex] = q]
        /\ held' = [held EXCEPT ![h][s] = <<>>]
        /\ UNCHANGED <<opVars, sendVars, receiver, registered, closed, remaining, phase>>
    BY <1>13, Zenon DEF PushPayload
  <2> HIDE DEF m, x, q
  <2>5. held' \in PerPair(Seq(Message))
    <3>1. <<>> \in Seq(Message)
      OBVIOUS
    <3> QED BY <2>4, <3>1, PairUpdate, Zenon DEF TypeOK
  <2>6. source' \in PerExchange(Seq(Payload))
    BY <2>2, <2>3, <2>4, ExchangeUpdate, Zenon DEF TypeOK
  <2> QED BY <2>4, <2>5, <2>6, Zenon DEF opVars, sendVars, TypeOK
<1>14. CASE UNCHANGED vars
  BY <1>14, Zenon DEF vars, opVars, sendVars, recvVars, TypeOK
<1> QED
  BY <1>1, <1>2, <1>3, <1>4, <1>5, <1>6, <1>7, <1>8, <1>9, <1>10, <1>11, <1>12, <1>13, <1>14, Zenon
  DEF Next, MainFiber, ConsumeThread, SenderFiber, ReceiverFiber, Terminated

----------------------------------------------------------------------------
(* The calls that are past grow with every call that returns... *)
LEMMA PastStep ==
    ASSUME TypeOK, NEW h \in Hosts, Op(h) # "exit", ip' = [ip EXCEPT ![h] = @ + 1],
           NEW g \in Hosts, NEW o, NEW e
    PROVE  Past(g, o, e)' <=> \/ Past(g, o, e)
                              \/ g = h /\ o = Op(h) /\ e = Ex(h)
<1>1. ip[h] \in DOMAIN Plan /\ Plan[ip[h]] = [op |-> Op(h), ex |-> Ex(h)]
  BY PlanCall, Zenon
<1>2. \A i \in DOMAIN Plan : i \in Int
  BY PlanAssumption
<1>3. ip[g] \in Nat /\ ip[h] \in Nat /\ ip'[g] = IF g = h THEN ip[h] + 1 ELSE ip[g]
  BY Zenon DEF TypeOK, PerHost
<1>4. \A i \in DOMAIN Plan : i < ip'[g] <=> i < ip[g] \/ (g = h /\ i = ip[h])
  BY <1>2, <1>3
<1>5. [op |-> Op(h), ex |-> Ex(h)] = [op |-> o, ex |-> e] <=> o = Op(h) /\ e = Ex(h)
  BY Zenon
<1> QED BY <1>1, <1>4, <1>5, Zenon DEF Past

(* ... in the order that PlanAssumption prescribes. *)
LEMMA PastOrder ==
    ASSUME TypeOK, NEW h \in Hosts
    PROVE  /\ \A e : Past(h, "close", e) => Past(h, "next", e)
           /\ \A e : Past(h, "next", e) => Past(h, "open", e)
           /\ Op(h) # "exit" => ~Past(h, Op(h), Ex(h))
           /\ Op(h) = "next" => Past(h, "open", Ex(h))
           /\ Op(h) = "close" => Past(h, "next", Ex(h))
<1>1. \A i \in DOMAIN Plan : i \in Int /\ 1 .. i - 1 \subseteq DOMAIN Plan
  BY PlanAssumption
<1>2. ip[h] \in Nat
  BY Lookup, Zenon
<1>a. \A i \in DOMAIN Plan : Plan[i].op = "close" =>
        \E j \in 1 .. i - 1 : Plan[j] = [op |-> "next", ex |-> Plan[i].ex]
  BY PlanAssumption, Zenon
<1>3. ASSUME NEW e, Past(h, "close", e) PROVE Past(h, "next", e)
  <2>1. PICK i \in DOMAIN Plan : i < ip[h] /\ Plan[i] = [op |-> "close", ex |-> e]
    BY <1>3, Zenon DEF Past
  <2>2. PICK j \in 1 .. i - 1 : Plan[j] = [op |-> "next", ex |-> e]
    BY <2>1, <1>a
  <2> QED BY <1>1, <1>2, <2>1, <2>2 DEF Past
<1>4. ASSUME NEW e, Past(h, "next", e) PROVE Past(h, "open", e)
  <2>1. PICK i \in DOMAIN Plan : i < ip[h] /\ Plan[i] = [op |-> "next", ex |-> e]
    BY <1>4, Zenon DEF Past
  <2>2. PICK j \in 1 .. i - 1 : Plan[j] = [op |-> "open", ex |-> e]
    BY <2>1, PlanAssumption
  <2> QED BY <1>1, <1>2, <2>1, <2>2 DEF Past
<1>5. ASSUME Op(h) # "exit" PROVE ~Past(h, Op(h), Ex(h))
  <2>1. ip[h] \in DOMAIN Plan /\ Plan[ip[h]] = [op |-> Op(h), ex |-> Ex(h)]
    BY <1>5, PlanCall, Zenon
  <2> QED BY <1>1, <2>1, PlanAssumption DEF Past
<1>6. ASSUME Op(h) = "next" PROVE Past(h, "open", Ex(h))
  <2>1. ip[h] \in DOMAIN Plan /\ Plan[ip[h]] = [op |-> "next", ex |-> Ex(h)]
    BY <1>6, PlanCall, Zenon
  <2>2. PICK j \in 1 .. ip[h] - 1 : Plan[j] = [op |-> "open", ex |-> Ex(h)]
    BY <2>1, PlanAssumption
  <2> QED BY <1>1, <1>2, <2>1, <2>2 DEF Past
<1>7. ASSUME Op(h) = "close" PROVE Past(h, "next", Ex(h))
  <2>1. ip[h] \in DOMAIN Plan /\ Plan[ip[h]] = [op |-> "close", ex |-> Ex(h)]
    BY <1>7, PlanCall, Zenon
  <2>2. PICK j \in 1 .. ip[h] - 1 : Plan[j] = [op |-> "next", ex |-> Ex(h)]
    BY <2>1, <1>a
  <2> QED BY <1>1, <1>2, <2>1, <2>2 DEF Past
<1> QED BY <1>3, <1>4, <1>5, <1>6, <1>7, Zenon

----------------------------------------------------------------------------
(* What depends on the pipes, the sources and the counts only. *)
LEMMA SamePending ==
    ASSUME \A s, h \in Hosts : Pipe(s, h)' = Pipe(s, h), ended' = ended
    PROVE  \A h \in Hosts, e \in Exchanges : Pending(h, e)' = Pending(h, e)
BY DEF Pending, EndInPipe

(* A step that leaves the pipes, the sources and the numbers alone loses,  *)
(* repeats and reorders nothing.                                           *)
LEMMA SamePipes ==
    ASSUME PipeInv, SourceInv, NoLoss, TypeOK,
           \A s, h \in Hosts : Pipe(s, h)' = Pipe(s, h),
           ended' = ended, UNCHANGED <<sent, got, source>>
    PROVE  PipeInv' /\ SourceInv' /\ NoLoss'
<1>1. source' = source /\ got' = got /\ sent' = sent
  BY Zenon
<1>2. PipeInv'
  BY <1>1, SamePending DEF PipeInv
<1>3. SourceInv'
  BY <1>1 DEF SourceInv
<1>4. NoLoss'
  <2>1. \A s, h \in Hosts, e \in Exchanges, n \in Nat :
            InTransit(s, h, e, n)' <=> InTransit(s, h, e, n)
    BY <1>1 DEF InTransit
  <2> QED BY <1>1, <2>1 DEF NoLoss
<1> QED BY <1>2, <1>3, <1>4, Zenon

(* ... and one that also leaves registration and closing alone keeps the   *)
(* counts.                                                                 *)
LEMMA SameCounts ==
    ASSUME CountInv,
           \A h \in Hosts, e \in Exchanges :
               /\ Past(h, "close", e)' <=> Past(h, "close", e)
               /\ Past(h, "open", e)' <=> Past(h, "open", e)
               /\ Pending(h, e)' = Pending(h, e),
           UNCHANGED <<registered, source, closed, remaining>>
    PROVE  CountInv'
<1> SUFFICES ASSUME NEW h \in Hosts, NEW e \in Exchanges
             PROVE  /\ Past(h, "close", e)' => Erased(h, e)'
                    /\ ~Past(h, "close", e)' => Counting(h, e)'
  BY Zenon DEF CountInv
<1>1. registered' = registered /\ source' = source /\ closed' = closed /\ remaining' = remaining
  BY Zenon
<1>2. /\ Past(h, "close", e) => Erased(h, e)
      /\ ~Past(h, "close", e) => Counting(h, e)
  BY Zenon DEF CountInv
<1>3. Erased(h, e) => Erased(h, e)'
  BY <1>1, Zenon DEF Erased
<1>4. Counting(h, e) => Counting(h, e)'
  <2>1. (Past(h, "open", e)' <=> Past(h, "open", e)) /\ Pending(h, e)' = Pending(h, e)
    BY Zenon
  <2> QED BY <1>1, <2>1, Zenon DEF Counting
<1>5. Past(h, "close", e)' <=> Past(h, "close", e)
  BY Zenon
<1> QED BY <1>2, <1>3, <1>4, <1>5, Zenon

(* What the main fiber has seen is as before when it does not move. *)
LEMMA SameView ==
    ASSUME UNCHANGED <<thread, sink, wire, held>>
    PROVE  ended' = ended /\ \A s, h \in Hosts : Pipe(s, h)' = Pipe(s, h)
BY Zenon DEF ended, Pipe

(* Steps that only concern the connections and the phases, and the start   *)
(* of a consume thread.                                                    *)
LEMMA QuietStep ==
    ASSUME IndInv, TypeOK', ended' = ended, \A s, h \in Hosts : Pipe(s, h)' = Pipe(s, h),
           UNCHANGED <<ip, sent, held, registered, source, closed, remaining, got, eos>>
    PROVE  IndInv'
<1>1. PipeInv' /\ SourceInv' /\ NoLoss'
  BY SamePipes, Zenon DEF IndInv
<1>2. \A h \in Hosts, e \in Exchanges : Pending(h, e)' = Pending(h, e)
  BY SamePending, Zenon
<1>3. \A h, o, e : Past(h, o, e)' <=> Past(h, o, e)
  BY Zenon DEF Past
<1>4. CountInv'
  BY <1>2, <1>3, SameCounts, Zenon DEF IndInv
<1>5. EosInv'
  <2>1. \A h \in Hosts, e \in Exchanges : Complete(h, e)' <=> Complete(h, e)
    BY <1>2, Zenon DEF Complete
  <2> QED BY <1>3, <2>1, Zenon DEF IndInv, EosInv
<1>6. HeldInv'
  BY Zenon DEF IndInv, HeldInv
<1> QED BY <1>1, <1>4, <1>5, <1>6, Zenon DEF IndInv

(* After next() has signalled the end nothing of the exchange is under way. *)
LEMMA Quiescent ==
    ASSUME IndInv, NEW h \in Hosts, NEW e \in Exchanges, Past(h, "next", e)
    PROVE  /\ Pending(h, e) = {} /\ source[h][e] = <<>>
           /\ \A s \in Hosts : \A i \in DOMAIN Pipe(s, h) : Pipe(s, h)[i].ex # e
<1>0. TypeOK
  BY Zenon DEF IndInv
<1>1. Complete(h, e)
  BY Zenon DEF IndInv, EosInv
<1>2. Pending(h, e) = {} /\ \A s \in Hosts : got[h][e][s] = sent[s][e][h]
  BY <1>1, Zenon DEF Complete
<1>3. \A s \in Hosts : \A i \in DOMAIN Pipe(s, h) : Pipe(s, h)[i].ex # e
  BY <1>2, Zenon DEF IndInv, PipeInv
<1>4. source[h][e] = <<>>
  <2>1. ASSUME NEW i \in DOMAIN source[h][e] PROVE FALSE
    <3> DEFINE s == source[h][e][i].src
               n == source[h][e][i].num
    <3>1. s \in Hosts /\ n \in Nat
      BY <1>0, SourceType, Zenon
    <3>2. got[h][e][s] < n /\ n <= sent[s][e][h]
      BY <3>1, Zenon DEF IndInv, SourceInv
    <3>3. got[h][e][s] \in Nat /\ sent[s][e][h] \in Nat /\ got[h][e][s] = sent[s][e][h]
      BY <1>0, <1>2, <3>1, Lookup, Zenon
    <3> HIDE DEF s, n
    <3> QED BY <3>1, <3>2, <3>3
  <2>2. DOMAIN source[h][e] = 1 .. Len(source[h][e]) /\ Len(source[h][e]) \in Nat /\ source[h][e] \in Seq(Payload)
    BY <1>0, SourceType, Zenon
  <2>3. 1 \notin DOMAIN source[h][e]
    BY <2>1, Zenon
  <2>4. Len(source[h][e]) = 0
    BY <2>2, <2>3
  <2> QED BY <2>2, <2>4, SeqEmpty, Zenon
<1> QED BY <1>2, <1>3, <1>4, Zenon

(* The payload that a receiver holds is the first of its pipe. *)
LEMMA HeldFirst ==
    ASSUME IndInv, NEW h \in Hosts, NEW s \in Hosts, held[h][s] # <<>>
    PROVE  /\ Pipe(s, h) # <<>> /\ 1 \in DOMAIN Pipe(s, h)
           /\ Pipe(s, h)[1] = Head(held[h][s])
           /\ Head(held[h][s]) \in Message
<1>0. TypeOK
  BY Zenon DEF IndInv
<1> DEFINE x == Head(held[h][s])
           b == wire[s][h]
           c == sink[s][h]
<1>1. held[h][s] \in Seq(Message) /\ b \in Seq(Message) /\ c \in Seq(Message)
  BY <1>0, Lookup, Zenon
<1>2. held[h][s] = <<x>>
  BY Zenon DEF IndInv, HeldInv
<1>3. x \in Message
  BY <1>1
<1>4. Pipe(s, h) = (<<x>> \o b) \o c
  BY <1>2, Zenon DEF Pipe
<1> HIDE DEF x, b, c
<1>5. (<<x>> \o b) \o c # <<>> /\ ((<<x>> \o b) \o c)[1] = x
  BY <1>1, <1>3, PipePush
<1>6. Pipe(s, h) # <<>> /\ Pipe(s, h)[1] = x
  BY <1>4, <1>5, Zenon
<1>7. Pipe(s, h) \in Seq(Message) /\ DOMAIN Pipe(s, h) = 1 .. Len(Pipe(s, h))
  BY <1>0, PipeType, Zenon
<1>8. 1 \in DOMAIN Pipe(s, h)
  BY <1>6, <1>7, SeqEmpty
<1> QED BY <1>3, <1>6, <1>8, Zenon DEF x

----------------------------------------------------------------------------
(* The indices of a pipe to which a message is appended. *)
LEMMA PipeAppend ==
    ASSUME NEW p \in Seq(Message), NEW m \in Message
    PROVE  /\ \A i \in DOMAIN Append(p, m) :
                \/ i \in DOMAIN p /\ Append(p, m)[i] = p[i]
                \/ i = Len(p) + 1 /\ Append(p, m)[i] = m
           /\ \A i \in DOMAIN p : i \in DOMAIN Append(p, m) /\ Append(p, m)[i] = p[i]
           /\ Len(p) + 1 \in DOMAIN Append(p, m) /\ Append(p, m)[Len(p) + 1] = m
           /\ DOMAIN p = 1 .. Len(p) /\ Len(p) \in Nat
OBVIOUS

Pushed(h, r, m) ==
    /\ \A s, g \in Hosts :
        sink'[s][g] = IF s = h /\ g = r THEN Append(sink[h][r], m) ELSE sink[s][g]
    /\ wire' = wire /\ held' = held

(* A push to a sink appends to one pipe. *)
LEMMA SendPipes ==
    ASSUME TypeOK, NEW h \in Hosts, NEW r \in Hosts, NEW m \in Message, Pushed(h, r, m)
    PROVE  /\ Pipe(h, r)' = Append(Pipe(h, r), m)
           /\ \A s, g \in Hosts : ~(s = h /\ g = r) => Pipe(s, g)' = Pipe(s, g)
<1> DEFINE a == held[r][h]
           b == wire[h][r]
           c == sink[h][r]
<1>1. a \in Seq(Message) /\ b \in Seq(Message) /\ c \in Seq(Message)
  BY Lookup, Zenon
<1>4. Pipe(h, r)' = (a \o b) \o Append(c, m)
  BY Zenon DEF Pipe, Pushed
<1>5. Pipe(h, r) = (a \o b) \o c
  BY Zenon DEF Pipe
<1> HIDE DEF a, b, c
<1>6. (a \o b) \o Append(c, m) = Append((a \o b) \o c, m)
  BY <1>1, PipeSend, Zenon
<1>7. ASSUME NEW s \in Hosts, NEW g \in Hosts, ~(s = h /\ g = r) PROVE Pipe(s, g)' = Pipe(s, g)
  <2>1. sink'[s][g] = sink[s][g] /\ wire' = wire /\ held' = held
    BY <1>7, Zenon DEF Pushed
  <2> QED BY <2>1, Zenon DEF Pipe
<1> QED BY <1>4, <1>5, <1>6, <1>7, Zenon

(* A consume thread appends the next message of its stream. *)
Appended(h, r, f, m) ==
    /\ m.ex = f /\ m.num = sent[h][f][r] + 1 /\ r \notin ended[h][f]
    /\ Pipe(h, r)' = Append(Pipe(h, r), m)
    /\ \A s, g \in Hosts : ~(s = h /\ g = r) => Pipe(s, g)' = Pipe(s, g)
    /\ \A s, g \in Hosts, e \in Exchanges :
        /\ g \in ended'[s][e] <=>
             g \in ended[s][e] \/ (m.op = "kEndStream" /\ s = h /\ e = f /\ g = r)
        /\ m.op = "kMessage" /\ s = h /\ e = f /\ g = r => sent'[s][e][g] = m.num
        /\ ~(m.op = "kMessage" /\ s = h /\ e = f /\ g = r) => sent'[s][e][g] = sent[s][e][g]
    /\ UNCHANGED <<ip, held, registered, source, closed, remaining, got, eos>>

(* A message with the next number of its stream may be appended to its     *)
(* pipe.                                                                   *)
LEMMA AppendStep ==
    ASSUME IndInv, TypeOK', NEW h \in Hosts, NEW r \in Hosts, NEW f \in Exchanges,
           NEW m \in Message, Appended(h, r, f, m)
    PROVE  IndInv'
<1>a. /\ m.ex = f /\ m.num = sent[h][f][r] + 1 /\ r \notin ended[h][f]
      /\ Pipe(h, r)' = Append(Pipe(h, r), m)
  BY Zenon DEF Appended
<1>b. \A s, g \in Hosts : ~(s = h /\ g = r) => Pipe(s, g)' = Pipe(s, g)
  BY Zenon DEF Appended
<1>c. \A s, g \in Hosts, e \in Exchanges :
        g \in ended'[s][e] <=>
            g \in ended[s][e] \/ (m.op = "kEndStream" /\ s = h /\ e = f /\ g = r)
  BY Zenon DEF Appended
<1>d. \A s, g \in Hosts, e \in Exchanges :
        /\ m.op = "kMessage" /\ s = h /\ e = f /\ g = r => sent'[s][e][g] = m.num
        /\ ~(m.op = "kMessage" /\ s = h /\ e = f /\ g = r) => sent'[s][e][g] = sent[s][e][g]
  BY DEF Appended
<1>5. registered' = registered /\ source' = source /\ closed' = closed /\ remaining' = remaining
      /\ got' = got /\ eos' = eos /\ held' = held /\ ip' = ip
  BY Zenon DEF Appended
<1> USE <1>a, <1>b, <1>c, <1>d
<1> DEFINE p == Pipe(h, r)
<1>0. TypeOK
  BY Zenon DEF IndInv
<1>1. p \in Seq(Message)
  BY <1>0, PipeType, Zenon
<1>2. /\ \A i \in DOMAIN Append(p, m) :
            \/ i \in DOMAIN p /\ Append(p, m)[i] = p[i]
            \/ i = Len(p) + 1 /\ Append(p, m)[i] = m
      /\ \A i \in DOMAIN p : i \in DOMAIN Append(p, m) /\ Append(p, m)[i] = p[i]
      /\ Len(p) + 1 \in DOMAIN Append(p, m) /\ Append(p, m)[Len(p) + 1] = m
      /\ DOMAIN p = 1 .. Len(p) /\ Len(p) \in Nat
  BY <1>1, PipeAppend, Zenon
<1>3. m.op \in {"kMessage", "kEndStream"} /\ m.num \in Nat /\ sent[h][f][r] \in Nat
      /\ sent[h][f][r] < m.num
  BY <1>0, Lookup DEF Message
<1>4. \A i \in DOMAIN p : p[i].ex = f => p[i].op = "kMessage" /\ p[i].num \in Nat /\ p[i].num < m.num
  <2> SUFFICES ASSUME NEW i \in DOMAIN p, p[i].ex = f
               PROVE  p[i].op = "kMessage" /\ p[i].num \in Nat /\ p[i].num < m.num
    BY Zenon
  <2>1. /\ p[i].op = "kMessage" => p[i].num <= sent[h][f][r]
        /\ p[i].op = "kEndStream" => r \in ended[h][f]
    BY Zenon DEF IndInv, PipeInv
  <2>2. p[i].op \in {"kMessage", "kEndStream"} /\ p[i].num \in Nat
    BY <1>0, PipeType, Zenon
  <2> HIDE DEF p
  <2> QED BY <1>3, <2>1, <2>2
<1>6. \A s, g \in Hosts, e \in Exchanges : sent[s][e][g] \in Nat /\ sent'[s][e][g] \in Nat /\ sent[s][e][g] <= sent'[s][e][g]
  <2> SUFFICES ASSUME NEW s \in Hosts, NEW g \in Hosts, NEW e \in Exchanges
               PROVE  sent[s][e][g] \in Nat /\ sent'[s][e][g] \in Nat /\ sent[s][e][g] <= sent'[s][e][g]
    BY Zenon
  <2>1. sent[s][e][g] \in Nat
    BY <1>0, Lookup, Zenon
  <2>2. CASE m.op = "kMessage" /\ s = h /\ e = f /\ g = r
    BY <1>3, <2>1, <2>2
  <2>3. CASE ~(m.op = "kMessage" /\ s = h /\ e = f /\ g = r)
    BY <2>1, <2>3
  <2> QED BY <2>2, <2>3, Zenon
<1>7. h \in Pending(r, f)
  BY Zenon DEF Pending
<1>8. ASSUME NEW g \in Hosts, NEW e \in Exchanges PROVE Pending(g, e)' = Pending(g, e)
  <2>1. ASSUME NEW s \in Hosts
        PROVE  (g \notin ended'[s][e] \/ EndInPipe(s, g, e)') <=> (g \notin ended[s][e] \/ EndInPipe(s, g, e))
    <3>1. CASE s = h /\ g = r
      <4>1. EndInPipe(h, r, e)' <=> EndInPipe(h, r, e) \/ (m.op = "kEndStream" /\ e = f)
        <5> HIDE DEF p
        <5>1. (\E i \in DOMAIN Append(p, m) : Append(p, m)[i].op = "kEndStream" /\ Append(p, m)[i].ex = e)
                <=> \/ \E i \in DOMAIN p : p[i].op = "kEndStream" /\ p[i].ex = e
                    \/ m.op = "kEndStream" /\ m.ex = e
          BY <1>2
        <5> QED BY <5>1, Zenon DEF EndInPipe, p
      <4> QED BY <3>1, <4>1
    <3>2. CASE ~(s = h /\ g = r)
      <4>1. EndInPipe(s, g, e)' <=> EndInPipe(s, g, e)
        BY <3>2 DEF EndInPipe
      <4> QED BY <3>2, <4>1
    <3> QED BY <3>1, <3>2, Zenon
  <2> QED BY <2>1, Zenon DEF Pending
<1>9. PipeInv'
  <2> SUFFICES ASSUME NEW s \in Hosts, NEW g \in Hosts, NEW e \in Exchanges,
                      NEW i \in DOMAIN Pipe(s, g)', Pipe(s, g)'[i].ex = e
               PROVE  LET n == Pipe(s, g)'[i] IN
                      /\ \A j \in 1 .. i - 1 : Pipe(s, g)'[j].ex = e => Pipe(s, g)'[j].num < n.num
                      /\ got[g][e][s] < n.num
                      /\ n.op = "kMessage" => n.num <= sent'[s][e][g]
                      /\ n.op = "kEndStream" => g \in ended'[s][e] /\ n.num = sent'[s][e][g] + 1
                      /\ s \in Pending(g, e)
    BY <1>5, <1>8 DEF PipeInv
  <2>1. ASSUME NEW k \in DOMAIN Pipe(s, g), Pipe(s, g)[k].ex = e
        PROVE  LET n == Pipe(s, g)[k] IN
               /\ \A j \in 1 .. k - 1 : Pipe(s, g)[j].ex = e => Pipe(s, g)[j].num < n.num
               /\ got[g][e][s] < n.num
               /\ n.op = "kMessage" => n.num <= sent'[s][e][g]
               /\ n.op = "kEndStream" => g \in ended'[s][e] /\ n.num = sent'[s][e][g] + 1
               /\ s \in Pending(g, e)
    <3>1. LET n == Pipe(s, g)[k] IN
          /\ \A j \in 1 .. k - 1 : Pipe(s, g)[j].ex = e => Pipe(s, g)[j].num < n.num
          /\ got[g][e][s] < n.num
          /\ n.op = "kMessage" => n.num <= sent[s][e][g]
          /\ n.op = "kEndStream" => g \in ended[s][e] /\ n.num = sent[s][e][g] + 1
          /\ s \in Pending(g, e)
      BY <2>1, Zenon DEF IndInv, PipeInv
    <3>2. Pipe(s, g)[k].num \in Nat
      BY <1>0, PipeType, Zenon
    <3>3. Pipe(s, g)[k].op = "kMessage" => Pipe(s, g)[k].num <= sent'[s][e][g]
      BY <1>6, <3>1, <3>2
    <3>4. Pipe(s, g)[k].op = "kEndStream" => sent'[s][e][g] = sent[s][e][g] /\ g \in ended'[s][e]
      <4>1. CASE s = h /\ g = r /\ e = f
        BY <1>4, <2>1, <4>1
      <4>2. CASE ~(s = h /\ g = r /\ e = f)
        BY <3>1, <4>2
      <4> QED BY <4>1, <4>2, Zenon
    <3> QED BY <3>1, <3>3, <3>4, Zenon
  <2>2. CASE ~(s = h /\ g = r)
    <3>1. Pipe(s, g)' = Pipe(s, g)
      BY <2>2, Zenon
    <3> QED BY <2>1, <3>1, Zenon
  <2>3. CASE s = h /\ g = r
    <3>0. Pipe(s, g)' = Append(p, m) /\ Pipe(s, g) = p
      BY <2>3, Zenon
    <3>1. CASE i \in DOMAIN p /\ Append(p, m)[i] = p[i]
      <4>1. \A j \in 1 .. i - 1 : j \in DOMAIN p /\ Append(p, m)[j] = p[j]
        <5> HIDE DEF p
        <5> QED BY <1>2, <3>1
      <4>2. \A j \in 1 .. i - 1 : Pipe(s, g)'[j] = Pipe(s, g)[j]
        BY <3>0, <4>1, Zenon
      <4>3. Pipe(s, g)'[i] = Pipe(s, g)[i] /\ i \in DOMAIN Pipe(s, g)
        BY <3>0, <3>1, Zenon
      <4> QED BY <2>1, <4>2, <4>3, Zenon
    <3>2. CASE i = Len(p) + 1 /\ Append(p, m)[i] = m
      <4>1. e = f /\ Pipe(s, g)'[i] = m
        BY <3>0, <3>2, Zenon
      <4>2. ASSUME NEW j \in 1 .. i - 1, Pipe(s, g)'[j].ex = e PROVE Pipe(s, g)'[j].num < m.num
        <5>1. j \in DOMAIN p /\ Append(p, m)[j] = p[j]
          <6> HIDE DEF p
          <6> QED BY <1>2, <3>2
        <5>2. Pipe(s, g)'[j] = p[j]
          BY <3>0, <5>1, Zenon
        <5> QED BY <1>4, <4>1, <4>2, <5>1, <5>2, Zenon
      <4>3. got[g][e][s] < m.num
        <5>1. got[r][f][h] <= sent[h][f][r] /\ got[r][f][h] \in Nat
          BY <1>0, Lookup, Zenon DEF IndInv, NoLoss
        <5> QED BY <1>3, <2>3, <4>1, <5>1
      <4>4. m.op = "kMessage" => m.num <= sent'[s][e][g]
        BY <1>3, <2>3, <4>1
      <4>5. m.op = "kEndStream" => g \in ended'[s][e] /\ m.num = sent'[s][e][g] + 1
        BY <2>3, <4>1
      <4> QED BY <1>7, <2>3, <4>1, <4>2, <4>3, <4>4, <4>5, Zenon
    <3> QED BY <1>2, <3>0, <3>1, <3>2, Zenon
  <2> QED BY <2>2, <2>3, Zenon
<1>10. SourceInv'
  <2> SUFFICES ASSUME NEW s \in Hosts, NEW g \in Hosts, NEW e \in Exchanges,
                      NEW i \in DOMAIN source[g][e], source[g][e][i].src = s
               PROVE  LET n == source[g][e][i] IN
                      /\ \A j \in 1 .. i - 1 : source[g][e][j].src = s => source[g][e][j].num < n.num
                      /\ got[g][e][s] < n.num /\ n.num <= sent'[s][e][g]
                      /\ \A j \in DOMAIN Pipe(s, g)' : Pipe(s, g)'[j].ex = e => n.num < Pipe(s, g)'[j].num
    BY <1>5 DEF SourceInv
  <2>1. LET n == source[g][e][i] IN
        /\ \A j \in 1 .. i - 1 : source[g][e][j].src = s => source[g][e][j].num < n.num
        /\ got[g][e][s] < n.num /\ n.num <= sent[s][e][g]
        /\ \A j \in DOMAIN Pipe(s, g) : Pipe(s, g)[j].ex = e => n.num < Pipe(s, g)[j].num
    BY Zenon DEF IndInv, SourceInv
  <2>2. source[g][e][i].num \in Nat
    BY <1>0, SourceType, Zenon
  <2>3. source[g][e][i].num <= sent'[s][e][g]
    BY <1>6, <2>1, <2>2
  <2>4. ASSUME NEW j \in DOMAIN Pipe(s, g)', Pipe(s, g)'[j].ex = e
        PROVE  source[g][e][i].num < Pipe(s, g)'[j].num
    <3>1. CASE ~(s = h /\ g = r)
      BY <2>1, <2>4, <3>1
    <3>2. CASE s = h /\ g = r
      <4>0. Pipe(s, g)' = Append(p, m) /\ Pipe(s, g) = p
        BY <3>2, Zenon
      <4>1. CASE j \in DOMAIN p /\ Append(p, m)[j] = p[j]
        BY <2>1, <2>4, <4>0, <4>1, Zenon
      <4>2. CASE Append(p, m)[j] = m
        <5>1. e = f /\ Pipe(s, g)'[j] = m
          BY <2>4, <4>0, <4>2, Zenon
        <5>2. source[g][e][i].num <= sent[h][f][r]
          BY <2>1, <3>2, <5>1, Zenon
        <5> QED BY <1>3, <2>2, <5>1, <5>2
      <4> QED BY <1>2, <4>0, <4>1, <4>2, Zenon
    <3> QED BY <3>1, <3>2, Zenon
  <2> QED BY <2>1, <2>3, <2>4, Zenon
<1>11. NoLoss'
  <2>1. ASSUME NEW s \in Hosts, NEW g \in Hosts, NEW e \in Exchanges, NEW n \in Nat,
               InTransit(s, g, e, n)
        PROVE  InTransit(s, g, e, n)'
    <3>1. CASE ~(s = h /\ g = r)
      BY <1>5, <2>1, <3>1 DEF InTransit
    <3>2. CASE s = h /\ g = r
      <4>0. Pipe(s, g)' = Append(p, m) /\ Pipe(s, g) = p
        BY <3>2, Zenon
      <4> HIDE DEF p
      <4> QED BY <1>2, <1>5, <2>1, <4>0 DEF InTransit
    <3> QED BY <3>1, <3>2, Zenon
  <2>2. InTransit(h, r, f, m.num)'
    <3>1. \E i \in DOMAIN Append(p, m) : Append(p, m)[i].ex = f /\ Append(p, m)[i].num = m.num
      <4> HIDE DEF p
      <4> QED BY <1>2, Zenon
    <3> QED BY <3>1, Zenon DEF InTransit
  <2> SUFFICES ASSUME NEW s \in Hosts, NEW g \in Hosts, NEW e \in Exchanges
               PROVE  /\ got[g][e][s] <= sent'[s][e][g]
                      /\ \A n \in 1 .. sent'[s][e][g] : got[g][e][s] < n => InTransit(s, g, e, n)'
    BY <1>5, Zenon DEF NoLoss
  <2>3. /\ got[g][e][s] <= sent[s][e][g]
        /\ \A n \in 1 .. sent[s][e][g] : got[g][e][s] < n => InTransit(s, g, e, n)
    BY Zenon DEF IndInv, NoLoss
  <2>4. got[g][e][s] <= sent'[s][e][g]
    <3>1. got[g][e][s] \in Nat
      BY <1>0, Lookup, Zenon
    <3> QED BY <1>6, <2>3, <3>1
  <2>5. ASSUME NEW n \in Nat, got[g][e][s] < n, n <= sent'[s][e][g]
        PROVE  InTransit(s, g, e, n)'
    <3>1. CASE n <= sent[s][e][g]
      <4>1. got[g][e][s] \in Nat /\ sent[s][e][g] \in Nat
        BY <1>0, Lookup, Zenon
      <4>2. n \in 1 .. sent[s][e][g]
        BY <2>5, <3>1, <4>1
      <4> QED BY <2>1, <2>3, <2>5, <4>2, Zenon
    <3>2. CASE ~(n <= sent[s][e][g])
      <4>1. s = h /\ e = f /\ g = r /\ sent'[s][e][g] = m.num
        BY <2>5, <3>2
      <4>2. n = m.num
        BY <1>3, <2>5, <3>2, <4>1
      <4> QED BY <2>2, <4>1, <4>2, Zenon
    <3> QED BY <3>1, <3>2, Zenon
  <2> QED BY <2>4, <2>5
<1>12. \A g, o, e : Past(g, o, e)' <=> Past(g, o, e)
  BY <1>5, Zenon DEF Past
<1>13. CountInv'
  BY <1>5, <1>8, <1>12, SameCounts, Zenon DEF IndInv
<1>14. EosInv'
  <2> SUFFICES ASSUME NEW g \in Hosts, NEW e \in Exchanges
               PROVE  /\ e \in eos[g] <=> Past(g, "next", e)
                      /\ e \in eos[g] => Complete(g, e)'
    BY <1>5, <1>12, Zenon DEF EosInv
  <2>1. /\ e \in eos[g] <=> Past(g, "next", e)
        /\ e \in eos[g] => Complete(g, e)
    BY Zenon DEF IndInv, EosInv
  <2>2. ASSUME Complete(g, e) PROVE Complete(g, e)'
    <3>1. ~(g = r /\ e = f)
      BY <1>7, <2>2, Zenon DEF Complete
    <3>2. \A s \in Hosts : sent'[s][e][g] = sent[s][e][g]
      BY <3>1
    <3> QED BY <1>5, <1>8, <2>2, <3>2 DEF Complete
  <2> QED BY <2>1, <2>2, Zenon
<1>15. HeldInv'
  BY <1>5 DEF IndInv, HeldInv
<1> QED BY <1>9, <1>10, <1>11, <1>13, <1>14, <1>15, Zenon DEF IndInv

(* SendMessage with a payload appends the next payload of the stream. *)
LEMMA PayloadSent ==
    ASSUME IndInv, NEW h \in Hosts, NEW f \in Exchanges, SendPayload(h, f)
    PROVE  \E r \in Hosts, m \in Message : Appended(h, r, f, m) /\ Abstract!Send(h, f, r)
<1>0. TypeOK
  BY Zenon DEF IndInv
<1>2. PICK r \in Hosts : r = thread[h][f].to
  BY <1>0, Lookup, Zenon DEF Thread
<1>3. sent[h][f] \in [Hosts -> Nat]
  <2>1. sent \in PerExchange([Hosts -> Nat])
    BY <1>0, Zenon DEF TypeOK
  <2> QED BY <2>1, Zenon DEF PerExchange
<1> DEFINE n == [sent[h][f] EXCEPT ![r] = @ + 1]
<1>4. \A g \in Hosts : n[g] = IF g = r THEN sent[h][f][g] + 1 ELSE sent[h][f][g]
  BY <1>3, Zenon
<1>5. PICK m \in Message : m = [op |-> "kMessage", ex |-> f, num |-> n[r]]
  <2>1. n[r] \in Nat
    BY <1>3, <1>4
  <2>2. [op |-> "kMessage", ex |-> f, num |-> n[r]] \in Message
    BY <2>1, Zenon DEF Message
  <2> QED BY <2>2, Zenon
<1>m. m.ex = f /\ m.op = "kMessage" /\ m.num = sent[h][f][r] + 1
  BY <1>4, <1>5, Zenon
<1>1. /\ thread[h][f].pc = "payload"
      /\ sink' = [sink EXCEPT ![h][r] = Append(sink[h][r], m)]
      /\ sent' = [sent EXCEPT ![h][f] = n]
      /\ \E t \in Upstream(h, f, n) : thread' = [thread EXCEPT ![h][f] = t]
      /\ UNCHANGED <<ip, got, eos, conn, wire, recvVars, phase>>
  BY <1>2, <1>5, Zenon DEF SendPayload
<1>6. PICK t \in Upstream(h, f, n) : thread' = [thread EXCEPT ![h][f] = t]
  BY <1>1, Zenon
<1>7. EndedBy(t) = {} /\ EndedBy(thread[h][f]) = {}
  <2>1. t.pc = "payload" \/ (t.pc = "ends" /\ t.to = 0)
    BY <1>6 DEF Upstream
  <2>2. 0 .. 0 - 1 = {}
    OBVIOUS
  <2> QED BY <1>1, <2>1, <2>2, Zenon DEF EndedBy
<1> HIDE DEF n
<1>8. \A s \in Hosts, e \in Exchanges : EndedBy(thread'[s][e]) = EndedBy(thread[s][e])
  <2>1. thread \in PerExchange(Thread)
    BY <1>0, Zenon DEF TypeOK
  <2>2. \A s \in Hosts, e \in Exchanges :
            thread'[s][e] = IF s = h /\ e = f THEN t ELSE thread[s][e]
    BY <1>6, <2>1, Zenon DEF PerExchange
  <2> QED BY <1>7, <2>2, Zenon
<1>9. ended' = ended /\ r \notin ended[h][f]
  BY <1>7, <1>8, Zenon DEF ended
<1>10. \A s, g \in Hosts, e \in Exchanges :
            sent'[s][e][g] = IF s = h /\ e = f /\ g = r THEN sent[h][f][r] + 1 ELSE sent[s][e][g]
  <2>1. sent \in PerExchange([Hosts -> Nat])
    BY <1>0, Zenon DEF TypeOK
  <2>2. \A s \in Hosts, e \in Exchanges : sent'[s][e] = IF s = h /\ e = f THEN n ELSE sent[s][e]
    BY <1>1, <2>1, Zenon DEF PerExchange
  <2> QED BY <1>4, <2>2, Zenon
<1>s. \A s, g \in Hosts :
          sink'[s][g] = IF s = h /\ g = r THEN Append(sink[h][r], m) ELSE sink[s][g]
  <2> DEFINE v == Append(sink[h][r], m)
  <2>1. sink' = [sink EXCEPT ![h][r] = v]
    BY <1>1, Zenon
  <2>2. sink \in PerPair(Seq(Message))
    BY <1>0, Zenon DEF TypeOK
  <2> HIDE DEF v
  <2>3. \A s, g \in Hosts : sink'[s][g] = IF s = h /\ g = r THEN v ELSE sink[s][g]
    BY <2>1, <2>2, Zenon DEF PerPair
  <2> QED BY <2>3, Zenon DEF v
<1>w. Pushed(h, r, m)
  BY <1>1, <1>s, Zenon DEF Pushed, recvVars
<1>11. /\ Pipe(h, r)' = Append(Pipe(h, r), m)
       /\ \A s, g \in Hosts : ~(s = h /\ g = r) => Pipe(s, g)' = Pipe(s, g)
  BY <1>0, <1>w, SendPipes, Zenon
<1>12. UNCHANGED <<ip, held, registered, source, closed, remaining, got, eos>>
  BY <1>1, Zenon DEF recvVars
<1>13. \A s, g \in Hosts, e \in Exchanges :
          /\ g \in ended'[s][e] <=>
               g \in ended[s][e] \/ (m.op = "kEndStream" /\ s = h /\ e = f /\ g = r)
          /\ m.op = "kMessage" /\ s = h /\ e = f /\ g = r => sent'[s][e][g] = m.num
          /\ ~(m.op = "kMessage" /\ s = h /\ e = f /\ g = r) => sent'[s][e][g] = sent[s][e][g]
  BY <1>m, <1>9, <1>10
<1>14. Appended(h, r, f, m)
  BY <1>m, <1>9, <1>11, <1>12, <1>13, Zenon DEF Appended
<1>15. Abstract!Send(h, f, r)
  <2>1. sent' = [sent EXCEPT ![h] = [sent[h] EXCEPT ![f] = [sent[h][f] EXCEPT ![r] = sent[h][f][r] + 1]]]
    BY <1>1, Zenon DEF n
  <2> QED BY <1>1, <1>9, <2>1, Zenon DEF Abstract!Send
<1> QED BY <1>14, <1>15, Zenon

(* Hence it preserves the invariant. *)
LEMMA SendPayloadStep ==
    ASSUME IndInv, TypeOK', NEW h \in Hosts, NEW f \in Exchanges, SendPayload(h, f)
    PROVE  IndInv'
<1>1. PICK r \in Hosts, m \in Message : Appended(h, r, f, m)
  BY PayloadSent, Zenon
<1> QED BY <1>1, AppendStep, Zenon

(* SendMessage without one appends kEndStream, numbered after the last     *)
(* payload.                                                                *)
LEMMA EndStreamPushed ==
    ASSUME IndInv, NEW h \in Hosts, NEW f \in Exchanges, SendEndStream(h, f)
    PROVE  \E r \in Hosts, m \in Message : Appended(h, r, f, m) /\ Abstract!EndStream(h, f, r)
<1>0. TypeOK
  BY Zenon DEF IndInv
<1>2. PICK r \in Hosts : r = thread[h][f].to
  BY <1>0, Lookup, Zenon DEF Thread
<1>3. PICK m \in Message : m = [op |-> "kEndStream", ex |-> f, num |-> sent[h][f][r] + 1]
  <2>1. sent[h][f][r] + 1 \in Nat
    BY <1>0, Lookup
  <2>2. [op |-> "kEndStream", ex |-> f, num |-> sent[h][f][r] + 1] \in Message
    BY <2>1, Zenon DEF Message
  <2> QED BY <2>2, Zenon
<1>m. m.ex = f /\ m.op = "kEndStream" /\ m.num = sent[h][f][r] + 1
  BY <1>3, Zenon
<1> DEFINE t == IF r = N - 1 THEN Done ELSE [pc |-> "ends", to |-> r + 1]
<1>1. /\ thread[h][f].pc = "ends"
      /\ sink' = [sink EXCEPT ![h][r] = Append(sink[h][r], m)]
      /\ thread' = [thread EXCEPT ![h][f] = t]
      /\ UNCHANGED <<ip, got, eos, sent, conn, wire, recvVars, phase>>
  BY <1>2, <1>3, Zenon DEF SendEndStream
<1>4. EndedBy(thread[h][f]) = 0 .. r - 1
  BY <1>1, <1>2, Zenon DEF EndedBy
<1>5. EndedBy(t) = 0 .. r
  <2>1. CASE r = N - 1
    <3>1. t = Done
      BY <2>1, Zenon
    <3>2. EndedBy(Done) = Hosts
      BY Zenon DEF EndedBy, Done
    <3> QED BY <2>1, <3>1, <3>2, Zenon DEF Hosts
  <2>2. CASE r # N - 1
    <3>1. t.pc = "ends" /\ t.to = r + 1
      BY <2>2, Zenon
    <3>2. EndedBy(t) = 0 .. (r + 1) - 1
      BY <3>1, Zenon DEF EndedBy
    <3> QED BY <1>2, <3>2 DEF Hosts
  <2> QED BY <2>1, <2>2, Zenon
<1>6. r \notin 0 .. r - 1 /\ \A g \in Hosts : g \in 0 .. r <=> g \in 0 .. r - 1 \/ g = r
  BY <1>2 DEF Hosts
<1> HIDE DEF t
<1>7. \A s \in Hosts, e \in Exchanges : thread'[s][e] = IF s = h /\ e = f THEN t ELSE thread[s][e]
  <2>1. thread \in PerExchange(Thread)
    BY <1>0, Zenon DEF TypeOK
  <2> QED BY <1>1, <2>1, Zenon DEF PerExchange
<1>8. \A s \in Hosts, e \in Exchanges : ended[s][e] = EndedBy(thread[s][e]) /\ ended'[s][e] = EndedBy(thread'[s][e])
  BY Zenon DEF ended
<1>9. r \notin ended[h][f]
  BY <1>4, <1>6, <1>8, Zenon
<1>10. sent' = sent
  BY <1>1, Zenon
<1>s. \A s, g \in Hosts :
          sink'[s][g] = IF s = h /\ g = r THEN Append(sink[h][r], m) ELSE sink[s][g]
  <2> DEFINE v == Append(sink[h][r], m)
  <2>1. sink' = [sink EXCEPT ![h][r] = v]
    BY <1>1, Zenon
  <2>2. sink \in PerPair(Seq(Message))
    BY <1>0, Zenon DEF TypeOK
  <2> HIDE DEF v
  <2>3. \A s, g \in Hosts : sink'[s][g] = IF s = h /\ g = r THEN v ELSE sink[s][g]
    BY <2>1, <2>2, Zenon DEF PerPair
  <2> QED BY <2>3, Zenon DEF v
<1>w. Pushed(h, r, m)
  BY <1>1, <1>s, Zenon DEF Pushed, recvVars
<1>11. /\ Pipe(h, r)' = Append(Pipe(h, r), m)
       /\ \A s, g \in Hosts : ~(s = h /\ g = r) => Pipe(s, g)' = Pipe(s, g)
  BY <1>0, <1>w, SendPipes, Zenon
<1>12. UNCHANGED <<ip, held, registered, source, closed, remaining, got, eos>>
  BY <1>1, Zenon DEF recvVars
<1>13. ASSUME NEW s \in Hosts, NEW g \in Hosts, NEW e \in Exchanges
       PROVE  g \in ended'[s][e] <=> g \in ended[s][e] \/ (s = h /\ e = f /\ g = r)
  <2>1. CASE s = h /\ e = f
    <3>1. ended'[s][e] = 0 .. r /\ ended[s][e] = 0 .. r - 1
      BY <1>4, <1>5, <1>7, <1>8, <2>1
    <3> QED BY <1>6, <2>1, <3>1, Zenon
  <2>2. CASE ~(s = h /\ e = f)
    BY <1>7, <1>8, <2>2
  <2> QED BY <2>1, <2>2, Zenon
<1>14. \A s, g \in Hosts, e \in Exchanges :
          /\ g \in ended'[s][e] <=>
               g \in ended[s][e] \/ (m.op = "kEndStream" /\ s = h /\ e = f /\ g = r)
          /\ m.op = "kMessage" /\ s = h /\ e = f /\ g = r => sent'[s][e][g] = m.num
          /\ ~(m.op = "kMessage" /\ s = h /\ e = f /\ g = r) => sent'[s][e][g] = sent[s][e][g]
  BY <1>m, <1>10, <1>13
<1>15. Appended(h, r, f, m)
  BY <1>m, <1>9, <1>11, <1>12, <1>14, Zenon DEF Appended
<1>16. Abstract!EndStream(h, f, r)
  <2>1. 0 .. r = (0 .. r - 1) \cup {r}
    BY DEF Hosts
  <2>2. \A s \in Hosts, e \in Exchanges :
            ended'[s][e] = IF s = h /\ e = f THEN ended[h][f] \cup {r} ELSE ended[s][e]
    <3>1. ended[h][f] = 0 .. r - 1 /\ ended'[h][f] = 0 .. r
      BY <1>4, <1>5, <1>7, <1>8
    <3>2. ended'[h][f] = ended[h][f] \cup {r}
      BY <2>1, <3>1, Zenon
    <3>3. \A s \in Hosts, e \in Exchanges : ~(s = h /\ e = f) => ended'[s][e] = ended[s][e]
      BY <1>7, <1>8
    <3> QED BY <3>2, <3>3, Zenon
  <2>3. ended' = [ended EXCEPT ![h][f] = ended[h][f] \cup {r}]
    <3>1. /\ ended = [s \in Hosts |-> [e \in Exchanges |-> ended[s][e]]]
          /\ ended' = [s \in Hosts |-> [e \in Exchanges |-> ended'[s][e]]]
      BY Zenon DEF ended
    <3> QED BY <2>2, <3>1
  <2> QED BY <1>1, <1>9, <2>3, Zenon DEF Abstract!EndStream
<1> QED BY <1>15, <1>16, Zenon

(* Hence it preserves the invariant, too. *)
LEMMA SendEndStreamStep ==
    ASSUME IndInv, TypeOK', NEW h \in Hosts, NEW f \in Exchanges, SendEndStream(h, f)
    PROVE  IndInv'
<1>1. PICK r \in Hosts, m \in Message : Appended(h, r, f, m)
  BY EndStreamPushed, Zenon
<1> QED BY <1>1, AppendStep, Zenon

----------------------------------------------------------------------------
(* The destructor.  What an operator has opened, it drains and closes, as  *)
(* the life cycle of the operators has it: without that, a worker would    *)
(* get to the destructor with streams that are still under way.            *)
Planned(op, e) == \E i \in DOMAIN Plan : Plan[i] = [op |-> op, ex |-> e]
PlanCompletes ==
    \A e \in Exchanges : Planned("open", e) => Planned("next", e) /\ Planned("close", e)

Closing == {"sinksClosed", "acceptorClosed", "stopped"}

(* The destructor runs after the whole plan, at least one open() of which  *)
(* constructed the service.  A consume thread belongs to a next() of the   *)
(* plan, and close() has joined it.                                        *)
LifeCycle ==
    \A h \in Hosts :
        /\ phase[h] # "down" => \E e \in Exchanges : Past(h, "open", e)
        /\ phase[h] \in Closing => \A i \in DOMAIN Plan : i < ip[h]
        /\ \A e \in Exchanges :
            /\ thread[h][e].pc # "idle" => Planned("next", e)
            /\ Past(h, "close", e) => thread[h][e].pc = "done"

(* No kEndStream has been read from a host that is not accepted yet. *)
Unaccepted ==
    \A h, s \in Hosts, e \in Exchanges : receiver[h][s] = "none" => s \in Pending(h, e)

(* A receiver holds a payload only while it reads, and returns when the    *)
(* sender has returned and all is read; a sender returns when its sink is  *)
(* closed and drained.  The destructor joins both.                         *)
Joined ==
    \A h, s \in Hosts :
        /\ held[h][s] # <<>> => receiver[h][s] = "reading"
        /\ receiver[h][s] = "returned" =>
            conn[s][h] = "returned" /\ wire[s][h] = <<>> /\ held[h][s] = <<>>
        /\ conn[h][s] = "returned" => phase[h] \in Closing /\ sink[h][s] = <<>>
        /\ phase[h] \in {"acceptorClosed", "stopped"} => conn[h][s] = "returned"
        /\ phase[h] = "stopped" => receiver[h][s] # "reading"

Shutdown == LifeCycle /\ Unaccepted /\ Joined

(* A step is one of the main fiber, of a consume thread, of a sender or of *)
(* a receiver.                                                             *)
LEMMA Actors ==
    ASSUME [Next]_vars
    PROVE  \/ \E h \in Hosts : MainFiber(h)
           \/ \E h \in Hosts, e \in Exchanges : ConsumeThread(h, e)
           \/ \E h, r \in Hosts : SenderFiber(h, r)
           \/ \E h, s \in Hosts : ReceiverFiber(h, s)
           \/ UNCHANGED vars
BY Zenon DEF Next, Terminated

(* What each of them leaves alone. *)
LEMMA Frames ==
    ASSUME NEW h \in Hosts
    PROVE  /\ \A e \in Exchanges : ConsumeThread(h, e) =>
                UNCHANGED <<ip, phase, conn, wire, receiver, held>>
           /\ \A r \in Hosts : SenderFiber(h, r) => UNCHANGED <<ip, thread, phase, receiver, held>>
           /\ \A s \in Hosts : ReceiverFiber(h, s) => UNCHANGED <<ip, thread, phase, conn, sink>>
           /\ MainFiber(h) => UNCHANGED <<sink, conn, wire, receiver, held>>
           /\ StartConsumeUpstream(h) \/ ReceiveMessage(h) => UNCHANGED <<ip, phase>>
           /\ ReceiveEndOfStream(h) \/ Close(h) => UNCHANGED <<thread, phase>>
           /\ Open(h) \/ ReceiveMessage(h) => UNCHANGED thread
           /\ CloseSinks(h) \/ CloseAcceptor(h) \/ Stop(h) => UNCHANGED <<ip, thread>>
<1>1. ASSUME NEW e \in Exchanges, ConsumeThread(h, e)
      PROVE  UNCHANGED <<ip, phase, conn, wire, receiver, held>>
  BY <1>1, Zenon DEF ConsumeThread, SendPayload, SendEndStream, recvVars
<1>2. ASSUME NEW r \in Hosts, SenderFiber(h, r)
      PROVE  UNCHANGED <<ip, thread, phase, receiver, held>>
  BY <1>2, Zenon DEF SenderFiber, Connect, SenderWrite, SenderReturn, opVars, recvVars
<1>3. ASSUME NEW s \in Hosts, ReceiverFiber(h, s)
      PROVE  UNCHANGED <<ip, thread, phase, conn, sink>>
  BY <1>3, Zenon DEF ReceiverFiber, Accept, ReadMessage, PushPayload, ReceiverReturn, opVars, sendVars
<1>4. Open(h) => UNCHANGED <<thread, sink, conn, wire, receiver, held>>
  BY Zenon DEF Open, sendVars
<1>5. StartConsumeUpstream(h) => UNCHANGED <<ip, phase, sink, conn, wire, receiver, held>>
  BY Zenon DEF StartConsumeUpstream, sendVars, recvVars
<1>6. ReceiveMessage(h) => UNCHANGED <<ip, phase, thread, sink, conn, wire, receiver, held>>
  BY Zenon DEF ReceiveMessage, sendVars
<1>7. ReceiveEndOfStream(h) => UNCHANGED <<thread, phase, sink, conn, wire, receiver, held>>
  BY Zenon DEF ReceiveEndOfStream, sendVars, recvVars
<1>8. Close(h) => UNCHANGED <<thread, phase, sink, conn, wire, receiver, held>>
  BY Zenon DEF Close, sendVars
<1>9. CloseSinks(h) \/ CloseAcceptor(h) \/ Stop(h) =>
        UNCHANGED <<ip, thread, sink, conn, wire, receiver, held>>
  BY Zenon DEF CloseSinks, CloseAcceptor, Stop, opVars, sendVars, recvVars
<1> QED BY <1>1, <1>2, <1>3, <1>4, <1>5, <1>6, <1>7, <1>8, <1>9, Zenon DEF MainFiber

(* Calls that are past stay so. *)
LEMMA PastStays ==
    ASSUME TypeOK, [Next]_vars, NEW g \in Hosts
    PROVE  /\ ip'[g] \in Nat /\ ip'[g] >= ip[g]
           /\ \A o, e : Past(g, o, e) => Past(g, o, e)'
<1>0. ip[g] \in Nat /\ ip \in [Hosts -> Nat]
  BY Zenon DEF TypeOK, PerHost
<1>1. ip' = ip \/ \E h \in Hosts : ip' = [ip EXCEPT ![h] = ip[h] + 1]
  <2>1. ASSUME NEW h \in Hosts, Open(h) \/ ReceiveEndOfStream(h) \/ Close(h)
        PROVE  ip' = [ip EXCEPT ![h] = ip[h] + 1]
    BY <2>1, Zenon DEF Open, ReceiveEndOfStream, Close
  <2>2. ASSUME NEW h \in Hosts, MainFiber(h), ~(Open(h) \/ ReceiveEndOfStream(h) \/ Close(h))
        PROVE  ip' = ip
    BY <2>2, Frames, Zenon DEF MainFiber
  <2>3. UNCHANGED vars => ip' = ip
    BY Zenon DEF vars, opVars
  <2> QED BY <2>1, <2>2, <2>3, Actors, Frames, Zenon
<1>2. ip'[g] \in Nat /\ ip'[g] >= ip[g]
  BY <1>0, <1>1
<1>3. \A i \in DOMAIN Plan : i \in Nat /\ (i < ip[g] => i < ip'[g])
  BY <1>0, <1>2, PlanAssumption
<1> QED BY <1>2, <1>3, Zenon DEF Past

(* A thread that has started belongs to a call of the plan, and a thread   *)
(* that close() has joined does nothing more.                              *)
LEMMA ThreadStep ==
    ASSUME TypeOK, LifeCycle, [Next]_vars, NEW g \in Hosts, NEW e \in Exchanges
    PROVE  /\ thread'[g][e].pc # "idle" => Planned("next", e)
           /\ Past(g, "close", e) => thread'[g][e].pc = "done"
<1>0. /\ thread[g][e].pc # "idle" => Planned("next", e)
      /\ Past(g, "close", e) => thread[g][e].pc = "done"
      /\ thread \in [Hosts -> [Exchanges -> Thread]]
  BY Zenon DEF LifeCycle, TypeOK, PerExchange
<1>1. CASE thread'[g][e] = thread[g][e]
  BY <1>0, <1>1, Zenon
<1>2. ASSUME NEW h \in Hosts, StartConsumeUpstream(h), thread'[g][e] # thread[g][e]
      PROVE  thread[g][e].pc = "idle" /\ Planned("next", e)
  <2>1. Ex(h) \in Exchanges /\ ip[h] \in DOMAIN Plan /\ Plan[ip[h]] = [op |-> "next", ex |-> Ex(h)]
    BY <1>2, PlanCall, Zenon DEF StartConsumeUpstream
  <2>2. PICK t : thread' = [thread EXCEPT ![h][Ex(h)] = t]
    BY <1>2, Zenon DEF StartConsumeUpstream
  <2>3. g = h /\ e = Ex(h)
    BY <1>0, <1>2, <2>1, <2>2, Zenon
  <2> QED BY <1>2, <2>1, <2>3, Zenon DEF StartConsumeUpstream, Planned
<1>3. ASSUME NEW h \in Hosts, NEW f \in Exchanges, ConsumeThread(h, f), thread'[g][e] # thread[g][e]
      PROVE  thread[g][e].pc \in {"payload", "ends"}
  <2>1. /\ \E t : thread' = [thread EXCEPT ![h][f] = t]
        /\ thread[h][f].pc = "payload" \/ thread[h][f].pc = "ends"
    BY <1>3, Zenon DEF ConsumeThread, SendPayload, SendEndStream
  <2>2. g = h /\ e = f
    BY <1>0, <1>3, <2>1
  <2> QED BY <2>1, <2>2, Zenon
<1>4. ASSUME thread'[g][e] # thread[g][e]
      PROVE  \/ \E h \in Hosts : StartConsumeUpstream(h)
             \/ \E h \in Hosts, f \in Exchanges : ConsumeThread(h, f)
  <2>1. ASSUME NEW h \in Hosts, MainFiber(h) PROVE StartConsumeUpstream(h)
    BY <1>4, <2>1, Frames, Zenon DEF MainFiber
  <2>2. ~UNCHANGED vars
    BY <1>4, Zenon DEF vars, opVars
  <2> QED BY <1>4, <2>1, <2>2, Actors, Frames, Zenon
<1>5. CASE thread'[g][e] # thread[g][e]
  <2>1. thread[g][e].pc # "done" /\ Planned("next", e)
    BY <1>0, <1>2, <1>3, <1>4, <1>5, Zenon
  <2> QED BY <1>0, <2>1, Zenon
<1> QED BY <1>1, <1>5, Zenon

(* The phases of the service, and when it gets to them. *)
LEMMA PhaseStep ==
    ASSUME TypeOK, LifeCycle, [Next]_vars, NEW g \in Hosts
    PROVE  /\ phase'[g] # "down" => \E e \in Exchanges : Past(g, "open", e)'
           /\ phase'[g] \in Closing => \A i \in DOMAIN Plan : i < ip'[g]
           /\ phase[g] \in Closing => phase'[g] \in Closing
           /\ phase[g] \notin {"acceptorClosed", "stopped"} /\ phase'[g] \in {"acceptorClosed", "stopped"} =>
                \A r \in Hosts : conn[g][r] = "returned"
           /\ phase[g] # "stopped" /\ phase'[g] = "stopped" =>
                /\ phase[g] = "acceptorClosed"
                /\ \A s \in Hosts : receiver[g][s] # "reading"
<1>0. /\ phase[g] # "down" => \E e \in Exchanges : Past(g, "open", e)
      /\ phase[g] \in Closing => \A i \in DOMAIN Plan : i < ip[g]
      /\ phase \in [Hosts -> {"down", "running", "sinksClosed", "acceptorClosed", "stopped"}]
  BY Zenon DEF LifeCycle, TypeOK, PerHost
<1>a. /\ ip[g] \in Nat /\ ip'[g] \in Nat /\ ip'[g] >= ip[g]
      /\ \A o, e : Past(g, o, e) => Past(g, o, e)'
  BY PastStays, Zenon DEF TypeOK, PerHost
<1>b. \A i \in DOMAIN Plan : i \in Nat
  BY PlanAssumption
<1>c. \A i \in DOMAIN Plan : i < ip[g] => i < ip'[g]
  BY <1>a, <1>b
<1>1. CASE phase'[g] = phase[g]
  BY <1>0, <1>a, <1>c, <1>1, Zenon
<1>2. ASSUME NEW h \in Hosts, Open(h), phase'[g] # phase[g]
      PROVE  /\ phase[g] = "down" /\ phase'[g] = "running"
             /\ \E e \in Exchanges : Past(g, "open", e)'
  <2>1. g = h /\ phase[g] = "down" /\ phase'[g] = "running"
    BY <1>0, <1>2, Zenon DEF Open
  <2>2. Op(h) = "open" /\ Op(h) # "exit" /\ ip' = [ip EXCEPT ![h] = @ + 1]
    BY <1>2, Zenon DEF Open
  <2>3. PICK f \in Exchanges : f = Ex(h)
    BY <2>2, PlanCall, Zenon
  <2>4. Past(h, "open", f)'
    BY <2>2, <2>3, PastStep, Zenon
  <2> QED BY <2>1, <2>4, Zenon
<1>3. ASSUME NEW h \in Hosts, CloseSinks(h), phase'[g] # phase[g]
      PROVE  /\ phase[g] = "running" /\ phase'[g] = "sinksClosed"
             /\ \A i \in DOMAIN Plan : i < ip[g]
  <2>1. g = h /\ phase[g] = "running" /\ phase'[g] = "sinksClosed" /\ Op(g) = "exit"
    BY <1>0, <1>3, Zenon DEF CloseSinks
  <2>2. ip[g] \notin DOMAIN Plan
    <3>1. ASSUME ip[g] \in DOMAIN Plan PROVE FALSE
      <4>1. Plan[ip[g]].op = "exit"
        BY <2>1, <3>1, Zenon DEF Op
      <4>2. Plan[ip[g]] \in Calls
        BY <3>1, PlanAssumption
      <4> QED BY <4>1, <4>2, Zenon DEF Calls
    <3> QED BY <3>1, Zenon
  <2>3. PICK j \in DOMAIN Plan : j < ip[g]
    BY <1>0, <2>1, Zenon DEF Past
  <2>4. DOMAIN Plan = 1 .. Len(Plan) /\ Len(Plan) \in Nat
    BY PlanAssumption
  <2> QED BY <1>a, <2>1, <2>2, <2>3, <2>4
<1>4. ASSUME NEW h \in Hosts, CloseAcceptor(h), phase'[g] # phase[g]
      PROVE  /\ phase[g] = "sinksClosed" /\ phase'[g] = "acceptorClosed"
             /\ \A r \in Hosts : conn[g][r] = "returned"
  BY <1>0, <1>4, Zenon DEF CloseAcceptor
<1>5. ASSUME NEW h \in Hosts, Stop(h), phase'[g] # phase[g]
      PROVE  /\ phase[g] = "acceptorClosed" /\ phase'[g] = "stopped"
             /\ \A s \in Hosts : receiver[g][s] # "reading"
  BY <1>0, <1>5, Zenon DEF Stop
<1>6. ASSUME phase'[g] # phase[g]
      PROVE  \E h \in Hosts : Open(h) \/ CloseSinks(h) \/ CloseAcceptor(h) \/ Stop(h)
  <2>1. ASSUME NEW h \in Hosts, MainFiber(h)
        PROVE  Open(h) \/ CloseSinks(h) \/ CloseAcceptor(h) \/ Stop(h)
    BY <1>6, <2>1, Frames, Zenon DEF MainFiber
  <2>2. ~UNCHANGED vars
    BY <1>6, Zenon DEF vars
  <2> QED BY <1>6, <2>1, <2>2, Actors, Frames, Zenon
<1>7. CASE phase'[g] # phase[g]
  <2>1. PICK h \in Hosts : Open(h) \/ CloseSinks(h) \/ CloseAcceptor(h) \/ Stop(h)
    BY <1>6, <1>7, Zenon
  <2>2. CASE Open(h)
    BY <1>2, <1>7, <2>2, Zenon DEF Closing
  <2>3. CASE CloseSinks(h)
    BY <1>0, <1>3, <1>7, <1>a, <1>c, <2>3, Zenon DEF Closing
  <2>4. CASE CloseAcceptor(h)
    BY <1>0, <1>4, <1>7, <1>a, <1>c, <2>4, Zenon DEF Closing
  <2>5. CASE Stop(h)
    BY <1>0, <1>5, <1>7, <1>a, <1>c, <2>5, Zenon DEF Closing
  <2> QED BY <2>1, <2>2, <2>3, <2>4, <2>5, Zenon
<1> QED BY <1>1, <1>7, Zenon

(* Hence the life cycle is kept. *)
LEMMA LifeCycleStep ==
    ASSUME TypeOK, LifeCycle, [Next]_vars
    PROVE  LifeCycle'
<1> SUFFICES ASSUME NEW g \in Hosts
             PROVE  /\ phase'[g] # "down" => \E e \in Exchanges : Past(g, "open", e)'
                    /\ phase'[g] \in Closing => \A i \in DOMAIN Plan : i < ip'[g]
                    /\ \A e \in Exchanges :
                        /\ thread'[g][e].pc # "idle" => Planned("next", e)
                        /\ Past(g, "close", e)' => thread'[g][e].pc = "done"
  BY Zenon DEF LifeCycle, Planned, Closing
<1>1. ASSUME NEW e \in Exchanges, Past(g, "close", e)', ~Past(g, "close", e)
      PROVE  thread'[g][e].pc = "done"
  <2>1. ip'[g] # ip[g]
    BY <1>1, Zenon DEF Past
  <2>2. ip \in [Hosts -> Nat]
    BY Zenon DEF TypeOK, PerHost
  <2>3. PICK h \in Hosts : Open(h) \/ ReceiveEndOfStream(h) \/ Close(h)
    <3>1. ASSUME NEW h \in Hosts, MainFiber(h)
          PROVE  Open(h) \/ ReceiveEndOfStream(h) \/ Close(h)
      BY <2>1, <3>1, Frames, Zenon DEF MainFiber
    <3>2. ~UNCHANGED vars
      BY <2>1, Zenon DEF vars, opVars
    <3> QED BY <2>1, <3>1, <3>2, Actors, Frames, Zenon
  <2>4. Op(h) # "exit" /\ ip' = [ip EXCEPT ![h] = @ + 1]
    BY <2>3, Zenon DEF Open, ReceiveEndOfStream, Close
  <2>5. g = h /\ "close" = Op(h) /\ e = Ex(h)
    BY <1>1, <2>4, PastStep, Zenon
  <2>6. Close(h)
    BY <2>3, <2>5, Zenon DEF Open, ReceiveEndOfStream
  <2> QED BY <2>5, <2>6, Zenon DEF Close
<1>2. \A e \in Exchanges :
        /\ thread'[g][e].pc # "idle" => Planned("next", e)
        /\ Past(g, "close", e) => thread'[g][e].pc = "done"
  BY ThreadStep, Zenon
<1>3. /\ phase'[g] # "down" => \E e \in Exchanges : Past(g, "open", e)'
      /\ phase'[g] \in Closing => \A i \in DOMAIN Plan : i < ip'[g]
  BY PhaseStep, Zenon
<1> QED BY <1>1, <1>2, <1>3, Zenon
=============================================================================
