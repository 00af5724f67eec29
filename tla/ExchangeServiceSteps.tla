------------------------ MODULE ExchangeServiceSteps ------------------------
(***************************************************************************)
(* The steps of the main fiber, of the connections and of the receivers,   *)
(* but for kEndStream, preserve the inductive invariant of the TCP         *)
(* exchange, and every step what the shutdown rests on.                    *)
(***************************************************************************)
EXTENDS ExchangeServiceSend

(* open() registers the exchange and changes no stream. *)
LEMMA OpenStep ==
    ASSUME IndInv, TypeOK', NEW h \in Hosts, Open(h)
    PROVE  IndInv'
<1>1. ended' = ended /\ \A s, g \in Hosts : Pipe(s, g)' = Pipe(s, g)
  BY SameView, Zenon DEF Open, sendVars
<1>2. PipeInv' /\ SourceInv' /\ NoLoss'
  BY <1>1, SamePipes, Zenon DEF IndInv, Open, sendVars
<1>3. \A g \in Hosts, e \in Exchanges : Pending(g, e)' = Pending(g, e)
  BY <1>1, SamePending, Zenon
<1>4. Op(h) = "open" /\ Ex(h) \in Exchanges /\ TypeOK
  BY PlanCall, Zenon DEF Open, IndInv
<1>5. ASSUME NEW g \in Hosts, NEW o, NEW e
      PROVE  Past(g, o, e)' <=> Past(g, o, e) \/ (g = h /\ o = "open" /\ e = Ex(h))
  <2>1. Op(h) # "exit" /\ ip' = [ip EXCEPT ![h] = ip[h] + 1]
    BY <1>4, Zenon DEF Open
  <2>2. Past(g, o, e)' <=> Past(g, o, e) \/ (g = h /\ o = Op(h) /\ e = Ex(h))
    BY <1>4, <2>1, PastStep, Zenon
  <2> QED BY <1>4, <2>2, Zenon
<1>6. registered' = [registered EXCEPT ![h] = registered[h] \cup {Ex(h)}]
  BY Zenon DEF Open, StartExchange
<1>7. \A g \in Hosts : registered'[g] = IF g = h THEN registered[g] \cup {Ex(h)} ELSE registered[g]
  BY <1>4, <1>6, Zenon DEF TypeOK, PerHost
<1>8. ~Past(h, "close", Ex(h))
  BY <1>4, PastOrder, Zenon
<1>9. CountInv'
  <2>1. /\ source' = source /\ closed' = closed /\ remaining' = remaining
    BY Zenon DEF Open
  <2>2. ASSUME NEW g \in Hosts, NEW e \in Exchanges, Past(g, "close", e)
        PROVE  Erased(g, e)'
    <3>1. Erased(g, e)
      BY <2>2, Zenon DEF IndInv, CountInv
    <3>2. ~(g = h /\ e = Ex(h))
      BY <1>8, <2>2, Zenon
    <3> QED BY <1>7, <2>1, <3>1, <3>2, Zenon DEF Erased
  <2>3. ASSUME NEW g \in Hosts, NEW e \in Exchanges, ~Past(g, "close", e)
        PROVE  Counting(g, e)'
    <3>1. Counting(g, e)
      BY <2>3, Zenon DEF IndInv, CountInv
    <3>2. Past(g, "open", e)' <=> Past(g, "open", e) \/ (g = h /\ e = Ex(h))
      BY <1>5
    <3> QED BY <1>3, <1>7, <2>1, <3>1, <3>2, Zenon DEF Counting
  <2>4. \A g \in Hosts, e \in Exchanges : Past(g, "close", e)' <=> Past(g, "close", e)
    BY <1>5
  <2> QED BY <2>2, <2>3, <2>4, Zenon DEF CountInv
<1>10. EosInv'
  <2>1. \A g \in Hosts, e \in Exchanges : Past(g, "next", e)' <=> Past(g, "next", e)
    BY <1>5
  <2>2. eos' = eos /\ got' = got /\ sent' = sent
    BY Zenon DEF Open, sendVars
  <2>3. \A g \in Hosts, e \in Exchanges : Complete(g, e)' <=> Complete(g, e)
    BY <1>3, <2>2, Zenon DEF Complete
  <2> QED BY <2>1, <2>2, <2>3, Zenon DEF IndInv, EosInv
<1>11. HeldInv'
  <2>1. held' = held
    BY Zenon DEF Open
  <2> QED BY <1>7, <2>1, Zenon DEF IndInv, HeldInv
<1> QED BY <1>2, <1>9, <1>10, <1>11, Zenon DEF IndInv

(* A ConsumeUpstream thread that starts has ended no stream. *)
LEMMA StartKeepsEnded ==
    ASSUME IndInv, NEW h \in Hosts, StartConsumeUpstream(h)
    PROVE  ended' = ended
<1>1. PICK t \in Upstream(h, Ex(h), sent[h][Ex(h)]) : thread' = [thread EXCEPT ![h][Ex(h)] = t]
  BY Zenon DEF StartConsumeUpstream
<1>2. EndedBy(t) = {} /\ EndedBy(thread[h][Ex(h)]) = {}
  <2>1. t.pc = "payload" \/ (t.pc = "ends" /\ t.to = 0)
    BY <1>1 DEF Upstream
  <2>2. 0 .. 0 - 1 = {}
    OBVIOUS
  <2>3. thread[h][Ex(h)].pc = "idle"
    BY Zenon DEF StartConsumeUpstream
  <2> QED BY <2>1, <2>2, <2>3, Zenon DEF EndedBy
<1>3. Ex(h) \in Exchanges
  BY PlanCall, Zenon DEF StartConsumeUpstream
<1>4. \A s \in Hosts, e \in Exchanges : EndedBy(thread'[s][e]) = EndedBy(thread[s][e])
  <2>1. thread \in PerExchange(Thread)
    BY Zenon DEF IndInv, TypeOK
  <2>2. \A s \in Hosts, e \in Exchanges :
            thread'[s][e] = IF s = h /\ e = Ex(h) THEN t ELSE thread[s][e]
    BY <1>1, <1>3, <2>1, Zenon DEF PerExchange
  <2> QED BY <1>2, <2>2, Zenon
<1> QED BY <1>4, Zenon DEF ended

(* next() starts the ConsumeUpstream thread. *)
LEMMA StartConsumeUpstreamStep ==
    ASSUME IndInv, TypeOK', NEW h \in Hosts, StartConsumeUpstream(h)
    PROVE  IndInv'
<1>1. ended' = ended
  BY StartKeepsEnded, Zenon
<1> QED BY <1>1, QuietStep, Zenon DEF StartConsumeUpstream, sendVars, recvVars, Pipe

(* A sender moves a message from its sink to the socket, hence within the  *)
(* pipe.                                                                   *)
LEMMA SenderWritePipes ==
    ASSUME IndInv, NEW h \in Hosts, NEW r \in Hosts, SenderWrite(h, r)
    PROVE  \A s, g \in Hosts : Pipe(s, g)' = Pipe(s, g)
<1>1. /\ wire' = [wire EXCEPT ![h][r] = Append(wire[h][r], Head(sink[h][r]))]
      /\ sink' = [sink EXCEPT ![h][r] = Tail(sink[h][r])]
      /\ sink[h][r] # <<>>
      /\ UNCHANGED <<opVars, sent, conn, recvVars, phase>>
  BY Zenon DEF SenderWrite
<1>2. ASSUME NEW s \in Hosts, NEW g \in Hosts PROVE Pipe(s, g)' = Pipe(s, g)
  <2>1. wire \in PerPair(Seq(Message)) /\ sink \in PerPair(Seq(Message))
    BY Zenon DEF IndInv, TypeOK
  <2>2. CASE s = h /\ g = r
    <3>1. /\ wire'[h][r] = Append(wire[h][r], Head(sink[h][r]))
          /\ sink'[h][r] = Tail(sink[h][r])
          /\ held'[r][h] = held[r][h]
      BY <1>1, <2>1, Zenon DEF PerPair, recvVars
    <3>2. held[r][h] \in Seq(Message) /\ wire[h][r] \in Seq(Message) /\ sink[h][r] \in Seq(Message)
      BY Lookup, Zenon DEF IndInv
    <3>3. (held[r][h] \o Append(wire[h][r], Head(sink[h][r]))) \o Tail(sink[h][r])
            = (held[r][h] \o wire[h][r]) \o sink[h][r]
      <4> DEFINE a == held[r][h]
                 b == wire[h][r]
                 c == sink[h][r]
      <4>1. a \in Seq(Message) /\ b \in Seq(Message) /\ c \in Seq(Message) /\ c # <<>>
        BY <1>1, <3>2, Zenon
      <4> HIDE DEF a, b, c
      <4>2. (a \o Append(b, Head(c))) \o Tail(c) = (a \o b) \o c
        BY <4>1, PipeWrite, Zenon
      <4> QED BY <4>2, Zenon DEF a, b, c
    <3> QED BY <2>2, <3>1, <3>3, Zenon DEF Pipe
  <2>3. CASE ~(s = h /\ g = r)
    <3>1. wire'[s][g] = wire[s][g] /\ sink'[s][g] = sink[s][g] /\ held'[g][s] = held[g][s]
      BY <1>1, <2>1, <2>3, Zenon DEF PerPair, recvVars
    <3> QED BY <3>1, Zenon DEF Pipe
  <2> QED BY <2>2, <2>3, Zenon
<1> QED BY <1>2, Zenon

(* It preserves the invariant. *)
LEMMA SenderWriteStep ==
    ASSUME IndInv, TypeOK', NEW h \in Hosts, NEW r \in Hosts, SenderWrite(h, r)
    PROVE  IndInv'
<1>1. UNCHANGED <<opVars, sent, conn, recvVars, phase>>
  BY Zenon DEF SenderWrite
<1>2. \A s, g \in Hosts : Pipe(s, g)' = Pipe(s, g)
  BY SenderWritePipes, Zenon
<1>3. ended' = ended
  BY <1>1, Zenon DEF ended, opVars
<1> QED BY <1>1, <1>2, <1>3, QuietStep, Zenon DEF opVars, recvVars

(* When all streams to h have ended and the source is drained, everything  *)
(* that was sent has been received.                                        *)
LEMMA Drained ==
    ASSUME IndInv, NEW h \in Hosts, NEW e \in Exchanges,
           Pending(h, e) = {}, source[h][e] = <<>>, NEW s \in Hosts
    PROVE  got[h][e][s] = sent[s][e][h]
<1>1. \A i \in DOMAIN Pipe(s, h) : Pipe(s, h)[i].ex # e
  BY Zenon DEF IndInv, PipeInv
<1>2. DOMAIN source[h][e] = {}
  OBVIOUS
<1>3. got[h][e][s] \in Nat /\ sent[s][e][h] \in Nat
  BY Lookup, Zenon DEF IndInv
<1>4. got[h][e][s] <= sent[s][e][h]
  BY Zenon DEF IndInv, NoLoss
<1>5. ~(got[h][e][s] < sent[s][e][h])
  <2>1. ~InTransit(s, h, e, sent[s][e][h])
    BY <1>1, <1>2, Zenon DEF InTransit
  <2> QED BY <1>3, <2>1 DEF IndInv, NoLoss
<1> QED BY <1>3, <1>4, <1>5

(* ReceiveMessage returns the empty optional for a drained source only. *)
LEMMA ReceiveEndOfStreamStep ==
    ASSUME IndInv, TypeOK', NEW h \in Hosts, ReceiveEndOfStream(h)
    PROVE  IndInv'
<1> DEFINE f == Ex(h)
<1>1. /\ Op(h) = "next" /\ source[h][f] = <<>> /\ closed[h][f]
      /\ eos' = [eos EXCEPT ![h] = eos[h] \cup {f}]
      /\ ip' = [ip EXCEPT ![h] = ip[h] + 1]
      /\ UNCHANGED <<thread, got, sendVars, recvVars, phase>>
      /\ TypeOK
  BY Zenon DEF ReceiveEndOfStream, IndInv
<1>2. f \in Exchanges
  BY <1>1, PlanCall, Zenon
<1>3. ended' = ended /\ \A s, g \in Hosts : Pipe(s, g)' = Pipe(s, g)
  BY <1>1, SameView, Zenon DEF sendVars, recvVars
<1>4. PipeInv' /\ SourceInv' /\ NoLoss'
  BY <1>1, <1>3, SamePipes, Zenon DEF IndInv, sendVars, recvVars
<1>5. \A g \in Hosts, e \in Exchanges : Pending(g, e)' = Pending(g, e)
  BY <1>3, SamePending, Zenon
<1>6. ASSUME NEW g \in Hosts, NEW o, NEW e
      PROVE  Past(g, o, e)' <=> Past(g, o, e) \/ (g = h /\ o = "next" /\ e = f)
  <2>1. Op(h) # "exit"
    BY <1>1, Zenon
  <2>2. Past(g, o, e)' <=> Past(g, o, e) \/ (g = h /\ o = Op(h) /\ e = Ex(h))
    BY <1>1, <2>1, PastStep, Zenon
  <2> QED BY <1>1, <2>2, Zenon
<1> HIDE DEF f
<1>7. Pending(h, f) = {}
  <2>1. ~Past(h, "close", f)
    BY <1>1, PastOrder, Zenon DEF f
  <2>2. Counting(h, f)
    <3>1. CountInv
      BY Zenon DEF IndInv
    <3> QED BY <1>2, <2>1, <3>1, Zenon DEF CountInv
  <2> QED BY <1>1, <2>2, Zenon DEF Counting
<1>8. CountInv'
  <2>1. \A g \in Hosts, e \in Exchanges :
            /\ Past(g, "close", e)' <=> Past(g, "close", e)
            /\ Past(g, "open", e)' <=> Past(g, "open", e)
    BY <1>6
  <2>2. /\ registered' = registered /\ source' = source /\ closed' = closed
        /\ remaining' = remaining
    BY <1>1, Zenon DEF recvVars
  <2> QED BY <1>5, <2>1, <2>2, SameCounts, Zenon DEF IndInv
<1>9. EosInv'
  <2>1. \A g \in Hosts : eos'[g] = IF g = h THEN eos[g] \cup {f} ELSE eos[g]
    BY <1>1, Zenon DEF TypeOK, PerHost
  <2>2. \A g \in Hosts, e \in Exchanges : Past(g, "next", e)' <=> Past(g, "next", e) \/ (g = h /\ e = f)
    BY <1>6
  <2>3. \A s \in Hosts : got[h][f][s] = sent[s][f][h]
    BY <1>1, <1>2, <1>7, Drained, Zenon
  <2>4. got' = got /\ sent' = sent
    BY <1>1, Zenon DEF sendVars
  <2>5. \A g \in Hosts, e \in Exchanges : Complete(g, e)' <=> Complete(g, e)
    BY <1>5, <2>4, Zenon DEF Complete
  <2>6. Complete(h, f)
    BY <1>7, <2>3, Zenon DEF Complete
  <2> QED BY <1>2, <2>1, <2>2, <2>5, <2>6, Zenon DEF IndInv, EosInv
<1>10. HeldInv'
  <2>1. held' = held /\ registered' = registered
    BY <1>1, Zenon DEF recvVars
  <2> QED BY <2>1, Zenon DEF IndInv, HeldInv
<1> QED BY <1>4, <1>8, <1>9, <1>10, Zenon DEF IndInv

(* FinishExchange erases an exchange to which nothing is on its way. *)
LEMMA CloseStep ==
    ASSUME IndInv, TypeOK', NEW h \in Hosts, Close(h)
    PROVE  IndInv'
<1> DEFINE f == Ex(h)
<1>1. /\ Op(h) = "close"
      /\ registered' = [registered EXCEPT ![h] = registered[h] \ {f}]
      /\ source' = [source EXCEPT ![h][f] = <<>>]
      /\ closed' = [closed EXCEPT ![h][f] = FALSE]
      /\ remaining' = [remaining EXCEPT ![h][f] = N]
      /\ ip' = [ip EXCEPT ![h] = ip[h] + 1]
      /\ UNCHANGED <<thread, got, eos, sendVars, receiver, held, phase>>
      /\ TypeOK
  BY Zenon DEF Close, IndInv
<1>2. f \in Exchanges
  BY <1>1, PlanCall, Zenon
<1>3. ASSUME NEW g \in Hosts, NEW o, NEW e
      PROVE  Past(g, o, e)' <=> Past(g, o, e) \/ (g = h /\ o = "close" /\ e = f)
  <2>1. Op(h) # "exit"
    BY <1>1, Zenon
  <2>2. Past(g, o, e)' <=> Past(g, o, e) \/ (g = h /\ o = Op(h) /\ e = Ex(h))
    BY <1>1, <2>1, PastStep, Zenon
  <2> QED BY <1>1, <2>2, Zenon
<1>4. Past(h, "next", f)
  BY <1>1, PastOrder, Zenon
<1> HIDE DEF f
<1>5. /\ source[h][f] = <<>>
      /\ \A s \in Hosts : \A i \in DOMAIN Pipe(s, h) : Pipe(s, h)[i].ex # f
  BY <1>2, <1>4, Quiescent, Zenon
<1>6. /\ \A g \in Hosts : registered'[g] = IF g = h THEN registered[g] \ {f} ELSE registered[g]
      /\ \A g \in Hosts, e \in Exchanges :
            /\ ~(g = h /\ e = f) => closed'[g][e] = closed[g][e] /\ remaining'[g][e] = remaining[g][e]
            /\ g = h /\ e = f => ~closed'[g][e]
  <2>1. /\ registered \in PerHost(SUBSET Exchanges)
        /\ closed \in PerExchange(BOOLEAN) /\ remaining \in PerExchange(0 .. N)
    BY <1>1, Zenon DEF TypeOK
  <2> QED BY <1>1, <1>2, <2>1, Zenon DEF PerHost, PerExchange
<1>7. source' = source
  <2>1. source \in PerExchange(Seq(Payload))
    BY <1>1, Zenon DEF TypeOK
  <2> QED BY <1>1, <1>2, <1>5, <2>1, Zenon DEF PerExchange
<1>8. ended' = ended /\ \A s, g \in Hosts : Pipe(s, g)' = Pipe(s, g)
  BY <1>1, SameView, Zenon DEF sendVars
<1>9. PipeInv' /\ SourceInv' /\ NoLoss'
  BY <1>1, <1>7, <1>8, SamePipes, Zenon DEF IndInv, sendVars
<1>10. \A g \in Hosts, e \in Exchanges : Pending(g, e)' = Pending(g, e)
  BY <1>8, SamePending, Zenon
<1>11. CountInv'
  <2> SUFFICES ASSUME NEW g \in Hosts, NEW e \in Exchanges
               PROVE  /\ Past(g, "close", e)' => Erased(g, e)'
                      /\ ~Past(g, "close", e)' => Counting(g, e)'
    BY Zenon DEF CountInv
  <2>1. /\ Past(g, "close", e) => Erased(g, e)
        /\ ~Past(g, "close", e) => Counting(g, e)
    BY Zenon DEF IndInv, CountInv
  <2>2. CASE g = h /\ e = f
    <3>1. Erased(g, e)'
      BY <1>5, <1>6, <1>7, <2>2, Zenon DEF Erased
    <3>2. Past(g, "close", e)'
      BY <1>3, <2>2, Zenon
    <3> QED BY <3>1, <3>2, Zenon
  <2>3. CASE ~(g = h /\ e = f)
    <3>1. Past(g, "close", e)' <=> Past(g, "close", e)
      BY <1>3, <2>3
    <3>2. Past(g, "open", e)' <=> Past(g, "open", e)
      BY <1>3
    <3>3. e \in registered'[g] <=> e \in registered[g]
      BY <1>6, <2>3, Zenon
    <3>4. closed'[g][e] = closed[g][e] /\ remaining'[g][e] = remaining[g][e]
      BY <1>6, <2>3, Zenon
    <3>5. Erased(g, e) => Erased(g, e)'
      BY <1>7, <3>3, <3>4, Zenon DEF Erased
    <3>6. Counting(g, e) => Counting(g, e)'
      BY <1>10, <3>2, <3>3, <3>4, Zenon DEF Counting
    <3> QED BY <2>1, <3>1, <3>5, <3>6, Zenon
  <2> QED BY <2>2, <2>3, Zenon
<1>12. EosInv'
  <2>1. \A g \in Hosts, e \in Exchanges : Past(g, "next", e)' <=> Past(g, "next", e)
    BY <1>3
  <2>2. eos' = eos /\ got' = got /\ sent' = sent
    BY <1>1, Zenon DEF sendVars
  <2>3. \A g \in Hosts, e \in Exchanges : Complete(g, e)' <=> Complete(g, e)
    BY <1>10, <2>2, Zenon DEF Complete
  <2> QED BY <2>1, <2>2, <2>3, Zenon DEF IndInv, EosInv
<1>13. HeldInv'
  <2> SUFFICES ASSUME NEW g \in Hosts, NEW s \in Hosts, held[g][s] # <<>>
               PROVE  /\ held[g][s] = <<Head(held[g][s])>>
                      /\ Head(held[g][s]).op = "kMessage"
                      /\ Head(held[g][s]).ex \in registered'[g]
    BY <1>1, Zenon DEF HeldInv
  <2>1. /\ held[g][s] = <<Head(held[g][s])>>
        /\ Head(held[g][s]).op = "kMessage"
        /\ Head(held[g][s]).ex \in registered[g]
    BY Zenon DEF IndInv, HeldInv
  <2>2. g = h => Head(held[g][s]).ex # f
    BY <1>5, HeldFirst
  <2> QED BY <1>6, <2>1, <2>2, Zenon
<1> QED BY <1>9, <1>11, <1>12, <1>13, Zenon DEF IndInv

(* The indices of the tail of a source. *)
LEMMA SourceTail ==
    ASSUME NEW q \in Seq(Payload), q # <<>>
    PROVE  /\ Tail(q) \in Seq(Payload) /\ Head(q) = q[1] /\ 1 \in DOMAIN q
           /\ \A i \in DOMAIN Tail(q) : i \in Nat /\ i + 1 \in DOMAIN q /\ Tail(q)[i] = q[i + 1]
           /\ \A i \in DOMAIN q : i # 1 => i - 1 \in DOMAIN Tail(q) /\ Tail(q)[i - 1] = q[i]
OBVIOUS

(* ReceiveMessage takes the next payload of the source. *)
LEMMA ReceiveMessageStep ==
    ASSUME IndInv, TypeOK', NEW h \in Hosts, ReceiveMessage(h)
    PROVE  IndInv'
<1> DEFINE f == Ex(h)
           q == source[h][f]
           x == Head(q)
<1>1. /\ Op(h) = "next" /\ q # <<>>
      /\ source' = [source EXCEPT ![h][f] = Tail(q)]
      /\ got' = [got EXCEPT ![h][f][x.src] = x.num]
      /\ UNCHANGED <<ip, thread, eos, sendVars, receiver, held, registered,
                     closed, remaining, phase>>
      /\ TypeOK
  BY Zenon DEF ReceiveMessage, IndInv
<1>2. f \in Exchanges
  BY <1>1, PlanCall, Zenon
<1>3. ~Past(h, "next", f)
  BY <1>1, PastOrder, Zenon
<1> HIDE DEF f
<1>4. q \in Seq(Payload) /\ DOMAIN q = 1 .. Len(q) /\ Len(q) \in Nat
  BY <1>1, <1>2, SourceType, Zenon
<1>5. /\ x = q[1] /\ 1 \in DOMAIN q /\ Tail(q) \in Seq(Payload)
      /\ \A i \in DOMAIN Tail(q) : i \in Nat /\ i + 1 \in DOMAIN q /\ Tail(q)[i] = q[i + 1]
      /\ \A i \in DOMAIN q : i # 1 => i - 1 \in DOMAIN Tail(q) /\ Tail(q)[i - 1] = q[i]
  BY <1>1, <1>4, SourceTail, Zenon
<1>6. x.src \in Hosts /\ x.num \in Nat
  <2>1. q[1] \in Payload
    BY <1>4, <1>5, SeqElement, Zenon
  <2>2. x \in Payload
    BY <1>5, <2>1, Zenon
  <2> QED BY <2>2, Zenon DEF Payload
<1>7. /\ got[h][f][x.src] < x.num /\ x.num <= sent[x.src][f][h]
      /\ \A j \in DOMAIN Pipe(x.src, h) : Pipe(x.src, h)[j].ex = f => x.num < Pipe(x.src, h)[j].num
  <2>1. 1 \in DOMAIN source[h][f] /\ source[h][f][1] = x
    BY <1>5, Zenon
  <2>2. LET y == source[h][f][1] IN
        y.src = x.src =>
            /\ got[h][f][x.src] < y.num /\ y.num <= sent[x.src][f][h]
            /\ \A j \in DOMAIN Pipe(x.src, h) : Pipe(x.src, h)[j].ex = f => y.num < Pipe(x.src, h)[j].num
    BY <1>2, <1>6, <2>1, Zenon DEF IndInv, SourceInv
  <2> QED BY <2>1, <2>2, Zenon
<1>8. \A g \in Hosts, e \in Exchanges : source'[g][e] = IF g = h /\ e = f THEN Tail(q) ELSE source[g][e]
  <2>1. source \in PerExchange(Seq(Payload))
    BY <1>1, Zenon DEF TypeOK
  <2> DEFINE v == Tail(q)
  <2>2. source' = [source EXCEPT ![h][f] = v] /\ v \in Seq(Payload)
    BY <1>1, <1>5, Zenon
  <2> HIDE DEF v
  <2>3. \A g \in Hosts, e \in Exchanges : source'[g][e] = IF g = h /\ e = f THEN v ELSE source[g][e]
    BY <1>2, <2>1, <2>2, ExchangeUpdate
  <2> QED BY <2>3, Zenon DEF v
<1>9. \A g, s \in Hosts, e \in Exchanges :
        got'[g][e][s] = IF g = h /\ e = f /\ s = x.src THEN x.num ELSE got[g][e][s]
  <2>1. got \in PerExchange([Hosts -> Nat])
    BY <1>1, Zenon DEF TypeOK
  <2> DEFINE u == x.src
             v == x.num
  <2>2. got' = [got EXCEPT ![h][f][u] = v] /\ u \in Hosts /\ v \in Nat
    BY <1>1, <1>6, Zenon
  <2> HIDE DEF u, v
  <2>3. \A g, s \in Hosts, e \in Exchanges :
            got'[g][e][s] = IF g = h /\ e = f /\ s = u THEN v ELSE got[g][e][s]
    BY <1>2, <2>1, <2>2, Zenon DEF PerExchange
  <2> QED BY <2>3, Zenon DEF u, v
<1>10. ended' = ended /\ \A s, g \in Hosts : Pipe(s, g)' = Pipe(s, g)
  BY <1>1, SameView, Zenon DEF sendVars
<1>11. \A g \in Hosts, e \in Exchanges : Pending(g, e)' = Pending(g, e)
  BY <1>10, SamePending, Zenon
<1>12. sent' = sent /\ eos' = eos /\ held' = held /\ registered' = registered
       /\ closed' = closed /\ remaining' = remaining /\ ip' = ip
  BY <1>1, Zenon DEF sendVars
<1>13. \A g, o, e : Past(g, o, e)' <=> Past(g, o, e)
  BY <1>12, Zenon DEF Past
<1>14. PipeInv'
  <2> SUFFICES ASSUME NEW s \in Hosts, NEW g \in Hosts, NEW e \in Exchanges,
                      NEW i \in DOMAIN Pipe(s, g), Pipe(s, g)[i].ex = e
               PROVE  LET m == Pipe(s, g)[i] IN
                      /\ \A j \in 1 .. i - 1 : Pipe(s, g)[j].ex = e => Pipe(s, g)[j].num < m.num
                      /\ got'[g][e][s] < m.num
                      /\ m.op = "kMessage" => m.num <= sent[s][e][g]
                      /\ m.op = "kEndStream" => g \in ended[s][e] /\ m.num = sent[s][e][g] + 1
                      /\ s \in Pending(g, e)
    BY <1>10, <1>11, <1>12 DEF PipeInv
  <2>1. LET m == Pipe(s, g)[i] IN
        /\ \A j \in 1 .. i - 1 : Pipe(s, g)[j].ex = e => Pipe(s, g)[j].num < m.num
        /\ got[g][e][s] < m.num
        /\ m.op = "kMessage" => m.num <= sent[s][e][g]
        /\ m.op = "kEndStream" => g \in ended[s][e] /\ m.num = sent[s][e][g] + 1
        /\ s \in Pending(g, e)
    BY DEF IndInv, PipeInv
  <2>2. got'[g][e][s] < Pipe(s, g)[i].num
    <3>1. CASE g = h /\ e = f /\ s = x.src
      BY <1>7, <1>9, <3>1, Zenon
    <3>2. CASE ~(g = h /\ e = f /\ s = x.src)
      BY <1>9, <2>1, <3>2
    <3> QED BY <3>1, <3>2, Zenon
  <2> QED BY <2>1, <2>2, Zenon
<1>15. SourceInv'
  <2> SUFFICES ASSUME NEW s \in Hosts, NEW g \in Hosts, NEW e \in Exchanges,
                      NEW i \in DOMAIN source'[g][e], source'[g][e][i].src = s
               PROVE  LET m == source'[g][e][i] IN
                      /\ \A j \in 1 .. i - 1 : source'[g][e][j].src = s => source'[g][e][j].num < m.num
                      /\ got'[g][e][s] < m.num /\ m.num <= sent[s][e][g]
                      /\ \A j \in DOMAIN Pipe(s, g) : Pipe(s, g)[j].ex = e => m.num < Pipe(s, g)[j].num
    BY <1>10, <1>12 DEF SourceInv
  <2>1. CASE ~(g = h /\ e = f)
    <3>1. source'[g][e] = source[g][e] /\ got'[g][e][s] = got[g][e][s]
      BY <1>8, <1>9, <2>1
    <3> QED BY <3>1 DEF IndInv, SourceInv
  <2>2. CASE g = h /\ e = f
    <3>1. source'[g][e] = Tail(q) /\ q = source[g][e]
      BY <1>8, <2>2, Zenon
    <3>2. i \in Nat /\ i + 1 \in DOMAIN q /\ source'[g][e][i] = q[i + 1] /\ i + 1 # 1
      BY <1>5, <3>1
    <3>3. LET m == q[i + 1] IN
          /\ \A j \in 1 .. (i + 1) - 1 : q[j].src = s => q[j].num < m.num
          /\ got[g][e][s] < m.num /\ m.num <= sent[s][e][g]
          /\ \A j \in DOMAIN Pipe(s, g) : Pipe(s, g)[j].ex = e => m.num < Pipe(s, g)[j].num
      BY <3>1, <3>2 DEF IndInv, SourceInv
    <3>4. ASSUME NEW j \in 1 .. i - 1, source'[g][e][j].src = s
          PROVE  source'[g][e][j].num < q[i + 1].num
      <4>1. j \in DOMAIN Tail(q)
        BY <3>1, <3>2, <1>5, <1>4
      <4>2. source'[g][e][j] = q[j + 1] /\ j + 1 \in 1 .. (i + 1) - 1
        BY <1>5, <3>1, <3>2, <4>1
      <4> QED BY <3>3, <3>4, <4>2, Zenon
    <3>5. got'[g][e][s] < q[i + 1].num
      <4>1. CASE s = x.src
        <5>1. x.num < q[i + 1].num
          <6>1. 1 \in 1 .. (i + 1) - 1
            BY <3>2, <1>4
          <6>2. q[1].src = s => q[1].num < q[i + 1].num
            BY <3>3, <6>1, Zenon
          <6> QED BY <1>5, <4>1, <6>2, Zenon
        <5> QED BY <1>9, <2>2, <4>1, <5>1, Zenon
      <4>2. CASE s # x.src
        BY <1>9, <3>3, <4>2
      <4> QED BY <4>1, <4>2, Zenon
    <3> QED BY <3>2, <3>3, <3>4, <3>5, Zenon
  <2> QED BY <2>1, <2>2, Zenon
<1>16. NoLoss'
  <2> SUFFICES ASSUME NEW s \in Hosts, NEW g \in Hosts, NEW e \in Exchanges
               PROVE  /\ got'[g][e][s] <= sent[s][e][g]
                      /\ \A n \in 1 .. sent[s][e][g] : got'[g][e][s] < n => InTransit(s, g, e, n)'
    BY <1>12, Zenon DEF NoLoss
  <2>1. /\ got[g][e][s] <= sent[s][e][g]
        /\ \A n \in 1 .. sent[s][e][g] : got[g][e][s] < n => InTransit(s, g, e, n)
    BY Zenon DEF IndInv, NoLoss
  <2>2. got[g][e][s] \in Nat /\ sent[s][e][g] \in Nat
    BY <1>1, Lookup, Zenon
  <2>3. got'[g][e][s] <= sent[s][e][g]
    BY <1>7, <1>9, <2>1, ZenonT(30)
  <2>4. ASSUME NEW n \in Nat, got'[g][e][s] < n, n <= sent[s][e][g]
        PROVE  InTransit(s, g, e, n)'
    <3>1. got[g][e][s] < n
      <4>1. CASE g = h /\ e = f /\ s = x.src
        <5>1. got[g][e][s] < x.num /\ got'[g][e][s] = x.num
          BY <1>7, <1>9, <4>1, Zenon
        <5> HIDE DEF x
        <5> QED BY <1>6, <2>2, <2>4, <5>1
      <4>2. CASE ~(g = h /\ e = f /\ s = x.src)
        BY <1>9, <2>4, <4>2, Zenon
      <4> QED BY <4>1, <4>2, Zenon
    <3>2. InTransit(s, g, e, n)
      <4>1. n \in 1 .. sent[s][e][g]
        BY <2>2, <2>4, <3>1
      <4> QED BY <2>1, <3>1, <4>1, Zenon
    <3>3. CASE ~(g = h /\ e = f)
      BY <1>8, <1>10, <3>2, <3>3, Zenon DEF InTransit
    <3>4. CASE g = h /\ e = f
      <4>1. source'[g][e] = Tail(q) /\ q = source[g][e]
        BY <1>8, <3>4, Zenon
      <4>2. ASSUME NEW i \in DOMAIN q, q[i] = [src |-> s, num |-> n]
            PROVE  \E j \in DOMAIN Tail(q) : Tail(q)[j] = [src |-> s, num |-> n]
        <5>1. i # 1
          BY <1>5, <1>6, <1>9, <2>4, <3>4, <4>2
        <5> HIDE DEF q
        <5>2. i - 1 \in DOMAIN Tail(q) /\ Tail(q)[i - 1] = [src |-> s, num |-> n]
          BY <1>5, <4>2, <5>1, Zenon
        <5> QED BY <5>2, Zenon
      <4> QED BY <1>10, <3>2, <4>1, <4>2, Zenon DEF InTransit
    <3> QED BY <3>3, <3>4, Zenon
  <2> QED BY <2>3, <2>4
<1>17. CountInv'
  <2> SUFFICES ASSUME NEW g \in Hosts, NEW e \in Exchanges
               PROVE  /\ Past(g, "close", e) => Erased(g, e)'
                      /\ ~Past(g, "close", e) => Counting(g, e)'
    BY <1>13, Zenon DEF CountInv
  <2>1. /\ Past(g, "close", e) => Erased(g, e)
        /\ ~Past(g, "close", e) => Counting(g, e)
    BY Zenon DEF IndInv, CountInv
  <2>2. Erased(g, e) => Erased(g, e)'
    BY <1>1, <1>8, <1>12, Zenon DEF Erased
  <2>3. Counting(g, e) => Counting(g, e)'
    BY <1>11, <1>12, <1>13, Zenon DEF Counting
  <2> QED BY <2>1, <2>2, <2>3, Zenon
<1>18. EosInv'
  <2> SUFFICES ASSUME NEW g \in Hosts, NEW e \in Exchanges
               PROVE  /\ e \in eos[g] <=> Past(g, "next", e)
                      /\ e \in eos[g] => Complete(g, e)'
    BY <1>12, <1>13, Zenon DEF EosInv
  <2>1. /\ e \in eos[g] <=> Past(g, "next", e)
        /\ e \in eos[g] => Complete(g, e)
    BY Zenon DEF IndInv, EosInv
  <2>2. ASSUME e \in eos[g], Complete(g, e) PROVE Complete(g, e)'
    <3>1. ~(g = h /\ e = f)
      BY <1>3, <2>1, <2>2, Zenon
    <3> QED BY <1>9, <1>11, <1>12, <2>2, <3>1, Zenon DEF Complete
  <2> QED BY <2>1, <2>2, Zenon
<1>19. HeldInv'
  BY <1>12, Zenon DEF IndInv, HeldInv
<1> QED BY <1>14, <1>15, <1>16, <1>17, <1>18, <1>19, Zenon DEF IndInv

----------------------------------------------------------------------------
(* The indices of a pipe from which the first message is taken. *)
LEMMA PipeTail ==
    ASSUME NEW p \in Seq(Message), p # <<>>
    PROVE  /\ 1 \in DOMAIN p
           /\ \A i \in DOMAIN Tail(p) : i \in Nat /\ i >= 1 /\ i + 1 \in DOMAIN p /\ Tail(p)[i] = p[i + 1]
           /\ \A i \in DOMAIN p : i # 1 => i - 1 \in DOMAIN Tail(p) /\ Tail(p)[i - 1] = p[i]
           /\ \A i \in DOMAIN Tail(p) : \A j \in 1 .. i - 1 : j \in DOMAIN Tail(p)
OBVIOUS

(* A receiver of h takes m from the pipe of s. *)
Popped(s, h, m) ==
    /\ Pipe(s, h) # <<>> /\ Pipe(s, h)[1] = m
    /\ Pipe(s, h)' = Tail(Pipe(s, h))
    /\ \A u, g \in Hosts : ~(u = s /\ g = h) => Pipe(u, g)' = Pipe(u, g)
    /\ ended' = ended /\ sent' = sent /\ got' = got

(* The first message of a pipe, and that nothing follows kEndStream. *)
LEMMA FirstMessage ==
    ASSUME IndInv, NEW s \in Hosts, NEW h \in Hosts, NEW m \in Message,
           Pipe(s, h) # <<>>, Pipe(s, h)[1] = m
    PROVE  /\ 1 \in DOMAIN Pipe(s, h) /\ m.ex \in Exchanges /\ m.num \in Nat
           /\ s \in Pending(h, m.ex) /\ got[h][m.ex][s] < m.num
           /\ m.op = "kMessage" => m.num <= sent[s][m.ex][h]
           /\ m.op = "kEndStream" =>
                /\ h \in ended[s][m.ex] /\ m.num = sent[s][m.ex][h] + 1
                /\ \A i \in DOMAIN Pipe(s, h) : i # 1 => Pipe(s, h)[i].ex # m.ex
           /\ \A i \in DOMAIN Pipe(s, h) : i # 1 /\ Pipe(s, h)[i].ex = m.ex => m.num < Pipe(s, h)[i].num
           /\ ~Past(h, "close", m.ex)
<1>0. TypeOK
  BY Zenon DEF IndInv
<1> DEFINE p == Pipe(s, h)
<1>1. p \in Seq(Message) /\ DOMAIN p = 1 .. Len(p) /\ Len(p) \in Nat /\ 1 \in DOMAIN p
  BY <1>0, PipeType, PipeTail, Zenon
<1>2. PICK f \in Exchanges : f = m.ex
  BY Zenon DEF Message
<1>3. m.num \in Nat /\ m.op \in {"kMessage", "kEndStream"}
  BY Zenon DEF Message
<1>4. /\ s \in Pending(h, f) /\ got[h][f][s] < m.num
      /\ m.op = "kMessage" => m.num <= sent[s][f][h]
      /\ m.op = "kEndStream" => h \in ended[s][f] /\ m.num = sent[s][f][h] + 1
  BY <1>1, <1>2 DEF IndInv, PipeInv
<1>5. ASSUME NEW i \in DOMAIN p, i # 1, p[i].ex = f
      PROVE  /\ m.num < p[i].num /\ p[i].num \in Nat /\ p[i].op \in {"kMessage", "kEndStream"}
             /\ p[i].op = "kMessage" => p[i].num <= sent[s][f][h]
             /\ p[i].op = "kEndStream" => p[i].num = sent[s][f][h] + 1
  <2>1. /\ \A j \in 1 .. i - 1 : p[j].ex = f => p[j].num < p[i].num
        /\ p[i].op = "kMessage" => p[i].num <= sent[s][f][h]
        /\ p[i].op = "kEndStream" => p[i].num = sent[s][f][h] + 1
    BY <1>5, Zenon DEF IndInv, PipeInv
  <2>2. 1 \in 1 .. i - 1
    <3> HIDE DEF p
    <3> QED BY <1>1, <1>5
  <2>3. p[i].num \in Nat /\ p[i].op \in {"kMessage", "kEndStream"}
    BY <1>0, PipeType, Zenon
  <2>4. m.num < p[i].num
    BY <1>2, <2>1, <2>2, Zenon
  <2> QED BY <2>1, <2>3, <2>4, Zenon
<1>6. ASSUME m.op = "kEndStream", NEW i \in DOMAIN p, i # 1 PROVE p[i].ex # f
  <2>1. sent[s][f][h] \in Nat
    BY <1>0, Lookup, Zenon
  <2> HIDE DEF p
  <2> QED BY <1>4, <1>5, <1>6, <2>1
<1>7. ~Past(h, "close", f)
  <2>1. Past(h, "close", f) => Past(h, "next", f)
    BY <1>0, PastOrder, Zenon
  <2>2. ~Past(h, "next", f)
    BY <1>4, Quiescent, Zenon
  <2> QED BY <2>1, <2>2, Zenon
<1> QED BY <1>1, <1>2, <1>3, <1>4, <1>5, <1>6, <1>7, Zenon

(* Reading a kEndStream takes its sender off the streams still to be       *)
(* ended; reading another message takes off none.                          *)
LEMMA PopPending ==
    ASSUME IndInv, NEW s \in Hosts, NEW h \in Hosts, NEW m \in Message, Popped(s, h, m)
    PROVE  \A g \in Hosts, e \in Exchanges :
             /\ m.op = "kEndStream" /\ g = h /\ e = m.ex => Pending(g, e)' = Pending(g, e) \ {s}
             /\ ~(m.op = "kEndStream" /\ g = h /\ e = m.ex) => Pending(g, e)' = Pending(g, e)
<1>0. TypeOK
  BY Zenon DEF IndInv
<1> DEFINE p == Pipe(s, h)
<1>1. p # <<>> /\ p[1] = m /\ Pipe(s, h)' = Tail(p) /\ p \in Seq(Message)
  BY <1>0, PipeType, Zenon DEF Popped
<1>2. \A u, g \in Hosts : ~(u = s /\ g = h) => Pipe(u, g)' = Pipe(u, g)
  BY Zenon DEF Popped
<1>3. ended' = ended
  BY Zenon DEF Popped
<1>4. /\ 1 \in DOMAIN p
      /\ \A i \in DOMAIN Tail(p) : i \in Nat /\ i >= 1 /\ i + 1 \in DOMAIN p /\ Tail(p)[i] = p[i + 1]
      /\ \A i \in DOMAIN p : i # 1 => i - 1 \in DOMAIN Tail(p) /\ Tail(p)[i - 1] = p[i]
  BY <1>1, PipeTail, Zenon
<1>5. m.op = "kEndStream" =>
        h \in ended[s][m.ex] /\ \A i \in DOMAIN p : i # 1 => p[i].ex # m.ex
  BY <1>1, FirstMessage
<1>6. ASSUME NEW e \in Exchanges
      PROVE  EndInPipe(s, h, e)' <=> EndInPipe(s, h, e) /\ ~(m.op = "kEndStream" /\ e = m.ex)
  <2>1. EndInPipe(s, h, e)' <=> \E i \in DOMAIN Tail(p) : Tail(p)[i].op = "kEndStream" /\ Tail(p)[i].ex = e
    BY <1>1, Zenon DEF EndInPipe
  <2>2. EndInPipe(s, h, e) <=> \E i \in DOMAIN p : p[i].op = "kEndStream" /\ p[i].ex = e
    BY Zenon DEF EndInPipe
  <2> HIDE DEF p
  <2>3. ASSUME NEW i \in DOMAIN Tail(p), Tail(p)[i].op = "kEndStream", Tail(p)[i].ex = e
        PROVE  (\E j \in DOMAIN p : p[j].op = "kEndStream" /\ p[j].ex = e) /\ ~(m.op = "kEndStream" /\ e = m.ex)
    <3>1. i + 1 \in DOMAIN p /\ p[i + 1].op = "kEndStream" /\ p[i + 1].ex = e /\ i + 1 # 1
      BY <1>4, <2>3
    <3> QED BY <1>5, <3>1, Zenon
  <2>4. ASSUME NEW i \in DOMAIN p, p[i].op = "kEndStream", p[i].ex = e, ~(m.op = "kEndStream" /\ e = m.ex)
        PROVE  \E j \in DOMAIN Tail(p) : Tail(p)[j].op = "kEndStream" /\ Tail(p)[j].ex = e
    <3>1. i # 1
      BY <1>1, <2>4, Zenon
    <3>2. i - 1 \in DOMAIN Tail(p) /\ Tail(p)[i - 1] = p[i]
      BY <1>4, <3>1, Zenon
    <3> QED BY <2>4, <3>2, Zenon
  <2> QED BY <2>1, <2>2, <2>3, <2>4, Zenon
<1>7. ASSUME NEW g \in Hosts, NEW e \in Exchanges, NEW u \in Hosts
      PROVE  /\ m.op = "kEndStream" /\ g = h /\ e = m.ex => (u \in Pending(g, e)' <=> u \in Pending(g, e) /\ u # s)
             /\ ~(m.op = "kEndStream" /\ g = h /\ e = m.ex) => (u \in Pending(g, e)' <=> u \in Pending(g, e))
  <2>1. /\ u \in Pending(g, e)' <=> g \notin ended[u][e] \/ EndInPipe(u, g, e)'
        /\ u \in Pending(g, e) <=> g \notin ended[u][e] \/ EndInPipe(u, g, e)
    BY <1>3, Zenon DEF Pending
  <2>2. CASE u = s /\ g = h
    <3>1. EndInPipe(u, g, e)' <=> EndInPipe(u, g, e) /\ ~(m.op = "kEndStream" /\ e = m.ex)
      BY <1>6, <2>2, Zenon
    <3>2. m.op = "kEndStream" /\ e = m.ex => g \in ended[u][e]
      BY <1>5, <2>2, Zenon
    <3> QED BY <2>1, <2>2, <3>1, <3>2, Zenon
  <2>3. CASE ~(u = s /\ g = h)
    <3>1. EndInPipe(u, g, e)' <=> EndInPipe(u, g, e)
      BY <1>2, <2>3, Zenon DEF EndInPipe
    <3> QED BY <2>1, <2>3, <3>1, Zenon
  <2> QED BY <2>2, <2>3, Zenon
<1>8. \A g, e : Pending(g, e) \subseteq Hosts /\ Pending(g, e)' \subseteq Hosts
  BY Zenon DEF Pending
<1> QED BY <1>7, <1>8, Zenon

(* What remains in a pipe is in order. *)
LEMMA PopPipeInv ==
    ASSUME IndInv, NEW s \in Hosts, NEW h \in Hosts, NEW m \in Message, Popped(s, h, m)
    PROVE  PipeInv'
<1>0. TypeOK
  BY Zenon DEF IndInv
<1> DEFINE p == Pipe(s, h)
<1>1. p # <<>> /\ p[1] = m /\ Pipe(s, h)' = Tail(p) /\ p \in Seq(Message)
  BY <1>0, PipeType, Zenon DEF Popped
<1>2. \A u, g \in Hosts : ~(u = s /\ g = h) => Pipe(u, g)' = Pipe(u, g)
  BY Zenon DEF Popped
<1>3. ended' = ended /\ got' = got /\ sent' = sent
  BY Zenon DEF Popped
<1>4. /\ \A i \in DOMAIN Tail(p) : i \in Nat /\ i >= 1 /\ i + 1 \in DOMAIN p /\ Tail(p)[i] = p[i + 1]
      /\ \A i \in DOMAIN Tail(p) : \A j \in 1 .. i - 1 : j \in DOMAIN Tail(p)
  BY <1>1, PipeTail, Zenon
<1>5. m.op = "kEndStream" => \A i \in DOMAIN p : i # 1 => p[i].ex # m.ex
  BY <1>1, FirstMessage
<1> SUFFICES ASSUME NEW u \in Hosts, NEW g \in Hosts, NEW e \in Exchanges,
                    NEW i \in DOMAIN Pipe(u, g)', Pipe(u, g)'[i].ex = e
             PROVE  LET n == Pipe(u, g)'[i] IN
                    /\ \A j \in 1 .. i - 1 : Pipe(u, g)'[j].ex = e => Pipe(u, g)'[j].num < n.num
                    /\ got[g][e][u] < n.num
                    /\ n.op = "kMessage" => n.num <= sent[u][e][g]
                    /\ n.op = "kEndStream" => g \in ended[u][e] /\ n.num = sent[u][e][g] + 1
                    /\ u \in Pending(g, e)'
  BY <1>3 DEF PipeInv
<1>6. ASSUME NEW k \in DOMAIN Pipe(u, g), Pipe(u, g)[k].ex = e
      PROVE  LET n == Pipe(u, g)[k] IN
             /\ \A j \in 1 .. k - 1 : Pipe(u, g)[j].ex = e => Pipe(u, g)[j].num < n.num
             /\ got[g][e][u] < n.num
             /\ n.op = "kMessage" => n.num <= sent[u][e][g]
             /\ n.op = "kEndStream" => g \in ended[u][e] /\ n.num = sent[u][e][g] + 1
             /\ u \in Pending(g, e)
  BY <1>6, Zenon DEF IndInv, PipeInv
<1>7. CASE ~(u = s /\ g = h)
  <2>1. Pipe(u, g)' = Pipe(u, g)
    BY <1>2, <1>7, Zenon
  <2>2. u \in Pending(g, e)'
    <3>1. u \in Pending(g, e)
      BY <1>6, <2>1, Zenon
    <3> QED BY <1>7, <3>1, PopPending
  <2> QED BY <1>6, <2>1, <2>2, Zenon
<1>8. CASE u = s /\ g = h
  <2>1. Pipe(u, g)' = Tail(p) /\ Pipe(u, g) = p
    BY <1>1, <1>8, Zenon
  <2>2. i \in Nat /\ i >= 1 /\ i + 1 \in DOMAIN p /\ Tail(p)[i] = p[i + 1] /\ i + 1 # 1 /\ p[i + 1].ex = e
    BY <1>4, <2>1
  <2>3. ASSUME NEW j \in 1 .. i - 1, Tail(p)[j].ex = e PROVE Tail(p)[j].num < p[i + 1].num
    <3>1. j \in DOMAIN Tail(p)
      BY <1>4, <2>1, Zenon
    <3>2. Tail(p)[j] = p[j + 1] /\ j + 1 \in 1 .. (i + 1) - 1
      BY <1>4, <2>2, <3>1
    <3>3. p[j + 1].ex = e => p[j + 1].num < p[i + 1].num
      BY <1>6, <2>1, <2>2, <3>2, Zenon
    <3> QED BY <2>3, <3>2, <3>3, Zenon
  <2>4. u \in Pending(g, e)'
    <3>1. u \in Pending(g, e)
      BY <1>6, <2>1, <2>2, Zenon
    <3>2. ~(m.op = "kEndStream" /\ e = m.ex)
      BY <1>5, <2>2, Zenon
    <3> QED BY <3>1, <3>2, PopPending
  <2>5. LET n == p[i + 1] IN
        /\ got[g][e][u] < n.num
        /\ n.op = "kMessage" => n.num <= sent[u][e][g]
        /\ n.op = "kEndStream" => g \in ended[u][e] /\ n.num = sent[u][e][g] + 1
    BY <1>6, <2>1, <2>2, Zenon
  <2> HIDE DEF p
  <2> QED BY <2>1, <2>2, <2>3, <2>4, <2>5, Zenon
<1> QED BY <1>7, <1>8, Zenon

(* The messages of the pipes before and after. *)
LEMMA PopElements ==
    ASSUME IndInv, NEW s \in Hosts, NEW h \in Hosts, NEW m \in Message, Popped(s, h, m),
           NEW u \in Hosts, NEW g \in Hosts
    PROVE  /\ \A j \in DOMAIN Pipe(u, g)' : \E k \in DOMAIN Pipe(u, g) :
                Pipe(u, g)[k] = Pipe(u, g)'[j] /\ (u = s /\ g = h => k # 1)
           /\ \A k \in DOMAIN Pipe(u, g) : ~(u = s /\ g = h /\ k = 1) =>
                \E j \in DOMAIN Pipe(u, g)' : Pipe(u, g)'[j] = Pipe(u, g)[k]
<1>0. TypeOK
  BY Zenon DEF IndInv
<1>1. CASE ~(u = s /\ g = h)
  BY <1>1, Zenon DEF Popped
<1>2. CASE u = s /\ g = h
  <2> DEFINE p == Pipe(s, h)
  <2>1. p # <<>> /\ Pipe(u, g)' = Tail(p) /\ p \in Seq(Message) /\ Pipe(u, g) = p
    BY <1>0, <1>2, PipeType, Zenon DEF Popped
  <2> HIDE DEF p
  <2>2. /\ \A i \in DOMAIN Tail(p) : i \in Nat /\ i >= 1 /\ i + 1 \in DOMAIN p /\ Tail(p)[i] = p[i + 1]
        /\ \A i \in DOMAIN p : i # 1 => i - 1 \in DOMAIN Tail(p) /\ Tail(p)[i - 1] = p[i]
    BY <2>1, PipeTail, Zenon
  <2>3. ASSUME NEW j \in DOMAIN Tail(p) PROVE \E k \in DOMAIN p : p[k] = Tail(p)[j] /\ k # 1
    <3>1. j + 1 \in DOMAIN p /\ p[j + 1] = Tail(p)[j] /\ j + 1 # 1
      BY <2>2
    <3> QED BY <3>1, Zenon
  <2>4. ASSUME NEW k \in DOMAIN p, k # 1 PROVE \E j \in DOMAIN Tail(p) : Tail(p)[j] = p[k]
    <3>1. k - 1 \in DOMAIN Tail(p) /\ Tail(p)[k - 1] = p[k]
      BY <2>2, <2>4, Zenon
    <3> QED BY <3>1, Zenon
  <2> QED BY <1>2, <2>1, <2>3, <2>4
<1> QED BY <1>1, <1>2, Zenon

(* The message that ReadMessage reads is the first of its pipe. *)
LEMMA WireFirst ==
    ASSUME IndInv, NEW h \in Hosts, NEW s \in Hosts, held[h][s] = <<>>, wire[s][h] # <<>>
    PROVE  /\ Head(wire[s][h]) \in Message /\ Tail(wire[s][h]) \in Seq(Message)
           /\ Pipe(s, h) # <<>> /\ Pipe(s, h)[1] = Head(wire[s][h])
           /\ (<<>> \o Tail(wire[s][h])) \o sink[s][h] = Tail(Pipe(s, h))
           /\ (<<Head(wire[s][h])>> \o Tail(wire[s][h])) \o sink[s][h] = Pipe(s, h)
<1> DEFINE b == wire[s][h]
           c == sink[s][h]
<1>1. b \in Seq(Message) /\ c \in Seq(Message) /\ b # <<>>
  BY Lookup, Zenon DEF IndInv
<1>2. Pipe(s, h) = (<<>> \o b) \o c
  BY Zenon DEF Pipe
<1> HIDE DEF b, c
<1>3. Head(b) \in Message /\ Tail(b) \in Seq(Message)
  BY <1>1
<1>4. /\ (<<>> \o Tail(b)) \o c = Tail((<<>> \o b) \o c)
      /\ (<<>> \o b) \o c # <<>>
      /\ ((<<>> \o b) \o c)[1] = Head(b)
  BY <1>1, PipeEnd, Zenon
<1>5. (<<Head(b)>> \o Tail(b)) \o c = (<<>> \o b) \o c
  BY <1>1, PipeHold, Zenon
<1> QED BY <1>2, <1>3, <1>4, <1>5, Zenon DEF b, c

(* The source of a message in a pipe is counted and still open. *)
AtHead(s, h, m, f) == m.ex = f /\ Pipe(s, h) # <<>> /\ Pipe(s, h)[1] = m
LEMMA SourceOpen ==
    ASSUME IndInv, NEW h \in Hosts, NEW s \in Hosts, NEW m \in Message,
           NEW f \in Exchanges, AtHead(s, h, m, f)
    PROVE  s \in Pending(h, f) /\ Counting(h, f) /\ ~closed[h][f]
<1>1. s \in Pending(h, f) /\ ~Past(h, "close", f)
  BY FirstMessage, Zenon DEF AtHead
<1>2. Counting(h, f)
  BY <1>1, Zenon DEF IndInv, CountInv
<1> QED BY <1>1, <1>2, Zenon DEF Counting

(* A receiver that reads a payload holds it. *)
LEMMA ReadPayloadStep ==
    ASSUME IndInv, TypeOK', NEW h \in Hosts, NEW s \in Hosts, ReadMessage(h, s),
           Head(wire[s][h]).op = "kMessage"
    PROVE  IndInv'
<1>0. TypeOK
  BY Zenon DEF IndInv
<1>1. PICK m \in Message : m = Head(wire[s][h])
  BY WireFirst, Zenon DEF ReadMessage
<1>2. /\ held[h][s] = <<>> /\ wire[s][h] # <<>>
      /\ wire' = [wire EXCEPT ![s][h] = Tail(wire[s][h])]
      /\ registered' = [registered EXCEPT ![h] = registered[h] \cup {m.ex}]
      /\ held' = [held EXCEPT ![h][s] = <<m>>]
      /\ UNCHANGED <<remaining, closed, opVars, sent, sink, conn, receiver, source, phase>>
      /\ m.op = "kMessage"
  BY <1>1, Zenon DEF ReadMessage, StartExchange
<1>3. /\ Tail(wire[s][h]) \in Seq(Message)
      /\ Pipe(s, h) # <<>> /\ Pipe(s, h)[1] = m
      /\ (<<m>> \o Tail(wire[s][h])) \o sink[s][h] = Pipe(s, h)
  BY <1>1, <1>2, WireFirst, Zenon
<1>4. m.ex \in Exchanges /\ ~Past(h, "close", m.ex)
  BY <1>3, FirstMessage, Zenon
<1>5. \A u, g \in Hosts :
        /\ held'[g][u] = IF g = h /\ u = s THEN <<m>> ELSE held[g][u]
        /\ wire'[u][g] = IF g = h /\ u = s THEN Tail(wire[s][h]) ELSE wire[u][g]
  <2>1. held \in PerPair(Seq(Message)) /\ wire \in PerPair(Seq(Message))
    BY <1>0, Zenon DEF TypeOK
  <2> QED BY <1>2, <2>1, Zenon DEF PerPair
<1>6. \A g \in Hosts : registered'[g] = IF g = h THEN registered[g] \cup {m.ex} ELSE registered[g]
  <2>1. registered \in PerHost(SUBSET Exchanges)
    BY <1>0, Zenon DEF TypeOK
  <2> QED BY <1>2, <2>1, Zenon DEF PerHost
<1>7. ASSUME NEW u \in Hosts, NEW g \in Hosts PROVE Pipe(u, g)' = Pipe(u, g)
  <2>1. sink' = sink
    BY <1>2, Zenon
  <2>2. CASE u = s /\ g = h
    BY <1>3, <1>5, <2>1, <2>2, Zenon DEF Pipe
  <2>3. CASE ~(u = s /\ g = h)
    BY <1>5, <2>1, <2>3, Zenon DEF Pipe
  <2> QED BY <2>2, <2>3, Zenon
<1>8. ended' = ended
  BY <1>2, Zenon DEF ended, opVars
<1>9. PipeInv' /\ SourceInv' /\ NoLoss'
  BY <1>2, <1>7, <1>8, SamePipes, Zenon DEF IndInv, opVars
<1>10. \A g \in Hosts, e \in Exchanges : Pending(g, e)' = Pending(g, e)
  BY <1>7, <1>8, SamePending, Zenon
<1>11. ip' = ip /\ got' = got /\ eos' = eos /\ sent' = sent /\ source' = source
       /\ closed' = closed /\ remaining' = remaining
  BY <1>2, Zenon DEF opVars
<1>12. \A g, o, e : Past(g, o, e)' <=> Past(g, o, e)
  BY <1>11, Zenon DEF Past
<1>13. CountInv'
  <2> SUFFICES ASSUME NEW g \in Hosts, NEW e \in Exchanges
               PROVE  /\ Past(g, "close", e) => Erased(g, e)'
                      /\ ~Past(g, "close", e) => Counting(g, e)'
    BY <1>12, Zenon DEF CountInv
  <2>1. /\ Past(g, "close", e) => Erased(g, e)
        /\ ~Past(g, "close", e) => Counting(g, e)
    BY Zenon DEF IndInv, CountInv
  <2>2. ASSUME Past(g, "close", e), Erased(g, e) PROVE Erased(g, e)'
    <3>1. ~(g = h /\ e = m.ex)
      BY <1>4, <2>2, Zenon
    <3> QED BY <1>6, <1>11, <2>2, <3>1, Zenon DEF Erased
  <2>3. ASSUME Counting(g, e) PROVE Counting(g, e)'
    BY <1>6, <1>10, <1>11, <1>12, <2>3, Zenon DEF Counting
  <2> QED BY <2>1, <2>2, <2>3, Zenon
<1>14. EosInv'
  <2>1. \A g \in Hosts, e \in Exchanges : Complete(g, e)' <=> Complete(g, e)
    BY <1>10, <1>11, Zenon DEF Complete
  <2> QED BY <1>11, <1>12, <2>1, Zenon DEF IndInv, EosInv
<1>15. HeldInv'
  <2> SUFFICES ASSUME NEW g \in Hosts, NEW u \in Hosts, held'[g][u] # <<>>
               PROVE  /\ held'[g][u] = <<Head(held'[g][u])>>
                      /\ Head(held'[g][u]).op = "kMessage"
                      /\ Head(held'[g][u]).ex \in registered'[g]
    BY Zenon DEF HeldInv
  <2>1. CASE g = h /\ u = s
    <3>1. held'[g][u] = <<m>> /\ Head(<<m>>) = m
      BY <1>5, <2>1
    <3>2. m.op = "kMessage"
      BY <1>2, Zenon
    <3>3. m.ex \in registered'[h]
      BY <1>6, Zenon
    <3> QED BY <2>1, <3>1, <3>2, <3>3, Zenon
  <2>2. CASE ~(g = h /\ u = s)
    <3>1. held'[g][u] = held[g][u]
      BY <1>5, <2>2, Zenon
    <3>2. /\ held[g][u] = <<Head(held[g][u])>>
          /\ Head(held[g][u]).op = "kMessage"
          /\ Head(held[g][u]).ex \in registered[g]
      BY <3>1, Zenon DEF IndInv, HeldInv
    <3>3. registered[g] \subseteq registered'[g]
      BY <1>6, Zenon
    <3> QED BY <3>1, <3>2, <3>3, Zenon
  <2> QED BY <2>1, <2>2, Zenon
<1> QED BY <1>9, <1>13, <1>14, <1>15, Zenon DEF IndInv

(* The indices of a source to which a payload is pushed. *)
LEMMA SourceAppend ==
    ASSUME NEW q \in Seq(Payload), NEW x \in Payload
    PROVE  /\ \A i \in DOMAIN Append(q, x) :
                \/ i \in DOMAIN q /\ Append(q, x)[i] = q[i]
                \/ i = Len(q) + 1 /\ Append(q, x)[i] = x
           /\ \A i \in DOMAIN q : i \in DOMAIN Append(q, x) /\ Append(q, x)[i] = q[i]
           /\ Len(q) + 1 \in DOMAIN Append(q, x) /\ Append(q, x)[Len(q) + 1] = x
           /\ DOMAIN q = 1 .. Len(q) /\ Len(q) \in Nat
OBVIOUS

(* A receiver pushes the payload it holds into a source that is not        *)
(* closed.                                                                 *)
LEMMA PushPayloadStep ==
    ASSUME IndInv, TypeOK', NEW h \in Hosts, NEW s \in Hosts, PushPayload(h, s)
    PROVE  IndInv'
<1>0. TypeOK
  BY Zenon DEF IndInv
<1>1. PICK m \in Message : m = Head(held[h][s])
  BY HeldFirst, Zenon DEF PushPayload
<1>a. PICK f \in Exchanges : f = m.ex
  BY Zenon DEF Message
<1>2. /\ held[h][s] = <<m>> /\ m.op = "kMessage" /\ held[h][s] # <<>>
  BY <1>1, Zenon DEF IndInv, HeldInv, PushPayload
<1>3. Pipe(s, h) # <<>> /\ Pipe(s, h)[1] = m
  BY <1>1, <1>2, HeldFirst, Zenon
<1>4. ~closed[h][f]
  <2>1. AtHead(s, h, m, f)
    BY <1>3, <1>a, Zenon DEF AtHead
  <2> QED BY <2>1, SourceOpen, Zenon
<1>5. PICK x \in Payload : x = [src |-> s, num |-> m.num]
  BY Zenon DEF Message, Payload
<1>6. /\ source' = [source EXCEPT ![h][f] = Append(source[h][f], x)]
      /\ held' = [held EXCEPT ![h][s] = <<>>]
      /\ UNCHANGED <<opVars, sendVars, receiver, registered, closed, remaining, phase>>
  BY <1>1, <1>4, <1>5, <1>a, Zenon DEF PushPayload
<1>7. /\ s \in Pending(h, f) /\ got[h][f][s] < m.num /\ m.num <= sent[s][f][h]
      /\ \A i \in DOMAIN Pipe(s, h) : i # 1 /\ Pipe(s, h)[i].ex = f => m.num < Pipe(s, h)[i].num
      /\ ~Past(h, "close", f) /\ 1 \in DOMAIN Pipe(s, h) /\ m.num \in Nat
  BY <1>2, <1>3, <1>a, FirstMessage, Zenon
<1>8. ip' = ip /\ got' = got /\ eos' = eos /\ sent' = sent /\ registered' = registered
      /\ closed' = closed /\ remaining' = remaining /\ wire' = wire /\ sink' = sink
  BY <1>6, Zenon DEF opVars, sendVars
<1>9. ended' = ended
  BY <1>6, Zenon DEF ended, opVars
<1>10. \A u, g \in Hosts : held'[g][u] = IF g = h /\ u = s THEN <<>> ELSE held[g][u]
  <2>1. held \in PerPair(Seq(Message))
    BY <1>0, Zenon DEF TypeOK
  <2> QED BY <1>6, <2>1, Zenon DEF PerPair
<1>11. Popped(s, h, m)
  <2>1. Pipe(s, h)' = Tail(Pipe(s, h))
    <3> DEFINE b == wire[s][h]
               c == sink[s][h]
    <3>1. b \in Seq(Message) /\ c \in Seq(Message)
      BY <1>0, Lookup, Zenon
    <3>2. Pipe(s, h)' = (<<>> \o b) \o c /\ Pipe(s, h) = (<<m>> \o b) \o c
      BY <1>2, <1>8, <1>10, Zenon DEF Pipe
    <3> HIDE DEF b, c
    <3>3. (<<>> \o b) \o c = Tail((<<m>> \o b) \o c)
      BY <3>1, PipePush, Zenon
    <3> QED BY <3>2, <3>3, Zenon
  <2>2. ASSUME NEW u \in Hosts, NEW g \in Hosts, ~(u = s /\ g = h) PROVE Pipe(u, g)' = Pipe(u, g)
    BY <1>8, <1>10, <2>2, Zenon DEF Pipe
  <2> QED BY <1>3, <1>8, <1>9, <2>1, <2>2, Zenon DEF Popped
<1>12. PipeInv'
  BY <1>11, PopPipeInv, Zenon
<1>13. \A g \in Hosts, e \in Exchanges : Pending(g, e)' = Pending(g, e)
  BY <1>2, <1>11, PopPending
<1>14. \A g \in Hosts, e \in Exchanges :
        source'[g][e] = IF g = h /\ e = f THEN Append(source[h][f], x) ELSE source[g][e]
  <2> DEFINE v == Append(source[h][f], x)
  <2>1. source' = [source EXCEPT ![h][f] = v]
    BY <1>6, Zenon
  <2>2. source \in PerExchange(Seq(Payload))
    BY <1>0, Zenon DEF TypeOK
  <2> HIDE DEF v
  <2>3. \A g \in Hosts, e \in Exchanges : source'[g][e] = IF g = h /\ e = f THEN v ELSE source[g][e]
    BY <2>1, <2>2, Zenon DEF PerExchange
  <2> QED BY <2>3, Zenon DEF v
<1> DEFINE q == source[h][f]
<1>15. /\ \A i \in DOMAIN Append(q, x) :
            \/ i \in DOMAIN q /\ Append(q, x)[i] = q[i]
            \/ i = Len(q) + 1 /\ Append(q, x)[i] = x
       /\ \A i \in DOMAIN q : i \in DOMAIN Append(q, x) /\ Append(q, x)[i] = q[i]
       /\ Len(q) + 1 \in DOMAIN Append(q, x) /\ Append(q, x)[Len(q) + 1] = x
       /\ DOMAIN q = 1 .. Len(q) /\ Len(q) \in Nat
  BY <1>0, Lookup, SourceAppend, Zenon
<1>16. x.src = s /\ x.num = m.num
  BY <1>5, Zenon
<1>17. SourceInv'
  <2> SUFFICES ASSUME NEW u \in Hosts, NEW g \in Hosts, NEW e \in Exchanges,
                      NEW i \in DOMAIN source'[g][e], source'[g][e][i].src = u
               PROVE  LET n == source'[g][e][i] IN
                      /\ \A j \in 1 .. i - 1 : source'[g][e][j].src = u => source'[g][e][j].num < n.num
                      /\ got[g][e][u] < n.num /\ n.num <= sent[u][e][g]
                      /\ \A j \in DOMAIN Pipe(u, g)' : Pipe(u, g)'[j].ex = e => n.num < Pipe(u, g)'[j].num
    BY <1>8 DEF SourceInv
  <2>0. \A j \in DOMAIN Pipe(u, g)' : \E k \in DOMAIN Pipe(u, g) :
            Pipe(u, g)[k] = Pipe(u, g)'[j] /\ (u = s /\ g = h => k # 1)
    BY <1>11, PopElements
  <2>1. ASSUME NEW l \in DOMAIN source[g][e], source[g][e][l].src = u
        PROVE  LET n == source[g][e][l] IN
               /\ \A j \in 1 .. l - 1 : source[g][e][j].src = u => source[g][e][j].num < n.num
               /\ got[g][e][u] < n.num /\ n.num <= sent[u][e][g]
               /\ \A j \in DOMAIN Pipe(u, g) : Pipe(u, g)[j].ex = e => n.num < Pipe(u, g)[j].num
    BY <2>1, Zenon DEF IndInv, SourceInv
  <2>2. CASE ~(g = h /\ e = f)
    <3>1. source'[g][e] = source[g][e]
      BY <1>14, <2>2, Zenon
    <3> QED BY <2>0, <2>1, <3>1
  <2>3. CASE g = h /\ e = f
    <3>0. source'[g][e] = Append(q, x) /\ source[g][e] = q
      BY <1>14, <2>3, Zenon
    <3>1. CASE i \in DOMAIN q /\ Append(q, x)[i] = q[i]
      <4>1. \A j \in 1 .. i - 1 : j \in DOMAIN q /\ Append(q, x)[j] = q[j]
        <5> HIDE DEF q
        <5> QED BY <1>15, <3>1
      <4>2. \A j \in 1 .. i - 1 : source'[g][e][j] = source[g][e][j]
        BY <3>0, <4>1, Zenon
      <4>3. source'[g][e][i] = source[g][e][i] /\ i \in DOMAIN source[g][e]
        BY <3>0, <3>1, Zenon
      <4>4. LET n == source[g][e][i] IN
            /\ \A j \in 1 .. i - 1 : source[g][e][j].src = u => source[g][e][j].num < n.num
            /\ got[g][e][u] < n.num /\ n.num <= sent[u][e][g]
            /\ \A j \in DOMAIN Pipe(u, g) : Pipe(u, g)[j].ex = e => n.num < Pipe(u, g)[j].num
        BY <2>1, <4>3, Zenon
      <4>5. \A j \in DOMAIN Pipe(u, g)' : Pipe(u, g)'[j].ex = e => source[g][e][i].num < Pipe(u, g)'[j].num
        <5> SUFFICES ASSUME NEW j \in DOMAIN Pipe(u, g)', Pipe(u, g)'[j].ex = e
                     PROVE  source[g][e][i].num < Pipe(u, g)'[j].num
          BY Zenon
        <5>1. PICK k \in DOMAIN Pipe(u, g) : Pipe(u, g)[k] = Pipe(u, g)'[j]
          BY <2>0, Zenon
        <5> QED BY <4>4, <5>1, Zenon
      <4> QED BY <4>2, <4>3, <4>4, <4>5, Zenon
    <3>2. CASE i = Len(q) + 1 /\ Append(q, x)[i] = x
      <4>1. source'[g][e][i] = x /\ u = s
        BY <1>16, <3>0, <3>2, Zenon
      <4>2. ASSUME NEW j \in 1 .. i - 1, source'[g][e][j].src = u PROVE source'[g][e][j].num < m.num
        <5>1. j \in DOMAIN q /\ Append(q, x)[j] = q[j]
          <6> HIDE DEF q
          <6> QED BY <1>15, <3>2
        <5>2. source'[g][e][j] = source[g][e][j] /\ j \in DOMAIN source[g][e]
          BY <3>0, <5>1, Zenon
        <5>3. \A k \in DOMAIN Pipe(u, g) : Pipe(u, g)[k].ex = e => source[g][e][j].num < Pipe(u, g)[k].num
          BY <2>1, <4>2, <5>2, Zenon
        <5> QED BY <1>3, <1>7, <1>a, <2>3, <4>1, <5>2, <5>3, Zenon
      <4>3. got[g][e][u] < m.num /\ m.num <= sent[u][e][g]
        BY <1>7, <2>3, <4>1, Zenon
      <4>4. \A j \in DOMAIN Pipe(u, g)' : Pipe(u, g)'[j].ex = e => m.num < Pipe(u, g)'[j].num
        BY <1>7, <2>0, <2>3, <4>1
      <4> QED BY <1>16, <4>1, <4>2, <4>3, <4>4, Zenon
    <3> QED BY <1>15, <3>0, <3>1, <3>2, Zenon
  <2> QED BY <2>2, <2>3, Zenon
<1>18. NoLoss'
  <2> SUFFICES ASSUME NEW u \in Hosts, NEW g \in Hosts, NEW e \in Exchanges
               PROVE  /\ got[g][e][u] <= sent[u][e][g]
                      /\ \A n \in 1 .. sent[u][e][g] : got[g][e][u] < n => InTransit(u, g, e, n)'
    BY <1>8, Zenon DEF NoLoss
  <2>1. /\ got[g][e][u] <= sent[u][e][g]
        /\ \A n \in 1 .. sent[u][e][g] : got[g][e][u] < n => InTransit(u, g, e, n)
    BY Zenon DEF IndInv, NoLoss
  <2>2. ASSUME NEW n \in Nat, InTransit(u, g, e, n)
        PROVE  InTransit(u, g, e, n)'
    <3>1. ASSUME NEW i \in DOMAIN source[g][e], source[g][e][i] = [src |-> u, num |-> n]
          PROVE  InTransit(u, g, e, n)'
      <4>1. i \in DOMAIN source'[g][e] /\ source'[g][e][i] = source[g][e][i]
        <5>1. CASE g = h /\ e = f
          <6>1. source'[g][e] = Append(q, x) /\ source[g][e] = q
            BY <1>14, <5>1, Zenon
          <6> HIDE DEF q
          <6> QED BY <1>15, <6>1, Zenon
        <5>2. CASE ~(g = h /\ e = f)
          BY <1>14, <5>2, Zenon
        <5> QED BY <5>1, <5>2, Zenon
      <4> QED BY <3>1, <4>1, Zenon DEF InTransit
    <3>2. ASSUME NEW k \in DOMAIN Pipe(u, g), Pipe(u, g)[k].ex = e, Pipe(u, g)[k].num = n
          PROVE  InTransit(u, g, e, n)'
      <4>1. CASE u = s /\ g = h /\ k = 1
        <5>1. e = f /\ x = [src |-> u, num |-> n]
          BY <1>3, <1>5, <1>a, <3>2, <4>1, Zenon
        <5>2. \E i \in DOMAIN source'[g][e] : source'[g][e][i] = x
          <6>1. source'[g][e] = Append(q, x)
            BY <1>14, <4>1, <5>1, Zenon
          <6> HIDE DEF q
          <6> QED BY <1>15, <6>1, Zenon
        <5> QED BY <5>1, <5>2, Zenon DEF InTransit
      <4>2. CASE ~(u = s /\ g = h /\ k = 1)
        <5>1. \E j \in DOMAIN Pipe(u, g)' : Pipe(u, g)'[j] = Pipe(u, g)[k]
          BY <1>11, <4>2, PopElements
        <5> QED BY <3>2, <5>1, Zenon DEF InTransit
      <4> QED BY <4>1, <4>2, Zenon
    <3> QED BY <2>2, <3>1, <3>2, Zenon DEF InTransit
  <2> QED BY <2>1, <2>2
<1>19. \A g, o, e : Past(g, o, e)' <=> Past(g, o, e)
  BY <1>8, Zenon DEF Past
<1>20. CountInv'
  <2> SUFFICES ASSUME NEW g \in Hosts, NEW e \in Exchanges
               PROVE  /\ Past(g, "close", e) => Erased(g, e)'
                      /\ ~Past(g, "close", e) => Counting(g, e)'
    BY <1>19, Zenon DEF CountInv
  <2>1. /\ Past(g, "close", e) => Erased(g, e)
        /\ ~Past(g, "close", e) => Counting(g, e)
    BY Zenon DEF IndInv, CountInv
  <2>2. ASSUME Past(g, "close", e), Erased(g, e) PROVE Erased(g, e)'
    <3>1. ~(g = h /\ e = f)
      BY <1>7, <2>2, Zenon
    <3>2. source'[g][e] = source[g][e]
      BY <1>14, <3>1, Zenon
    <3> QED BY <1>8, <2>2, <3>2, Zenon DEF Erased
  <2>3. Counting(g, e) => Counting(g, e)'
    BY <1>8, <1>13, <1>19, Zenon DEF Counting
  <2> QED BY <2>1, <2>2, <2>3, Zenon
<1>21. EosInv'
  <2>1. \A g \in Hosts, e \in Exchanges : Complete(g, e)' <=> Complete(g, e)
    BY <1>8, <1>13, Zenon DEF Complete
  <2> QED BY <1>8, <1>19, <2>1, Zenon DEF IndInv, EosInv
<1>22. HeldInv'
  BY <1>8, <1>10 DEF IndInv, HeldInv
<1> QED BY <1>12, <1>17, <1>18, <1>20, <1>21, <1>22, Zenon DEF IndInv

----------------------------------------------------------------------------
(* The shutdown. *)

(* A pipe and the ends of its stream decide whether an end is awaited. *)
LEMMA SameAwaited ==
    ASSUME NEW h \in Hosts, NEW s \in Hosts, NEW e \in Exchanges, s \in Pending(h, e),
           Pipe(s, h)' = Pipe(s, h), ended' = ended
    PROVE  s \in Pending(h, e)'
BY Zenon DEF Pending, EndInPipe

(* SendMessage keeps an end awaited: what it pushes is still to be read. *)
LEMMA AppendAwaited ==
    ASSUME IndInv, NEW h \in Hosts, NEW r \in Hosts, NEW f \in Exchanges, NEW m \in Message,
           Appended(h, r, f, m), NEW s \in Hosts, NEW g \in Hosts, NEW e \in Exchanges,
           s \in Pending(g, e)
    PROVE  s \in Pending(g, e)'
<1>1. /\ m.ex = f
      /\ Pipe(h, r)' = Append(Pipe(h, r), m)
      /\ ~(s = h /\ g = r) => Pipe(s, g)' = Pipe(s, g)
      /\ g \in ended'[s][e] <=> g \in ended[s][e] \/ (m.op = "kEndStream" /\ s = h /\ e = f /\ g = r)
  BY DEF Appended
<1>2. CASE ~(s = h /\ g = r)
  BY <1>1, <1>2, Zenon DEF Pending, EndInPipe
<1>3. CASE s = h /\ g = r
  <2> DEFINE p == Pipe(h, r)
  <2>1. p \in Seq(Message)
    BY PipeType, Zenon DEF IndInv
  <2> HIDE DEF p
  <2>2. /\ \A i \in DOMAIN p : i \in DOMAIN Append(p, m) /\ Append(p, m)[i] = p[i]
        /\ Len(p) + 1 \in DOMAIN Append(p, m) /\ Append(p, m)[Len(p) + 1] = m
    BY <2>1, PipeAppend, Zenon
  <2>3. EndInPipe(h, r, e) => EndInPipe(h, r, e)'
    BY <1>1, <2>2, Zenon DEF EndInPipe, p
  <2>4. m.op = "kEndStream" /\ e = f => EndInPipe(h, r, e)'
    BY <1>1, <2>2, Zenon DEF EndInPipe, p
  <2> QED BY <1>1, <1>3, <2>3, <2>4, Zenon DEF Pending
<1> QED BY <1>2, <1>3, Zenon

(* A receiver that reads or pushes changes no pipe but its own, and it is  *)
(* the receiver of an accepted connection.                                 *)
LEMMA ReceiverAwaited ==
    ASSUME TypeOK, Joined, NEW h \in Hosts, NEW u \in Hosts, ReceiverFiber(h, u),
           NEW s \in Hosts, NEW g \in Hosts, receiver'[g][s] = "none"
    PROVE  receiver[g][s] = "none" /\ Pipe(s, g)' = Pipe(s, g) /\ ended' = ended
<1>0. /\ receiver \in PerPair({"none", "reading", "returned"})
      /\ wire \in PerPair(Seq(Message)) /\ held \in PerPair(Seq(Message))
  BY Zenon DEF TypeOK
<1>1. thread' = thread /\ sink' = sink
  BY Frames, Zenon
<1>2. ended' = ended
  BY <1>1, Zenon DEF ended
<1>3. CASE Accept(h, u) \/ ReceiverReturn(h, u)
  <2>1. /\ wire' = wire /\ held' = held
        /\ \E v \in {"reading", "returned"} : receiver' = [receiver EXCEPT ![h][u] = v]
    BY <1>3, Zenon DEF Accept, ReceiverReturn, sendVars
  <2>2. receiver[g][s] = "none"
    BY <1>0, <2>1 DEF PerPair
  <2> QED BY <1>1, <1>2, <2>1, <2>2, Zenon DEF Pipe
<1>4. CASE ReadMessage(h, u) \/ PushPayload(h, u)
  <2>1. receiver' = receiver /\ receiver[h][u] = "reading"
    BY <1>4, ZenonT(30) DEF ReadMessage, PushPayload, Joined
  <2>2. ~(g = h /\ s = u)
    BY <2>1, Zenon
  <2>3. /\ wire' = wire \/ \E v : wire' = [wire EXCEPT ![u][h] = v]
        /\ held' = held \/ \E v : held' = [held EXCEPT ![h][u] = v]
    BY <1>4, Zenon DEF ReadMessage, PushPayload, sendVars
  <2>4. ASSUME NEW v, wire' = [wire EXCEPT ![u][h] = v] PROVE wire'[s][g] = wire[s][g]
    BY <1>0, <2>2, <2>4, Zenon DEF PerPair
  <2>5. ASSUME NEW v, held' = [held EXCEPT ![h][u] = v] PROVE held'[g][s] = held[g][s]
    BY <1>0, <2>2, <2>5, Zenon DEF PerPair
  <2>6. wire'[s][g] = wire[s][g] /\ held'[g][s] = held[g][s]
    BY <2>3, <2>4, <2>5, Zenon
  <2> QED BY <1>1, <1>2, <2>1, <2>6, Zenon DEF Pipe
<1> QED BY <1>3, <1>4, Zenon DEF ReceiverFiber

(* No end is read over a connection that is not accepted. *)
LEMMA UnacceptedStep ==
    ASSUME IndInv, Unaccepted, Joined, [Next]_vars
    PROVE  Unaccepted'
<1>0. TypeOK
  BY Zenon DEF IndInv
<1> SUFFICES ASSUME NEW g \in Hosts, NEW s \in Hosts, NEW e \in Exchanges, receiver'[g][s] = "none"
             PROVE  s \in Pending(g, e)'
  BY Zenon DEF Unaccepted
<1>1. ASSUME receiver[g][s] = "none", Pipe(s, g)' = Pipe(s, g), ended' = ended
      PROVE  s \in Pending(g, e)'
  <2>1. s \in Pending(g, e)
    BY <1>1, Zenon DEF Unaccepted
  <2> QED BY <1>1, <2>1, SameAwaited, Zenon
<1>2. ASSUME NEW h \in Hosts, MainFiber(h) PROVE s \in Pending(g, e)'
  <2>1. receiver' = receiver /\ sink' = sink /\ wire' = wire /\ held' = held
    BY <1>2, Frames, Zenon
  <2>2. ended' = ended
    <3>1. CASE StartConsumeUpstream(h)
      BY <3>1, StartKeepsEnded, Zenon
    <3>2. CASE ~StartConsumeUpstream(h)
      <4>1. thread' = thread
        BY <1>2, <3>2, Frames, Zenon DEF MainFiber
      <4> QED BY <4>1, Zenon DEF ended
    <3> QED BY <3>1, <3>2, Zenon
  <2>3. Pipe(s, g)' = Pipe(s, g)
    BY <2>1, Zenon DEF Pipe
  <2> QED BY <1>1, <2>1, <2>2, <2>3, Zenon
<1>3. ASSUME NEW h \in Hosts, NEW f \in Exchanges, ConsumeThread(h, f) PROVE s \in Pending(g, e)'
  <2>1. PICK r \in Hosts, m \in Message : Appended(h, r, f, m)
    BY <1>3, PayloadSent, EndStreamPushed, Zenon DEF ConsumeThread
  <2>2. receiver[g][s] = "none"
    BY <1>3, Frames, Zenon
  <2>3. s \in Pending(g, e)
    BY <2>2, Zenon DEF Unaccepted
  <2> QED BY <2>1, <2>3, AppendAwaited, Zenon
<1>4. ASSUME NEW h \in Hosts, NEW r \in Hosts, SenderFiber(h, r) PROVE s \in Pending(g, e)'
  <2>1. receiver' = receiver /\ held' = held /\ thread' = thread
    BY <1>4, Frames, Zenon
  <2>2. Pipe(s, g)' = Pipe(s, g)
    <3>1. CASE SenderWrite(h, r)
      BY <3>1, SenderWritePipes, Zenon
    <3>2. CASE Connect(h, r) \/ SenderReturn(h, r)
      BY <3>2, <2>1, Zenon DEF Connect, SenderReturn, Pipe
    <3> QED BY <1>4, <3>1, <3>2, Zenon DEF SenderFiber
  <2>3. ended' = ended
    BY <2>1, Zenon DEF ended
  <2> QED BY <1>1, <2>1, <2>2, <2>3, Zenon
<1>5. ASSUME NEW h \in Hosts, NEW u \in Hosts, ReceiverFiber(h, u) PROVE s \in Pending(g, e)'
  <2>1. receiver[g][s] = "none" /\ Pipe(s, g)' = Pipe(s, g) /\ ended' = ended
    BY <1>0, <1>5, ReceiverAwaited, Zenon
  <2> QED BY <1>1, <2>1, Zenon
<1>6. CASE UNCHANGED vars
  <2>1. receiver' = receiver /\ ended' = ended /\ Pipe(s, g)' = Pipe(s, g)
    BY <1>6, Zenon DEF vars, opVars, sendVars, recvVars, ended, Pipe
  <2> QED BY <1>1, <2>1, Zenon
<1> QED BY <1>2, <1>3, <1>4, <1>5, <1>6, Actors, Zenon

(* In the destructor no consume thread pushes any more: close() has joined *)
(* every one that a next() had started.                                    *)
LEMMA NoLatePush ==
    ASSUME IndInv, LifeCycle, PlanCompletes, NEW h \in Hosts, NEW e \in Exchanges,
           phase[h] \in Closing
    PROVE  ~ConsumeThread(h, e)
<1> SUFFICES ASSUME ConsumeThread(h, e) PROVE FALSE
  BY Zenon
<1>1. thread[h][e].pc # "idle" /\ thread[h][e].pc # "done"
  BY Zenon DEF ConsumeThread, SendPayload, SendEndStream
<1>2. Planned("next", e)
  BY <1>1, Zenon DEF LifeCycle
<1>3. Planned("open", e)
  <2>1. PICK i \in DOMAIN Plan : Plan[i] = [op |-> "next", ex |-> e]
    BY <1>2, Zenon DEF Planned
  <2>2. PICK j \in 1 .. i - 1 : Plan[j] = [op |-> "open", ex |-> e]
    BY <2>1, PlanAssumption
  <2>3. j \in DOMAIN Plan
    BY PlanAssumption
  <2> QED BY <2>2, <2>3, Zenon DEF Planned
<1>4. Planned("close", e)
  BY <1>3, Zenon DEF PlanCompletes
<1>5. Past(h, "close", e)
  BY <1>4, Zenon DEF LifeCycle, Planned, Past
<1> QED BY <1>1, <1>5, Zenon DEF LifeCycle

(* What a receiver of h for s and the sender of h to s know of each other. *)
JoinedPair(h, s) ==
    /\ held[h][s] # <<>> => receiver[h][s] = "reading"
    /\ receiver[h][s] = "returned" =>
        conn[s][h] = "returned" /\ wire[s][h] = <<>> /\ held[h][s] = <<>>
    /\ conn[h][s] = "returned" => phase[h] \in Closing /\ sink[h][s] = <<>>
    /\ phase[h] \in {"acceptorClosed", "stopped"} => conn[h][s] = "returned"
    /\ phase[h] = "stopped" => receiver[h][s] # "reading"

(* Senders and receivers return in the order in which the destructors join *)
(* them.                                                                   *)
LEMMA JoinedStep ==
    ASSUME IndInv, LifeCycle, Joined, PlanCompletes, [Next]_vars
    PROVE  Joined'
<1>0. TypeOK
  BY Zenon DEF IndInv
<1>a. /\ receiver \in PerPair({"none", "reading", "returned"})
      /\ conn \in PerPair({"connecting", "connected", "returned"})
      /\ wire \in PerPair(Seq(Message)) /\ held \in PerPair(Seq(Message))
      /\ sink \in PerPair(Seq(Message))
  BY <1>0, Zenon DEF TypeOK
<1> SUFFICES ASSUME NEW g \in Hosts, NEW s \in Hosts PROVE JoinedPair(g, s)'
  BY Zenon DEF Joined, JoinedPair, Closing
<1>1. JoinedPair(g, s)
  BY Zenon DEF Joined, JoinedPair
<1>2. ASSUME NEW h \in Hosts, MainFiber(h) PROVE JoinedPair(g, s)'
  <2>1. sink' = sink /\ conn' = conn /\ wire' = wire /\ receiver' = receiver /\ held' = held
    BY <1>2, Frames, Zenon
  <2>2. /\ phase[g] \in Closing => phase'[g] \in Closing
        /\ phase[g] \notin {"acceptorClosed", "stopped"} /\ phase'[g] \in {"acceptorClosed", "stopped"} =>
            conn[g][s] = "returned"
        /\ phase[g] # "stopped" /\ phase'[g] = "stopped" => receiver[g][s] # "reading"
    BY <1>0, PhaseStep, Zenon
  <2> QED BY <1>1, <2>1, <2>2, Zenon DEF JoinedPair, Closing
<1>3. ASSUME NEW h \in Hosts, NEW f \in Exchanges, ConsumeThread(h, f) PROVE JoinedPair(g, s)'
  <2>1. phase' = phase /\ conn' = conn /\ wire' = wire /\ receiver' = receiver /\ held' = held
    BY <1>3, Frames, Zenon
  <2>2. phase[h] \notin Closing
    BY <1>3, NoLatePush, Zenon
  <2>3. g # h => sink'[g][s] = sink[g][s]
    <3>1. PICK r \in Hosts : r = thread[h][f].to
      BY <1>0, Lookup, Zenon DEF Thread
    <3>2. \E q : sink' = [sink EXCEPT ![h][r] = q]
      BY <1>3, <3>1, Zenon DEF ConsumeThread, SendPayload, SendEndStream
    <3> QED BY <1>a, <3>2, Zenon DEF PerPair
  <2> QED BY <1>1, <2>1, <2>2, <2>3, Zenon DEF JoinedPair, Closing
<1>4. ASSUME NEW h \in Hosts, NEW r \in Hosts, SenderFiber(h, r) PROVE JoinedPair(g, s)'
  <2>1. phase' = phase /\ receiver' = receiver /\ held' = held
    BY <1>4, Frames, Zenon
  <2>b. conn[s][g] = "returned" => conn[s][g] # "connected" /\ conn[s][g] # "connecting"
    BY Zenon
  <2>2. CASE Connect(h, r)
    <3>1. /\ wire' = wire /\ sink' = sink /\ conn[h][r] = "connecting"
          /\ conn' = [conn EXCEPT ![h][r] = "connected"]
      BY <2>2, Zenon DEF Connect
    <3>2. \A x, y \in Hosts : conn'[x][y] = IF x = h /\ y = r THEN "connected" ELSE conn[x][y]
      BY <1>a, <3>1, Zenon DEF PerPair
    <3> QED BY <1>1, <2>1, <3>1, <3>2 DEF JoinedPair
  <2>3. CASE SenderWrite(h, r)
    <3>1. /\ conn' = conn /\ conn[h][r] = "connected"
          /\ \E q : wire' = [wire EXCEPT ![h][r] = q]
          /\ \E q : sink' = [sink EXCEPT ![h][r] = q]
      BY <2>3, Zenon DEF SenderWrite
    <3>2. PICK q : wire' = [wire EXCEPT ![h][r] = q]
      BY <3>1, Zenon
    <3>3. PICK p : sink' = [sink EXCEPT ![h][r] = p]
      BY <3>1, Zenon
    <3>4. \A x, y \in Hosts : ~(x = h /\ y = r) => wire'[x][y] = wire[x][y]
      BY <1>a, <3>2, Zenon DEF PerPair
    <3>5. \A x, y \in Hosts : ~(x = h /\ y = r) => sink'[x][y] = sink[x][y]
      BY <1>a, <3>3, Zenon DEF PerPair
    <3> QED BY <1>1, <2>1, <3>1, <3>4, <3>5, Zenon DEF JoinedPair
  <2>4. CASE SenderReturn(h, r)
    <3>1. /\ wire' = wire /\ sink' = sink /\ sink[h][r] = <<>> /\ phase[h] = "sinksClosed"
          /\ conn' = [conn EXCEPT ![h][r] = "returned"]
      BY <2>4, Zenon DEF SenderReturn
    <3>2. \A x, y \in Hosts : conn'[x][y] = IF x = h /\ y = r THEN "returned" ELSE conn[x][y]
      BY <1>a, <3>1, Zenon DEF PerPair
    <3> QED BY <1>1, <2>1, <3>1, <3>2 DEF JoinedPair, Closing
  <2> QED BY <1>4, <2>2, <2>3, <2>4, Zenon DEF SenderFiber
<1>5. ASSUME NEW h \in Hosts, NEW u \in Hosts, ReceiverFiber(h, u) PROVE JoinedPair(g, s)'
  <2>1. phase' = phase /\ conn' = conn /\ sink' = sink
    BY <1>5, Frames, Zenon
  <2>2. CASE Accept(h, u)
    <3>1. /\ wire' = wire /\ held' = held /\ phase[h] \in {"running", "sinksClosed"}
          /\ receiver[h][u] = "none"
          /\ receiver' = [receiver EXCEPT ![h][u] = "reading"]
      BY <2>2, Zenon DEF Accept, sendVars
    <3>2. receiver'[g][s] = IF g = h /\ s = u THEN "reading" ELSE receiver[g][s]
      BY <1>a, <3>1, Zenon DEF PerPair
    <3> QED BY <1>1, <2>1, <3>1, <3>2 DEF JoinedPair
  <2>3. CASE ReadMessage(h, u)
    <3>1. /\ receiver' = receiver /\ receiver[h][u] = "reading"
          /\ \E q : wire' = [wire EXCEPT ![u][h] = q]
          /\ held' = held \/ \E q : held' = [held EXCEPT ![h][u] = q]
      BY <2>3, Zenon DEF ReadMessage
    <3>2. PICK q : wire' = [wire EXCEPT ![u][h] = q]
      BY <3>1, Zenon
    <3>3. ~(g = h /\ s = u) => wire'[s][g] = wire[s][g]
      BY <1>a, <3>2, Zenon DEF PerPair
    <3>4. ASSUME NEW p, held' = [held EXCEPT ![h][u] = p]
          PROVE  ~(g = h /\ s = u) => held'[g][s] = held[g][s]
      BY <1>a, <3>4, Zenon DEF PerPair
    <3>5. ~(g = h /\ s = u) => held'[g][s] = held[g][s]
      BY <3>1, <3>4, Zenon
    <3> QED BY <1>1, <2>1, <3>1, <3>3, <3>5, Zenon DEF JoinedPair
  <2>4. CASE PushPayload(h, u)
    <3>1. /\ receiver' = receiver /\ wire' = wire
          /\ held' = [held EXCEPT ![h][u] = <<>>]
      BY <2>4, Zenon DEF PushPayload, sendVars
    <3>2. held'[g][s] = IF g = h /\ s = u THEN <<>> ELSE held[g][s]
      BY <1>a, <3>1, Zenon DEF PerPair
    <3> QED BY <1>1, <2>1, <3>1, <3>2, Zenon DEF JoinedPair
  <2>5. CASE ReceiverReturn(h, u)
    <3>1. /\ held' = held /\ wire' = wire /\ held[h][u] = <<>> /\ wire[u][h] = <<>>
          /\ conn[u][h] = "returned"
          /\ receiver' = [receiver EXCEPT ![h][u] = "returned"]
      BY <2>5, Zenon DEF ReceiverReturn, sendVars
    <3>2. receiver'[g][s] = IF g = h /\ s = u THEN "returned" ELSE receiver[g][s]
      BY <1>a, <3>1, Zenon DEF PerPair
    <3> QED BY <1>1, <2>1, <3>1, <3>2, Zenon DEF JoinedPair
  <2> QED BY <1>5, <2>2, <2>3, <2>4, <2>5, Zenon DEF ReceiverFiber
<1>6. CASE UNCHANGED vars
  <2>1. /\ phase' = phase /\ conn' = conn /\ sink' = sink /\ wire' = wire
        /\ receiver' = receiver /\ held' = held
    BY <1>6, Zenon DEF vars, sendVars, recvVars
  <2> QED BY <1>1, <2>1, Zenon DEF JoinedPair
<1> QED BY <1>2, <1>3, <1>4, <1>5, <1>6, Actors, Zenon

(* Nothing is opened, connected or ended at first. *)
LEMMA ShutdownInit == Init => Shutdown
<1> SUFFICES ASSUME Init PROVE Shutdown
  BY Zenon
<1>1. LifeCycle
  <2>1. \A h \in Hosts : phase[h] = "down" /\ ip[h] = 1
    BY Zenon DEF Init
  <2>2. \A h \in Hosts, e \in Exchanges : thread[h][e].pc = "idle"
    BY Zenon DEF Init, Idle
  <2>3. \A i \in DOMAIN Plan : ~(i < 1)
    BY PlanAssumption
  <2>4. \A h \in Hosts, e \in Exchanges : ~Past(h, "close", e)
    BY <2>1, <2>3, Zenon DEF Past
  <2> QED BY <2>1, <2>2, <2>4, Zenon DEF LifeCycle, Closing
<1>2. Unaccepted
  <2>1. \A s \in Hosts, e \in Exchanges : ended[s][e] = {}
    BY Zenon DEF Init, ended, EndedBy, Idle
  <2> QED BY <2>1, Zenon DEF Unaccepted, Pending
<1>3. Joined
  BY Zenon DEF Init, Joined
<1> QED BY <1>1, <1>2, <1>3, Zenon DEF Shutdown
=============================================================================
