----------------------- MODULE ExchangeServiceProofs ------------------------
(***************************************************************************)
(* Theorems about the TCP exchange, for any number of hosts and exchanges, *)
(* any plan and any channel capacity.                                      *)
(***************************************************************************)
EXTENDS ExchangeServiceSteps, FiniteSetTheorems

(* There are N hosts, and the first is one of them. *)
LEMMA HostsFinite == IsFiniteSet(Hosts) /\ Cardinality(Hosts) = N /\ 0 \in Hosts
<1>1. 0 \in Int /\ N - 1 \in Int /\ 0 \in 0 .. N - 1
  BY NAssumption
<1>2. IsFiniteSet(0 .. N - 1) /\ Cardinality(0 .. N - 1) = IF 0 > N - 1 THEN 0 ELSE (N - 1) - 0 + 1
  BY <1>1, FS_Interval, Zenon
<1> QED BY <1>1, <1>2, NAssumption DEF Hosts

(* A counter that a kEndStream decrements is positive. *)
LastEnd(s, h, f) == remaining[h][f] = 1 <=> Pending(h, f) \ {s} = {}

(* The last kEndStream is the one that finds a single stream to be ended. *)
LEMMA ReadRemaining ==
    ASSUME IndInv, NEW h \in Hosts, NEW s \in Hosts, NEW m \in Message,
           NEW f \in Exchanges, AtHead(s, h, m, f)
    PROVE  /\ Counting(h, f)
           /\ remaining[h][f] \in 1 .. N /\ ~closed[h][f]
           /\ Cardinality(Pending(h, f) \ {s}) = remaining[h][f] - 1
           /\ LastEnd(s, h, f)
<1>0. TypeOK
  BY Zenon DEF IndInv
<1>1. s \in Pending(h, f) /\ ~closed[h][f]
  BY SourceOpen, Zenon
<1>2. Counting(h, f)
  BY SourceOpen, Zenon
<1> DEFINE S == Pending(h, f)
<1>3. remaining[h][f] = Cardinality(S) /\ ~closed[h][f]
  BY <1>1, <1>2, Zenon DEF Counting
<1>4. IsFiniteSet(S) /\ s \in S
  <2>1. S \subseteq Hosts
    BY Zenon DEF Pending
  <2> QED BY <1>1, <2>1, HostsFinite, FS_Subset, Zenon
<1> HIDE DEF S
<1>5. /\ IsFiniteSet(S \ {s}) /\ Cardinality(S \ {s}) = Cardinality(S) - 1
  BY <1>4, FS_RemoveElement, Zenon
<1>6. Cardinality(S \ {s}) \in Nat /\ (Cardinality(S \ {s}) = 0 <=> S \ {s} = {})
  BY <1>5, FS_CardinalityType, FS_EmptySet, Zenon
<1>7. remaining[h][f] \in 0 .. N
  BY <1>0, <1>1, Lookup, Zenon
<1>8. Cardinality(S) \in Nat
  BY <1>4, FS_CardinalityType, Zenon
<1>9. remaining[h][f] \in 1 .. N
  BY <1>3, <1>5, <1>6, <1>7, <1>8, NAssumption, SMTT(20)
<1>10. remaining[h][f] = 1 <=> S \ {s} = {}
  BY <1>3, <1>5, <1>6, <1>8
<1>11. LastEnd(s, h, f)
  BY <1>10, Zenon DEF S, LastEnd
<1> QED BY <1>2, <1>3, <1>5, <1>9, <1>11, Zenon DEF S

(* A receiver that reads kEndStream counts it. *)
LEMMA ReadEndStreamStep ==
    ASSUME IndInv, TypeOK', NEW h \in Hosts, NEW s \in Hosts, ReadMessage(h, s),
           Head(wire[s][h]).op = "kEndStream"
    PROVE  IndInv'
<1>0. TypeOK
  BY Zenon DEF IndInv
<1>1. PICK m \in Message : m = Head(wire[s][h])
  BY WireFirst, Zenon DEF ReadMessage
<1>a. PICK f \in Exchanges : f = m.ex
  BY Zenon DEF Message
<1>2. /\ held[h][s] = <<>> /\ wire[s][h] # <<>>
      /\ wire' = [wire EXCEPT ![s][h] = Tail(wire[s][h])]
      /\ registered' = [registered EXCEPT ![h] = registered[h] \cup {f}]
      /\ remaining' = [remaining EXCEPT ![h][f] = remaining[h][f] - 1]
      /\ closed' = [closed EXCEPT ![h][f] = closed[h][f] \/ remaining[h][f] = 1]
      /\ UNCHANGED <<held, opVars, sent, sink, conn, receiver, source, phase>>
      /\ m.op = "kEndStream"
  BY <1>1, <1>a, Zenon DEF ReadMessage, StartExchange, CountEnd
<1>3. /\ Tail(wire[s][h]) \in Seq(Message)
      /\ Pipe(s, h) # <<>> /\ Pipe(s, h)[1] = m
      /\ (<<>> \o Tail(wire[s][h])) \o sink[s][h] = Tail(Pipe(s, h))
  BY <1>1, <1>2, WireFirst, Zenon
<1>4. ~Past(h, "close", f) /\ s \in Pending(h, f) /\ m.num = sent[s][f][h] + 1
  BY <1>2, <1>3, <1>a, FirstMessage
<1>5. \A u, g \in Hosts : wire'[u][g] = IF g = h /\ u = s THEN Tail(wire[s][h]) ELSE wire[u][g]
  <2>1. wire \in PerPair(Seq(Message))
    BY <1>0, Zenon DEF TypeOK
  <2> QED BY <1>2, <2>1, Zenon DEF PerPair
<1>6. \A g \in Hosts : registered'[g] = IF g = h THEN registered[g] \cup {f} ELSE registered[g]
  <2>1. registered \in PerHost(SUBSET Exchanges)
    BY <1>0, Zenon DEF TypeOK
  <2> QED BY <1>2, <2>1, Zenon DEF PerHost
<1>7. ended' = ended
  BY <1>2, Zenon DEF ended, opVars
<1>11. ip' = ip /\ got' = got /\ eos' = eos /\ sent' = sent /\ source' = source
       /\ held' = held /\ sink' = sink
  BY <1>2, Zenon DEF opVars
<1>8. Popped(s, h, m)
  <2>1. Pipe(s, h)' = Tail(Pipe(s, h))
    BY <1>2, <1>3, <1>5, <1>11, Zenon DEF Pipe
  <2>2. ASSUME NEW u \in Hosts, NEW g \in Hosts, ~(u = s /\ g = h) PROVE Pipe(u, g)' = Pipe(u, g)
    BY <1>5, <1>11, <2>2, Zenon DEF Pipe
  <2> QED BY <1>3, <1>7, <1>11, <2>1, <2>2, Zenon DEF Popped
<1>9. PipeInv'
  BY <1>8, PopPipeInv, Zenon
<1>10. /\ Pending(h, f)' = Pending(h, f) \ {s}
       /\ \A g \in Hosts, e \in Exchanges : ~(g = h /\ e = f) => Pending(g, e)' = Pending(g, e)
  BY <1>2, <1>8, <1>a, PopPending
<1>12. \A g, o, e : Past(g, o, e)' <=> Past(g, o, e)
  BY <1>11, Zenon DEF Past
<1>13. SourceInv'
  <2> SUFFICES ASSUME NEW u \in Hosts, NEW g \in Hosts, NEW e \in Exchanges,
                      NEW i \in DOMAIN source[g][e], source[g][e][i].src = u
               PROVE  LET n == source[g][e][i] IN
                      /\ \A j \in 1 .. i - 1 : source[g][e][j].src = u => source[g][e][j].num < n.num
                      /\ got[g][e][u] < n.num /\ n.num <= sent[u][e][g]
                      /\ \A j \in DOMAIN Pipe(u, g)' : Pipe(u, g)'[j].ex = e => n.num < Pipe(u, g)'[j].num
    BY <1>11 DEF SourceInv
  <2>1. LET n == source[g][e][i] IN
        /\ \A j \in 1 .. i - 1 : source[g][e][j].src = u => source[g][e][j].num < n.num
        /\ got[g][e][u] < n.num /\ n.num <= sent[u][e][g]
        /\ \A j \in DOMAIN Pipe(u, g) : Pipe(u, g)[j].ex = e => n.num < Pipe(u, g)[j].num
    BY Zenon DEF IndInv, SourceInv
  <2>2. \A j \in DOMAIN Pipe(u, g)' : \E k \in DOMAIN Pipe(u, g) : Pipe(u, g)[k] = Pipe(u, g)'[j]
    BY <1>8, PopElements
  <2> QED BY <2>1, <2>2, SMTT(20)
<1>14. NoLoss'
  <2> SUFFICES ASSUME NEW u \in Hosts, NEW g \in Hosts, NEW e \in Exchanges
               PROVE  /\ got[g][e][u] <= sent[u][e][g]
                      /\ \A n \in 1 .. sent[u][e][g] : got[g][e][u] < n => InTransit(u, g, e, n)'
    BY <1>11, Zenon DEF NoLoss
  <2>1. /\ got[g][e][u] <= sent[u][e][g]
        /\ \A n \in 1 .. sent[u][e][g] : got[g][e][u] < n => InTransit(u, g, e, n)
    BY Zenon DEF IndInv, NoLoss
  <2>2. ASSUME NEW n \in Nat, n <= sent[u][e][g], InTransit(u, g, e, n)
        PROVE  InTransit(u, g, e, n)'
    <3>1. CASE \E i \in DOMAIN source[g][e] : source[g][e][i] = [src |-> u, num |-> n]
      BY <1>11, <3>1, Zenon DEF InTransit
    <3>2. ASSUME NEW k \in DOMAIN Pipe(u, g), Pipe(u, g)[k].ex = e, Pipe(u, g)[k].num = n
          PROVE  InTransit(u, g, e, n)'
      <4>1. ~(u = s /\ g = h /\ k = 1)
        <5>1. ASSUME u = s, g = h, k = 1 PROVE FALSE
          <6>1. n = sent[u][e][g] + 1
            BY <1>3, <1>4, <1>a, <3>2, <5>1, Zenon
          <6>2. sent[u][e][g] \in Nat
            BY <1>0, Lookup, Zenon
          <6> QED BY <2>2, <6>1, <6>2
        <5> QED BY <5>1, Zenon
      <4>2. \E j \in DOMAIN Pipe(u, g)' : Pipe(u, g)'[j] = Pipe(u, g)[k]
        BY <1>8, <4>1, PopElements
      <4> QED BY <3>2, <4>2, Zenon DEF InTransit
    <3> QED BY <2>2, <3>1, <3>2, Zenon DEF InTransit
  <2> QED BY <2>1, <2>2
<1>15. /\ Counting(h, f) /\ remaining[h][f] \in 1 .. N /\ ~closed[h][f]
       /\ Cardinality(Pending(h, f) \ {s}) = remaining[h][f] - 1
       /\ LastEnd(s, h, f)
  <2>1. AtHead(s, h, m, f)
    BY <1>3, <1>a, Zenon DEF AtHead
  <2>2. Counting(h, f) /\ remaining[h][f] \in 1 .. N /\ ~closed[h][f]
    BY <2>1, ReadRemaining, Zenon
  <2>3. Cardinality(Pending(h, f) \ {s}) = remaining[h][f] - 1
    BY <2>1, ReadRemaining, Zenon
  <2>4. LastEnd(s, h, f)
    BY <2>1, ReadRemaining, Zenon
  <2> QED BY <2>2, <2>3, <2>4, Zenon
<1>16. /\ remaining'[h][f] = remaining[h][f] - 1
       /\ closed'[h][f] <=> closed[h][f] \/ remaining[h][f] = 1
       /\ \A g \in Hosts, e \in Exchanges : ~(g = h /\ e = f) =>
            remaining'[g][e] = remaining[g][e] /\ closed'[g][e] = closed[g][e]
  <2>1. closed \in PerExchange(BOOLEAN) /\ remaining \in PerExchange(0 .. N)
    BY <1>0, Zenon DEF TypeOK
  <2> QED BY <1>2, <2>1, Zenon DEF PerExchange
<1>17. CountInv'
  <2> SUFFICES ASSUME NEW g \in Hosts, NEW e \in Exchanges
               PROVE  /\ Past(g, "close", e) => Erased(g, e)'
                      /\ ~Past(g, "close", e) => Counting(g, e)'
    BY <1>12, Zenon DEF CountInv
  <2>1. /\ Past(g, "close", e) => Erased(g, e)
        /\ ~Past(g, "close", e) => Counting(g, e)
    BY Zenon DEF IndInv, CountInv
  <2>2. CASE g = h /\ e = f
    <3>1. Counting(h, f)'
      <4>1. remaining'[h][f] = Cardinality(Pending(h, f)')
        BY <1>10, <1>15, <1>16, Zenon
      <4>2. closed'[h][f] <=> Pending(h, f)' = {}
        BY <1>10, <1>15, <1>16, Zenon DEF LastEnd
      <4>3. f \in registered'[h]
        BY <1>6, Zenon
      <4> QED BY <4>1, <4>2, <4>3, Zenon DEF Counting
    <3> QED BY <1>4, <2>2, <3>1, Zenon
  <2>3. CASE ~(g = h /\ e = f)
    <3>1. /\ remaining'[g][e] = remaining[g][e] /\ closed'[g][e] = closed[g][e]
          /\ Pending(g, e)' = Pending(g, e)
      BY <1>10, <1>16, <2>3, Zenon
    <3>2. e \in registered'[g] <=> e \in registered[g]
      BY <1>6, <2>3, Zenon
    <3>3. Erased(g, e) => Erased(g, e)'
      BY <1>11, <3>1, <3>2, Zenon DEF Erased
    <3>4. Counting(g, e) => Counting(g, e)'
      BY <1>12, <3>1, <3>2, Zenon DEF Counting
    <3> QED BY <2>1, <3>3, <3>4, Zenon
  <2> QED BY <2>2, <2>3, Zenon
<1>18. EosInv'
  <2> SUFFICES ASSUME NEW g \in Hosts, NEW e \in Exchanges
               PROVE  /\ e \in eos[g] <=> Past(g, "next", e)
                      /\ e \in eos[g] => Complete(g, e)'
    BY <1>11, <1>12, Zenon DEF EosInv
  <2>1. /\ e \in eos[g] <=> Past(g, "next", e)
        /\ e \in eos[g] => Complete(g, e)
    BY Zenon DEF IndInv, EosInv
  <2>2. ASSUME Complete(g, e) PROVE Complete(g, e)'
    <3>1. ~(g = h /\ e = f)
      BY <1>4, <2>2, Zenon DEF Complete
    <3> QED BY <1>10, <1>11, <2>2, <3>1, Zenon DEF Complete
  <2> QED BY <2>1, <2>2, Zenon
<1>19. HeldInv'
  BY <1>6, <1>11, Zenon DEF IndInv, HeldInv
<1> QED BY <1>9, <1>13, <1>14, <1>17, <1>18, <1>19, Zenon DEF IndInv

----------------------------------------------------------------------------
(* num_remaining_receivers_ stays between 0 and num_hosts: Close resets it *)
(* and a kEndStream finds it positive.                                     *)
LEMMA RemainingStep ==
    ASSUME IndInv, [Next]_vars
    PROVE  remaining' \in PerExchange(0 .. N)
<1>1. remaining \in PerExchange(0 .. N)
  BY Zenon DEF IndInv, TypeOK
<1>2. ASSUME NEW h \in Hosts, Close(h) PROVE remaining' \in PerExchange(0 .. N)
  <2>1. Ex(h) \in Exchanges /\ remaining' = [remaining EXCEPT ![h][Ex(h)] = N]
    BY <1>2, PlanCall, Zenon DEF Close
  <2>2. N \in 0 .. N
    BY NAssumption
  <2> QED BY <1>1, <2>1, <2>2, Zenon DEF PerExchange
<1>3. ASSUME NEW h \in Hosts, NEW s \in Hosts, ReadMessage(h, s) PROVE remaining' \in PerExchange(0 .. N)
  <2>1. held[h][s] = <<>> /\ wire[s][h] # <<>>
    BY <1>3, Zenon DEF ReadMessage
  <2>2. PICK m \in Message : m = Head(wire[s][h])
    BY <2>1, WireFirst, Zenon
  <2>3. PICK f \in Exchanges : f = m.ex
    BY Zenon DEF Message
  <2>4. Pipe(s, h) # <<>> /\ Pipe(s, h)[1] = m
    BY <2>1, <2>2, WireFirst, Zenon
  <2>5. AtHead(s, h, m, f)
    BY <2>3, <2>4, Zenon DEF AtHead
  <2>6. remaining[h][f] \in 1 .. N
    BY <2>5, ReadRemaining, Zenon
  <2>7. remaining[h][f] - 1 \in 0 .. N
    BY <2>6, NAssumption
  <2>8. remaining' = remaining \/ remaining' = [remaining EXCEPT ![h][f] = remaining[h][f] - 1]
    BY <1>3, <2>2, <2>3, Zenon DEF ReadMessage, CountEnd
  <2>9. CASE remaining' = [remaining EXCEPT ![h][f] = remaining[h][f] - 1]
    BY <1>1, <2>7, <2>9, Zenon DEF PerExchange
  <2> QED BY <1>1, <2>8, <2>9, Zenon
<1>4. ASSUME NEW h \in Hosts,
             Open(h) \/ StartConsumeUpstream(h) \/ ReceiveMessage(h) \/ ReceiveEndOfStream(h)
      PROVE  remaining' = remaining
  BY <1>4, Zenon DEF Open, StartConsumeUpstream, ReceiveMessage, ReceiveEndOfStream, recvVars
<1>5. ASSUME NEW h \in Hosts, CloseSinks(h) \/ CloseAcceptor(h) \/ Stop(h) PROVE remaining' = remaining
  BY <1>5, Zenon DEF CloseSinks, CloseAcceptor, Stop, recvVars
<1>6. ASSUME NEW h \in Hosts, NEW e \in Exchanges, ConsumeThread(h, e) PROVE remaining' = remaining
  BY <1>6, Zenon DEF ConsumeThread, SendPayload, SendEndStream, recvVars
<1>7. ASSUME NEW h \in Hosts, NEW r \in Hosts, SenderFiber(h, r) PROVE remaining' = remaining
  BY <1>7, Zenon DEF SenderFiber, Connect, SenderWrite, SenderReturn, recvVars
<1>8. ASSUME NEW h \in Hosts, NEW s \in Hosts, Accept(h, s) \/ PushPayload(h, s) \/ ReceiverReturn(h, s)
      PROVE  remaining' = remaining
  BY <1>8, Zenon DEF Accept, PushPayload, ReceiverReturn
<1>9. CASE UNCHANGED vars
  BY <1>1, <1>9, Zenon DEF vars, recvVars
<1> QED
  BY <1>1, <1>2, <1>3, <1>4, <1>5, <1>6, <1>7, <1>8, <1>9, Zenon
  DEF Next, MainFiber, ReceiverFiber, Terminated

(* Nothing is sent, registered or counted when a host starts. *)
LEMMA InitInv == Init => IndInv
<1> SUFFICES ASSUME Init PROVE IndInv
  BY Zenon
<1>1. TypeOK
  <2>1. Idle \in Thread /\ 1 \in Nat /\ N \in 0 .. N /\ 0 \in Nat
    BY HostsFinite, NAssumption DEF Idle, Thread
  <2>2. /\ ip \in PerHost(Nat) /\ registered \in PerHost(SUBSET Exchanges)
        /\ eos \in PerHost(SUBSET Exchanges)
        /\ phase \in PerHost({"down", "running", "sinksClosed", "acceptorClosed", "stopped"})
    BY Zenon DEF Init, PerHost
  <2>3. /\ sink \in PerPair(Seq(Message)) /\ wire \in PerPair(Seq(Message))
        /\ held \in PerPair(Seq(Message))
    BY DEF Init, PerPair
  <2>4. /\ conn \in PerPair({"connecting", "connected", "returned"})
        /\ receiver \in PerPair({"none", "reading", "returned"})
    BY Zenon DEF Init, PerPair
  <2>5. thread \in PerExchange(Thread) /\ remaining \in PerExchange(0 .. N) /\ closed \in PerExchange(BOOLEAN)
    BY <2>1, Zenon DEF Init, PerExchange
  <2>6. source \in PerExchange(Seq(Payload))
    BY DEF Init, PerExchange
  <2>7. sent \in PerExchange([Hosts -> Nat]) /\ got \in PerExchange([Hosts -> Nat])
    BY Zenon DEF Init, PerExchange
  <2> QED BY <2>2, <2>3, <2>4, <2>5, <2>6, <2>7, Zenon DEF TypeOK
<1>2. \A s, h \in Hosts : Pipe(s, h) = <<>>
  <2>1. \A s, h \in Hosts : held[h][s] = <<>> /\ wire[s][h] = <<>> /\ sink[s][h] = <<>>
    BY Zenon DEF Init
  <2>2. (<<>> \o <<>>) \o <<>> = <<>>
    OBVIOUS
  <2> QED BY <2>1, <2>2, Zenon DEF Pipe
<1>3. \A s, h \in Hosts : DOMAIN Pipe(s, h) = {}
  BY <1>2
<1>4. \A h \in Hosts, e \in Exchanges :
        /\ DOMAIN source[h][e] = {} /\ source[h][e] = <<>> /\ ~closed[h][e] /\ remaining[h][e] = N
        /\ \A s \in Hosts : got[h][e][s] = 0 /\ sent[h][e][s] = 0
  BY DEF Init
<1>5. \A h, o, e : h \in Hosts => ~Past(h, o, e)
  <2>1. \A h \in Hosts : ip[h] = 1
    BY Zenon DEF Init
  <2>2. \A i \in DOMAIN Plan : i \in Nat /\ i >= 1
    BY PlanAssumption
  <2> QED BY <2>1, <2>2 DEF Past
<1>6. PipeInv
  BY <1>3 DEF PipeInv
<1>7. SourceInv
  BY <1>4 DEF SourceInv
<1>8. NoLoss
  BY <1>4 DEF NoLoss
<1>9. \A h \in Hosts, e \in Exchanges : Pending(h, e) = Hosts
  <2>1. \A s \in Hosts, e \in Exchanges : ended[s][e] = {}
    BY Zenon DEF Init, ended, EndedBy, Idle
  <2> QED BY <2>1, Zenon DEF Pending
<1>10. CountInv
  <2>1. ASSUME NEW h \in Hosts, NEW e \in Exchanges PROVE Counting(h, e)
    <3>1. remaining[h][e] = Cardinality(Pending(h, e))
      BY <1>4, <1>9, HostsFinite, Zenon
    <3>2. Pending(h, e) # {}
      BY <1>9, HostsFinite, Zenon
    <3> QED BY <1>4, <1>5, <3>1, <3>2, Zenon DEF Counting
  <2> QED BY <1>5, <2>1, Zenon DEF CountInv
<1>11. EosInv
  <2>1. \A h \in Hosts : eos[h] = {}
    BY Zenon DEF Init
  <2> QED BY <1>5, <2>1, Zenon DEF EosInv
<1>12. HeldInv
  <2>1. \A h, s \in Hosts : held[h][s] = <<>>
    BY Zenon DEF Init
  <2> QED BY <2>1, Zenon DEF HeldInv
<1> QED BY <1>1, <1>6, <1>7, <1>8, <1>10, <1>11, <1>12, Zenon DEF IndInv

(* Every step preserves the invariant. *)
LEMMA NextInv ==
    ASSUME IndInv, [Next]_vars
    PROVE  IndInv'
<1>0. TypeOK'
  BY RemainingStep, TypeStep, Zenon DEF IndInv
<1> USE <1>0
<1>1. ASSUME NEW h \in Hosts, MainFiber(h) PROVE IndInv'
  <2>1. CASE Open(h)
    BY <2>1, OpenStep, Zenon
  <2>2. CASE StartConsumeUpstream(h)
    BY <2>2, StartConsumeUpstreamStep, Zenon
  <2>3. CASE ReceiveMessage(h)
    BY <2>3, ReceiveMessageStep, Zenon
  <2>4. CASE ReceiveEndOfStream(h)
    BY <2>4, ReceiveEndOfStreamStep, Zenon
  <2>5. CASE Close(h)
    BY <2>5, CloseStep, Zenon
  <2>6. CASE CloseSinks(h) \/ CloseAcceptor(h) \/ Stop(h)
    <3>1. UNCHANGED <<opVars, sendVars, recvVars>>
      BY <2>6, Zenon DEF CloseSinks, CloseAcceptor, Stop
    <3>2. ended' = ended /\ \A s, g \in Hosts : Pipe(s, g)' = Pipe(s, g)
      BY <3>1, SameView, Zenon DEF opVars, sendVars, recvVars
    <3> QED BY <3>1, <3>2, QuietStep, Zenon DEF opVars, sendVars, recvVars
  <2> QED BY <1>1, <2>1, <2>2, <2>3, <2>4, <2>5, <2>6, Zenon DEF MainFiber
<1>2. ASSUME NEW h \in Hosts, NEW e \in Exchanges, ConsumeThread(h, e) PROVE IndInv'
  BY <1>2, SendPayloadStep, SendEndStreamStep, Zenon DEF ConsumeThread
<1>3. ASSUME NEW h \in Hosts, NEW r \in Hosts, SenderFiber(h, r) PROVE IndInv'
  <2>1. CASE Connect(h, r) \/ SenderReturn(h, r)
    <3>1. UNCHANGED <<opVars, sent, sink, wire, recvVars>>
      BY <2>1, Zenon DEF Connect, SenderReturn
    <3>2. ended' = ended /\ \A s, g \in Hosts : Pipe(s, g)' = Pipe(s, g)
      BY <3>1, SameView, Zenon DEF opVars, recvVars
    <3> QED BY <3>1, <3>2, QuietStep, Zenon DEF opVars, recvVars
  <2>2. CASE SenderWrite(h, r)
    BY <2>2, SenderWriteStep, Zenon
  <2> QED BY <1>3, <2>1, <2>2, Zenon DEF SenderFiber
<1>4. ASSUME NEW h \in Hosts, NEW s \in Hosts, ReceiverFiber(h, s) PROVE IndInv'
  <2>1. CASE Accept(h, s) \/ ReceiverReturn(h, s)
    <3>1. UNCHANGED <<opVars, sendVars, held, registered, source, closed, remaining>>
      BY <2>1, Zenon DEF Accept, ReceiverReturn
    <3>2. ended' = ended /\ \A u, g \in Hosts : Pipe(u, g)' = Pipe(u, g)
      BY <3>1, SameView, Zenon DEF opVars, sendVars
    <3> QED BY <3>1, <3>2, QuietStep, Zenon DEF opVars, sendVars
  <2>2. CASE ReadMessage(h, s)
    <3>1. Head(wire[s][h]).op = "kEndStream" \/ Head(wire[s][h]).op = "kMessage"
      BY <2>2, Zenon DEF ReadMessage
    <3> QED BY <2>2, <3>1, ReadPayloadStep, ReadEndStreamStep, Zenon
  <2>3. CASE PushPayload(h, s)
    BY <2>3, PushPayloadStep, Zenon
  <2> QED BY <1>4, <2>1, <2>2, <2>3, Zenon DEF ReceiverFiber
<1>5. CASE UNCHANGED vars
  <2>1. ended' = ended /\ \A s, g \in Hosts : Pipe(s, g)' = Pipe(s, g)
    BY <1>5, SameView, Zenon DEF vars, opVars, sendVars, recvVars
  <2> QED BY <1>5, <2>1, QuietStep, Zenon DEF vars, opVars, sendVars, recvVars
<1> QED BY <1>1, <1>2, <1>3, <1>4, <1>5, Zenon DEF Next, Terminated

----------------------------------------------------------------------------
(* The inductive invariant holds in every reachable state. *)
THEOREM Invariance == Spec => []IndInv
<1>1. IndInv /\ [Next]_vars => IndInv'
  BY NextInv, Zenon
<1> QED BY <1>1, InitInv, PTL DEF Spec

(* Types, and that num_remaining_receivers_ never wraps below zero. *)
THEOREM TypeCorrect == Spec => []TypeOK
<1>1. IndInv => TypeOK
  BY Zenon DEF IndInv
<1> QED BY <1>1, Invariance, PTL

(* ReceiveMessage signals the end of an exchange only when every host has  *)
(* ended its stream and all its payloads have been received.               *)
THEOREM EndOfStreamIsComplete == Spec => []EndOfStreamComplete
<1>1. IndInv => EndOfStreamComplete
  <2> SUFFICES ASSUME IndInv, NEW h \in Hosts, NEW e \in eos[h], NEW s \in Hosts
               PROVE  h \in ended[s][e] /\ got[h][e][s] = sent[s][e][h]
    BY Zenon DEF EndOfStreamComplete
  <2>1. e \in Exchanges
    BY Lookup, Zenon DEF IndInv
  <2>2. Complete(h, e)
    BY <2>1, Zenon DEF IndInv, EosInv
  <2> QED BY <2>2, Zenon DEF Complete, Pending
<1> QED BY <1>1, Invariance, PTL

(* ReceiveMessage and the receiver fibers find their exchange registered. *)
THEOREM ExchangeIsFound == Spec => []ExchangeFound
<1>1. IndInv => ExchangeFound
  <2> SUFFICES ASSUME IndInv, NEW h \in Hosts
               PROVE  /\ Op(h) = "next" => Ex(h) \in registered[h]
                      /\ \A s \in Hosts : held[h][s] # <<>> => Head(held[h][s]).ex \in registered[h]
    BY Zenon DEF ExchangeFound
  <2>0. TypeOK
    BY Zenon DEF IndInv
  <2>1. ASSUME Op(h) = "next" PROVE Ex(h) \in registered[h]
    <3>1. Ex(h) \in Exchanges
      BY <2>1, PlanCall, Zenon
    <3>2. Past(h, "open", Ex(h)) /\ ~Past(h, "next", Ex(h))
      BY <2>0, <2>1, PastOrder, Zenon
    <3>3. ~Past(h, "close", Ex(h))
      BY <2>0, <3>2, PastOrder, Zenon
    <3>4. Counting(h, Ex(h))
      BY <3>1, <3>3, Zenon DEF IndInv, CountInv
    <3> QED BY <3>2, <3>4, Zenon DEF Counting
  <2>2. \A s \in Hosts : held[h][s] # <<>> => Head(held[h][s]).ex \in registered[h]
    BY Zenon DEF IndInv, HeldInv
  <2> QED BY <2>1, <2>2, Zenon
<1> QED BY <1>1, Invariance, PTL

(* An exchange that FinishExchange has erased is never registered again. *)
THEOREM FinishIsFinal == Spec => []FinishedStaysErased
<1>1. IndInv => FinishedStaysErased
  BY Zenon DEF IndInv, CountInv, Erased, FinishedStaysErased
<1> QED BY <1>1, Invariance, PTL

(* No receiver pushes a payload to a closed source. *)
THEOREM PayloadsAreAccepted == Spec => []NoPayloadRefused
<1>1. IndInv => NoPayloadRefused
  <2> SUFFICES ASSUME IndInv, NEW h \in Hosts, NEW s \in Hosts, held[h][s] # <<>>
               PROVE  ~closed[h][Head(held[h][s]).ex]
    BY Zenon DEF NoPayloadRefused
  <2>1. PICK m \in Message : m = Head(held[h][s])
    BY HeldFirst, Zenon
  <2>2. PICK f \in Exchanges : f = m.ex
    BY Zenon DEF Message
  <2>3. AtHead(s, h, m, f)
    BY <2>1, <2>2, HeldFirst, Zenon DEF AtHead
  <2>4. ~closed[h][f]
    BY <2>3, ReadRemaining, Zenon
  <2> QED BY <2>1, <2>2, <2>4, Zenon
<1> QED BY <1>1, Invariance, PTL

----------------------------------------------------------------------------
(* The next payload in a source is the next of its stream. *)
LEMMA NextPayload ==
    ASSUME IndInv, NEW h \in Hosts, NEW f \in Exchanges, source[h][f] # <<>>
    PROVE  LET x == Head(source[h][f]) IN
           x.src \in Hosts /\ x.num = got[h][f][x.src] + 1 /\ x.num <= sent[x.src][f][h]
<1>0. TypeOK
  BY Zenon DEF IndInv
<1> DEFINE q == source[h][f]
<1>1. /\ q \in Seq(Payload) /\ DOMAIN q = 1 .. Len(q) /\ Len(q) \in Nat
      /\ Head(q) = q[1] /\ 1 \in DOMAIN q
  BY <1>0, SourceType, SourceTail, Zenon
<1>2. PICK s \in Hosts : s = q[1].src
  BY <1>0, <1>1, SourceType, Zenon
<1>3. PICK n \in Nat : n = q[1].num
  BY <1>0, <1>1, SourceType, Zenon
<1>4. /\ got[h][f][s] < n /\ n <= sent[s][f][h]
      /\ \A j \in DOMAIN Pipe(s, h) : Pipe(s, h)[j].ex = f => n < Pipe(s, h)[j].num
  BY <1>1, <1>2, <1>3, Zenon DEF IndInv, SourceInv
<1>5. got[h][f][s] \in Nat /\ sent[s][f][h] \in Nat
  BY <1>0, Lookup, Zenon
<1>6. PICK k \in Nat : k = got[h][f][s] + 1
  BY <1>5
<1>7. ~(k < n)
  <2> SUFFICES ASSUME k < n PROVE FALSE
    BY Zenon
  <2>1. InTransit(s, h, f, k)
    BY <1>4, <1>5, <1>6, SMTT(20) DEF IndInv, NoLoss
  <2>2. ASSUME NEW i \in DOMAIN q, q[i] = [src |-> s, num |-> k] PROVE FALSE
    <3>1. i # 1
      BY <1>3, <2>2
    <3>2. 1 \in 1 .. i - 1
      <4> HIDE DEF q
      <4> QED BY <1>1, <3>1, SMTT(20)
    <3>3. \A j \in 1 .. i - 1 : q[j].src = s => q[j].num < k
      BY <2>2 DEF IndInv, SourceInv
    <3>4. n < k
      BY <1>2, <1>3, <3>2, <3>3, Zenon
    <3> QED BY <3>4
  <2>3. ASSUME NEW i \in DOMAIN Pipe(s, h), Pipe(s, h)[i].ex = f, Pipe(s, h)[i].num = k PROVE FALSE
    BY <1>4, <2>3
  <2> QED BY <2>1, <2>2, <2>3, Zenon DEF InTransit
<1>8. n = got[h][f][s] + 1
  BY <1>4, <1>5, <1>6, <1>7, SMTT(20)
<1> QED BY <1>1, <1>2, <1>3, <1>4, <1>8, Zenon

(* Every step of the service is a step of the exchange, or does not        *)
(* concern it.                                                             *)
LEMMA AbstractStep ==
    ASSUME IndInv, [Next]_vars
    PROVE  [Abstract!Next]_(Abstract!vars)
<1>0. TypeOK
  BY Zenon DEF IndInv
<1>1. ASSUME NEW h \in Hosts, NEW e \in Exchanges, ConsumeThread(h, e) PROVE Abstract!Next
  <2>1. CASE SendPayload(h, e)
    BY <2>1, PayloadSent, Zenon DEF Abstract!Next
  <2>2. CASE SendEndStream(h, e)
    BY <2>2, EndStreamPushed, Zenon DEF Abstract!Next
  <2> QED BY <1>1, <2>1, <2>2, Zenon DEF ConsumeThread
<1>2. ASSUME NEW h \in Hosts, ReceiveMessage(h) PROVE Abstract!Next
  <2>1. PICK f \in Exchanges : f = Ex(h)
    BY <1>2, PlanCall, Zenon DEF ReceiveMessage
  <2>2. Op(h) = "next" /\ source[h][f] # <<>>
    BY <1>2, <2>1, Zenon DEF ReceiveMessage
  <2>3. PICK s \in Hosts : s = Head(source[h][f]).src
    BY <2>2, NextPayload, Zenon
  <2>4. Head(source[h][f]).num = got[h][f][s] + 1 /\ Head(source[h][f]).num <= sent[s][f][h]
    BY <2>2, <2>3, NextPayload, Zenon
  <2>5. got' = [got EXCEPT ![h][f][s] = got[h][f][s] + 1]
    BY <1>2, <2>1, <2>3, <2>4, Zenon DEF ReceiveMessage
  <2>6. f \notin eos[h]
    <3>1. ~Past(h, "next", f)
      BY <1>0, <2>1, <2>2, PastOrder, Zenon
    <3> QED BY <3>1, Zenon DEF IndInv, EosInv
  <2>7. sent' = sent /\ ended' = ended /\ eos' = eos
    BY <1>2, Zenon DEF ReceiveMessage, sendVars, ended
  <2>8. got[h][f][s] < sent[s][f][h]
    <3>1. got[h][f][s] \in Nat /\ sent[s][f][h] \in Nat
      BY <1>0, Lookup, Zenon
    <3> QED BY <2>4, <3>1
  <2>9. Abstract!Receive(h, f, s)
    BY <2>5, <2>6, <2>7, <2>8, Zenon DEF Abstract!Receive
  <2> QED BY <2>9, Zenon DEF Abstract!Next
<1>3. ASSUME NEW h \in Hosts, ReceiveEndOfStream(h) PROVE Abstract!Next
  <2>1. PICK f \in Exchanges : f = Ex(h)
    BY <1>3, PlanCall, Zenon DEF ReceiveEndOfStream
  <2>2. Op(h) = "next" /\ source[h][f] = <<>> /\ closed[h][f]
    BY <1>3, <2>1, Zenon DEF ReceiveEndOfStream
  <2>3. ~Past(h, "next", f)
    BY <1>0, <2>1, <2>2, PastOrder, Zenon
  <2>4. f \notin eos[h]
    BY <2>3, Zenon DEF IndInv, EosInv
  <2>5. Pending(h, f) = {}
    <3>1. ~Past(h, "close", f)
      BY <1>0, <2>3, PastOrder, Zenon
    <3>2. Counting(h, f)
      BY <3>1, Zenon DEF IndInv, CountInv
    <3> QED BY <2>2, <3>2, Zenon DEF Counting
  <2>6. \A s \in Hosts : h \in ended[s][f] /\ got[h][f][s] = sent[s][f][h]
    BY <2>2, <2>5, Drained, Zenon DEF Pending
  <2>7. /\ eos' = [eos EXCEPT ![h] = eos[h] \cup {f}]
        /\ sent' = sent /\ ended' = ended /\ got' = got
    BY <1>3, <2>1, Zenon DEF ReceiveEndOfStream, sendVars, ended
  <2>8. Abstract!SignalEndOfStream(h, f)
    BY <2>4, <2>6, <2>7, Zenon DEF Abstract!SignalEndOfStream
  <2> QED BY <2>8, Zenon DEF Abstract!Next
<1>4. ASSUME NEW h \in Hosts, Open(h) \/ Close(h) PROVE UNCHANGED Abstract!vars
  BY <1>4, Zenon DEF Open, Close, sendVars, ended, Abstract!vars
<1>5. ASSUME NEW h \in Hosts, StartConsumeUpstream(h) PROVE UNCHANGED Abstract!vars
  <2>1. ended' = ended
    BY <1>5, StartKeepsEnded, Zenon
  <2> QED BY <1>5, <2>1, Zenon DEF StartConsumeUpstream, sendVars, Abstract!vars
<1>6. ASSUME NEW h \in Hosts, CloseSinks(h) \/ CloseAcceptor(h) \/ Stop(h) PROVE UNCHANGED Abstract!vars
  BY <1>6, Zenon DEF CloseSinks, CloseAcceptor, Stop, opVars, sendVars, ended, Abstract!vars
<1>7. ASSUME NEW h \in Hosts, NEW r \in Hosts, SenderFiber(h, r) PROVE UNCHANGED Abstract!vars
  BY <1>7, Zenon DEF SenderFiber, Connect, SenderWrite, SenderReturn, opVars, ended, Abstract!vars
<1>8. ASSUME NEW h \in Hosts, NEW s \in Hosts, ReceiverFiber(h, s) PROVE UNCHANGED Abstract!vars
  BY <1>8, Zenon DEF ReceiverFiber, Accept, ReadMessage, PushPayload, ReceiverReturn, opVars, sendVars,
              ended, Abstract!vars
<1>9. CASE UNCHANGED vars
  BY <1>9, Zenon DEF vars, opVars, sendVars, ended, Abstract!vars
<1> QED
  BY <1>1, <1>2, <1>3, <1>4, <1>5, <1>6, <1>7, <1>8, <1>9, Zenon DEF Next, MainFiber, Terminated

(* The service implements AbstractExchange: per stream, payloads arrive in *)
(* order, without loss or duplication, and the end of an exchange is       *)
(* signalled once, after all of them.                                      *)
THEOREM Refinement == Spec => ImplementsExchange
<1>1. Init => Abstract!Init
  <2> SUFFICES ASSUME Init PROVE Abstract!Init
    BY Zenon
  <2>1. ended = [h \in Hosts |-> [e \in Exchanges |-> {}]]
    BY Zenon DEF Init, ended, EndedBy, Idle
  <2> QED BY <2>1, Zenon DEF Init, Abstract!Init
<1>2. IndInv /\ [Next]_vars => [Abstract!Next]_(Abstract!vars)
  BY AbstractStep, Zenon
<1> QED BY <1>1, <1>2, Invariance, PTL DEF Spec, ImplementsExchange, Abstract!Spec

----------------------------------------------------------------------------
(* The destructor leaves nothing behind, whatever the plan is, as long as  *)
(* every exchange that is opened is drained and closed: the acceptor is    *)
(* closed after every host has connected, and the service stops when every *)
(* host has closed its connection and all that came over it has been read. *)
THEOREM DestructorCompletes == PlanCompletes /\ Spec => []ShutdownComplete
<1>1. PlanCompletes => PlanCompletes'
  BY Zenon DEF PlanCompletes, Planned
<1>2. IndInv /\ Shutdown /\ PlanCompletes /\ [Next]_vars => Shutdown'
  BY LifeCycleStep, UnacceptedStep, JoinedStep, Zenon DEF IndInv, Shutdown
<1>3. IndInv /\ Shutdown /\ PlanCompletes => ShutdownComplete
  <2> SUFFICES ASSUME IndInv, Shutdown, PlanCompletes, NEW h \in Hosts, NEW s \in Hosts
               PROVE  /\ phase[h] \in {"acceptorClosed", "stopped"} => receiver[h][s] # "none"
                      /\ phase[h] = "stopped" =>
                          /\ conn[s][h] = "returned"
                          /\ sink[h][s] = <<>> /\ wire[s][h] = <<>> /\ held[h][s] = <<>>
    BY Zenon DEF ShutdownComplete
  <2>1. ASSUME phase[h] \in {"acceptorClosed", "stopped"} PROVE receiver[h][s] # "none"
    <3>1. /\ \A i \in DOMAIN Plan : i < ip[h]
          /\ \E e \in Exchanges : Past(h, "open", e)
      BY <2>1, Zenon DEF Shutdown, LifeCycle, Closing
    <3>2. PICK e \in Exchanges : Past(h, "open", e)
      BY <3>1, Zenon
    <3>3. Planned("next", e)
      BY <3>2, Zenon DEF PlanCompletes, Planned, Past
    <3>4. Past(h, "next", e)
      BY <3>1, <3>3, Zenon DEF Planned, Past
    <3>5. Pending(h, e) = {}
      BY <3>4, Quiescent, Zenon
    <3> QED BY <3>5, Zenon DEF Shutdown, Unaccepted
  <2>2. ASSUME phase[h] = "stopped"
        PROVE  /\ conn[s][h] = "returned"
               /\ sink[h][s] = <<>> /\ wire[s][h] = <<>> /\ held[h][s] = <<>>
    <3>1. receiver[h][s] = "returned"
      <4>1. receiver[h][s] # "none"
        BY <2>1, <2>2, Zenon
      <4>2. receiver[h][s] # "reading"
        BY <2>2, Zenon DEF Shutdown, Joined
      <4>3. receiver[h][s] \in {"none", "reading", "returned"}
        BY Zenon DEF IndInv, TypeOK, PerPair
      <4> QED BY <4>1, <4>2, <4>3, Zenon
    <3>2. conn[s][h] = "returned" /\ wire[s][h] = <<>> /\ held[h][s] = <<>>
      BY <3>1, Zenon DEF Shutdown, Joined
    <3>3. sink[h][s] = <<>>
      BY <2>2, Zenon DEF Shutdown, Joined
    <3> QED BY <3>2, <3>3, Zenon
  <2> QED BY <2>1, <2>2, Zenon
<1> QED BY <1>1, <1>2, <1>3, ShutdownInit, Invariance, PTL DEF Spec
=============================================================================
