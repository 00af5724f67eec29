------------------------- MODULE ParquetScanProofs -------------------------
(***************************************************************************)
(* Theorems about the Parquet scan, for any files, slices and ranges.      *)
(***************************************************************************)
EXTENDS ParquetScan, SequenceTheorems, TLAPS

(* Division rounds down. *)
LEMMA DivRounds ==
    ASSUME NEW a \in Nat, NEW s \in Nat \ {0}
    PROVE  /\ a \div s \in Nat
           /\ s * (a \div s) <= a
           /\ a < s * (a \div s) + s
BY Z3

(* A quotient is below a bound if the dividend is below its multiple... *)
LEMMA DivBelow ==
    ASSUME NEW a \in Nat, NEW s \in Nat \ {0}, NEW q \in Nat
    PROVE  (a \div s <= q) <=> a < s * (q + 1)
<1> DEFINE d == a \div s
<1>1. d \in Nat /\ s * d <= a /\ a < s * d + s
  BY DivRounds, Zenon
<1> HIDE DEF d
<1>2. ASSUME d <= q PROVE a < s * (q + 1)
  <2>1. s * d <= s * q
    BY <1>1, <1>2, Z3
  <2>2. s * (q + 1) = s * q + s
    BY Z3
  <2> QED BY <1>1, <2>1, <2>2, Z3
<1>3. ASSUME ~(d <= q) PROVE ~(a < s * (q + 1))
  <2>1. q + 1 <= d
    BY <1>1, <1>3
  <2>2. s * (q + 1) <= s * d
    BY <1>1, <2>1, Z3
  <2> QED BY <1>1, <2>2, Z3
<1> QED BY <1>2, <1>3, Zenon DEF d

(* ... hence it is determined by the multiples around the dividend. *)
LEMMA DivUnique ==
    ASSUME NEW a \in Nat, NEW s \in Nat \ {0}, NEW q \in Nat
    PROVE  (s * q <= a /\ a < s * (q + 1)) <=> q = a \div s
<1> DEFINE d == a \div s
<1>1. d \in Nat /\ s * d <= a /\ a < s * d + s
  BY DivRounds, Zenon
<1>2. (d <= q) <=> a < s * (q + 1)
  BY DivBelow, Zenon
<1> HIDE DEF d
<1>3. ASSUME s * q <= a, a < s * (q + 1) PROVE q = d
  <2>1. ASSUME d < q PROVE FALSE
    <3>1. d + 1 <= q
      BY <1>1, <2>1
    <3>2. s * (d + 1) <= s * q
      BY <1>1, <3>1, Z3
    <3>3. s * (d + 1) = s * d + s
      BY <1>1, Z3
    <3> QED BY <1>1, <1>3, <3>2, <3>3, Z3
  <2> QED BY <1>1, <1>2, <1>3, <2>1
<1>4. ASSUME q = d PROVE s * q <= a /\ a < s * (q + 1)
  BY <1>1, <1>2, <1>4
<1> QED BY <1>3, <1>4, Zenon DEF d

(* The slice of an item: the one in whose multiple of n the item ends. *)
Owner(g, n, s) == (s * (g + 1) - 1) \div n
LEMMA SliceOwner ==
    ASSUME NEW n \in Nat, NEW s \in Nat \ {0}, NEW g \in 0 .. n - 1
    PROVE  /\ Owner(g, n, s) \in 0 .. s - 1
           /\ \A l \in 0 .. s - 1 : g \in Slice(l, l + 1, n, s) <=> l = Owner(g, n, s)
<1>1. n \in Nat \ {0} /\ g \in Nat /\ g + 1 <= n
  OBVIOUS
<1> DEFINE c == s * (g + 1)
<1>2. c \in Nat /\ c - 1 \in Nat
  BY <1>1, Z3
<1>3. c <= s * n
  BY <1>1, Z3
<1>4. Owner(g, n, s) = (c - 1) \div n
  BY Zenon DEF Owner
<1> HIDE DEF c
<1>5. Owner(g, n, s) \in Nat
  BY <1>1, <1>2, <1>4, DivRounds, Zenon
<1>6. Owner(g, n, s) <= s - 1
  <2>1. s - 1 \in Nat /\ n * ((s - 1) + 1) = s * n
    BY Z3
  <2>2. c - 1 < n * ((s - 1) + 1)
    BY <1>2, <1>3, <2>1
  <2>3. (c - 1) \div n <= s - 1
    BY <1>1, <1>2, <2>1, <2>2, DivBelow, Zenon
  <2> QED BY <1>4, <2>3, Zenon
<1>7. ASSUME NEW l \in 0 .. s - 1
      PROVE  g \in Slice(l, l + 1, n, s) <=> l = Owner(g, n, s)
  <2>1. l \in Nat /\ l + 1 \in Nat /\ l * n \in Nat /\ (l + 1) * n \in Nat
    BY Z3
  <2>2. SliceStart(l, n, s) <= g <=> l * n < c
    BY <1>1, <2>1, DivBelow, Zenon DEF SliceStart, c
  <2>3. SliceStart(l + 1, n, s) <= g <=> (l + 1) * n < c
    BY <1>1, <2>1, DivBelow, Zenon DEF SliceStart, c
  <2>4. SliceStart(l + 1, n, s) \in Nat
    BY <2>1, DivRounds, Zenon DEF SliceStart
  <2>5. g \in Slice(l, l + 1, n, s) <=> SliceStart(l, n, s) <= g /\ g < SliceStart(l + 1, n, s)
    BY Zenon DEF Slice
  <2>6. l * n = n * l /\ (l + 1) * n = n * (l + 1)
    BY Z3
  <2>7. g \in Slice(l, l + 1, n, s) <=> n * l <= c - 1 /\ c - 1 < n * (l + 1)
    BY <1>1, <1>2, <2>1, <2>2, <2>3, <2>4, <2>5, <2>6
  <2>8. (n * l <= c - 1 /\ c - 1 < n * (l + 1)) <=> l = (c - 1) \div n
    BY <1>1, <1>2, <2>1, DivUnique, Zenon
  <2> QED BY <1>4, <2>7, <2>8, Zenon
<1> QED BY <1>5, <1>6, <1>7

(* The workers share the row groups of a file: ParquetRowGroupOperator     *)
(* gives each row group to exactly one slice, for any number of row groups *)
(* and slices.                                                             *)
THEOREM RowGroupsArePartitioned == Spec => []SlicesPartition
<1>1. ASSUME files \in Inputs PROVE SlicesPartition
  <2> SUFFICES ASSUME NEW n \in DOMAIN files, NEW g \in 0 .. Len(files[n].groups) - 1
               PROVE  \E k \in 0 .. files[n].slices - 1 : \A l \in 0 .. files[n].slices - 1 :
                          g \in Slice(l, l + 1, Len(files[n].groups), files[n].slices) <=> l = k
    BY Zenon DEF SlicesPartition
  <2>1. IsFile(files[n])
    BY <1>1, InputsAssumption, Zenon
  <2>2. files[n].slices \in Nat \ {0} /\ Len(files[n].groups) \in Nat
    BY <2>1 DEF IsFile
  <2> DEFINE len == Len(files[n].groups)
             s   == files[n].slices
  <2>3. s \in Nat \ {0} /\ len \in Nat /\ g \in 0 .. len - 1
    BY <2>2, Zenon
  <2> HIDE DEF len, s
  <2>4. /\ Owner(g, len, s) \in 0 .. s - 1
        /\ \A l \in 0 .. s - 1 : g \in Slice(l, l + 1, len, s) <=> l = Owner(g, len, s)
    BY <2>3, SliceOwner, Zenon
  <2>5. \E k \in 0 .. s - 1 : \A l \in 0 .. s - 1 : g \in Slice(l, l + 1, len, s) <=> l = k
    BY <2>4, Zenon
  <2> QED BY <2>5, Zenon DEF len, s
<1>2. Init => files \in Inputs
  BY Zenon DEF Init
<1>3. files \in Inputs /\ [Next]_vars => (files \in Inputs)'
  BY Zenon DEF Next, UpstreamFetcher, UpstreamFile, UpstreamCompleted, NotifyCompleted,
         MetadataFetcher, TakeInfo, WaitForInfo, PushHandle, FinishPrefetching, SpuriousWakeup,
         Main, WaitForFileHandles, AreAllFilesProcessed, PopHandle, StartFill, NextFile,
         AddPending, TakePending, SignalEnd, ReturnBatch, Close, vars
<1> QED BY <1>1, <1>2, <1>3, PTL DEF Spec

(* What the main thread knows between its critical sections: the handle it *)
(* has seen is still there, since no other thread takes handles, and       *)
(* has_prefetching_completed_ is never reset.                              *)
HandleInv ==
    /\ fed \in Nat
    /\ infos \in Seq(Nat) /\ opened \in Seq(Nat) /\ handles \in Seq(Nat)
    /\ main = "check" => handles # <<>> \/ prefetched
    /\ HandleAvailable

(* Each thread preserves what the main thread knows. *)
LEMMA HandleStep == HandleInv /\ [Next]_vars => HandleInv'
<1> SUFFICES ASSUME HandleInv, [Next]_vars PROVE HandleInv'
  BY Zenon
<1> USE DEF HandleInv, HandleAvailable, fileVars, scanVars
<1>1. CASE UpstreamFile
  BY <1>1 DEF UpstreamFile
<1>2. CASE UpstreamCompleted
  BY <1>2, Zenon DEF UpstreamCompleted
<1>3. CASE NotifyCompleted
  BY <1>3, Zenon DEF NotifyCompleted
<1>4. CASE TakeInfo
  <2>1. infos # <<>> => <<Head(infos)>> \in Seq(Nat) /\ Tail(infos) \in Seq(Nat)
    <3>1. infos # <<>> => Head(infos) \in Nat /\ Tail(infos) \in Seq(Nat)
      OBVIOUS
    <3>2. \A i \in Nat : <<i>> \in Seq(Nat)
      OBVIOUS
    <3> QED BY <3>1, <3>2, Zenon
  <2>2. infos' \in Seq(Nat) /\ opened' \in Seq(Nat)
    BY <1>4, <2>1, Zenon DEF TakeInfo
  <2> QED BY <1>4, <2>2, Zenon DEF TakeInfo
<1>5. CASE WaitForInfo \/ SpuriousWakeup
  BY <1>5, Zenon DEF WaitForInfo, SpuriousWakeup
<1>6. CASE PushHandle
  <2>1. handles \o opened \in Seq(Nat)
    OBVIOUS
  <2>2. handles # <<>> => handles \o opened # <<>>
    OBVIOUS
  <2> QED BY <1>6, <2>1, <2>2 DEF PushHandle
<1>7. CASE FinishPrefetching
  BY <1>7, Zenon DEF FinishPrefetching
<1>8. CASE WaitForFileHandles
  BY <1>8, Zenon DEF WaitForFileHandles
<1>9. CASE AreAllFilesProcessed
  BY <1>9, Zenon DEF AreAllFilesProcessed
<1>10. CASE PopHandle
  BY <1>10 DEF PopHandle
<1>11. CASE StartFill \/ NextFile \/ SignalEnd \/ Close
  BY <1>11, Zenon DEF StartFill, NextFile, SignalEnd, Close
<1>12. CASE AddPending
  BY <1>12, Zenon DEF AddPending
<1>13. CASE TakePending \/ ReturnBatch
  BY <1>13, Zenon DEF TakePending, ReturnBatch
<1>14. CASE UNCHANGED vars
  BY <1>14, Zenon DEF vars
<1> QED BY Zenon, <1>1, <1>2, <1>3, <1>4, <1>5, <1>6, <1>7, <1>8, <1>9, <1>10, <1>11, <1>12, <1>13,
           <1>14 DEF Next, UpstreamFetcher, MetadataFetcher, Main

(* The assertion of ParquetFileOperator::next() holds in every             *)
(* interleaving of the three threads and for any number of files.          *)
THEOREM HandleIsAvailable == Spec => []HandleAvailable
<1>1. Init => HandleInv
  BY DEF Init, HandleInv, HandleAvailable
<1>2. HandleInv => HandleAvailable
  BY Zenon DEF HandleInv
<1> QED BY <1>1, <1>2, HandleStep, PTL DEF Spec

----------------------------------------------------------------------------
(* The files taken from the queues.  Files are numbered in the order of    *)
(* upstream, and the queues hold consecutive numbers.                      *)
Popped == fed - Len(infos) - Len(opened) - Len(handles)

(* What the fetchers maintain: each file is in one of the queues until it  *)
(* is popped, and prefetching has completed only when no file is left in   *)
(* front of the queue of handles.                                          *)
Queues ==
    /\ files \in Inputs
    /\ upstream \in {"fetch", "notify", "done"}
    /\ fed \in 0 .. Len(files)
    /\ completed \in BOOLEAN
    /\ fetcher \in {"ready", "blocking", "waiting", "opening", "finishing", "done"}
    /\ infos \in Seq(Nat) /\ opened \in Seq(Nat) /\ handles \in Seq(Nat)
    /\ prefetched \in BOOLEAN
    /\ Popped >= 0
    /\ \A i \in 1 .. Len(handles) : handles[i] = Popped + i
    /\ \A i \in 1 .. Len(opened) : opened[i] = Popped + Len(handles) + i
    /\ \A i \in 1 .. Len(infos) : infos[i] = Popped + Len(handles) + Len(opened) + i
    /\ fetcher # "opening" => opened = <<>>
    /\ completed => fed = Len(files) /\ upstream # "fetch"
    /\ fetcher \in {"finishing", "done"} => completed /\ infos = <<>>
    /\ prefetched => fetcher = "done"

(* The row groups to be scanned and their rows. *)
AllGroups == UNION {InterestingRowGroups(n) : n \in DOMAIN files}
AllRows   == UNION {{Rows(x)[i] : i \in DOMAIN Rows(x)} : x \in AllGroups}

(* Row group, or the row group of row, x precedes y in the files. *)
GroupBefore(x, y) == x[1] < y[1] \/ (x[1] = y[1] /\ x[2] < y[2])

(* The rows read: returned, or in the current row group. *)
Read == out \o current

(* The types of the main thread's state: it has seen the files popped. *)
ScanTypes ==
    /\ main \in {"next", "fill", "wait", "check", "pop", "take", "end", "closed"}
    /\ groups \subseteq AllGroups
    /\ pending \in Seq(AllGroups)
    /\ current \in Seq(AllRows)
    /\ out \in Seq(AllRows)
    /\ \A x \in groups : x[1] = Popped
    /\ \A k \in DOMAIN pending : pending[k][1] <= Popped
    /\ \A i \in DOMAIN Read : Read[i][1] <= Popped

(* The rows read, the pending row groups and those that are left of the    *)
(* current file follow each other in the order of the files.               *)
Ascending ==
    /\ \A i, j \in DOMAIN Read : i < j => Before(Read[i], Read[j])
    /\ \A i \in DOMAIN Read, k \in DOMAIN pending : GroupBefore(Read[i], pending[k])
    /\ \A i \in DOMAIN Read, x \in groups : GroupBefore(Read[i], x)
    /\ \A k, l \in DOMAIN pending : k < l => GroupBefore(pending[k], pending[l])
    /\ \A k \in DOMAIN pending, x \in groups : GroupBefore(pending[k], x)

(* They hold all the rows of the files popped. *)
NoneLost ==
    \A x \in AllGroups : x[1] <= Popped => \A i \in DOMAIN Rows(x) :
        \/ \E k \in DOMAIN Read : Read[k] = Rows(x)[i]
        \/ \E k \in DOMAIN pending : pending[k] = x
        \/ x \in groups

(* What is empty at each stage of next(). *)
Stages ==
    /\ Len(pending) <= MaxPending
    /\ main # "take" => Len(pending) < MaxPending
    /\ main # "next" => current = <<>>
    /\ main \in {"wait", "check", "pop"} => groups = {}
    /\ main = "take" /\ pending = <<>> => groups = {} /\ Popped = Len(files)
    /\ main \in {"end", "closed"} => groups = {} /\ pending = <<>> /\ Popped = Len(files)

Scan == ScanTypes /\ Ascending /\ NoneLost /\ Stages

(* The queues as a sequence of consecutive numbers. *)
LEMMA ConsecutiveTail ==
    ASSUME NEW s \in Seq(Nat), s # <<>>, NEW n \in Nat,
           \A i \in 1 .. Len(s) : s[i] = n + i
    PROVE  /\ Head(s) = n + 1 /\ Tail(s) \in Seq(Nat) /\ Len(Tail(s)) = Len(s) - 1
           /\ \A i \in 1 .. Len(Tail(s)) : Tail(s)[i] = (n + 1) + i
<1>1. Len(s) \in Nat \ {0} /\ Head(s) = s[1] /\ Tail(s) \in Seq(Nat)
      /\ Len(Tail(s)) = Len(s) - 1 /\ \A i \in 1 .. Len(s) - 1 : Tail(s)[i] = s[i + 1]
  BY HeadTailProperties
<1>2. Head(s) = n + 1
  BY <1>1
<1>3. ASSUME NEW i \in 1 .. Len(s) - 1 PROVE Tail(s)[i] = (n + 1) + i
  <2>1. Tail(s)[i] = s[i + 1] /\ i + 1 \in 1 .. Len(s)
    BY <1>1
  <2>2. s[i + 1] = n + (i + 1)
    BY <2>1, Zenon
  <2> QED BY <2>1, <2>2
<1> QED BY <1>1, <1>2, <1>3, Zenon

LEMMA ConsecutiveAppend ==
    ASSUME NEW s \in Seq(Nat), NEW n \in Nat, \A i \in 1 .. Len(s) : s[i] = n + i,
           NEW m \in Nat, m = n + Len(s) + 1
    PROVE  /\ Append(s, m) \in Seq(Nat) /\ Len(Append(s, m)) = Len(s) + 1
           /\ \A i \in 1 .. Len(Append(s, m)) : Append(s, m)[i] = n + i
BY AppendProperties

(* Upstream returns a file: it is the last of file_infos_. *)
LEMMA UpstreamFileQueues == Queues /\ UpstreamFile => Queues' /\ Popped' = Popped
<1> SUFFICES ASSUME Queues, UpstreamFile PROVE Queues' /\ Popped' = Popped
  BY Zenon
<1> DEFINE n == Popped + Len(handles) + Len(opened)
<1>1. Len(infos) \in Nat /\ Len(handles) \in Nat /\ Len(opened) \in Nat /\ fed \in Nat
  BY DEF Queues
<1>2. n \in Nat /\ fed + 1 = n + Len(infos) + 1 /\ fed + 1 \in Nat
  BY <1>1 DEF Queues, Popped
<1>3. \A i \in 1 .. Len(infos) : infos[i] = n + i
  BY Zenon DEF Queues
<1>4. infos \in Seq(Nat)
  BY Zenon DEF Queues
<1> HIDE DEF n
<1>5. /\ infos' \in Seq(Nat) /\ Len(infos') = Len(infos) + 1
      /\ \A i \in 1 .. Len(infos') : infos'[i] = n + i
  BY <1>2, <1>3, <1>4, ConsecutiveAppend DEF UpstreamFile
<1>6. UNCHANGED <<files, upstream, completed, opened, handles, prefetched>>
      /\ fed' = fed + 1 /\ fed < Len(files) /\ upstream = "fetch" /\ fetcher' = Notified
  BY Zenon DEF UpstreamFile
<1>7. Popped' = Popped
  BY <1>1, <1>5, <1>6 DEF Popped
<1>8. \A i \in 1 .. Len(infos') : infos'[i] = Popped' + Len(handles') + Len(opened') + i
  BY <1>5, <1>6, <1>7, Zenon DEF n
<1>9. fed' \in 0 .. Len(files')
  BY <1>6, InputsAssumption DEF Queues
<1>10. ~completed /\ fetcher \notin {"finishing", "done"}
  BY <1>6, Zenon DEF Queues
<1> HIDE DEF Popped
<1> QED BY <1>5, <1>6, <1>7, <1>8, <1>9, <1>10, Zenon DEF Queues, Notified

(* The metadata fetcher takes the first name. *)
LEMMA TakeInfoQueues == Queues /\ TakeInfo => Queues' /\ Popped' = Popped
<1> SUFFICES ASSUME Queues, TakeInfo PROVE Queues' /\ Popped' = Popped
  BY Zenon
<1>1. Len(infos) \in Nat /\ Len(handles) \in Nat /\ opened = <<>> /\ Len(opened) = 0
      /\ fed \in Nat /\ infos \in Seq(Nat)
  BY DEF Queues, TakeInfo
<1>2. UNCHANGED <<files, upstream, fed, completed, handles, prefetched>> /\ fetcher = "ready"
  BY Zenon DEF TakeInfo
<1>3. ASSUME infos # <<>>, opened' = <<Head(infos)>>, infos' = Tail(infos), fetcher' = "opening"
      PROVE  Queues' /\ Popped' = Popped
  <2> DEFINE n == Popped + Len(handles)
  <2>1. n \in Nat /\ \A i \in 1 .. Len(infos) : infos[i] = n + i
    BY <1>1 DEF Queues, Popped
  <2> HIDE DEF n
  <2>2. /\ Head(infos) = n + 1 /\ infos' \in Seq(Nat) /\ Len(infos') = Len(infos) - 1
        /\ \A i \in 1 .. Len(infos') : infos'[i] = (n + 1) + i
    BY <1>1, <1>3, <2>1, ConsecutiveTail
  <2>3. opened' = <<n + 1>> /\ Len(opened') = 1 /\ opened' \in Seq(Nat) /\ opened'[1] = n + 1
    BY <1>3, <2>1, <2>2
  <2>4. Popped' = Popped
    BY <1>1, <1>2, <2>2, <2>3 DEF Popped
  <2>5. \A i \in 1 .. Len(opened') : opened'[i] = Popped' + Len(handles') + i
    BY <1>2, <2>3, <2>4 DEF n
  <2>6. \A i \in 1 .. Len(infos') : infos'[i] = Popped' + Len(handles') + Len(opened') + i
    BY <1>2, <2>2, <2>3, <2>4, Zenon DEF n
  <2> HIDE DEF Popped
  <2> QED BY <1>2, <1>3, <2>2, <2>3, <2>4, <2>5, <2>6, Zenon DEF Queues
<1>4. ASSUME infos = <<>>, UNCHANGED <<infos, opened>>,
             (fetcher' = "finishing" /\ completed) \/ fetcher' = "blocking"
      PROVE  Queues' /\ Popped' = Popped
  <2>1. Popped' = Popped
    BY <1>2, <1>4, Zenon DEF Popped
  <2> HIDE DEF Popped
  <2> QED BY <1>1, <1>2, <1>4, <2>1, Zenon DEF Queues
<1> QED BY <1>3, <1>4, Zenon DEF TakeInfo

(* The file that was opened becomes the last handle. *)
LEMMA PushHandleQueues == Queues /\ PushHandle => Queues' /\ Popped' = Popped
<1> SUFFICES ASSUME Queues, PushHandle PROVE Queues' /\ Popped' = Popped
  BY Zenon
<1>1. Len(infos) \in Nat /\ Len(handles) \in Nat /\ Len(opened) \in Nat /\ fed \in Nat
      /\ infos \in Seq(Nat) /\ handles \in Seq(Nat) /\ opened \in Seq(Nat)
  BY DEF Queues
<1>2. UNCHANGED <<files, upstream, fed, completed, infos, prefetched>>
      /\ fetcher = "opening" /\ fetcher' = "ready" /\ handles' = handles \o opened
      /\ opened' = <<>> /\ Len(opened') = 0 /\ opened' \in Seq(Nat)
  BY DEF PushHandle
<1>3. /\ handles' \in Seq(Nat) /\ Len(handles') = Len(handles) + Len(opened)
      /\ \A i \in 1 .. Len(handles') :
            handles'[i] = IF i <= Len(handles) THEN handles[i] ELSE opened[i - Len(handles)]
  BY <1>1, <1>2, ConcatProperties
<1>4. Popped' = Popped
  BY <1>1, <1>2, <1>3 DEF Popped
<1>5. /\ \A i \in 1 .. Len(handles) : handles[i] = Popped + i
      /\ \A i \in 1 .. Len(opened) : opened[i] = Popped + Len(handles) + i
      /\ \A i \in 1 .. Len(infos) : infos[i] = Popped + Len(handles) + Len(opened) + i
      /\ Popped \in Int
  BY <1>1 DEF Queues, Popped
<1> HIDE DEF Popped
<1>6. ASSUME NEW i \in 1 .. Len(handles') PROVE handles'[i] = Popped' + i
  <2>1. CASE i <= Len(handles)
    <3>1. i \in 1 .. Len(handles)
      BY <1>1, <1>3, <2>1
    <3>2. handles'[i] = handles[i]
      BY <1>3, <2>1, Zenon
    <3> QED BY <1>4, <1>5, <3>1, <3>2, Zenon
  <2>2. CASE ~(i <= Len(handles))
    <3>1. i - Len(handles) \in 1 .. Len(opened)
      BY <1>1, <1>3, <2>2
    <3>2. handles'[i] = Popped + Len(handles) + (i - Len(handles))
      BY <1>3, <1>5, <2>2, <3>1, Zenon
    <3> QED BY <1>1, <1>4, <1>5, <3>2
  <2> QED BY <2>1, <2>2, Zenon
<1>7. \A i \in 1 .. Len(infos') : infos'[i] = Popped' + Len(handles') + Len(opened') + i
  BY <1>1, <1>2, <1>3, <1>4, <1>5
<1> QED BY <1>2, <1>3, <1>4, <1>6, <1>7 DEF Queues

(* The main thread pops the handle of the next file. *)
LEMMA PopHandleQueues ==
    Queues /\ PopHandle => Queues' /\ Popped' = Popped + 1 /\ Head(handles) = Popped + 1
                          /\ Popped + 1 \in DOMAIN files
<1> SUFFICES ASSUME Queues, PopHandle
             PROVE  Queues' /\ Popped' = Popped + 1 /\ Head(handles) = Popped + 1
                            /\ Popped + 1 \in DOMAIN files
  BY Zenon
<1>1. Len(infos) \in Nat /\ Len(handles) \in Nat /\ Len(opened) \in Nat /\ fed \in Nat
      /\ infos \in Seq(Nat) /\ handles \in Seq(Nat) /\ opened \in Seq(Nat)
  BY DEF Queues
<1>2. UNCHANGED <<files, upstream, fed, completed, infos, prefetched, fetcher, opened>>
      /\ handles # <<>> /\ handles' = Tail(handles)
  BY Zenon DEF PopHandle
<1>3. Popped \in Nat /\ \A i \in 1 .. Len(handles) : handles[i] = Popped + i
  BY <1>1 DEF Queues, Popped
<1> DEFINE n == Popped
<1> HIDE DEF n
<1>4. /\ Head(handles) = n + 1 /\ handles' \in Seq(Nat) /\ Len(handles') = Len(handles) - 1
      /\ \A i \in 1 .. Len(handles') : handles'[i] = (n + 1) + i
  <2>1. n \in Nat /\ \A i \in 1 .. Len(handles) : handles[i] = n + i
    BY <1>3, Zenon DEF n
  <2> QED BY <1>1, <1>2, <2>1, ConsecutiveTail, Zenon
<1>5. Popped' = Popped + 1
  BY <1>1, <1>2, <1>4 DEF Popped
<1>6. Popped + 1 \in DOMAIN files
  <2>1. Len(handles) >= 1
    BY <1>1, <1>2
  <2>2. Popped + 1 <= fed /\ fed <= Len(files) /\ Len(files) \in Nat
        /\ DOMAIN files = 1 .. Len(files)
    BY <1>1, <2>1, InputsAssumption DEF Queues, Popped
  <2> QED BY <1>1, <1>3, <2>2
<1>7. /\ \A i \in 1 .. Len(opened) : opened[i] = Popped + Len(handles) + i
      /\ \A i \in 1 .. Len(infos) : infos[i] = Popped + Len(handles) + Len(opened) + i
  BY Zenon DEF Queues
<1> HIDE DEF Popped
<1>8. /\ \A i \in 1 .. Len(opened') : opened'[i] = Popped' + Len(handles') + i
      /\ \A i \in 1 .. Len(infos') : infos'[i] = Popped' + Len(handles') + Len(opened') + i
  BY <1>1, <1>2, <1>3, <1>4, <1>5, <1>7
<1>9. \A i \in 1 .. Len(handles') : handles'[i] = Popped' + i
  BY <1>4, <1>5, Zenon DEF n
<1>10. Queues'
  BY <1>2, <1>3, <1>4, <1>5, <1>8, <1>9 DEF Queues
<1> QED BY <1>4, <1>5, <1>6, <1>10, Zenon DEF n

(* The other steps leave the queues as they are. *)
LEMMA QueuesStep ==
    Queues /\ [Next]_vars => Queues' /\ (Popped' = Popped \/ PopHandle)
<1> SUFFICES ASSUME Queues, [Next]_vars PROVE Queues' /\ (Popped' = Popped \/ PopHandle)
  BY Zenon
<1>1. CASE UpstreamFile
  BY <1>1, UpstreamFileQueues, Zenon
<1>2. CASE TakeInfo
  BY <1>2, TakeInfoQueues, Zenon
<1>3. CASE PushHandle
  BY <1>3, PushHandleQueues, Zenon
<1>4. CASE PopHandle
  BY <1>4, PopHandleQueues, Zenon
<1>5. ASSUME UNCHANGED <<files, fed, infos, opened, handles>> PROVE Popped' = Popped
  BY <1>5, Zenon DEF Popped
<1>6. CASE UNCHANGED <<files, fileVars>>
  <2>1. Popped' = Popped
    BY <1>5, <1>6, Zenon DEF fileVars
  <2> HIDE DEF Popped
  <2> QED BY <1>6, <2>1, Zenon DEF Queues, fileVars
<1>7. CASE UpstreamCompleted
  <2>1. Popped' = Popped
    BY <1>5, <1>7, Zenon DEF UpstreamCompleted
  <2> QED BY <1>7, <2>1, Zenon DEF Queues, UpstreamCompleted
<1>8. CASE NotifyCompleted \/ WaitForInfo \/ SpuriousWakeup \/ FinishPrefetching
  <2>1. Popped' = Popped
    BY <1>5, <1>8, Zenon DEF NotifyCompleted, WaitForInfo, SpuriousWakeup, FinishPrefetching
  <2>2. UNCHANGED <<files, fed, completed, infos, opened, handles>>
        /\ (upstream' = upstream \/ (upstream' = "done" /\ upstream = "notify"))
    BY <1>8, Zenon DEF NotifyCompleted, WaitForInfo, SpuriousWakeup, FinishPrefetching
  <2> HIDE DEF Popped
  <2>3. /\ fetcher' \in {"ready", "blocking", "waiting", "opening", "finishing", "done"}
        /\ fetcher' # "opening" => opened = <<>>
        /\ fetcher' \in {"finishing", "done"} => completed /\ infos = <<>>
        /\ prefetched' \in BOOLEAN
        /\ prefetched' => fetcher' = "done"
    <3>1. /\ fetcher \in {"ready", "blocking", "waiting", "opening", "finishing", "done"}
          /\ fetcher # "opening" => opened = <<>>
          /\ fetcher \in {"finishing", "done"} => completed /\ infos = <<>>
          /\ prefetched \in BOOLEAN
          /\ prefetched => fetcher = "done"
      BY Zenon DEF Queues
    <3>2. \/ fetcher' = fetcher /\ prefetched' = prefetched
          \/ fetcher = "waiting" /\ fetcher' = "ready" /\ prefetched' = prefetched
          \/ fetcher = "blocking" /\ fetcher' = "waiting" /\ prefetched' = prefetched
          \/ fetcher = "finishing" /\ fetcher' = "done" /\ prefetched' = TRUE
      BY <1>8, Zenon DEF NotifyCompleted, WaitForInfo, SpuriousWakeup, FinishPrefetching, Notified
    <3>3. CASE fetcher' = fetcher /\ prefetched' = prefetched
      BY <3>1, <3>3, Zenon
    <3>4. CASE fetcher \in {"waiting", "blocking"} /\ fetcher' \in {"ready", "waiting"}
               /\ prefetched' = prefetched
      <4>1. ~prefetched /\ opened = <<>>
        BY <3>1, <3>4, Zenon
      <4>2. prefetched' = FALSE
        BY <3>1, <3>4, <4>1, Zenon
      <4>3. fetcher' \notin {"finishing", "done", "opening"}
        BY <3>4, Zenon
      <4> QED BY <3>4, <4>1, <4>2, <4>3, Zenon
    <3>5. CASE fetcher = "finishing" /\ fetcher' = "done" /\ prefetched' = TRUE
      BY <3>1, <3>5, Zenon
    <3> QED BY <3>2, <3>3, <3>4, <3>5, Zenon
  <2>4. /\ infos' \in Seq(Nat) /\ opened' \in Seq(Nat) /\ handles' \in Seq(Nat) /\ Popped' >= 0
        /\ \A i \in 1 .. Len(handles') : handles'[i] = Popped' + i
        /\ \A i \in 1 .. Len(opened') : opened'[i] = Popped' + Len(handles') + i
        /\ \A i \in 1 .. Len(infos') : infos'[i] = Popped' + Len(handles') + Len(opened') + i
    BY <2>1, <2>2, Zenon DEF Queues
  <2>5. /\ files' \in Inputs /\ fed' \in 0 .. Len(files') /\ completed' \in BOOLEAN
        /\ upstream' \in {"fetch", "notify", "done"}
        /\ completed' => fed' = Len(files') /\ upstream' # "fetch"
    BY <2>2, Zenon DEF Queues
  <2>6. /\ fetcher' # "opening" => opened' = <<>>
        /\ fetcher' \in {"finishing", "done"} => completed' /\ infos' = <<>>
    BY <2>2, <2>3, Zenon
  <2>7. Queues'
    BY <2>3, <2>4, <2>5, <2>6, Zenon DEF Queues
  <2> QED BY <2>1, <2>7, Zenon
<1>9. CASE WaitForFileHandles \/ AreAllFilesProcessed
  BY <1>6, <1>9, Zenon DEF WaitForFileHandles, AreAllFilesProcessed
<1>10. CASE StartFill \/ NextFile \/ SignalEnd \/ Close
  BY <1>6, <1>10, Zenon DEF StartFill, NextFile, SignalEnd, Close
<1>11. CASE AddPending \/ TakePending \/ ReturnBatch
  BY <1>6, <1>11, Zenon DEF AddPending, TakePending, ReturnBatch
<1>12. CASE UNCHANGED vars
  BY <1>6, <1>12, Zenon DEF vars
<1> QED BY <1>1, <1>2, <1>3, <1>4, <1>7, <1>8, <1>9, <1>10, <1>11, <1>12, Zenon
        DEF Next, UpstreamFetcher, MetadataFetcher, Main

----------------------------------------------------------------------------
(* A row group to be scanned is a pair of a file and an index in the       *)
(* slices of this worker. *)
LEMMA GroupFacts ==
    ASSUME files \in Inputs
    PROVE  /\ \A n \in DOMAIN files : \A x \in InterestingRowGroups(n) : x \in AllGroups /\ x[1] = n
           /\ \A x \in AllGroups :
                 /\ x = <<x[1], x[2]>> /\ x[1] \in DOMAIN files /\ x[2] \in DOMAIN files[x[1]].groups
                 /\ x[1] \in Nat /\ x[2] \in Nat
                 /\ x \in InterestingRowGroups(x[1])
                 /\ x[2] - 1 \in Slice(files[x[1]].from, files[x[1]].to,
                                       Len(files[x[1]].groups), files[x[1]].slices)
<1>1. ASSUME NEW n \in DOMAIN files, NEW x \in InterestingRowGroups(n)
      PROVE  /\ x[1] = n /\ x = <<x[1], x[2]>> /\ x[2] \in DOMAIN files[n].groups
             /\ x[2] - 1 \in Slice(files[n].from, files[n].to,
                                   Len(files[n].groups), files[n].slices)
  BY DEF InterestingRowGroups
<1>2. ASSUME NEW n \in DOMAIN files, NEW x \in InterestingRowGroups(n) PROVE x \in AllGroups
  BY Zenon DEF AllGroups
<1>3. ASSUME NEW x \in AllGroups
      PROVE  \E n \in DOMAIN files : x \in InterestingRowGroups(n)
  BY Zenon DEF AllGroups
<1>4. \A n \in DOMAIN files : n \in Nat /\ \A g \in DOMAIN files[n].groups : g \in Nat
  BY InputsAssumption DEF IsFile
<1>5. ASSUME NEW x \in AllGroups
      PROVE  /\ x = <<x[1], x[2]>> /\ x[1] \in DOMAIN files /\ x[2] \in DOMAIN files[x[1]].groups
             /\ x \in InterestingRowGroups(x[1])
             /\ x[2] - 1 \in Slice(files[x[1]].from, files[x[1]].to,
                                   Len(files[x[1]].groups), files[x[1]].slices)
  <2>1. PICK n \in DOMAIN files : x \in InterestingRowGroups(n)
    BY <1>3, Zenon
  <2>2. x[1] = n
    BY <1>1, <2>1, Zenon
  <2> QED BY <1>1, <2>1, <2>2, Zenon
<1> QED BY <1>1, <1>2, <1>4, <1>5, Zenon

(* The rows of a row group, in their order. *)
LEMMA RowFacts ==
    ASSUME files \in Inputs
    PROVE  /\ \A x \in AllGroups :
                 /\ Rows(x) \in Seq(AllRows)
                 /\ DOMAIN Rows(x) = DOMAIN files[x[1]].groups[x[2]]
                 /\ \A i \in DOMAIN Rows(x) : Rows(x)[i] = <<x[1], x[2], i>>
           /\ \A r \in AllRows : /\ <<r[1], r[2]>> \in AllGroups
                                 /\ r[1] \in Nat /\ r[2] \in Nat /\ r[3] \in Nat
<1>1. ASSUME NEW x \in AllGroups
      PROVE  /\ Rows(x) \in Seq(AllRows)
             /\ DOMAIN Rows(x) = DOMAIN files[x[1]].groups[x[2]]
             /\ \A i \in DOMAIN Rows(x) : Rows(x)[i] = <<x[1], x[2], i>>
             /\ \A i \in DOMAIN Rows(x) : i \in Nat
  <2>1. x[1] \in DOMAIN files /\ x[2] \in DOMAIN files[x[1]].groups
    BY GroupFacts, Zenon
  <2>2. files[x[1]].groups \in Seq(Seq(Int))
    BY <2>1, InputsAssumption, Zenon DEF IsFile
  <2> DEFINE g == files[x[1]].groups[x[2]]
  <2>3. g \in Seq(Int)
    BY <2>1, <2>2
  <2>4. Len(g) \in Nat /\ DOMAIN g = 1 .. Len(g)
    BY <2>3, LenProperties, Zenon
  <2> HIDE DEF g
  <2>5. Rows(x) = [i \in 1 .. Len(g) |-> <<x[1], x[2], i>>]
    BY <2>4, Zenon DEF Rows, g
  <2>6. \A i \in 1 .. Len(g) : Rows(x)[i] \in AllRows
    <3>1. \A i \in DOMAIN Rows(x) : Rows(x)[i] \in AllRows
      BY DEF AllRows
    <3> HIDE DEF AllRows
    <3> QED BY <2>5, <3>1, Zenon
  <2>7. Rows(x) \in [1 .. Len(g) -> AllRows]
    BY <2>5, <2>6, Zenon
  <2>8. Rows(x) \in Seq(AllRows)
    BY <2>4, <2>7, IsASeq
  <2>9. DOMAIN Rows(x) = DOMAIN g /\ \A i \in DOMAIN Rows(x) : i \in Nat
    BY <2>4, <2>5
  <2>10. \A i \in DOMAIN Rows(x) : Rows(x)[i] = <<x[1], x[2], i>>
    BY <2>5, Zenon
  <2> QED BY <2>8, <2>9, <2>10, Zenon DEF g
<1>2. ASSUME NEW r \in AllRows
      PROVE  \E x \in AllGroups : \E i \in DOMAIN Rows(x) : r = Rows(x)[i]
  BY Zenon DEF AllRows
<1>3. ASSUME NEW r \in AllRows
      PROVE  <<r[1], r[2]>> \in AllGroups /\ r[1] \in Nat /\ r[2] \in Nat /\ r[3] \in Nat
  <2>1. PICK x \in AllGroups : \E i \in DOMAIN Rows(x) : r = Rows(x)[i]
    BY <1>2, Zenon
  <2>2. PICK i \in DOMAIN Rows(x) : r = Rows(x)[i]
    BY <2>1, Zenon
  <2>3. r = <<x[1], x[2], i>> /\ i \in Nat
    BY <1>1, <2>2, Zenon
  <2>4. r[1] = x[1] /\ r[2] = x[2] /\ r[3] = i
    BY <2>3, Zenon
  <2> QED BY <2>3, <2>4, GroupFacts, Zenon
<1> QED BY <1>1, <1>3, Zenon

(* The files do not change, nor do their row groups. *)
LEMMA SameFiles ==
    ASSUME files' = files
    PROVE  /\ AllGroups' = AllGroups /\ AllRows' = AllRows
           /\ \A n : InterestingRowGroups(n)' = InterestingRowGroups(n)
           /\ \A x : Rows(x)' = Rows(x)
<1>1. \A n : InterestingRowGroups(n)' = InterestingRowGroups(n)
  BY Zenon DEF InterestingRowGroups
<1>2. \A x : Rows(x)' = Rows(x)
  BY Zenon DEF Rows
<1>3. AllGroups' = AllGroups
  BY <1>1, Zenon DEF AllGroups
<1> QED BY <1>1, <1>2, <1>3 DEF AllRows

(* The numbers and rows of the files depend on nothing else. *)
LEMMA SameScan ==
    ASSUME files' = files, Popped' = Popped, UNCHANGED <<groups, pending, current, out>>
    PROVE  /\ ScanTypes /\ main' \in {"next", "fill", "wait", "check", "pop", "take", "end", "closed"}
                 => ScanTypes'
           /\ Ascending => Ascending'
           /\ NoneLost => NoneLost'
<1>1. AllGroups' = AllGroups /\ AllRows' = AllRows /\ (\A x : Rows(x)' = Rows(x)) /\ Read' = Read
  BY SameFiles, Zenon DEF Read
<1>2. ScanTypes /\ main' \in {"next", "fill", "wait", "check", "pop", "take", "end", "closed"}
        => ScanTypes'
  BY <1>1, Zenon DEF ScanTypes
<1>3. Ascending => Ascending'
  BY <1>1 DEF Ascending, Before, GroupBefore
<1>4. NoneLost => NoneLost'
  BY <1>1, Zenon DEF NoneLost
<1> QED BY <1>2, <1>3, <1>4, Zenon

(* The steps of the fetchers do not concern the main thread... *)
LEMMA FetcherScan ==
    ASSUME Scan, files' = files, Popped' = Popped, UNCHANGED scanVars
    PROVE  Scan'
<1>1. ScanTypes' /\ Ascending' /\ NoneLost'
  BY SameScan, Zenon DEF Scan, scanVars, ScanTypes
<1>2. Stages'
  BY Zenon DEF Scan, Stages, scanVars
<1> QED BY <1>1, <1>2, Zenon DEF Scan

(* ... and many of its own only lead to the next stage. *)
LEMMA StageScan ==
    ASSUME Queues, Scan, Popped' = Popped,
           WaitForFileHandles \/ AreAllFilesProcessed \/ StartFill \/ NextFile \/ SignalEnd \/ Close
    PROVE  Scan'
<1> USE DEF WaitForFileHandles, AreAllFilesProcessed, StartFill, NextFile, SignalEnd, Close
<1>1. /\ UNCHANGED <<files, groups, pending, current, out>>
      /\ main' \in {"next", "fill", "wait", "check", "pop", "take", "end", "closed"}
  BY Zenon
<1>2. ScanTypes' /\ Ascending' /\ NoneLost'
  BY <1>1, SameScan, Zenon DEF Scan
<1>3. handles = <<>> /\ prefetched => Popped = Len(files)
  BY DEF Queues, Popped
<1>4. MaxPending > 0 /\ Len(<<>>) = 0
  BY SizesAssumption
<1>5. Len(pending) \in Nat
  BY DEF Scan, ScanTypes
<1>6. Stages'
  <2>1. CASE WaitForFileHandles
    BY <1>1, <2>1, Zenon DEF Scan, Stages
  <2>2. CASE AreAllFilesProcessed
    BY <1>1, <1>3, <2>2, Zenon DEF Scan, Stages
  <2>3. CASE StartFill \/ NextFile
    BY <1>1, <2>3, Zenon DEF Scan, Stages
  <2>4. CASE SignalEnd
    BY <1>1, <1>4, <2>4, Zenon DEF Scan, Stages
  <2>5. CASE Close
    BY <1>1, <2>5, Zenon DEF Scan, Stages
  <2> QED BY <2>1, <2>2, <2>3, <2>4, <2>5, Zenon
<1> QED BY <1>2, <1>6, Zenon DEF Scan

(* The row groups of the next file follow all that precedes them. *)
LEMMA PopHandleScan ==
    ASSUME Queues, Scan, PopHandle
    PROVE  Scan'
<1>1. /\ UNCHANGED <<files, pending, current, out>> /\ main = "pop" /\ main' = "fill"
      /\ groups' = InterestingRowGroups(Head(handles)) /\ groups = {}
  BY Zenon DEF PopHandle, Scan, Stages
<1>2. Popped' = Popped + 1 /\ Head(handles) = Popped + 1 /\ Popped + 1 \in DOMAIN files
  BY PopHandleQueues, Zenon
<1>3. AllGroups' = AllGroups /\ AllRows' = AllRows /\ (\A x : Rows(x)' = Rows(x)) /\ Read' = Read
  BY <1>1, SameFiles, Zenon DEF Read
<1>4. files \in Inputs
  BY Zenon DEF Queues
<1>5. \A x \in groups' : x \in AllGroups /\ x[1] = Popped + 1
  BY <1>1, <1>2, <1>4, GroupFacts, Zenon
<1>6. \A x \in AllGroups : x[1] \in Nat /\ (x[1] = Popped + 1 => x \in groups')
  BY <1>1, <1>2, <1>4, GroupFacts, Zenon
<1>7. Popped \in Int
  BY DEF Queues, Popped
<1>8. (\A k \in DOMAIN pending : pending[k] \in AllGroups) /\ (\A i \in DOMAIN Read : Read[i][1] \in Nat)
  <2>1. \A k \in DOMAIN pending : pending[k] \in AllGroups
    BY DEF Scan, ScanTypes
  <2>2. Read \in Seq(AllRows)
    BY DEF Scan, ScanTypes, Read
  <2>3. \A i \in DOMAIN Read : Read[i] \in AllRows
    BY <2>2
  <2> QED BY <1>4, <2>1, <2>3, RowFacts, Zenon
<1> HIDE DEF Popped, Read
<1>9. ScanTypes'
  <2>1. \A k \in DOMAIN pending : pending[k][1] <= Popped + 1
    BY <1>6, <1>7, <1>8 DEF Scan, ScanTypes
  <2>2. \A i \in DOMAIN Read : Read[i][1] <= Popped + 1
    BY <1>7, <1>8 DEF Scan, ScanTypes
  <2> QED BY <1>1, <1>2, <1>3, <1>5, <2>1, <2>2, Zenon DEF Scan, ScanTypes
<1>10. Ascending'
  <2>1. ASSUME NEW i \in DOMAIN Read, NEW x \in groups' PROVE GroupBefore(Read[i], x)
    <3>1. Read[i][1] <= Popped /\ Read[i][1] \in Nat /\ x[1] = Popped + 1
      BY <1>5, <1>8, Zenon DEF Scan, ScanTypes
    <3> QED BY <1>7, <3>1 DEF GroupBefore
  <2>2. ASSUME NEW k \in DOMAIN pending, NEW x \in groups' PROVE GroupBefore(pending[k], x)
    <3>1. pending[k][1] <= Popped /\ pending[k][1] \in Nat /\ x[1] = Popped + 1
      BY <1>5, <1>6, <1>8, Zenon DEF Scan, ScanTypes
    <3> QED BY <1>7, <3>1 DEF GroupBefore
  <2> QED BY <1>1, <1>3, <2>1, <2>2 DEF Scan, Ascending, Before, GroupBefore
<1>11. NoneLost'
  <2> SUFFICES ASSUME NEW x \in AllGroups, x[1] <= Popped + 1, NEW i \in DOMAIN Rows(x)
               PROVE  \/ \E k \in DOMAIN Read : Read[k] = Rows(x)[i]
                      \/ \E k \in DOMAIN pending : pending[k] = x
                      \/ x \in groups'
    BY <1>1, <1>2, <1>3, Zenon DEF NoneLost
  <2>1. CASE x[1] = Popped + 1
    BY <1>6, <2>1, Zenon
  <2>2. CASE x[1] # Popped + 1
    <3>1. x[1] <= Popped
      BY <1>6, <1>7, <2>2
    <3> QED BY <1>1, <3>1, Zenon DEF Scan, NoneLost
  <2> QED BY <2>1, <2>2, Zenon
<1>12. Stages'
  BY <1>1, Zenon DEF Scan, Stages
<1> QED BY <1>9, <1>10, <1>11, <1>12, Zenon DEF Scan

(* Reading ahead moves the first row group left to the end of the queue. *)
LEMMA AddPendingScan ==
    ASSUME Queues, Scan, AddPending, Popped' = Popped
    PROVE  Scan'
<1>1. PICK x \in groups :
        /\ main = "fill" /\ \A y \in groups : x[2] <= y[2]
        /\ pending' = IF Rows(x) = <<>> THEN pending ELSE Append(pending, x)
        /\ groups' = groups \ {x}
        /\ main' = IF Rows(x) # <<>> /\ Len(pending') >= MaxPending THEN "take" ELSE "fill"
        /\ UNCHANGED <<files, current, out>>
  BY Zenon DEF AddPending
<1>2. AllGroups' = AllGroups /\ AllRows' = AllRows /\ (\A y : Rows(y)' = Rows(y)) /\ Read' = Read
  BY <1>1, SameFiles, Zenon DEF Read
<1>3. files \in Inputs /\ x \in AllGroups /\ groups \subseteq AllGroups /\ pending \in Seq(AllGroups)
      /\ Len(pending) \in Nat /\ DOMAIN pending = 1 .. Len(pending)
  BY DEF Queues, Scan, ScanTypes
<1>4. x[1] = Popped /\ \A y \in groups : y[1] = Popped
  BY Zenon DEF Scan, ScanTypes
<1>5. \A y \in groups \ {x} : GroupBefore(x, y)
  <2> SUFFICES ASSUME NEW y \in groups \ {x} PROVE GroupBefore(x, y)
    BY Zenon
  <2>1. x = <<x[1], x[2]>> /\ y = <<y[1], y[2]>> /\ x[2] \in Nat /\ y[2] \in Nat
    BY <1>3, GroupFacts, Zenon
  <2>2. x[1] = y[1] /\ x[2] <= y[2]
    BY <1>1, <1>4, Zenon
  <2>3. x[2] # y[2]
    BY <2>1, <2>2, Zenon
  <2> QED BY <2>1, <2>2, <2>3 DEF GroupBefore
<1>6. Len(pending) < MaxPending /\ current = <<>> /\ MaxPending \in Nat
  BY <1>1, SizesAssumption, Zenon DEF Scan, Stages
<1> HIDE DEF Popped, Read
<1>7. CASE Rows(x) = <<>>
  <2>1. pending' = pending /\ main' = "fill"
    BY <1>1, <1>7, Zenon
  <2>2. ScanTypes'
    BY <1>1, <1>2, <2>1, Zenon DEF Scan, ScanTypes
  <2>3. Ascending'
    BY <1>1, <1>2, <2>1 DEF Scan, Ascending, Before, GroupBefore
  <2>4. DOMAIN Rows(x) = {}
    BY <1>7
  <2>5. NoneLost'
    <3> SUFFICES ASSUME NEW y \in AllGroups, y[1] <= Popped, NEW i \in DOMAIN Rows(y)
                 PROVE  \/ \E k \in DOMAIN Read : Read[k] = Rows(y)[i]
                        \/ \E k \in DOMAIN pending : pending[k] = y
                        \/ y \in groups'
      BY <1>1, <1>2, <2>1, Zenon DEF NoneLost
    <3>1. y # x
      BY <2>4, Zenon
    <3> QED BY <1>1, <3>1, Zenon DEF Scan, NoneLost
  <2>6. Stages'
    BY <1>1, <1>6, <2>1, Zenon DEF Scan, Stages
  <2> QED BY <2>2, <2>3, <2>5, <2>6, Zenon DEF Scan
<1>8. CASE Rows(x) # <<>>
  <2>1. pending' = Append(pending, x)
    BY <1>1, <1>8, Zenon
  <2> DEFINE L == Len(pending)
  <2>2. /\ pending' \in Seq(AllGroups) /\ Len(pending') = L + 1 /\ pending'[L + 1] = x
        /\ \A k \in 1 .. L : pending'[k] = pending[k]
        /\ DOMAIN pending' = 1 .. L + 1 /\ DOMAIN pending = 1 .. L /\ L \in Nat /\ L < MaxPending
    BY <1>3, <1>6, <2>1, AppendProperties
  <2>3. pending' # <<>>
    BY <2>2
  <2> HIDE DEF L
  <2>4. ScanTypes'
    <3>1. \A k \in DOMAIN pending' : pending'[k][1] <= Popped
      <4> SUFFICES ASSUME NEW k \in 1 .. L + 1 PROVE pending'[k][1] <= Popped
        BY <2>2, Zenon
      <4>1. CASE k \in 1 .. L
        BY <2>2, <4>1, Zenon DEF Scan, ScanTypes
      <4>2. CASE k = L + 1
        <5>1. x[1] \in Nat
          BY <1>3, GroupFacts, Zenon
        <5> QED BY <1>4, <2>2, <4>2, <5>1
      <4> QED BY <2>2, <4>1, <4>2
    <3>2. main' \in {"take", "fill"}
      BY <1>1, Zenon
    <3> QED BY <1>1, <1>2, <2>2, <3>1, <3>2, Zenon DEF Scan, ScanTypes
  <2>5. Ascending'
    <3>1. ASSUME NEW i \in DOMAIN Read, NEW k \in DOMAIN pending'
          PROVE  GroupBefore(Read[i], pending'[k])
      <4>1. CASE k \in 1 .. L
        BY <2>2, <4>1, Zenon DEF Scan, Ascending
      <4>2. CASE k = L + 1
        BY <2>2, <4>2, Zenon DEF Scan, Ascending
      <4> QED BY <2>2, <4>1, <4>2
    <3>2. ASSUME NEW k \in DOMAIN pending', NEW l \in DOMAIN pending', k < l
          PROVE  GroupBefore(pending'[k], pending'[l])
      <4>1. k \in 1 .. L /\ (l \in 1 .. L \/ l = L + 1)
        BY <2>2, <3>2
      <4>2. pending'[k] = pending[k] /\ k \in DOMAIN pending
        BY <2>2, <4>1, Zenon
      <4>3. CASE l \in 1 .. L
        BY <2>2, <3>2, <4>2, <4>3, Zenon DEF Scan, Ascending
      <4>4. CASE l = L + 1
        BY <2>2, <4>2, <4>4, Zenon DEF Scan, Ascending
      <4> QED BY <4>1, <4>3, <4>4, Zenon
    <3>3. ASSUME NEW k \in DOMAIN pending', NEW y \in groups'
          PROVE  GroupBefore(pending'[k], y)
      <4>1. y \in groups /\ y \in groups \ {x}
        BY <1>1, Zenon
      <4>2. CASE k \in 1 .. L
        BY <2>2, <4>1, <4>2, Zenon DEF Scan, Ascending
      <4>3. CASE k = L + 1
        BY <1>5, <2>2, <4>1, <4>3, Zenon
      <4> QED BY <2>2, <4>2, <4>3
    <3>4. \A i, j \in DOMAIN Read : i < j => Before(Read[i], Read[j])
      BY Zenon DEF Scan, Ascending
    <3>5. \A i \in DOMAIN Read, y \in groups' : GroupBefore(Read[i], y)
      BY <1>1, Zenon DEF Scan, Ascending
    <3> QED BY <1>2, <3>1, <3>2, <3>3, <3>4, <3>5 DEF Ascending, Before, GroupBefore
  <2>6. NoneLost'
    <3> SUFFICES ASSUME NEW y \in AllGroups, y[1] <= Popped, NEW i \in DOMAIN Rows(y)
                 PROVE  \/ \E k \in DOMAIN Read : Read[k] = Rows(y)[i]
                        \/ \E k \in DOMAIN pending' : pending'[k] = y
                        \/ y \in groups'
      BY <1>2, Zenon DEF NoneLost
    <3>1. CASE \E k \in DOMAIN Read : Read[k] = Rows(y)[i]
      BY <3>1, Zenon
    <3>2. CASE \E k \in DOMAIN pending : pending[k] = y
      <4>1. PICK k \in 1 .. L : pending[k] = y
        BY <2>2, <3>2, Zenon
      <4>2. k \in DOMAIN pending' /\ pending'[k] = y
        BY <2>2, <4>1
      <4> QED BY <4>2, Zenon
    <3>3. CASE y \in groups
      <4>1. CASE y = x
        <5>1. L + 1 \in DOMAIN pending' /\ pending'[L + 1] = y
          BY <2>2, <4>1
        <5> QED BY <5>1, Zenon
      <4>2. CASE y # x
        BY <1>1, <3>3, <4>2, Zenon
      <4> QED BY <4>1, <4>2, Zenon
    <3> QED BY <3>1, <3>2, <3>3, Zenon DEF Scan, NoneLost
  <2>7. Stages'
    <3>1. Len(pending') <= MaxPending
      BY <1>6, <2>2
    <3>2. main' # "take" => Len(pending') < MaxPending
      BY <1>1, <1>6, <1>8, <2>2
    <3> QED BY <1>1, <1>6, <2>3, <3>1, <3>2, Zenon DEF Stages
  <2> QED BY <2>4, <2>5, <2>6, <2>7, Zenon DEF Scan
<1> QED BY <1>7, <1>8, Zenon

(* The rows of the oldest pending row group follow those returned. *)
LEMMA TakePendingScan ==
    ASSUME Queues, Scan, TakePending, Popped' = Popped
    PROVE  Scan'
<1>1. /\ main = "take" /\ pending # <<>> /\ current' = Rows(Head(pending))
      /\ pending' = Tail(pending) /\ main' = "next" /\ UNCHANGED <<files, groups, out>>
  BY Zenon DEF TakePending
<1>2. AllGroups' = AllGroups /\ AllRows' = AllRows /\ (\A y : Rows(y)' = Rows(y))
  BY <1>1, SameFiles, Zenon
<1>3. files \in Inputs /\ groups \subseteq AllGroups /\ pending \in Seq(AllGroups) /\ out \in Seq(AllRows)
  BY Zenon DEF Queues, Scan, ScanTypes
<1>4. current = <<>> /\ Len(pending) <= MaxPending /\ MaxPending \in Nat
  BY <1>1, SizesAssumption, Zenon DEF Scan, Stages
<1> DEFINE x == Head(pending)
           L == Len(pending)
           N == Len(out)
           M == Len(Rows(x))
<1>5. /\ L \in Nat \ {0} /\ x \in AllGroups /\ x = pending[1] /\ pending' \in Seq(AllGroups)
      /\ DOMAIN pending = 1 .. L /\ DOMAIN pending' = 1 .. L - 1 /\ Len(pending') = L - 1
      /\ \A k \in 1 .. L - 1 : pending'[k] = pending[k + 1]
  BY <1>1, <1>3, HeadTailProperties
<1>6. /\ Rows(x) \in Seq(AllRows) /\ M \in Nat /\ DOMAIN Rows(x) = 1 .. M
      /\ \A i \in 1 .. M : Rows(x)[i] = <<x[1], x[2], i>>
  BY <1>3, <1>5, RowFacts
<1>7. Read = out /\ N \in Nat /\ DOMAIN Read = 1 .. N
  BY <1>3, <1>4, ConcatEmptySeq DEF Read
<1>8. Read' = out \o Rows(x)
  BY <1>1, Zenon DEF Read
<1>9. /\ DOMAIN Read' = 1 .. N + M
      /\ \A i \in 1 .. N + M : Read'[i] = IF i <= N THEN out[i] ELSE Rows(x)[i - N]
  BY <1>3, <1>6, <1>8, ConcatProperties
<1> HIDE DEF L, N, M, x, Popped, Read
<1>10. ASSUME NEW i \in 1 .. N PROVE i \in DOMAIN Read /\ i \in DOMAIN Read' /\ Read'[i] = Read[i]
  BY <1>6, <1>7, <1>9
<1>11. ASSUME NEW i \in 1 .. M
       PROVE  N + i \in DOMAIN Read' /\ Read'[N + i] = <<x[1], x[2], i>> /\ Read'[N + i] = Rows(x)[i]
  <2>1. N + i \in 1 .. N + M /\ ~(N + i <= N) /\ (N + i) - N = i
    BY <1>6, <1>7
  <2> QED BY <1>6, <1>9, <2>1, Zenon
<1>12. ASSUME NEW i \in DOMAIN Read'
       PROVE  i \in 1 .. N \/ (i > N /\ i - N \in 1 .. M /\ Read'[i] = <<x[1], x[2], i - N>>)
  <2>1. CASE i <= N
    BY <1>7, <1>9, <2>1
  <2>2. CASE i > N
    <3>1. i - N \in 1 .. M /\ N + (i - N) = i
      BY <1>6, <1>7, <1>9, <2>2
    <3> QED BY <1>11, <2>2, <3>1, Zenon
  <2> QED BY <1>6, <1>7, <1>9, <2>1, <2>2
<1>13. x[1] \in Nat /\ x[2] \in Nat /\ x[1] <= Popped /\ 1 \in DOMAIN pending
  <2>1. 1 \in DOMAIN pending
    BY <1>5
  <2>2. x[1] <= Popped
    BY <1>5, <2>1, Zenon DEF Scan, ScanTypes
  <2>3. x[1] \in Nat /\ x[2] \in Nat
    BY <1>3, <1>5, GroupFacts, Zenon
  <2> QED BY <2>1, <2>2, <2>3, Zenon
<1>14. ScanTypes'
  <2>1. ASSUME NEW i \in DOMAIN Read' PROVE Read'[i][1] <= Popped
    <3>1. CASE i \in 1 .. N
      BY <1>10, <3>1, Zenon DEF Scan, ScanTypes
    <3>2. CASE Read'[i] = <<x[1], x[2], i - N>>
      BY <1>13, <3>2
    <3> QED BY <1>12, <3>1, <3>2, Zenon
  <2>2. ASSUME NEW k \in DOMAIN pending' PROVE pending'[k][1] <= Popped
    <3>1. k + 1 \in DOMAIN pending /\ pending'[k] = pending[k + 1]
      BY <1>5
    <3> QED BY <3>1, Zenon DEF Scan, ScanTypes
  <2>3. current' \in Seq(AllRows)
    BY <1>1, <1>6, Zenon DEF x
  <2> QED BY <1>1, <1>2, <1>5, <2>1, <2>2, <2>3, Zenon DEF Scan, ScanTypes
<1>15. Ascending'
  <2>1. ASSUME NEW i \in DOMAIN Read', NEW j \in DOMAIN Read', i < j
        PROVE  Before(Read'[i], Read'[j])
    <3>1. CASE i \in 1 .. N /\ j \in 1 .. N
      BY <1>10, <2>1, <3>1, Zenon DEF Scan, Ascending
    <3>2. CASE i \in 1 .. N /\ Read'[j] = <<x[1], x[2], j - N>>
      <4>1. GroupBefore(Read[i], pending[1])
        BY <1>10, <1>13, <3>2, Zenon DEF Scan, Ascending
      <4>2. Read'[j][1] = x[1] /\ Read'[j][2] = x[2]
        BY <3>2
      <4> QED BY <1>5, <1>10, <3>2, <4>1, <4>2, Zenon DEF GroupBefore, Before
    <3>3. CASE /\ i > N /\ i - N \in 1 .. M /\ Read'[i] = <<x[1], x[2], i - N>>
               /\ j > N /\ j - N \in 1 .. M /\ Read'[j] = <<x[1], x[2], j - N>>
      <4>1. i - N < j - N
        BY <1>6, <1>7, <1>9, <2>1, <3>3
      <4> QED BY <3>3, <4>1 DEF Before
    <3>4. ~(i > N /\ j \in 1 .. N)
      BY <1>6, <1>7, <1>9, <2>1
    <3> QED BY <1>12, <3>1, <3>2, <3>3, <3>4, Zenon
  <2>2. ASSUME NEW i \in DOMAIN Read', NEW y,
               \A k \in DOMAIN Read : GroupBefore(Read[k], y), GroupBefore(x, y)
        PROVE  GroupBefore(Read'[i], y)
    <3>1. CASE i \in 1 .. N
      BY <1>10, <2>2, <3>1, Zenon
    <3>2. CASE Read'[i] = <<x[1], x[2], i - N>>
      <4>1. Read'[i][1] = x[1] /\ Read'[i][2] = x[2]
        BY <3>2
      <4> QED BY <2>2, <4>1, Zenon DEF GroupBefore
    <3> QED BY <1>12, <3>1, <3>2, Zenon
  <2>3. ASSUME NEW k \in DOMAIN pending'
        PROVE  k + 1 \in DOMAIN pending /\ 1 < k + 1 /\ pending'[k] = pending[k + 1]
    BY <1>5
  <2>4. \A i \in DOMAIN Read', k \in DOMAIN pending' : GroupBefore(Read'[i], pending'[k])
    <3> SUFFICES ASSUME NEW i \in DOMAIN Read', NEW k \in DOMAIN pending'
                 PROVE  GroupBefore(Read'[i], pending'[k])
      BY Zenon
    <3>1. \A j \in DOMAIN Read : GroupBefore(Read[j], pending'[k])
      BY <2>3, Zenon DEF Scan, Ascending
    <3>2. GroupBefore(x, pending'[k])
      BY <1>5, <1>13, <2>3, Zenon DEF Scan, Ascending
    <3> QED BY <2>2, <3>1, <3>2, Zenon
  <2>5. \A i \in DOMAIN Read', y \in groups : GroupBefore(Read'[i], y)
    <3> SUFFICES ASSUME NEW i \in DOMAIN Read', NEW y \in groups PROVE GroupBefore(Read'[i], y)
      BY Zenon
    <3>1. \A j \in DOMAIN Read : GroupBefore(Read[j], y)
      BY Zenon DEF Scan, Ascending
    <3>2. GroupBefore(x, y)
      BY <1>5, <1>13, Zenon DEF Scan, Ascending
    <3> QED BY <2>2, <3>1, <3>2, Zenon
  <2>6. ASSUME NEW k \in DOMAIN pending', NEW l \in DOMAIN pending', k < l
        PROVE  GroupBefore(pending'[k], pending'[l])
    <3>1. k + 1 < l + 1
      BY <1>5, <2>6
    <3> QED BY <2>3, <3>1, Zenon DEF Scan, Ascending
  <2>7. ASSUME NEW k \in DOMAIN pending', NEW y \in groups PROVE GroupBefore(pending'[k], y)
    BY <2>3, Zenon DEF Scan, Ascending
  <2>8. groups' = groups
    BY <1>1, Zenon
  <2> QED BY <2>1, <2>4, <2>5, <2>6, <2>7, <2>8, Zenon DEF Ascending, Before, GroupBefore
<1>16. NoneLost'
  <2> SUFFICES ASSUME NEW y \in AllGroups, y[1] <= Popped, NEW i \in DOMAIN Rows(y)
               PROVE  \/ \E k \in DOMAIN Read' : Read'[k] = Rows(y)[i]
                      \/ \E k \in DOMAIN pending' : pending'[k] = y
                      \/ y \in groups
    BY <1>1, <1>2, Zenon DEF NoneLost
  <2>1. CASE \E k \in DOMAIN Read : Read[k] = Rows(y)[i]
    <3>1. PICK k \in 1 .. N : Read[k] = Rows(y)[i]
      BY <1>7, <2>1, Zenon
    <3> QED BY <1>10, <3>1, Zenon
  <2>2. CASE \E k \in DOMAIN pending : pending[k] = y
    <3>1. PICK k \in 1 .. L : pending[k] = y
      BY <1>5, <2>2, Zenon
    <3>2. CASE k = 1
      <4>1. y = x /\ i \in 1 .. M
        BY <1>5, <1>6, <3>1, <3>2, Zenon
      <4> QED BY <1>11, <4>1, Zenon
    <3>3. CASE k # 1
      <4>1. k - 1 \in 1 .. L - 1 /\ (k - 1) + 1 = k
        BY <1>5, <3>3
      <4>2. pending'[k - 1] = y /\ k - 1 \in DOMAIN pending'
        BY <1>5, <3>1, <4>1, Zenon
      <4> QED BY <4>2, Zenon
    <3> QED BY <3>2, <3>3, Zenon
  <2> QED BY <2>1, <2>2, Zenon DEF Scan, NoneLost
<1>17. Stages'
  <2>1. Len(pending') < MaxPending
    BY <1>4, <1>5 DEF L
  <2> QED BY <1>1, <1>4, <2>1 DEF Stages
<1> QED BY <1>14, <1>15, <1>16, <1>17, Zenon DEF Scan

(* Returning a batch only moves the border between the rows returned and   *)
(* those left of the current row group.                                    *)
LEMMA ReturnBatchScan ==
    ASSUME Queues, Scan, ReturnBatch, Popped' = Popped
    PROVE  Scan'
<1> DEFINE n == IF Len(current) < BatchSize THEN Len(current) ELSE BatchSize
           L == Len(current)
<1>1. /\ main = "next" /\ out' = out \o SubSeq(current, 1, n)
      /\ current' = SubSeq(current, n + 1, L) /\ UNCHANGED <<files, main, groups, pending>>
  BY Zenon DEF ReturnBatch
<1>2. current \in Seq(AllRows) /\ out \in Seq(AllRows) /\ L \in Nat
  BY DEF Scan, ScanTypes
<1>3. n \in 0 .. L
  BY <1>2, SizesAssumption
<1> HIDE DEF n
<1> DEFINE a == SubSeq(current, 1, n)
           b == SubSeq(current, n + 1, L)
<1>4. /\ a \in Seq(AllRows) /\ Len(a) = n /\ b \in Seq(AllRows) /\ Len(b) = L - n
      /\ \A i \in 1 .. n : a[i] = current[i]
      /\ \A i \in 1 .. L - n : b[i] = current[n + i]
  <2>1. a \in Seq(AllRows) /\ Len(a) = n /\ \A i \in 1 .. n : a[i] = current[i]
    BY <1>2, <1>3
  <2>2. b \in Seq(AllRows) /\ Len(b) = L - n /\ \A i \in 1 .. L - n : b[i] = current[n + i]
    BY <1>2, <1>3
  <2> QED BY <2>1, <2>2, Zenon
<1> HIDE DEF a, b
<1>5. Read' = Read
  <2>1. Read' = (out \o a) \o b /\ Read = out \o current
    BY <1>1, Zenon DEF Read, a, b
  <2>2. (out \o a) \o b = out \o (a \o b)
    <3>1. out \in Seq(AllRows) /\ a \in Seq(AllRows) /\ b \in Seq(AllRows)
      BY <1>2, <1>4, Zenon
    <3> QED BY ONLY <3>1, ConcatAssociative
  <2>3. a \o b = current
    <3>1. /\ a \o b \in Seq(AllRows) /\ Len(a \o b) = n + (L - n)
          /\ \A i \in 1 .. n + (L - n) : (a \o b)[i] = IF i <= n THEN a[i] ELSE b[i - n]
      BY <1>4, ConcatProperties
    <3>2. n + (L - n) = L
      BY <1>2, <1>3
    <3>3. ASSUME NEW i \in 1 .. L PROVE (a \o b)[i] = current[i]
      <4>1. CASE i <= n
        BY <1>3, <1>4, <3>1, <3>2, <4>1
      <4>2. CASE ~(i <= n)
        <5>1. i - n \in 1 .. L - n /\ n + (i - n) = i
          BY <1>2, <1>3, <4>2
        <5> QED BY <1>4, <3>1, <3>2, <4>2, <5>1, Zenon
      <4> QED BY <4>1, <4>2, Zenon
    <3> QED BY <1>2, <3>1, <3>2, <3>3, SeqEqual, Zenon
  <2> QED BY <2>1, <2>2, <2>3, Zenon
<1>6. AllGroups' = AllGroups /\ AllRows' = AllRows /\ (\A x : Rows(x)' = Rows(x))
  BY <1>1, SameFiles, Zenon
<1>7. out' \in Seq(AllRows) /\ current' \in Seq(AllRows)
  BY <1>1, <1>2, <1>4, ConcatProperties, Zenon DEF a, b
<1> HIDE DEF Read, Popped
<1>8. ScanTypes'
  BY <1>1, <1>5, <1>6, <1>7, Zenon DEF Scan, ScanTypes
<1>9. Ascending'
  BY <1>1, <1>5 DEF Scan, Ascending, Before, GroupBefore
<1>10. NoneLost'
  BY <1>1, <1>5, <1>6, Zenon DEF Scan, NoneLost
<1>11. Stages'
  BY <1>1, Zenon DEF Scan, Stages
<1> QED BY <1>8, <1>9, <1>10, <1>11, Zenon DEF Scan

LEMMA ScanInit == Init => Queues /\ Scan
<1> SUFFICES ASSUME Init PROVE Queues /\ Scan
  BY Zenon
<1>1. /\ files \in Inputs /\ fed = 0 /\ infos = <<>> /\ opened = <<>> /\ handles = <<>>
      /\ pending = <<>> /\ current = <<>> /\ out = <<>> /\ groups = {} /\ main = "next"
  BY Zenon DEF Init
<1>2. \A S : <<>> \in Seq(S)
  OBVIOUS
<1>3. Len(<<>>) = 0 /\ DOMAIN <<>> = {}
  OBVIOUS
<1>4. Popped = 0 /\ Read = <<>>
  <2>1. <<>> \o <<>> = <<>>
    BY <1>2, ConcatEmptySeq, Zenon
  <2>2. Len(handles) = 0 /\ Len(opened) = 0 /\ Len(infos) = 0
    BY <1>1, <1>3, Zenon
  <2>3. Popped = 0
    <3>1. fed = 0
      BY <1>1, Zenon
    <3> QED BY <2>2, <3>1 DEF Popped
  <2> QED BY <1>1, <2>1, <2>3, Zenon DEF Read
<1>5. 0 \in 0 .. Len(files) /\ \A n \in DOMAIN files : ~(n <= 0)
  BY <1>1, InputsAssumption
<1>6. Queues
  <2>1. Len(handles) = 0 /\ Len(opened) = 0 /\ Len(infos) = 0 /\ Popped >= 0
    BY <1>1, <1>3, <1>4
  <2>2. 1 .. 0 = {}
    OBVIOUS
  <2>3. infos \in Seq(Nat) /\ opened \in Seq(Nat) /\ handles \in Seq(Nat)
    BY <1>1, <1>2, Zenon
  <2>4. upstream = "fetch" /\ completed = FALSE /\ fetcher = "ready" /\ prefetched = FALSE
    BY Zenon DEF Init
  <2> HIDE DEF Popped
  <2> QED BY <1>1, <1>5, <2>1, <2>2, <2>3, <2>4, Zenon DEF Queues
<1>7. ScanTypes /\ Ascending
  BY <1>1, <1>2, <1>3, <1>4, Zenon DEF ScanTypes, Ascending
<1>8. NoneLost
  <2>1. \A x \in AllGroups : x[1] \in DOMAIN files
    BY <1>1, GroupFacts, Zenon
  <2> QED BY <1>4, <1>5, <2>1, Zenon DEF NoneLost
<1>9. Stages
  BY <1>1, <1>3, SizesAssumption DEF Stages
<1> QED BY <1>6, <1>7, <1>8, <1>9, Zenon DEF Scan

(* Each step of each thread preserves the invariant. *)
LEMMA ScanStep == Queues /\ Scan /\ [Next]_vars => Queues' /\ Scan'
<1> SUFFICES ASSUME Queues, Scan, [Next]_vars PROVE Scan'
  BY QueuesStep, Zenon
<1>1. Popped' = Popped \/ PopHandle
  BY QueuesStep, Zenon
<1>2. CASE PopHandle
  BY <1>2, PopHandleScan, Zenon
<1>3. CASE Popped' = Popped /\ AddPending
  BY <1>3, AddPendingScan, Zenon
<1>4. CASE Popped' = Popped /\ TakePending
  BY <1>4, TakePendingScan, Zenon
<1>5. CASE Popped' = Popped /\ ReturnBatch
  BY <1>5, ReturnBatchScan, Zenon
<1>6. CASE /\ Popped' = Popped
           /\ \/ WaitForFileHandles \/ AreAllFilesProcessed \/ StartFill
              \/ NextFile \/ SignalEnd \/ Close
  BY <1>6, StageScan, Zenon
<1>7. CASE Popped' = Popped /\ UNCHANGED <<files, scanVars>>
  BY <1>7, FetcherScan, Zenon
<1>8. UpstreamFetcher \/ MetadataFetcher \/ SpuriousWakeup \/ UNCHANGED vars
        => UNCHANGED <<files, scanVars>>
  BY Zenon DEF UpstreamFetcher, UpstreamFile, UpstreamCompleted, NotifyCompleted, MetadataFetcher,
         TakeInfo, WaitForInfo, PushHandle, FinishPrefetching, SpuriousWakeup, vars
<1> QED BY <1>1, <1>2, <1>3, <1>4, <1>5, <1>6, <1>7, <1>8, Zenon DEF Next, Main

LEMMA ScanInvariant == Spec => [](Queues /\ Scan)
BY ScanInit, ScanStep, PTL DEF Spec

(* The state of the three threads keeps its types, the queues hold files   *)
(* of upstream, and at most max_pending_column_readers_ row groups are     *)
(* read ahead.                                                             *)
THEOREM TypeCorrect == Spec => []TypeOK
<1>1. ASSUME Queues, Scan PROVE TypeOK
  <2>1. /\ Len(infos) \in Nat /\ Len(handles) \in Nat /\ Len(opened) \in Nat /\ fed \in Nat
        /\ infos \in Seq(Nat) /\ handles \in Seq(Nat) /\ opened \in Seq(Nat)
        /\ Popped \in Nat /\ fed = Popped + Len(handles) + Len(opened) + Len(infos)
    BY <1>1 DEF Queues, Popped
  <2>2. Len(files) \in Nat /\ DOMAIN files = 1 .. Len(files) /\ fed <= Len(files)
    BY <1>1, InputsAssumption DEF Queues
  <2> HIDE DEF Popped
  <2>3. ASSUME NEW s \in Seq(Nat), NEW m \in Nat, m + Len(s) <= fed,
               \A i \in 1 .. Len(s) : s[i] = m + i
        PROVE  s \in Seq(DOMAIN files)
    <3>1. Len(s) \in Nat /\ s \in [1 .. Len(s) -> Nat]
      BY LenProperties, Zenon
    <3>2. ASSUME NEW i \in 1 .. Len(s) PROVE s[i] \in DOMAIN files
      BY <2>1, <2>2, <2>3, <3>1
    <3>3. s \in [1 .. Len(s) -> DOMAIN files]
      BY <3>1, <3>2, Zenon
    <3> QED BY <3>1, <3>3, IsASeq
  <2>4. handles \in Seq(DOMAIN files)
    <3>1. Popped + Len(handles) <= fed /\ \A i \in 1 .. Len(handles) : handles[i] = Popped + i
      BY <1>1, <2>1 DEF Queues
    <3> QED BY <2>1, <2>3, <3>1, Zenon
  <2>5. opened \in Seq(DOMAIN files)
    <3> DEFINE m == Popped + Len(handles)
    <3>1. m \in Nat /\ m + Len(opened) <= fed /\ \A i \in 1 .. Len(opened) : opened[i] = m + i
      BY <1>1, <2>1 DEF Queues
    <3> HIDE DEF m
    <3> QED BY <2>1, <2>3, <3>1, Zenon
  <2>6. infos \in Seq(DOMAIN files)
    <3> DEFINE m == Popped + Len(handles) + Len(opened)
    <3>1. m \in Nat /\ m + Len(infos) <= fed /\ \A i \in 1 .. Len(infos) : infos[i] = m + i
      BY <1>1, <2>1 DEF Queues
    <3> HIDE DEF m
    <3> QED BY <2>1, <2>3, <3>1, Zenon
  <2>7. Len(pending) \in 0 .. MaxPending
    <3>1. Len(pending) \in Nat /\ Len(pending) <= MaxPending
      BY <1>1 DEF Scan, ScanTypes, Stages
    <3> QED BY <3>1, SizesAssumption
  <2>8. /\ files \in Inputs /\ upstream \in {"fetch", "notify", "done"} /\ fed \in 0 .. Len(files)
        /\ completed \in BOOLEAN /\ prefetched \in BOOLEAN
        /\ fetcher \in {"ready", "blocking", "waiting", "opening", "finishing", "done"}
    BY <1>1, Zenon DEF Queues
  <2>9. main \in {"next", "fill", "wait", "check", "pop", "take", "end", "closed"}
    BY <1>1, Zenon DEF Scan, ScanTypes
  <2> QED BY <2>4, <2>5, <2>6, <2>7, <2>8, <2>9, Zenon DEF TypeOK
<1> QED BY <1>1, ScanInvariant, PTL

(* ParquetScanOperatorImpl::next() returns the rows in the order of the    *)
(* files, none twice and none of another worker's slices, for any files,   *)
(* batch size and number of row groups read ahead.                         *)
THEOREM RowsAscend == Spec => []ScanOrdered
<1>1. ASSUME Queues, Scan PROVE ScanOrdered
  <2>1. files \in Inputs /\ out \in Seq(AllRows) /\ current \in Seq(AllRows)
    BY <1>1, Zenon DEF Queues, Scan, ScanTypes
  <2>2. ASSUME NEW i \in DOMAIN out PROVE i \in DOMAIN Read /\ Read[i] = out[i] /\ out[i] \in AllRows
    <3>1. Len(out) \in Nat /\ DOMAIN out = 1 .. Len(out) /\ i \in 1 .. Len(out) /\ out[i] \in AllRows
      BY <2>1
    <3>2. /\ Len(current) \in Nat /\ DOMAIN Read = 1 .. Len(out) + Len(current)
          /\ \A j \in 1 .. Len(out) + Len(current) :
                Read[j] = IF j <= Len(out) THEN out[j] ELSE current[j - Len(out)]
      BY <2>1, ConcatProperties DEF Read
    <3> QED BY <3>1, <3>2
  <2> SUFFICES ASSUME NEW i \in DOMAIN out
               PROVE  /\ \A j \in 1 .. i - 1 : Before(out[j], out[i])
                      /\ out[i][2] - 1 \in Slice(files[out[i][1]].from, files[out[i][1]].to,
                             Len(files[out[i][1]].groups), files[out[i][1]].slices)
    BY Zenon DEF ScanOrdered
  <2>3. ASSUME NEW j \in 1 .. i - 1 PROVE Before(out[j], out[i])
    <3>1. j \in DOMAIN out /\ j < i
      BY <2>1
    <3>2. Before(Read[j], Read[i])
      BY <1>1, <2>2, <3>1, Zenon DEF Scan, Ascending
    <3> QED BY <2>2, <3>1, <3>2, Zenon
  <2> DEFINE x == <<out[i][1], out[i][2]>>
  <2>4. x \in AllGroups /\ x[1] = out[i][1] /\ x[2] = out[i][2]
    BY <2>1, <2>2, RowFacts, Zenon
  <2> HIDE DEF x
  <2>5. x[2] - 1 \in Slice(files[x[1]].from, files[x[1]].to,
                           Len(files[x[1]].groups), files[x[1]].slices)
    BY <2>1, <2>4, GroupFacts, Zenon
  <2> QED BY <2>3, <2>4, <2>5, Zenon
<1> QED BY <1>1, ScanInvariant, PTL

(* When the end is signalled every row in the slices of the worker and in  *)
(* the ranges has been returned: neither pruning nor reading ahead nor the *)
(* handing over between the three threads loses one.                       *)
THEOREM RowsComplete == Spec => []ScanComplete
<1>1. ASSUME Queues, Scan PROVE ScanComplete
  <2>1. files \in Inputs /\ out \in Seq(AllRows)
    BY <1>1, Zenon DEF Queues, Scan, ScanTypes
  <2> SUFFICES ASSUME main \in {"end", "closed"}, NEW n \in DOMAIN files,
                      NEW g \in DOMAIN files[n].groups, NEW i \in DOMAIN files[n].groups[g],
                      Wanted(n, g, i)
               PROVE  \E k \in DOMAIN out : out[k] = <<n, g, i>>
    BY Zenon DEF ScanComplete
  <2>2. groups = {} /\ pending = <<>> /\ current = <<>> /\ Popped = Len(files)
    BY <1>1, Zenon DEF Scan, Stages
  <2>3. Read = out
    BY <2>1, <2>2, ConcatEmptySeq, Zenon DEF Read
  <2>4. EvaluateRangePredicates(files[n].groups[g])
    BY Zenon DEF Wanted, EvaluateRangePredicates
  <2> DEFINE x == <<n, g>>
  <2>5. x \in InterestingRowGroups(n)
    BY <2>4, Zenon DEF Wanted, InterestingRowGroups
  <2>6. x \in AllGroups /\ x[1] = n /\ x[2] = g
    BY <2>1, <2>5, GroupFacts, Zenon
  <2> HIDE DEF x
  <2>7. i \in DOMAIN Rows(x) /\ Rows(x)[i] = <<n, g, i>>
    BY <2>1, <2>6, RowFacts, Zenon
  <2>8. x[1] <= Popped
    BY <2>1, <2>2, <2>6, InputsAssumption
  <2>9. DOMAIN pending = {}
    BY <2>2
  <2>10. \E k \in DOMAIN Read : Read[k] = Rows(x)[i]
    BY <1>1, <2>2, <2>6, <2>7, <2>8, <2>9, Zenon DEF Scan, NoneLost
  <2> QED BY <2>3, <2>7, <2>10, Zenon
<1> QED BY <1>1, ScanInvariant, PTL
=============================================================================
