--------------------------- MODULE JobStoreProofs ---------------------------
(* For any threads, limits and sequence width, saturated or not.              *)
EXTENDS JobStore, SequenceTheorems, TLAPS

(* What push_receipt keeps is a suffix of the log, within the limit.          *)
LEMMA RetainSuffix ==
    ASSUME NEW S, NEW log \in Seq(S)
    PROVE  /\ Retain(log) \in Seq(S)
           /\ Len(Retain(log)) <= MaxReceipts
           /\ \E off \in Nat : /\ Len(Retain(log)) = Len(log) - off
                               /\ \A i \in 1..Len(Retain(log)) : Retain(log)[i] = log[i + off]
<1>1. Len(log) \in Nat /\ MaxReceipts \in Nat
  BY LimitsAssumption, LenProperties
<1>2. CASE Len(log) <= MaxReceipts
  <2>1. Retain(log) = log
    BY <1>1, <1>2 DEF Retain
  <2>2. /\ 0 \in Nat /\ Len(log) = Len(log) - 0
        /\ \A i \in 1..Len(log) : log[i] = log[i + 0]
    BY <1>1
  <2>3. QED BY <1>1, <1>2, <2>1, <2>2
<1>3. CASE Len(log) > MaxReceipts
  <2> DEFINE off == Len(log) - MaxReceipts
  <2>1. off \in Nat /\ off + 1 \in 1..Len(log) + 1
    BY <1>1, <1>3
  <2>2. Retain(log) = SubSeq(log, off + 1, Len(log))
    BY <1>1, <1>3 DEF Retain
  <2>3. /\ Retain(log) \in Seq(S)
        /\ Len(Retain(log)) = MaxReceipts
        /\ \A i \in 1..MaxReceipts : Retain(log)[i] = log[i + off]
    <3>1. \A i \in off + 1..Len(log) : log[i] \in S
      BY <1>1, <2>1, ElementOfSeq
    <3>2. /\ SubSeq(log, off + 1, Len(log)) \in Seq(S)
          /\ Len(SubSeq(log, off + 1, Len(log))) =
               IF off + 1 <= Len(log) THEN Len(log) - (off + 1) + 1 ELSE 0
          /\ \A i \in 1..Len(log) - (off + 1) + 1 :
               SubSeq(log, off + 1, Len(log))[i] = log[off + 1 + i - 1]
      BY <1>1, <2>1, <3>1, SubSeqProperties
    <3>3. QED BY <1>1, <1>3, <2>2, <3>2
  <2>4. Len(Retain(log)) = Len(log) - off
    BY <1>1, <2>3
  <2>5. QED BY <1>1, <2>1, <2>3, <2>4
<1>4. QED BY <1>1, <1>2, <1>3

(* The five invariants prove each other: why a finish cannot name a job that  *)
(* ended needs the order of the queues, and the order needs the types.        *)
JobInv == TypeOK /\ Bounded /\ FirstComeFirstRun /\ EndsOnce /\ ReceiptsInOrder

LEMMA InitJobInv == Init => JobInv
<1> SUFFICES ASSUME Init PROVE JobInv
  OBVIOUS
<1>1. TypeOK
  BY LimitsAssumption DEF Init, TypeOK
<1>2. Bounded
  BY LimitsAssumption DEF Init, Bounded
<1>3. FirstComeFirstRun
  BY DEF Init, FirstComeFirstRun, RunsItsOwn, QueuesItsOwn
<1>4. EndsOnce /\ ReceiptsInOrder
  BY DEF Init, EndsOnce, ReceiptsOfIssued, ReceiptsInOrder
<1>5. QED BY <1>1, <1>2, <1>3, <1>4 DEF JobInv

LEMMA EnqueueJobInv == ASSUME JobInv, NEW t \in Threads, Enqueue(t)
                       PROVE  JobInv'
<1> DEFINE job == [id |-> Len(issued) + 1, created |-> nextSequence]
<1> USE DEF JobInv
<1>1. /\ job \in Job /\ Len(issued) \in Nat
      /\ nextSequence' \in 1..MaxSequence
      /\ nextSequence' >= nextSequence
      /\ UNCHANGED <<running, receipts>>
  BY LimitsAssumption, LenProperties DEF Enqueue, TypeOK, Job, TakeSequence
<1>2. /\ issued' \in Seq(Threads) /\ Len(issued') = Len(issued) + 1
      /\ \A i \in 1..Len(issued) : issued'[i] = issued[i]
      /\ issued'[Len(issued) + 1] = t
  BY AppendProperties DEF Enqueue, TypeOK
<1>3. /\ queued[t] \in Seq(Job) /\ Len(queued[t]) \in Nat
      /\ queued' = [queued EXCEPT ![t] = Append(queued[t], job)]
      /\ Append(queued[t], job) \in Seq(Job)
      /\ Len(Append(queued[t], job)) = Len(queued[t]) + 1
      /\ \A i \in 1..Len(queued[t]) : Append(queued[t], job)[i] = queued[t][i]
      /\ Append(queued[t], job)[Len(queued[t]) + 1] = job
  BY <1>1, AppendProperties, LenProperties DEF Enqueue, TypeOK
<1>4. /\ Len(queued'[t]) = Len(queued[t]) + 1
      /\ \A i \in 1..Len(queued[t]) : queued'[t][i] = queued[t][i]
      /\ queued'[t][Len(queued[t]) + 1].id = Len(issued) + 1
      /\ \A u \in Threads \ {t} : queued'[u] = queued[u]
  BY <1>3 DEF TypeOK
<1>5. TypeOK'
  BY <1>1, <1>2, <1>3 DEF TypeOK
<1>6. Bounded'
  BY <1>1, <1>3, <1>4, LimitsAssumption DEF Bounded, Enqueue, TypeOK
<1>7. FirstComeFirstRun'
  <2>1. \A u \in Threads : running[u].id < Len(issued) + 1
    <3> SUFFICES ASSUME NEW u \in Threads PROVE running[u].id < Len(issued) + 1
      OBVIOUS
    <3>1. CASE running[u] = NoJob
      BY <1>1, <3>1 DEF NoJob
    <3>2. CASE running[u] # NoJob
      BY <1>1, <3>2 DEF FirstComeFirstRun, RunsItsOwn
    <3>3. QED BY <3>1, <3>2
  <2>2. RunsItsOwn'
    BY <1>1, <1>2 DEF FirstComeFirstRun, RunsItsOwn
  <2>3. ASSUME NEW u \in Threads, NEW i \in 1..Len(queued'[u])
        PROVE  /\ queued'[u][i].id \in 1..Len(issued') /\ issued'[queued'[u][i].id] = u
               /\ running'[u].id < queued'[u][i].id
               /\ \A k \in 1..Len(queued'[u]) : i < k => queued'[u][i].id < queued'[u][k].id
    <3>1. CASE u # t
      <4>1. queued'[u] = queued[u]
        BY <1>4, <3>1
      <4>2. /\ queued[u][i].id \in 1..Len(issued) /\ issued[queued[u][i].id] = u
            /\ running[u].id < queued[u][i].id
            /\ \A k \in 1..Len(queued[u]) : i < k => queued[u][i].id < queued[u][k].id
        BY <2>3, <4>1 DEF FirstComeFirstRun, QueuesItsOwn
      <4>3. QED BY SMTT(30), <1>1, <1>2, <4>1, <4>2
    <3>2. CASE u = t /\ i \in 1..Len(queued[t])
      <4>1. /\ queued[t][i].id \in 1..Len(issued) /\ issued[queued[t][i].id] = t
            /\ running[t].id < queued[t][i].id
            /\ \A k \in 1..Len(queued[t]) : i < k => queued[t][i].id < queued[t][k].id
        BY <3>2 DEF FirstComeFirstRun, QueuesItsOwn
      <4>2. queued'[t][i].id < Len(issued) + 1 /\ queued'[t][i] = queued[t][i]
        BY SMTT(30), <1>1, <1>4, <3>2, <4>1
      <4>3. \A k \in 1..Len(queued'[t]) : i < k => queued'[t][i].id < queued'[t][k].id
        BY SMTT(30), <1>1, <1>3, <1>4, <4>1, <4>2
      <4>4. QED BY SMTT(30), <1>1, <1>2, <3>2, <4>1, <4>2, <4>3
    <3>3. CASE u = t /\ i = Len(queued[t]) + 1
      BY <1>1, <1>2, <1>3, <1>4, <2>1, <3>3
    <3>4. QED BY SMTT(30), <1>3, <1>4, <2>3, <3>1, <3>2, <3>3
  <2>4. QED BY <2>2, <2>3 DEF FirstComeFirstRun, QueuesItsOwn
<1>8. EndsOnce'
  <2>1. ReceiptsOfIssued'
    BY <1>1, <1>2 DEF EndsOnce, ReceiptsOfIssued
  <2>2. \A i, k \in 1..Len(receipts') : i < k => receipts'[i].job # receipts'[k].job
    BY <1>1 DEF EndsOnce
  <2>3. ASSUME NEW u \in Threads, NEW i \in 1..Len(receipts), receipts[i].thread = u
        PROVE  /\ running[u].id # receipts[i].job
               /\ \A k \in 1..Len(queued'[u]) : receipts[i].job < queued'[u][k].id
    <3>1. /\ running[u].id # receipts[i].job
          /\ receipts[i].job \in 1..Len(issued)
          /\ \A k \in 1..Len(queued[u]) : receipts[i].job < queued[u][k].id
      BY <2>3 DEF EndsOnce, ReceiptsOfIssued
    <3>2. CASE u = t
      BY <1>1, <1>3, <1>4, <3>1, <3>2
    <3>3. CASE u # t
      BY <1>4, <3>1, <3>3
    <3>4. QED BY <3>2, <3>3
  <2>4. QED BY <1>1, <2>1, <2>2, <2>3 DEF EndsOnce
<1>9. ReceiptsInOrder'
  <2>1. \A i \in 1..Len(receipts) : receipts[i] \in Receipt
    BY ElementOfSeq DEF TypeOK
  <2>2. QED
    BY SMTT(30), <1>1, <2>1, LimitsAssumption DEF ReceiptsInOrder, TypeOK, Receipt
<1>10. QED BY <1>5, <1>6, <1>7, <1>8, <1>9

LEMMA StartNextJobInv == ASSUME JobInv, NEW t \in Threads, StartNext(t)
                         PROVE  JobInv'
<1> USE DEF JobInv
<1>1. UNCHANGED <<receipts, nextSequence, issued>>
  BY DEF StartNext
<1>2. /\ queued[t] \in Seq(Job) /\ queued[t] # <<>> /\ Len(queued[t]) \in Nat
      /\ Head(queued[t]) = queued[t][1] /\ 1 \in 1..Len(queued[t])
      /\ Head(queued[t]) \in Job
      /\ Tail(queued[t]) \in Seq(Job)
      /\ Len(Tail(queued[t])) = Len(queued[t]) - 1
      /\ \A i \in 1..Len(Tail(queued[t])) : Tail(queued[t])[i] = queued[t][i + 1]
  BY HeadTailProperties, LenProperties, EmptySeq DEF StartNext, TypeOK
<1>3. /\ queued' = [queued EXCEPT ![t] = Tail(queued[t])]
      /\ running' = [running EXCEPT ![t] = queued[t][1]]
  BY <1>2 DEF StartNext
<1>4. /\ Len(queued'[t]) = Len(queued[t]) - 1
      /\ \A i \in 1..Len(queued'[t]) : i + 1 \in 1..Len(queued[t]) /\ queued'[t][i] = queued[t][i + 1]
      /\ running'[t] = queued[t][1]
      /\ \A u \in Threads \ {t} : queued'[u] = queued[u] /\ running'[u] = running[u]
  BY <1>2, <1>3 DEF TypeOK
<1>5. TypeOK'
  BY <1>1, <1>2, <1>3 DEF TypeOK
<1>6. Bounded'
  BY <1>1, <1>2, <1>4, LimitsAssumption DEF Bounded
<1>7. FirstComeFirstRun'
  <2>1. RunsItsOwn'
    BY <1>1, <1>2, <1>4 DEF FirstComeFirstRun, RunsItsOwn, QueuesItsOwn
  <2>2. ASSUME NEW u \in Threads, NEW i \in 1..Len(queued'[u])
        PROVE  /\ queued'[u][i].id \in 1..Len(issued) /\ issued[queued'[u][i].id] = u
               /\ running'[u].id < queued'[u][i].id
               /\ \A k \in 1..Len(queued'[u]) : i < k => queued'[u][i].id < queued'[u][k].id
    <3>1. CASE u # t
      BY <1>4, <3>1, <2>2 DEF FirstComeFirstRun, QueuesItsOwn
    <3>2. CASE u = t
      <4>1. i + 1 \in 1..Len(queued[t]) /\ 1 < i + 1 /\ queued'[t][i] = queued[t][i + 1]
        BY <1>4, <2>2, <3>2
      <4>2. /\ queued[t][i + 1].id \in 1..Len(issued) /\ issued[queued[t][i + 1].id] = t
            /\ queued[t][1].id < queued[t][i + 1].id
            /\ \A k \in 1..Len(queued[t]) : i + 1 < k => queued[t][i + 1].id < queued[t][k].id
        BY <1>2, <4>1 DEF FirstComeFirstRun, QueuesItsOwn
      <4>3. \A k \in 1..Len(queued'[t]) : i < k => queued'[t][i].id < queued'[t][k].id
        <5> SUFFICES ASSUME NEW k \in 1..Len(queued'[t]), i < k
                     PROVE  queued'[t][i].id < queued'[t][k].id
          OBVIOUS
        <5>1. k + 1 \in 1..Len(queued[t]) /\ queued'[t][k] = queued[t][k + 1] /\ i + 1 < k + 1
          BY <1>4, <2>2, <3>2
        <5>2. QED BY <4>1, <4>2, <5>1
      <4>4. QED BY <1>4, <3>2, <4>1, <4>2, <4>3
    <3>3. QED BY <3>1, <3>2
  <2>3. QED BY <1>1, <2>1, <2>2 DEF FirstComeFirstRun, QueuesItsOwn
<1>8. EndsOnce'
  <2>1. ReceiptsOfIssued' /\ \A i, k \in 1..Len(receipts') : i < k => receipts'[i].job # receipts'[k].job
    BY <1>1 DEF EndsOnce, ReceiptsOfIssued
  <2>2. ASSUME NEW u \in Threads, NEW i \in 1..Len(receipts), receipts[i].thread = u
        PROVE  /\ running'[u].id # receipts[i].job
               /\ \A k \in 1..Len(queued'[u]) : receipts[i].job < queued'[u][k].id
    <3>1. /\ running[u].id # receipts[i].job
          /\ receipts[i].job \in 1..Len(issued)
          /\ \A k \in 1..Len(queued[u]) : receipts[i].job < queued[u][k].id
      BY <2>2 DEF EndsOnce, ReceiptsOfIssued
    <3>2. CASE u = t
      <4>1. receipts[i].job < queued[t][1].id
        BY <1>2, <3>1, <3>2
      <4>2. queued[t][1].id \in Nat /\ receipts[i].job \in Nat
        BY SMTT(30), <1>2, <3>1 DEF Job
      <4>3. \A k \in 1..Len(queued'[t]) : receipts[i].job < queued'[t][k].id
        BY <1>4, <3>1, <3>2
      <4>4. QED BY <1>4, <3>2, <4>1, <4>2, <4>3
    <3>3. CASE u # t
      BY <1>4, <3>1, <3>3
    <3>4. QED BY <3>2, <3>3
  <2>3. QED BY <1>1, <2>1, <2>2 DEF EndsOnce
<1>9. ReceiptsInOrder'
  BY <1>1 DEF ReceiptsInOrder
<1>10. QED BY <1>5, <1>6, <1>7, <1>8, <1>9

LEMMA SettleJobInv == ASSUME JobInv, NEW t \in Threads, NEW state \in JobState, Settle(t, state)
                      PROVE  JobInv'
<1> USE DEF JobInv
<1> DEFINE receipt == [job |-> running[t].id, thread |-> t, state |-> state,
                       sequence |-> nextSequence]
           log == Append(receipts, receipt)
           n == Len(receipts)
<1>1. /\ running[t] \in Job /\ running[t] # NoJob
      /\ running[t].id \in 1..Len(issued) /\ issued[running[t].id] = t
      /\ n \in Nat /\ Len(issued) \in Nat
  BY LenProperties DEF Settle, TypeOK, FirstComeFirstRun, RunsItsOwn
<1>2. /\ running' = [running EXCEPT ![t] = NoJob]
      /\ UNCHANGED <<queued, issued>>
      /\ receipts' = Retain(log)
      /\ nextSequence' \in 1..MaxSequence
      /\ nextSequence' > nextSequence \/ nextSequence = MaxSequence
      /\ nextSequence' >= nextSequence
  BY LimitsAssumption DEF Settle, TypeOK, TakeSequence
<1>3. /\ receipt \in Receipt
      /\ log \in Seq(Receipt) /\ Len(log) = n + 1
      /\ \A i \in 1..n : log[i] = receipts[i]
      /\ log[n + 1] = receipt
  BY <1>1, AppendProperties DEF TypeOK, Receipt, Job
<1> HIDE DEF log, receipt
<1>4. PICK off \in Nat : /\ receipts' \in Seq(Receipt) /\ Len(receipts') <= MaxReceipts
                         /\ Len(receipts') = n + 1 - off
                         /\ \A i \in 1..Len(receipts') : receipts'[i] = log[i + off]
  <2>1. /\ Retain(log) \in Seq(Receipt)
        /\ Len(Retain(log)) <= MaxReceipts
        /\ \E off \in Nat : /\ Len(Retain(log)) = Len(log) - off
                            /\ \A i \in 1..Len(Retain(log)) : Retain(log)[i] = log[i + off]
    BY <1>3, RetainSuffix
  <2>2. PICK off \in Nat : /\ Len(Retain(log)) = Len(log) - off
                           /\ \A i \in 1..Len(Retain(log)) : Retain(log)[i] = log[i + off]
    BY <2>1
  <2>3. receipts' = Retain(log) /\ Len(log) = n + 1
    BY <1>2, <1>3
  <2> HIDE DEF JobInv
  <2>4. receipts' \in Seq(Receipt) /\ Len(receipts') <= MaxReceipts
    BY <2>1, <2>3, Zenon
  <2>5. Len(receipts') = Len(log) - off
    BY <2>2, <2>3, Zenon
  <2>6. Len(receipts') = n + 1 - off
    BY <2>5, <2>3
  <2>7. \A i \in 1..Len(receipts') : receipts'[i] = log[i + off]
    BY <2>2, <2>3, Zenon
  <2>8. QED BY <2>4, <2>6, <2>7
<1>5. \A i \in 1..Len(receipts') : i + off \in 1..n + 1 /\ receipts'[i] = log[i + off]
  BY <1>1, <1>4
<1>6. TypeOK'
  BY <1>1, <1>2, <1>4 DEF TypeOK
<1>7. Bounded'
  BY <1>2, <1>4 DEF Bounded
<1>8. FirstComeFirstRun'
  <2>1. \A u \in Threads : running'[u] = running[u] \/ running'[u] = NoJob
    BY <1>2 DEF TypeOK
  <2>2. RunsItsOwn' /\ QueuesItsOwn'
    BY <1>2, <2>1 DEF FirstComeFirstRun, RunsItsOwn, QueuesItsOwn
  <2>3. \A u \in Threads : \A i \in 1..Len(queued[u]) : running'[u].id < queued[u][i].id
    BY <1>2, <2>1 DEF FirstComeFirstRun, QueuesItsOwn, NoJob
  <2>4. QED BY <1>2, <2>2, <2>3 DEF FirstComeFirstRun
(* The same facts about the log before the oldest receipts go.                *)
<1>9. \A i \in 1..n + 1 : log[i].job \in 1..Len(issued) /\ issued[log[i].job] = log[i].thread
  BY <1>1, <1>3 DEF EndsOnce, ReceiptsOfIssued, receipt
<1>10. \A i, k \in 1..n + 1 : i < k => log[i].job # log[k].job
  <2> SUFFICES ASSUME NEW i \in 1..n + 1, NEW k \in 1..n + 1, i < k
               PROVE  log[i].job # log[k].job
    OBVIOUS
  <2>1. i \in 1..n /\ log[i] = receipts[i]
    BY <1>1, <1>3
  <2>2. CASE k \in 1..n
    BY <1>3, <2>1, <2>2 DEF EndsOnce
  <2>3. CASE k = n + 1
    <3>1. log[k].job = running[t].id
      BY <1>3, <2>3 DEF receipt
    <3>2. CASE receipts[i].thread = t
      BY <2>1, <3>1, <3>2 DEF EndsOnce
    <3>3. CASE receipts[i].thread # t
      BY <1>1, <2>1, <3>1, <3>3 DEF EndsOnce, ReceiptsOfIssued
    <3>4. QED BY <3>2, <3>3
  <2>4. QED BY <1>1, <2>2, <2>3
<1>11. \A u \in Threads : \A i \in 1..n + 1 : log[i].thread = u =>
          /\ running'[u].id # log[i].job
          /\ \A k \in 1..Len(queued[u]) : log[i].job < queued[u][k].id
  <2> SUFFICES ASSUME NEW u \in Threads, NEW i \in 1..n + 1, log[i].thread = u
               PROVE  /\ running'[u].id # log[i].job
                      /\ \A k \in 1..Len(queued[u]) : log[i].job < queued[u][k].id
    OBVIOUS
  <2>1. log[i].job # 0
    BY <1>1, <1>9
  <2>2. CASE i \in 1..n
    <3>1. /\ running[u].id # log[i].job
          /\ \A k \in 1..Len(queued[u]) : log[i].job < queued[u][k].id
      BY <1>3, <2>2 DEF EndsOnce
    <3>2. QED BY <1>2, <2>1, <3>1 DEF TypeOK, NoJob
  <2>3. CASE i = n + 1
    <3>1. u = t /\ log[i].job = running[t].id
      BY <1>3, <2>3 DEF receipt
    <3>2. running'[t] = NoJob
      BY <1>2 DEF TypeOK
    <3>3. QED BY <2>1, <3>1, <3>2 DEF FirstComeFirstRun, NoJob
  <2>4. QED BY <1>1, <2>2, <2>3
<1>12. EndsOnce'
  <2>1. ReceiptsOfIssued'
    BY <1>2, <1>5, <1>9 DEF ReceiptsOfIssued
  <2>2. \A i, k \in 1..Len(receipts') : i < k => receipts'[i].job # receipts'[k].job
    <3> SUFFICES ASSUME NEW i \in 1..Len(receipts'), NEW k \in 1..Len(receipts'), i < k
                 PROVE  receipts'[i].job # receipts'[k].job
      OBVIOUS
    <3>1. i + off < k + off
      BY <1>4
    <3>2. QED BY <1>5, <1>10, <3>1
  <2>3. \A u \in Threads : \A i \in 1..Len(receipts') : receipts'[i].thread = u =>
          /\ running'[u].id # receipts'[i].job
          /\ \A k \in 1..Len(queued[u]) : receipts'[i].job < queued[u][k].id
    BY <1>5, <1>11
  <2>4. QED BY <1>2, <2>1, <2>2, <2>3 DEF EndsOnce
<1>13. ReceiptsInOrder'
  <2>1. nextSequence \in Nat /\ MaxSequence \in Nat /\ nextSequence <= MaxSequence
    BY LimitsAssumption DEF TypeOK
  <2>2. \A i \in 1..n + 1 : log[i].sequence \in Nat
    <3>1. \A i \in 1..n + 1 : log[i] \in Receipt
      BY <1>3, ElementOfSeq
    <3>2. QED BY <3>1 DEF Receipt
  <2>3. ASSUME NEW i \in 1..n + 1
        PROVE  /\ log[i].sequence < nextSequence' \/ log[i].sequence = MaxSequence
               /\ i # n + 1 => log[i].sequence < nextSequence \/ log[i].sequence = MaxSequence
    <3>1. CASE i = n + 1
      <4>1. log[i].sequence = nextSequence
        BY <1>3, <3>1 DEF receipt
      <4>2. QED BY <1>2, <2>1, <3>1, <4>1
    <3>2. CASE i \in 1..n
      <4>1. log[i].sequence < nextSequence \/ log[i].sequence = MaxSequence
        BY <1>3, <3>2 DEF ReceiptsInOrder
      <4>2. QED BY <1>2, <2>1, <2>2, <4>1
    <3>3. QED BY <1>1, <3>1, <3>2
  <2>4. ASSUME NEW i \in 1..n + 1, NEW k \in 1..n + 1, i < k
        PROVE  log[i].sequence < log[k].sequence \/ log[i].sequence = MaxSequence
    <3>1. i \in 1..n
      BY <1>1, <2>4
    <3>2. CASE k \in 1..n
      BY <1>3, <2>4, <3>1, <3>2 DEF ReceiptsInOrder
    <3>3. CASE k = n + 1
      <4>1. log[k].sequence = nextSequence
        BY <1>3, <3>3 DEF receipt
      <4>2. QED BY <1>1, <2>3, <3>1, <4>1
    <3>4. QED BY <1>1, <3>2, <3>3
  <2>5. \A i \in 1..Len(receipts') :
          receipts'[i].sequence < nextSequence' \/ receipts'[i].sequence = MaxSequence
    BY <1>5, <2>3
  <2>6. ASSUME NEW i \in 1..Len(receipts'), NEW k \in 1..Len(receipts'), i < k
        PROVE  receipts'[i].sequence < receipts'[k].sequence \/ receipts'[i].sequence = MaxSequence
    <3>1. i + off < k + off
      BY <1>4, <2>6
    <3>2. QED BY <1>5, <2>4, <3>1
  <2>7. QED BY <2>5, <2>6 DEF ReceiptsInOrder
<1>14. QED BY <1>6, <1>7, <1>8, <1>12, <1>13

LEMMA StepJobInv == JobInv /\ [Next]_vars => JobInv'
<1> SUFFICES ASSUME JobInv, [Next]_vars PROVE JobInv'
  OBVIOUS
<1>1. CASE UNCHANGED vars
  BY <1>1 DEF vars, JobInv, TypeOK, Bounded, FirstComeFirstRun, RunsItsOwn, QueuesItsOwn,
              EndsOnce, ReceiptsOfIssued, ReceiptsInOrder
<1>2. "Canceled" \in JobState
  BY DEF JobState
<1>3. QED
  BY <1>1, <1>2, EnqueueJobInv, StartNextJobInv, SettleJobInv
  DEF Next, Finish, CancelRunning

(* jobs.rs: the shape of the store, and every limit, order and exclusion its  *)
(* invariants state, for all limits and all orders of calls.                  *)
THEOREM JobInvariant == Spec => []JobInv
  BY InitJobInv, StepJobInv, PTL DEF Spec

(* The shape of the store, the sequence counter at its maximum included.      *)
THEOREM StoreTypeCorrect == Spec => []TypeOK
<1>1. JobInv => TypeOK
  BY DEF JobInv
<1>2. QED BY JobInvariant, <1>1, PTL

(* No queue and no receipt history outgrows its limit.                        *)
THEOREM StoreBounded == Spec => []Bounded
<1>1. JobInv => Bounded
  BY DEF JobInv
<1>2. QED BY JobInvariant, <1>1, PTL

(* Jobs of a thread run in the order they arrived.                            *)
THEOREM StoreFirstComeFirstRun == Spec => []FirstComeFirstRun
<1>1. JobInv => FirstComeFirstRun
  BY DEF JobInv
<1>2. QED BY JobInvariant, <1>1, PTL

(* A job ends once, a late finish after a cancel included.                    *)
THEOREM StoreEndsOnce == Spec => []EndsOnce
<1>1. JobInv => EndsOnce
  BY DEF JobInv
<1>2. QED BY JobInvariant, <1>1, PTL

(* Receipts stay in sequence order through the saturation of the counter.     *)
THEOREM StoreReceiptsInOrder == Spec => []ReceiptsInOrder
<1>1. JobInv => ReceiptsInOrder
  BY DEF JobInv
<1>2. QED BY JobInvariant, <1>1, PTL

----------------------------------------------------------------------------
(* What becomes of running jobs and of receipts in a step: nothing; or one    *)
(* job ends, its receipt comes last, and the history, when it was full, loses *)
(* its oldest receipt and no other.                                           *)
NothingEnds == /\ UNCHANGED receipts
               /\ \A t \in Threads : running[t] # NoJob => running'[t] = running[t]

Recorded(t, state, off) ==
    /\ running[t] # NoJob /\ running' = [running EXCEPT ![t] = NoJob]
    /\ off = 1 <=> Len(receipts) = MaxReceipts
    /\ Len(receipts') = Len(receipts) + 1 - off
    /\ \A i \in 1..Len(receipts') :
         receipts'[i] = IF i + off <= Len(receipts) THEN receipts[i + off]
                        ELSE [job |-> running[t].id, thread |-> t, state |-> state,
                              sequence |-> nextSequence]

EndsAreRecorded ==
    NothingEnds \/ \E t \in Threads, state \in JobState, off \in {0, 1} : Recorded(t, state, off)

LEMMA SettleRecords == ASSUME JobInv, NEW t \in Threads, NEW state \in JobState, Settle(t, state)
                       PROVE  \E off \in {0, 1} : Recorded(t, state, off)
<1> DEFINE receipt == [job |-> running[t].id, thread |-> t, state |-> state,
                       sequence |-> nextSequence]
           log == Append(receipts, receipt)
           n == Len(receipts)
<1>1. /\ running[t] # NoJob /\ running[t] \in Job /\ running' = [running EXCEPT ![t] = NoJob]
      /\ receipts' = Retain(log) /\ receipt \in Receipt /\ receipts \in Seq(Receipt)
  BY DEF Settle, JobInv, TypeOK, Receipt, Job
<1>2. /\ n \in Nat /\ MaxReceipts \in Nat /\ n <= MaxReceipts
      /\ log \in Seq(Receipt) /\ Len(log) = n + 1
      /\ \A i \in 1..n : log[i] = receipts[i]
      /\ log[n + 1] = receipt
  BY <1>1, LimitsAssumption, LenProperties, AppendProperties DEF JobInv, Bounded
<1> HIDE DEF log, receipt
<1>3. CASE n < MaxReceipts
  <2>1. receipts' = log
    BY <1>1, <1>2, <1>3 DEF Retain
  <2>2. \A i \in 1..Len(receipts') :
          receipts'[i] = IF i + 0 <= n THEN receipts[i + 0] ELSE receipt
    BY <1>2, <2>1
  <2>3. Len(receipts') = n + 1 - 0 /\ (0 = 1 <=> n = MaxReceipts)
    BY <1>2, <1>3, <2>1
  <2>4. Recorded(t, state, 0)
    BY <1>1, <2>2, <2>3 DEF Recorded, receipt
  <2>5. QED BY <2>4
<1>4. CASE n = MaxReceipts
  <2>1. receipts' = SubSeq(log, 2, n + 1)
    BY <1>1, <1>2, <1>4 DEF Retain
  <2>2. \A i \in 2..n + 1 : log[i] \in Receipt
    BY <1>2, ElementOfSeq
  <2>3. /\ Len(receipts') = n
        /\ \A i \in 1..n : receipts'[i] = log[i + 1]
    <3>1. 2 \in 1..n + 1 + 1 /\ n + 1 \in 0..Len(log)
      BY <1>2
    <3>2. /\ Len(SubSeq(log, 2, n + 1)) = IF 2 <= n + 1 THEN n + 1 - 2 + 1 ELSE 0
          /\ \A i \in 1..n + 1 - 2 + 1 : SubSeq(log, 2, n + 1)[i] = log[2 + i - 1]
      BY <1>2, <2>2, <3>1, SubSeqProperties
    <3>3. QED BY <1>2, <2>1, <3>2
  <2>4. \A i \in 1..Len(receipts') :
          receipts'[i] = IF i + 1 <= n THEN receipts[i + 1] ELSE receipt
    BY <1>2, <2>3
  <2>5. Len(receipts') = n + 1 - 1
    BY <1>2, <2>3
  <2>6. Recorded(t, state, 1)
    BY <1>1, <1>4, <2>4, <2>5 DEF Recorded, receipt
  <2>7. QED BY <2>6
<1>5. QED BY <1>2, <1>3, <1>4

(* jobs.rs: no job leaves the running map without a receipt, no receipt is    *)
(* written for anything else, and only a full history forgets, its oldest     *)
(* receipt first: for any limits, a history of none included.                 *)
THEOREM StoreRecordsEnds == Spec => [][EndsAreRecorded]_vars
<1>1. ASSUME JobInv, [Next]_vars PROVE EndsAreRecorded \/ UNCHANGED vars
  <2>1. ASSUME NEW t \in Threads, Enqueue(t) \/ StartNext(t) PROVE NothingEnds
    BY <1>1, <2>1 DEF Enqueue, StartNext, NothingEnds, JobInv, TypeOK
  <2>2. ASSUME NEW t \in Threads, NEW state \in JobState, Settle(t, state) PROVE EndsAreRecorded
    BY <2>2, SettleRecords, <1>1 DEF EndsAreRecorded
  <2>3. "Canceled" \in JobState
    BY DEF JobState
  <2>4. CASE Next
    BY <2>1, <2>2, <2>3, <2>4 DEF Next, Finish, CancelRunning, EndsAreRecorded
  <2>5. QED BY <1>1, <2>4
<1>2. QED BY <1>1, JobInvariant, PTL DEF Spec

----------------------------------------------------------------------------
(* Each call of the store is one step of the lifecycle.                       *)
LEMMA EnqueueArrives == ASSUME JobInv, JobInv', NEW t \in Threads, Enqueue(t)
                        PROVE  Lifecycle!Arrive(t)
<1> USE DEF JobInv
<1> DEFINE job == [id |-> Len(issued) + 1, created |-> nextSequence]
<1>1. /\ issued' = Append(issued, t) /\ Len(issued) \in Nat /\ Len(issued') = Len(issued) + 1
      /\ UNCHANGED running
  BY LenProperties, AppendProperties DEF Enqueue, TypeOK
<1>2. /\ queued[t] \in Seq(Job) /\ Len(queued[t]) \in Nat /\ job \in Job
      /\ queued' = [queued EXCEPT ![t] = Append(queued[t], job)]
  BY <1>1, LenProperties DEF Enqueue, TypeOK, Job
<1>3. /\ Len(queued'[t]) = Len(queued[t]) + 1
      /\ \A i \in 1..Len(queued[t]) : queued'[t][i] = queued[t][i]
      /\ queued'[t][Len(queued[t]) + 1].id = Len(issued) + 1
      /\ \A u \in Threads \ {t} : queued'[u] = queued[u]
  BY <1>2, AppendProperties DEF TypeOK
<1>4. Waiting' = Waiting \cup {Len(issued) + 1}
  <2>1. ASSUME NEW j, j \in Waiting' PROVE j \in Waiting \cup {Len(issued) + 1}
    <3>0. PICK u \in Threads : \E i \in 1..Len(queued'[u]) : queued'[u][i].id = j
      BY <2>1 DEF Waiting
    <3>1. PICK i \in 1..Len(queued'[u]) : queued'[u][i].id = j
      BY <3>0
    <3>2. j \in 1..Len(issued')
      BY <2>1 DEF Waiting
    <3>3. CASE u # t \/ i \in 1..Len(queued[t])
      <4>1. i \in 1..Len(queued[u]) /\ queued[u][i].id = j
        BY <1>3, <3>1, <3>3
      <4>2. j \in 1..Len(issued)
        BY <4>1 DEF FirstComeFirstRun, QueuesItsOwn
      <4>3. QED BY <4>1, <4>2 DEF Waiting
    <3>4. CASE u = t /\ i \notin 1..Len(queued[t])
      <4>1. i = Len(queued[t]) + 1
        BY <1>2, <1>3, <3>1, <3>4
      <4>2. QED BY <1>3, <3>1, <3>4, <4>1
    <3>5. QED BY <3>3, <3>4
  <2>2. ASSUME NEW j \in Waiting PROVE j \in Waiting'
    <3>0. PICK u \in Threads : \E i \in 1..Len(queued[u]) : queued[u][i].id = j
      BY <2>2 DEF Waiting
    <3>1. PICK i \in 1..Len(queued[u]) : queued[u][i].id = j
      BY <3>0
    <3>2. j \in 1..Len(issued')
      BY <1>1, <2>2 DEF Waiting
    <3>3. i \in 1..Len(queued'[u]) /\ queued'[u][i].id = j
      BY <1>2, <1>3, <3>1
    <3>4. QED BY <3>2, <3>3 DEF Waiting
  <2>3. Len(issued) + 1 \in Waiting'
    <3>1. Len(queued[t]) + 1 \in 1..Len(queued'[t]) /\ Len(issued) + 1 \in 1..Len(issued')
      BY <1>1, <1>2, <1>3
    <3>2. QED BY <1>3, <3>1 DEF Waiting
  <2>4. QED BY <2>1, <2>2, <2>3
<1>5. Busy' = Busy
  <2>1. \A u \in Threads : running[u].id \in 1..Len(issued) \/ running[u].id = 0
    BY DEF FirstComeFirstRun, RunsItsOwn, NoJob
  <2>2. QED BY <1>1, <2>1 DEF Busy
<1>6. QED BY <1>1, <1>4, <1>5 DEF Lifecycle!Arrive

LEMMA StartNextStarts == ASSUME JobInv, NEW t \in Threads, StartNext(t)
                         PROVE  \E j \in Lifecycle!Jobs : Lifecycle!Start(j)
<1> USE DEF JobInv
<1> DEFINE j == queued[t][1].id
<1>1. UNCHANGED issued /\ running[t] = NoJob
  BY DEF StartNext
<1>2. /\ queued[t] \in Seq(Job) /\ queued[t] # <<>> /\ Len(queued[t]) \in Nat
      /\ Head(queued[t]) = queued[t][1] /\ 1 \in 1..Len(queued[t])
      /\ Len(Tail(queued[t])) = Len(queued[t]) - 1
      /\ \A i \in 1..Len(Tail(queued[t])) : Tail(queued[t])[i] = queued[t][i + 1]
  BY HeadTailProperties, LenProperties, EmptySeq DEF StartNext, TypeOK
<1>3. /\ Len(queued'[t]) = Len(queued[t]) - 1
      /\ \A i \in 1..Len(queued'[t]) : i + 1 \in 1..Len(queued[t]) /\ queued'[t][i] = queued[t][i + 1]
      /\ running'[t] = queued[t][1]
      /\ \A u \in Threads \ {t} : queued'[u] = queued[u] /\ running'[u] = running[u]
  BY <1>2 DEF StartNext, TypeOK
<1>4. j \in 1..Len(issued) /\ issued[j] = t /\ j \in Waiting
  BY <1>2 DEF FirstComeFirstRun, QueuesItsOwn, Waiting
<1>5. \A k \in Waiting : issued[k] = t => j <= k
  <2> SUFFICES ASSUME NEW k \in Waiting, issued[k] = t PROVE j <= k
    OBVIOUS
  <2>0. PICK u \in Threads : \E i \in 1..Len(queued[u]) : queued[u][i].id = k
    BY DEF Waiting
  <2>1. PICK i \in 1..Len(queued[u]) : queued[u][i].id = k
    BY <2>0
  <2>2. u = t
    BY <2>1 DEF FirstComeFirstRun, QueuesItsOwn
  <2>3. CASE i = 1
    BY <1>4, <2>1, <2>2, <2>3
  <2>4. CASE 1 < i
    <3>1. j < k
      BY <1>2, <2>1, <2>2, <2>4 DEF FirstComeFirstRun
    <3>2. QED BY <1>4, <3>1 DEF Waiting
  <2>5. QED BY <2>1, <2>3, <2>4
<1>6. \A k \in Busy : issued[k] # t
  BY <1>1 DEF Busy, FirstComeFirstRun, RunsItsOwn, NoJob
<1>7. Waiting' = Waiting \ {j}
  <2>1. ASSUME NEW k, k \in Waiting' PROVE k \in Waiting \ {j}
    <3>0. PICK u \in Threads : \E i \in 1..Len(queued'[u]) : queued'[u][i].id = k
      BY <2>1 DEF Waiting
    <3>1. PICK i \in 1..Len(queued'[u]) : queued'[u][i].id = k
      BY <3>0
    <3>2. k \in 1..Len(issued)
      BY <1>1, <2>1 DEF Waiting
    <3>3. CASE u = t
      <4>1. i + 1 \in 1..Len(queued[t]) /\ queued[t][i + 1].id = k /\ 1 < i + 1
        BY <1>3, <3>1, <3>3
      <4>2. j < k
        BY <1>2, <4>1 DEF FirstComeFirstRun
      <4>3. QED BY <1>4, <3>2, <4>1, <4>2 DEF Waiting
    <3>4. CASE u # t
      <4>1. i \in 1..Len(queued[u]) /\ queued[u][i].id = k
        BY <1>3, <3>1, <3>4
      <4>2. issued[k] = u
        BY <4>1 DEF FirstComeFirstRun, QueuesItsOwn
      <4>3. QED BY <1>4, <3>2, <3>4, <4>1, <4>2 DEF Waiting
    <3>5. QED BY <3>3, <3>4
  <2>2. ASSUME NEW k \in Waiting, k # j PROVE k \in Waiting'
    <3>0. PICK u \in Threads : \E i \in 1..Len(queued[u]) : queued[u][i].id = k
      BY <2>2 DEF Waiting
    <3>1. PICK i \in 1..Len(queued[u]) : queued[u][i].id = k
      BY <3>0
    <3>2. k \in 1..Len(issued')
      BY <1>1, <2>2 DEF Waiting
    <3>3. CASE u = t
      <4>1. i # 1
        BY <2>2, <3>1, <3>3
      <4>2. i - 1 \in 1..Len(queued'[t]) /\ queued'[t][i - 1] = queued[t][i]
        BY <1>2, <1>3, <3>1, <3>3, <4>1
      <4>3. QED BY <3>1, <3>2, <3>3, <4>2 DEF Waiting
    <3>4. CASE u # t
      BY <1>3, <3>1, <3>2, <3>4 DEF Waiting
    <3>5. QED BY <3>3, <3>4
  <2>3. QED BY <2>1, <2>2
<1>8. Busy' = Busy \cup {j}
  <2>1. ASSUME NEW k, k \in Busy' PROVE k \in Busy \cup {j}
    BY <1>1, <1>3, <2>1 DEF Busy
  <2>2. ASSUME NEW k \in Busy PROVE k \in Busy'
    <3>1. PICK u \in Threads : running[u].id = k
      BY <2>2 DEF Busy
    <3>2. u # t
      BY <1>1, <2>2, <3>1 DEF Busy, NoJob
    <3>3. QED BY <1>1, <1>3, <2>2, <3>1, <3>2 DEF Busy
  <2>3. j \in Busy'
    BY <1>1, <1>3, <1>4 DEF Busy
  <2>4. QED BY <2>1, <2>2, <2>3
<1>9. Lifecycle!Start(j)
  BY <1>1, <1>4, <1>5, <1>6, <1>7, <1>8 DEF Lifecycle!Start
<1>10. QED BY <1>4, <1>9 DEF Lifecycle!Jobs

LEMMA SettleEnds == ASSUME JobInv, NEW t \in Threads, NEW state \in JobState, Settle(t, state)
                    PROVE  \E j \in Lifecycle!Jobs : Lifecycle!End(j)
<1> USE DEF JobInv
<1> DEFINE j == running[t].id
<1>1. /\ j \in 1..Len(issued) /\ issued[j] = t /\ j \in Busy
      /\ running' = [running EXCEPT ![t] = NoJob]
      /\ UNCHANGED <<queued, issued>>
  BY DEF Settle, FirstComeFirstRun, RunsItsOwn, Busy
<1>2. Waiting' = Waiting
  BY <1>1 DEF Waiting
<1>3. /\ running'[t].id = 0
      /\ \A u \in Threads \ {t} : running'[u] = running[u]
  BY <1>1 DEF TypeOK, NoJob
<1>4. \A u \in Threads \ {t} : running[u].id # j
  BY <1>1 DEF FirstComeFirstRun, RunsItsOwn, NoJob
<1>5. Busy' = Busy \ {j}
  <2>1. ASSUME NEW k, k \in Busy' PROVE k \in Busy \ {j}
    <3>1. PICK u \in Threads : running'[u].id = k
      BY <2>1 DEF Busy
    <3>2. u # t /\ k \in 1..Len(issued)
      BY <1>1, <1>3, <2>1, <3>1 DEF Busy
    <3>3. QED BY <1>3, <1>4, <3>1, <3>2 DEF Busy
  <2>2. ASSUME NEW k \in Busy, k # j PROVE k \in Busy'
    <3>1. PICK u \in Threads : running[u].id = k
      BY <2>2 DEF Busy
    <3>2. u # t
      BY <2>2, <3>1
    <3>3. QED BY <1>1, <1>3, <2>2, <3>1, <3>2 DEF Busy
  <2>3. QED BY <2>1, <2>2
<1>6. Lifecycle!End(j)
  BY <1>1, <1>2, <1>5 DEF Lifecycle!End
<1>7. QED BY <1>1, <1>6 DEF Lifecycle!Jobs

(* The store implements the lifecycle: whatever the calls and their order, a  *)
(* job runs at most once, ends at most once and never overtakes one of its    *)
(* thread; dropping receipts forgets nothing of that.                         *)
THEOREM StoreImplementsLifecycle == Spec => ImplementsLifecycle
<1>1. Init => Lifecycle!Init
  <2> SUFFICES ASSUME Init PROVE Lifecycle!Init
    OBVIOUS
  <2>1. Len(issued) = 0 /\ 1..Len(issued) = {}
    BY DEF Init
  <2>2. QED BY <2>1 DEF Init, Lifecycle!Init, Waiting, Busy
<1>2. JobInv /\ JobInv' /\ [Next]_vars => [Lifecycle!Next]_(Lifecycle!vars)
  <2> SUFFICES ASSUME JobInv, JobInv', [Next]_vars PROVE [Lifecycle!Next]_(Lifecycle!vars)
    OBVIOUS
  <2>1. CASE UNCHANGED vars
    BY <2>1 DEF vars, Lifecycle!vars, Waiting, Busy
  <2>2. ASSUME NEW t \in Threads, Enqueue(t) PROVE Lifecycle!Next
    BY <2>2, EnqueueArrives DEF Lifecycle!Next
  <2>3. ASSUME NEW t \in Threads, StartNext(t) PROVE Lifecycle!Next
    BY <2>3, StartNextStarts DEF Lifecycle!Next
  <2>4. ASSUME NEW t \in Threads, NEW state \in JobState, Settle(t, state) PROVE Lifecycle!Next
    BY <2>4, SettleEnds DEF Lifecycle!Next
  <2>5. "Canceled" \in JobState
    BY DEF JobState
  <2>6. QED BY <2>1, <2>2, <2>3, <2>4, <2>5 DEF Next, Finish, CancelRunning
<1>3. QED
  BY <1>1, <1>2, JobInvariant, PTL DEF Spec, ImplementsLifecycle, Lifecycle!Spec
=============================================================================
