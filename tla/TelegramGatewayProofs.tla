------------------------ MODULE TelegramGatewayProofs ------------------------
(* For any number of updates, any size of a response, any number of crashes.  *)
EXTENDS TelegramGateway, SequenceTheorems, WellFoundedInduction, TLAPS

(* The update u needs no more attention.                                      *)
Dealt(u) == kinds[u] = "text" => times[u] > 0 \/ u \in dropped

(* The one update below the offset that may still need it.                    *)
InHand(u) == pc = "reload" /\ u = current

Types == /\ kinds \in Seq(Kinds) /\ Len(kinds) <= MaxUpdates
         /\ first \in 1..Len(kinds) + 1
         /\ offset \in 0..Len(kinds) + 1
         /\ batch \in Seq(Ids)
         /\ current \in 0..Len(kinds)
         /\ pc \in {"load", "poll", "next", "reload", "reply"}
         /\ failures \in 0..MaxFailures
         /\ crashes \in 0..MaxCrashes
         /\ times \in [Ids -> Nat]
         /\ dropped \subseteq Ids

(* What is fetched and not taken are the updates from the offset on.          *)
BatchInv == /\ pc \in {"load", "poll"} => batch = <<>>
            /\ \A i \in 1..Len(batch) : batch[i] <= Len(kinds) /\ batch[i] = batch[1] + i - 1
            /\ batch # <<>> => \/ batch[1] = offset
                               \/ pc = "next" /\ offset <= first /\ batch[1] = first
            /\ pc \in {"reload", "reply"} => /\ current + 1 = offset /\ current >= 1
                                             /\ kinds[current] = "text"

(* What is below the offset, or forgotten by the server, is dealt with; what  *)
(* this run of the process has yet to take was handled by earlier runs alone. *)
DealtInv == /\ \A u \in Ids : u < first => Dealt(u)
            /\ \A u \in Ids : u < offset => InHand(u) \/ Dealt(u)
            /\ \A u \in Ids : times[u] <= 1 + crashes
            /\ \A u \in Ids : u >= offset \/ InHand(u) => times[u] <= crashes
            /\ \A u \in Ids : times[u] > 0 => u <= Len(kinds)
            /\ \A u, v \in Ids : times[u] > 0 /\ v < u => Dealt(v)

GatewayInv == Types /\ BatchInv /\ DealtInv

LEMMA InitGateway == Init => GatewayInv
<1> SUFFICES ASSUME Init PROVE GatewayInv
  OBVIOUS
<1>1. Types /\ BatchInv
  BY SizesAssumption DEF Init, Types, BatchInv
<1>2. DealtInv
  BY SizesAssumption DEF Init, DealtInv, Ids
<1>3. QED BY <1>1, <1>2 DEF GatewayInv

(* A response is a stretch of ids, from the first one not confirmed on.       *)
LEMMA ResponseIsNext ==
  ASSUME Types
  PROVE  /\ Confirmed \in 1..Len(kinds) + 1 /\ Confirmed >= first /\ Confirmed >= offset
         /\ Response \in Seq(Ids)
         /\ \A i \in 1..Len(Response) : Response[i] = Confirmed + i - 1
                                        /\ Response[i] <= Len(kinds)
<1>1. Len(kinds) \in Nat /\ Len(kinds) <= MaxUpdates
  BY LenProperties DEF Types
<1>2. Confirmed \in 1..Len(kinds) + 1 /\ Confirmed >= first /\ Confirmed >= offset
  BY <1>1 DEF Types, Confirmed
<1> DEFINE n == IF Len(kinds) - Confirmed + 1 < Limit THEN Len(kinds) - Confirmed + 1 ELSE Limit
<1>3. n \in Nat /\ n <= Len(kinds) - Confirmed + 1
  BY <1>1, <1>2, SizesAssumption
<1>4. Response = [i \in 1..n |-> Confirmed + i - 1]
  BY DEF Response
<1> HIDE DEF n
<1>5. \A i \in 1..n : Confirmed + i - 1 \in Ids /\ Confirmed + i - 1 <= Len(kinds)
  BY <1>1, <1>2, <1>3, SizesAssumption DEF Ids
<1>6. Response \in Seq(Ids) /\ Len(Response) = n
  BY <1>3, <1>4, <1>5
<1>7. QED BY <1>2, <1>4, <1>5, <1>6

(* Where nothing but the control and the failure count change, apart from the *)
(* batch and what is confirmed.                                               *)
LEMMA PollKeeps == ASSUME GatewayInv, Poll PROVE GatewayInv'
<1> USE DEF GatewayInv
<1>1. /\ Confirmed \in 1..Len(kinds) + 1 /\ Confirmed >= first /\ Confirmed >= offset
      /\ Response \in Seq(Ids)
      /\ \A i \in 1..Len(Response) : Response[i] = Confirmed + i - 1 /\ Response[i] <= Len(kinds)
  BY ResponseIsNext
<1>2. Types'
  BY <1>1, SizesAssumption DEF Poll, Types, history, RecordSuccess
<1>3. \A i \in 1..Len(Response) : Response[i] = Response[1] + i - 1
  <2>1. SUFFICES ASSUME NEW i \in 1..Len(Response) PROVE Response[i] = Response[1] + i - 1
    OBVIOUS
  <2>2. 1 \in 1..Len(Response) /\ i \in Nat
    BY <1>1, LenProperties
  <2>3. QED BY <1>1, <2>1, <2>2
<1>4. Response # <<>> => Response[1] = Confirmed
  <2>1. Response # <<>> => 1 \in 1..Len(Response)
    BY <1>1, EmptySeq, LenProperties
  <2>2. QED BY <1>1, <2>1
<1>5. BatchInv'
  <2>1. Confirmed = offset \/ (offset <= first /\ Confirmed = first)
    BY DEF Confirmed, Types
  <2>2. QED BY <1>1, <1>3, <1>4, <2>1 DEF Poll, BatchInv, history
<1>6. DealtInv'
  <2>1. \A u \in Ids : u < Confirmed => Dealt(u)
    BY DEF Confirmed, DealtInv, InHand, Poll
  <2>2. QED BY <2>1 DEF Poll, DealtInv, Dealt, InHand, history
<1>7. QED BY <1>2, <1>5, <1>6

LEMMA TakeKeeps == ASSUME GatewayInv, Take PROVE GatewayInv'
<1> USE DEF GatewayInv
<1> DEFINE u == Head(batch)
           rest == Tail(batch)
<1>1. /\ batch # <<>> /\ batch \in Seq(Ids) /\ Len(batch) \in Nat \ {0}
      /\ u = batch[1] /\ u \in Ids /\ u \in 1..Len(kinds) /\ Len(kinds) \in Nat
      /\ kinds[u] \in Kinds
  <2>1. batch # <<>> /\ batch \in Seq(Ids)
    BY DEF Take, Types
  <2>2. Len(batch) \in Nat \ {0} /\ u = batch[1] /\ u \in Ids
    BY <2>1, HeadTailProperties, LenProperties, EmptySeq
  <2>3. u <= Len(kinds) /\ Len(kinds) \in Nat /\ u \in Nat \ {0}
    BY <2>2, LenProperties DEF BatchInv, Types, Ids
  <2>4. QED BY <2>1, <2>2, <2>3, ElementOfSeq DEF Types
<1>2. /\ rest \in Seq(Ids) /\ Len(rest) = Len(batch) - 1
      /\ \A i \in 1..Len(rest) : rest[i] = batch[i + 1]
  BY <1>1, HeadTailProperties
<1>3. /\ offset' = u + 1 /\ batch' = rest /\ pc = "next"
      /\ UNCHANGED <<kinds, first, failures, crashes, times, dropped>>
      /\ \/ kinds[u] = "text" /\ current' = u /\ pc' = "reload"
         \/ kinds[u] # "text" /\ current' = current /\ pc' = pc
  BY DEF Take, server, history
<1> HIDE DEF u, rest
<1>4. offset <= u /\ (u = offset \/ u = first)
  BY SMTT(30), <1>1, <1>3 DEF BatchInv, Types
<1>5. Types'
  <2>1. offset' \in 0..Len(kinds) + 1 /\ current' \in 0..Len(kinds)
    BY SMTT(30), <1>1, <1>3 DEF Types
  <2>2. batch' \in Seq(Ids) /\ pc' \in {"load", "poll", "next", "reload", "reply"}
    BY <1>2, <1>3
  <2>3. QED BY <1>3, <2>1, <2>2 DEF Types
<1>6. BatchInv'
  <2>1. \A i \in 1..Len(rest) : i + 1 \in 1..Len(batch)
    BY <1>1, <1>2
  <2>2. \A i \in 1..Len(rest) : rest[i] <= Len(kinds) /\ rest[i] = u + i
    BY <1>1, <1>2, <2>1 DEF BatchInv, Ids
  <2>3. rest # <<>> => rest[1] = u + 1
    BY <1>1, <1>2, <2>2, EmptySeq, LenProperties
  <2>4. \A i \in 1..Len(rest) : rest[i] = rest[1] + i - 1
    <3>1. SUFFICES ASSUME NEW i \in 1..Len(rest)
                   PROVE  rest[i] = rest[1] + i - 1
      OBVIOUS
    <3>2. 1 \in 1..Len(rest) /\ i \in Nat
      BY <1>1, <1>2
    <3>3. QED BY <1>1, <2>2, <3>1, <3>2 DEF Ids
  <2>5. pc' \in {"next", "reload"}
    BY <1>3
  <2>6. pc' = "reload" => current' + 1 = offset' /\ current' >= 1 /\ kinds'[current'] = "text"
    BY <1>1, <1>3
  <2>7. QED BY <1>3, <2>2, <2>3, <2>4, <2>5, <2>6 DEF BatchInv
<1>7. DealtInv'
  <2>1. \A v \in Ids : v < u => Dealt(v)
    BY <1>1, <1>3, <1>4 DEF DealtInv, InHand, Types, Ids
  <2>2. \A v \in Ids : Dealt(v)' = Dealt(v)
    BY <1>3 DEF Dealt
  <2>3. \A v \in Ids : v < offset' => InHand(v)' \/ Dealt(v)'
    BY <1>1, <1>3, <2>1, <2>2 DEF InHand, Dealt, Ids
  <2>4. \A v \in Ids : v >= offset' \/ InHand(v)' => times'[v] <= crashes'
    <3>1. \A v \in Ids : v >= offset' \/ InHand(v)' => v >= u
      BY <1>1, <1>3 DEF InHand, Ids
    <3>2. \A v \in Ids : v >= u => v >= offset
      BY <1>1, <1>4 DEF Types, Ids
    <3>3. QED BY <1>3, <3>1, <3>2 DEF DealtInv
  <2>5. QED BY <1>3, <2>2, <2>3, <2>4 DEF DealtInv
<1>8. QED BY <1>5, <1>6, <1>7

(* The message being worked on has been sent.                                 *)
LEMMA InHandIsSent ==
  ASSUME GatewayInv, pc \in {"reload", "reply"}
  PROVE  /\ current \in Ids /\ current \in 1..Len(kinds) /\ current + 1 = offset
         /\ Len(kinds) \in Nat
<1>1. Len(kinds) \in Nat /\ Len(kinds) <= MaxUpdates
  BY LenProperties DEF GatewayInv, Types
<1>2. current \in 0..Len(kinds) /\ current + 1 = offset /\ current >= 1
  BY DEF GatewayInv, Types, BatchInv
<1>3. QED BY <1>1, <1>2, SizesAssumption DEF Ids

LEMMA HandleKeeps == ASSUME GatewayInv, Handle PROVE GatewayInv'
<1> USE DEF GatewayInv
<1>1. /\ pc = "reload" /\ pc' = "reply"
      /\ times' = [times EXCEPT ![current] = times[current] + 1]
      /\ UNCHANGED <<kinds, first, offset, batch, current, failures, crashes, dropped>>
      /\ current \in Ids /\ current \in 1..Len(kinds) /\ current + 1 = offset
      /\ times \in [Ids -> Nat] /\ crashes \in Nat
  <2>1. /\ pc = "reload" /\ pc' = "reply"
        /\ times' = [times EXCEPT ![current] = times[current] + 1]
        /\ UNCHANGED <<kinds, first, offset, batch, current, failures, crashes, dropped>>
    BY DEF Handle, server
  <2>2. /\ current \in Ids /\ current \in 1..Len(kinds) /\ current + 1 = offset
        /\ times \in [Ids -> Nat] /\ crashes \in Nat
    BY <2>1, InHandIsSent, SizesAssumption DEF Types
  <2>3. QED BY <2>1, <2>2
<1>2. /\ \A u \in Ids : times[u] \in Nat
      /\ times'[current] = times[current] + 1
      /\ \A u \in Ids : u # current => times'[u] = times[u]
      /\ times[current] <= crashes
  BY <1>1 DEF DealtInv, InHand
<1>3. \A u \in Ids : (Dealt(u) => Dealt(u)') /\ (u = current => Dealt(u)')
  BY <1>1, <1>2 DEF Dealt
<1>4. Types' /\ BatchInv'
  BY SMTT(30), <1>1 DEF Types, BatchInv
<1>5. \A u \in Ids : u < offset => Dealt(u)'
  BY <1>1, <1>3 DEF DealtInv, InHand
<1>6. \A u, v \in Ids : times'[u] > 0 /\ v < u => Dealt(v)'
  <2>1. ASSUME NEW u \in Ids, NEW v \in Ids, times'[u] > 0, v < u PROVE Dealt(v)'
    <3>1. CASE u = current
      BY <1>1, <1>5, <2>1, <3>1 DEF Ids
    <3>2. CASE u # current
      BY <1>2, <1>3, <2>1, <3>2 DEF DealtInv
    <3>3. QED BY <3>1, <3>2
  <2>2. QED BY <2>1
<1>7. \A u \in Ids : times'[u] <= 1 + crashes /\ (u >= offset => times'[u] <= crashes)
  BY <1>1, <1>2 DEF DealtInv, Ids
<1>8. \A u \in Ids : times'[u] > 0 => u <= Len(kinds)
  BY <1>1, <1>2 DEF DealtInv
<1>9. DealtInv'
  BY <1>1, <1>3, <1>5, <1>6, <1>7, <1>8 DEF DealtInv, InHand
<1>10. QED BY <1>4, <1>9

LEMMA SendKeeps == ASSUME GatewayInv, NEW kind \in Kinds, Send(kind) PROVE GatewayInv'
<1> USE DEF GatewayInv
<1>1. /\ kinds' \in Seq(Kinds) /\ Len(kinds') = Len(kinds) + 1 /\ Len(kinds) \in Nat
      /\ \A i \in 1..Len(kinds) : kinds'[i] = kinds[i]
      /\ Len(kinds) < MaxUpdates
      /\ UNCHANGED <<first, offset, batch, current, pc, failures, crashes, times, dropped>>
  BY AppendProperties, LenProperties DEF Send, Types, history
<1>2. Types'
  <2>1. Len(kinds') <= MaxUpdates
    BY <1>1, SizesAssumption
  <2>2. /\ first' \in 1..Len(kinds') + 1 /\ offset' \in 0..Len(kinds') + 1
        /\ current' \in 0..Len(kinds')
    BY <1>1 DEF Types
  <2>3. QED BY <1>1, <2>1, <2>2 DEF Types
<1>3. BatchInv'
  <2>1. \A i \in 1..Len(batch) : batch[i] <= Len(kinds')
    BY SMTT(30), <1>1, ElementOfSeq DEF BatchInv, Types, Ids
  <2>2. pc \in {"reload", "reply"} => kinds'[current] = kinds[current]
    BY <1>1 DEF BatchInv, Types
  <2>3. QED BY <1>1, <2>1, <2>2 DEF BatchInv
<1>4. \A u \in Ids : u <= Len(kinds) => Dealt(u)' = Dealt(u)
  BY <1>1 DEF Dealt, Ids
<1>5. DealtInv'
  <2>1. \A u \in Ids : (u < first \/ u < offset \/ times[u] > 0) => u <= Len(kinds)
    BY <1>1 DEF Types, Ids, DealtInv
  <2>2. \A u, v \in Ids : times[u] > 0 /\ v < u => v <= Len(kinds)
    BY <1>1, <2>1 DEF Ids
  <2>3. \A u \in Ids : u < first => Dealt(u)'
    BY <1>4, <2>1 DEF DealtInv
  <2>4. \A u \in Ids : u < offset => InHand(u)' \/ Dealt(u)'
    BY <1>1, <1>4, <2>1 DEF DealtInv, InHand
  <2>5. \A u, v \in Ids : times[u] > 0 /\ v < u => Dealt(v)'
    BY <1>4, <2>2 DEF DealtInv
  <2>6. \A u \in Ids : times[u] > 0 => u <= Len(kinds')
    BY <1>1, <2>1 DEF Ids
  <2>7. QED BY <1>1, <2>3, <2>4, <2>5, <2>6 DEF DealtInv, InHand
<1>6. QED BY <1>2, <1>3, <1>5

LEMMA DropKeeps == ASSUME GatewayInv, Drop PROVE GatewayInv'
<1> USE DEF GatewayInv
<1>1. /\ pc = "reload" /\ pc' = "next" /\ dropped' = dropped \cup {current}
      /\ UNCHANGED <<kinds, first, offset, batch, current, failures, crashes, times>>
      /\ current \in Ids /\ current + 1 = offset /\ Len(kinds) \in Nat
  <2>1. /\ pc = "reload" /\ pc' = "next" /\ dropped' = dropped \cup {current}
        /\ UNCHANGED <<kinds, first, offset, batch, current, failures, crashes, times>>
    BY DEF Drop, server
  <2>2. current \in Ids /\ current + 1 = offset /\ Len(kinds) \in Nat
    BY <2>1, InHandIsSent
  <2>3. QED BY <2>1, <2>2
<1>2. \A u \in Ids : (Dealt(u) => Dealt(u)') /\ (u = current => Dealt(u)')
  BY <1>1 DEF Dealt
<1>3. Types' /\ BatchInv'
  BY <1>1 DEF Types, BatchInv
<1>4. DealtInv'
  BY <1>1, <1>2 DEF DealtInv, InHand
<1>5. QED BY <1>3, <1>4

LEMMA CrashKeeps == ASSUME GatewayInv, Crash PROVE GatewayInv'
<1> USE DEF GatewayInv
<1>1. /\ crashes' = crashes + 1 /\ crashes \in Nat /\ crashes < MaxCrashes
      /\ offset' = 0 /\ batch' = <<>> /\ current' = 0 /\ pc' = "load" /\ failures' = 0
      /\ UNCHANGED <<kinds, first, times, dropped>>
      /\ times \in [Ids -> Nat]
  BY SizesAssumption DEF Crash, Types, server, history
<1>2. Types'
  BY <1>1, SizesAssumption, LenProperties DEF Types
<1>3. BatchInv'
  BY <1>1 DEF BatchInv
<1>4. DealtInv'
  BY <1>1 DEF DealtInv, Dealt, InHand, Ids
<1>5. QED BY <1>2, <1>3, <1>4

(* The steps that change only the control, the failure count and what a lost  *)
(* request confirmed.                                                         *)
LEMMA ControlKeeps ==
  ASSUME GatewayInv, NotReady \/ Ready \/ PollFails \/ BatchEnds \/ Reply \/ UNCHANGED vars
  PROVE  GatewayInv'
<1> USE DEF GatewayInv
<1>1. /\ UNCHANGED <<kinds, offset, batch, current, crashes, times, dropped>>
      /\ failures' \in 0..MaxFailures
      /\ first' = first \/ (pc = "poll" /\ first' = Confirmed)
      /\ pc # "reload" \/ pc' = "reload"
      /\ pc' \in {"load", "poll", "next", "reload", "reply"}
      /\ pc' \in {"load", "poll"} => batch = <<>>
      /\ pc' \in {"reload", "reply"} => pc \in {"reload", "reply"}
      /\ pc' = "reload" => pc = "reload"
      /\ pc = "next" => batch = <<>> \/ (pc' = "next" /\ first' = first)
  BY SMTT(30), SizesAssumption DEF Types, BatchInv, NotReady, Ready, PollFails, BatchEnds, Reply, vars,
     server, history, RecordFailure
<1>2. first' \in 1..Len(kinds) + 1 /\ \A u \in Ids : u < first' => Dealt(u)
  BY <1>1, ResponseIsNext DEF Types, DealtInv, Confirmed, InHand
<1>3. Types'
  BY <1>1, <1>2 DEF Types
<1>4. BatchInv'
  BY <1>1 DEF BatchInv
<1>5. DealtInv'
  BY <1>1, <1>2 DEF DealtInv, Dealt, InHand
<1>6. QED BY <1>3, <1>4, <1>5

LEMMA NextGateway == GatewayInv /\ [Next]_vars => GatewayInv'
BY PollKeeps, TakeKeeps, HandleKeeps, DropKeeps, SendKeeps, CrashKeeps, ControlKeeps
   DEF Next, Gateway

LEMMA GatewayInvariant == Spec => []GatewayInv
BY InitGateway, NextGateway, PTL DEF Spec

(* The shape of the gateway's state and the server's; the count of failures   *)
(* saturates.                                                                 *)
THEOREM GatewayTypeCorrect == Spec => []TypeOK
<1>1. GatewayInv => TypeOK
  <2> SUFFICES ASSUME GatewayInv PROVE TypeOK
    OBVIOUS
  <2>1. Len(kinds) \in Nat /\ Len(kinds) <= MaxUpdates /\ MaxUpdates \in Nat
    BY LenProperties, SizesAssumption DEF GatewayInv, Types
  <2>2. /\ first \in 1..MaxUpdates + 1 /\ offset \in 0..MaxUpdates + 1
        /\ current \in Ids \cup {0}
    BY <2>1 DEF GatewayInv, Types, Ids
  <2>3. QED BY <2>1, <2>2 DEF GatewayInv, Types, TypeOK
<1>2. QED BY GatewayInvariant, <1>1, PTL

(* run_gateway handles a message at most once per run of the process.         *)
THEOREM GatewayHandlesOnce == Spec => []HandledOncePerRun
<1>1. GatewayInv => HandledOncePerRun
  BY DEF GatewayInv, DealtInv, HandledOncePerRun
<1>2. QED BY <1>1, GatewayInvariant, PTL

(* The server forgets no message the gateway did not deal with.               *)
THEOREM GatewayForgetsNothing == Spec => []NothingForgotten
<1>1. GatewayInv => NothingForgotten
  <2>1. ASSUME GatewayInv, NEW u \in 1..first - 1 PROVE Dealt(u)
    BY <2>1, LenProperties, SizesAssumption DEF GatewayInv, Types, DealtInv, Ids
  <2>2. QED BY <2>1 DEF NothingForgotten, Dealt
<1>2. QED BY <1>1, GatewayInvariant, PTL

(* Messages are dealt with in the order they were sent.                       *)
THEOREM GatewayInOrder == Spec => []InOrder
<1>1. GatewayInv => InOrder
  <2>1. ASSUME GatewayInv, NEW u \in Ids, times[u] > 0, NEW v \in 1..u - 1 PROVE Dealt(v)
    BY <2>1, SizesAssumption DEF GatewayInv, DealtInv, Ids
  <2>2. QED BY <2>1 DEF InOrder, Dealt
<1>2. QED BY <1>1, GatewayInvariant, PTL

----------------------------------------------------------------------------
(* Induction over the naturals, for a set in place of a predicate.            *)
LEMMA LeastNumber ==
  ASSUME NEW T \in SUBSET Nat, T # {}
  PROVE  \E x \in T : \A y \in T : x <= y
<1>1. PICK x \in T : \A y \in T : <<y, x>> \notin OpToRel(<, Nat)
  BY NatLessThanWellFounded, WFMin, ZenonT(60)
<1>2. \A y \in T : ~(y < x)
  BY <1>1, ZenonT(60) DEF OpToRel
<1>3. QED BY <1>2, SMT

LEMMA SetInduction ==
  ASSUME NEW T, 0 \in T, \A n \in Nat : n \in T => n + 1 \in T
  PROVE  Nat \subseteq T
<1> SUFFICES ASSUME Nat \ T # {} PROVE FALSE
  OBVIOUS
<1>1. PICK x \in Nat \ T : \A y \in Nat \ T : x <= y
  BY LeastNumber
<1>2. x - 1 \in Nat /\ x - 1 \notin Nat \ T
  BY <1>1
<1>3. QED BY <1>1, <1>2

(* What `1 << k` is: numbers that double from 1 on exist and are unique, so    *)
(* Shift is the function of them.                                              *)
Doubles(g, n) == g[0] = 1 /\ \A k \in Nat : k < n => g[k + 1] = 2 * g[k]

LEMMA SomeDouble == \A n \in Nat : \E g \in [Nat -> Nat \ {0}] : Doubles(g, n)
<1> DEFINE Some == {n \in Nat : \E g \in [Nat -> Nat \ {0}] : Doubles(g, n)}
<1>1. 0 \in Some
  <2>1. [k \in Nat |-> 1] \in [Nat -> Nat \ {0}] /\ Doubles([k \in Nat |-> 1], 0)
    BY DEF Doubles
  <2>2. QED BY <2>1
<1>2. ASSUME NEW n \in Nat, n \in Some PROVE n + 1 \in Some
  <2>1. PICK g \in [Nat -> Nat \ {0}] : Doubles(g, n)
    BY <1>2
  <2> DEFINE h == [k \in Nat |-> IF k = n + 1 THEN 2 * g[n] ELSE g[k]]
  <2>2. h \in [Nat -> Nat \ {0}]
    <3>1. \A k \in Nat : g[k] \in Nat \ {0}
      OBVIOUS
    <3>2. 2 * g[n] \in Nat \ {0}
      BY <3>1
    <3>3. QED BY <3>1, <3>2
  <2>3. Doubles(h, n + 1)
    <3>1. h[0] = 1
      BY <2>1 DEF Doubles
    <3>2. ASSUME NEW k \in Nat, k < n + 1 PROVE h[k + 1] = 2 * h[k]
      <4>1. CASE k = n
        BY <4>1
      <4>2. CASE k < n
        BY <2>1, <4>2 DEF Doubles
      <4>3. QED BY <3>2, <4>1, <4>2
    <3> HIDE DEF h
    <3>3. QED BY <3>1, <3>2 DEF Doubles
  <2> HIDE DEF h
  <2>4. QED BY <2>2, <2>3
<1> HIDE DEF Some
<1>3. Nat \subseteq Some
  BY <1>1, <1>2, SetInduction
<1>4. QED BY <1>3 DEF Some

LEMMA OneDoubles ==
  ASSUME NEW g, NEW h, NEW m \in Nat, Doubles(g, m), Doubles(h, m)
  PROVE  \A n \in 0..m : g[n] = h[n]
<1> DEFINE Same == {n \in Nat : n <= m => g[n] = h[n]}
<1>1. 0 \in Same
  BY DEF Doubles
<1>2. ASSUME NEW n \in Nat, n \in Same PROVE n + 1 \in Same
  BY <1>2 DEF Doubles
<1> HIDE DEF Same
<1>3. Nat \subseteq Same
  BY <1>1, <1>2, SetInduction
<1>4. QED BY <1>3 DEF Same

LEMMA ShiftDoubles ==
  Shift \in [Nat -> Nat \ {0}] /\ Shift[0] = 1 /\ \A n \in Nat : Shift[n + 1] = 2 * Shift[n]
<1> DEFINE G(n) == CHOOSE g \in [Nat -> Nat \ {0}] : Doubles(g, n)
           f == [n \in Nat |-> G(n)[n]]
<1>1. \A n \in Nat : G(n) \in [Nat -> Nat \ {0}] /\ Doubles(G(n), n)
  BY SomeDouble, ZenonT(60)
<1>2. \A n \in Nat : f[n] = G(n)[n]
  OBVIOUS
<1> HIDE DEF G
<1>3. f \in [Nat -> Nat \ {0}]
  BY <1>1
<1>4. f[0] = 1
  BY <1>1 DEF Doubles
<1> HIDE DEF f
<1>5. ASSUME NEW n \in Nat PROVE f[n + 1] = 2 * f[n]
  <2>1. G(n + 1)[n + 1] = 2 * G(n + 1)[n] /\ Doubles(G(n + 1), n)
    BY <1>1 DEF Doubles
  <2>2. G(n + 1)[n] = G(n)[n]
    BY <1>1, <2>1, OneDoubles
  <2>3. QED BY <1>2, <2>1, <2>2
<1>6. \A n \in Nat : f[n] = IF n = 0 THEN 1 ELSE 2 * f[n - 1]
  <2>1. ASSUME NEW n \in Nat, n # 0 PROVE f[n] = 2 * f[n - 1]
    <3>1. n - 1 \in Nat /\ (n - 1) + 1 = n
      BY <2>1
    <3>2. QED BY <1>5, <3>1
  <2>2. QED BY <1>4, <2>1
<1>7. f = [k \in Nat |-> IF k = 0 THEN 1 ELSE 2 * f[k - 1]]
  BY <1>3, <1>6
<1>8. Shift = [k \in Nat |-> IF k = 0 THEN 1 ELSE 2 * Shift[k - 1]]
  BY <1>7, ZenonT(60) DEF Shift
<1>9. Shift[0] = 1
  BY <1>8
<1>10. ASSUME NEW n \in Nat PROVE Shift[n + 1] = 2 * Shift[n]
  BY <1>8
<1>11. \A n \in Nat : Shift[n] = f[n]
  <2>1. \A n \in Nat : Doubles(Shift, n) /\ Doubles(f, n)
    BY <1>4, <1>5, <1>9, <1>10 DEF Doubles
  <2>2. ASSUME NEW n \in Nat PROVE Shift[n] = f[n]
    BY <2>1, OneDoubles
  <2>3. QED BY <2>2
<1>12. Shift \in [Nat -> Nat \ {0}]
  BY <1>3, <1>8, <1>11
<1>13. QED BY <1>9, <1>10, <1>12

LEMMA DelayDoubles ==
  /\ Delay(1) = Least(InitialDelay, MaxDelay)
  /\ \A n \in Nat \ {0} : /\ Delay(n + 1) = Least(2 * Delay(n), MaxDelay)
                          /\ Delay(n) \in Nat /\ Delay(n) <= Delay(n + 1) /\ Delay(n) <= MaxDelay
                          /\ n > Doublings => Delay(n) = MaxDelay
<1> DEFINE P(k) == InitialDelay * Shift[k]
<1>1. \A k \in Nat : Shift[k] \in Nat \ {0}
  BY ShiftDoubles
<1>2. \A k \in Nat : P(k) \in Nat \ {0}
  BY <1>1, PolicyAssumption
<1>3. \A k \in Nat : P(k + 1) = 2 * P(k)
  <2>1. ASSUME NEW k \in Nat PROVE P(k + 1) = 2 * P(k)
    <3>1. Shift[k + 1] = 2 * Shift[k]
      BY ShiftDoubles
    <3>2. \A x, y \in Nat : x * (2 * y) = 2 * (x * y)
      OBVIOUS
    <3>3. QED BY <1>1, <3>1, <3>2, PolicyAssumption
  <2>2. QED BY <2>1
<1>4. P(0) = InitialDelay
  BY ShiftDoubles, PolicyAssumption
<1>5. \A n \in Nat \ {0} : Delay(n) = Least(P(Least(n - 1, Doublings)), MaxDelay)
  BY DEF Delay
<1>6. P(Doublings) >= MaxDelay
  BY PolicyAssumption
<1> HIDE DEF P
<1>7. Delay(1) = Least(InitialDelay, MaxDelay)
  BY <1>4, <1>5, PolicyAssumption DEF Least
<1>8. ASSUME NEW n \in Nat \ {0}
      PROVE  /\ Delay(n + 1) = Least(2 * Delay(n), MaxDelay)
             /\ Delay(n) \in Nat /\ Delay(n) <= Delay(n + 1) /\ Delay(n) <= MaxDelay
             /\ n > Doublings => Delay(n) = MaxDelay
  <2>1. CASE n - 1 < Doublings
    <3>1. Delay(n) = Least(P(n - 1), MaxDelay) /\ Delay(n + 1) = Least(P(n), MaxDelay)
      BY <1>5, <2>1, PolicyAssumption DEF Least
    <3>2. P(n) = 2 * P(n - 1) /\ P(n - 1) \in Nat
      <4>1. n - 1 \in Nat /\ (n - 1) + 1 = n
        OBVIOUS
      <4>2. QED BY <1>2, <1>3, <4>1
    <3>3. QED BY <2>1, <3>1, <3>2, PolicyAssumption DEF Least
  <2>2. CASE ~(n - 1 < Doublings)
    <3>1. Delay(n) = Least(P(Doublings), MaxDelay) /\ Delay(n + 1) = Least(P(Doublings), MaxDelay)
      BY <1>5, <2>2, PolicyAssumption DEF Least
    <3>2. QED BY <1>2, <1>6, <2>2, <3>1, PolicyAssumption DEF Least
  <2>3. QED BY <2>1, <2>2
<1>9. QED BY <1>7, <1>8

(* BackoffSupervisor: every failure in a row doubles the delay record_failure  *)
(* gives, up to MaxDelay, for any policy whose last shift is beyond it and any*)
(* number of failures.                                                        *)
THEOREM GatewayBacksOff == Spec => BacksOff
<1>1. GatewayInv /\ [Next]_vars =>
        [failures' > failures =>
           Delay(failures') = Least(IF failures = 0 THEN InitialDelay ELSE 2 * Delay(failures),
                                    MaxDelay)]_failures
  <2> SUFFICES ASSUME GatewayInv, [Next]_vars, failures' > failures
               PROVE  Delay(failures') = Least(IF failures = 0 THEN InitialDelay
                                               ELSE 2 * Delay(failures), MaxDelay)
    OBVIOUS
  <2>1. failures \in Nat
    BY SizesAssumption DEF GatewayInv, Types
  <2>2. failures' \in {0, failures, failures + 1}
    <3>1. RecordFailure => failures' \in {failures, failures + 1}
      BY DEF RecordFailure
    <3>2. QED BY <3>1 DEF Next, Gateway, Ready, NotReady, Poll, PollFails, Take, BatchEnds, Drop,
             Handle, Reply, Crash, Send, vars, RecordSuccess
  <2>3. failures' = failures + 1
    BY <2>1, <2>2
  <2>4. CASE failures = 0
    BY <2>3, <2>4, DelayDoubles
  <2>5. CASE failures # 0
    BY <2>1, <2>3, <2>5, DelayDoubles
  <2>6. QED BY <2>4, <2>5
<1>2. QED BY <1>1, GatewayInvariant, PTL DEF Spec, BacksOff

----------------------------------------------------------------------------
(* The refinement. What the gateway works on or has yet to take, the server   *)
(* has not forgotten: the mapped position is then the update it takes next.   *)
ReaderInv == /\ pc \in {"reload", "reply"} => current >= first
             /\ batch # <<>> => batch[1] >= first

LEMMA NextReader == GatewayInv /\ ReaderInv /\ [Next]_vars => ReaderInv'
<1> SUFFICES ASSUME GatewayInv, ReaderInv, [Next]_vars PROVE ReaderInv'
  OBVIOUS
<1> USE DEF GatewayInv
<1>1. CASE Poll
  <2>1. Response # <<>> => 1 \in 1..Len(Response) /\ Response[1] = Confirmed /\ Confirmed \in Nat
    BY ResponseIsNext, EmptySeq, LenProperties
  <2>2. batch' = Response /\ first' = Confirmed /\ pc' = "next"
    BY <1>1 DEF Poll
  <2>3. QED BY <2>1, <2>2 DEF ReaderInv
<1>2. CASE Take
  <2>1. /\ batch # <<>> /\ batch' = Tail(batch) /\ first' = first
        /\ \/ current' = Head(batch) /\ pc' = "reload"
           \/ pc' = "next"
    BY <1>2 DEF Take, server
  <2>2. /\ Head(batch) = batch[1] /\ batch[1] \in Nat /\ Len(batch) \in Nat \ {0}
        /\ Tail(batch) \in Seq(Ids) /\ Len(Tail(batch)) = Len(batch) - 1
        /\ \A i \in 1..Len(Tail(batch)) : Tail(batch)[i] = batch[i + 1]
    <3>1. batch \in Seq(Ids)
      BY DEF Types
    <3>2. Len(batch) \in Nat \ {0} /\ Head(batch) = batch[1] /\ Head(batch) \in Ids
      BY <2>1, <3>1, HeadTailProperties, EmptySeq, LenProperties
    <3>3. QED BY <2>1, <3>1, <3>2, HeadTailProperties DEF Ids
  <2>3. Tail(batch) # <<>> => Tail(batch)[1] = batch[1] + 1
    <3>1. Tail(batch) # <<>> => 1 \in 1..Len(Tail(batch)) /\ 2 \in 1..Len(batch)
      BY <2>2, EmptySeq, LenProperties
    <3>2. 2 \in 1..Len(batch) => batch[2] = batch[1] + 2 - 1
      BY DEF BatchInv
    <3>3. QED BY <2>2, <3>1, <3>2
  <2>4. batch[1] >= first /\ first \in Nat
    BY <2>1 DEF ReaderInv, Types
  <2>5. QED BY <2>1, <2>2, <2>3, <2>4 DEF ReaderInv
<1>3. CASE PollFails
  BY <1>3 DEF PollFails, BatchInv, ReaderInv
<1>4. CASE Crash
  BY <1>4 DEF Crash, ReaderInv
<1>5. CASE \E kind \in Kinds : Send(kind)
  BY <1>5 DEF Send, ReaderInv
<1>6. CASE NotReady \/ Ready \/ BatchEnds \/ Drop \/ Handle \/ Reply \/ UNCHANGED vars
  BY <1>6 DEF NotReady, Ready, BatchEnds, Drop, Handle, Reply, vars, server, history, ReaderInv
<1>7. QED BY <1>1, <1>2, <1>3, <1>4, <1>5, <1>6 DEF Next, Gateway

LEMMA ReaderInvariant == Spec => []ReaderInv
<1>1. Init => ReaderInv
  BY DEF Init, ReaderInv
<1>2. QED BY <1>1, NextReader, GatewayInvariant, PTL DEF Spec

(* Taking an update without text is going past it; one with text stays where  *)
(* it is until it is handled or dropped.                                      *)
LEMMA TakeIsSkip ==
  ASSUME GatewayInv, ReaderInv, Take
  PROVE  Reader!Skip \/ UNCHANGED Reader!vars
<1> USE DEF GatewayInv
<1> DEFINE u == Head(batch)
<1>1. /\ pc = "next" /\ batch # <<>> /\ offset' = u + 1
      /\ UNCHANGED <<kinds, first, times, dropped>>
      /\ \/ kinds[u] = "text" /\ current' = u /\ pc' = "reload"
         \/ kinds[u] # "text" /\ pc' = "next"
  BY DEF Take, server, history
<1>2. u = batch[1] /\ 1 \in 1..Len(batch)
  BY <1>1, HeadTailProperties, EmptySeq, LenProperties DEF Types
<1>3. u >= first /\ u <= Len(kinds) /\ u \in Nat /\ first \in Nat /\ offset \in Nat /\ Len(kinds) \in Nat
  <2>1. u \in Ids
    BY <1>1, <1>2, ElementOfSeq DEF Types
  <2>2. QED BY <1>1, <1>2, <2>1, LenProperties DEF Types, BatchInv, ReaderInv, Ids
<1> HIDE DEF u
<1>4. u = Confirmed
  BY <1>1, <1>2, <1>3 DEF BatchInv, Confirmed
<1>5. Position = u
  BY <1>1, <1>4 DEF Position
<1>6. CASE kinds[u] = "text"
  <2>1. Position' = u
    BY <1>1, <1>6 DEF Position
  <2>2. QED BY <1>1, <1>5, <2>1 DEF Reader!vars
<1>7. CASE kinds[u] # "text"
  <2>1. Position' = u + 1
    BY <1>1, <1>3, <1>7 DEF Position, Confirmed
  <2>2. QED BY <1>1, <1>3, <1>5, <1>7, <2>1 DEF Reader!Skip
<1>8. QED BY <1>6, <1>7

LEMMA WorkIsSettle ==
  ASSUME GatewayInv, ReaderInv, Handle \/ Drop
  PROVE  Reader!Settle
<1>1. /\ pc = "reload" /\ pc' \in {"reply", "next"}
      /\ \/ times' = [times EXCEPT ![current] = @ + 1] /\ dropped' = dropped
         \/ dropped' = dropped \cup {current} /\ times' = times
      /\ UNCHANGED <<kinds, first, offset>>
  BY DEF Handle, Drop, server
<1>2. current \in 1..Len(kinds) /\ current + 1 = offset /\ Len(kinds) \in Nat
  BY <1>1, InHandIsSent
<1>3. kinds[current] = "text" /\ current >= first /\ first \in Nat
  BY <1>1, <1>2 DEF GatewayInv, Types, BatchInv, ReaderInv
<1>4. Position = current
  BY <1>1 DEF Position
<1>5. Position' = current + 1
  BY <1>1, <1>2, <1>3 DEF Position, Confirmed
<1>6. QED BY <1>1, <1>2, <1>3, <1>4, <1>5 DEF Reader!Settle

(* A request that reaches the server confirms what the reader went past.      *)
LEMMA PollIsConfirm ==
  ASSUME GatewayInv, Poll \/ PollFails
  PROVE  Reader!Confirm \/ UNCHANGED Reader!vars
<1>1. /\ pc = "poll" /\ pc' \in {"next", "load"} /\ first' \in {first, Confirmed}
      /\ UNCHANGED <<kinds, offset, times, dropped>>
  BY DEF Poll, PollFails, history
<1>2. first \in Nat /\ offset \in Nat
  BY DEF GatewayInv, Types
<1>3. Position = Confirmed
  BY <1>1 DEF Position
<1>4. Position' = Confirmed
  BY <1>1, <1>2 DEF Position, Confirmed
<1>5. CASE first' = Confirmed
  BY <1>1, <1>3, <1>4, <1>5 DEF Reader!Confirm
<1>6. CASE first' = first
  BY <1>1, <1>3, <1>4, <1>6 DEF Reader!vars
<1>7. QED BY <1>1, <1>5, <1>6

LEMMA CrashIsRestart == ASSUME GatewayInv, Crash PROVE Reader!Restart
<1>1. pc' = "load" /\ offset' = 0 /\ UNCHANGED <<kinds, first, times, dropped>>
  BY DEF Crash, server, history
<1>2. first \in Nat \ {0}
  BY LenProperties DEF GatewayInv, Types
<1>3. Position' = first
  BY <1>1, <1>2 DEF Position, Confirmed
<1>4. QED BY <1>1, <1>3 DEF Reader!Restart

(* run_gateway with the server implements the abstract delivery, for any      *)
(* number of updates, size of a response, losses and crashes: the log is read *)
(* in order, nothing is passed over unsettled, only what is settled is        *)
(* confirmed, and a restart goes on exactly from there.                       *)
THEOREM GatewayImplementsDelivery == Spec => ImplementsDelivery
<1>1. Init => Reader!Init
  BY DEF Init, Reader!Init, Position, Confirmed
<1>2. GatewayInv /\ ReaderInv /\ [Next]_vars => [Reader!Next]_(Reader!vars)
  <2> SUFFICES ASSUME GatewayInv, ReaderInv, [Next]_vars
               PROVE  Reader!Next \/ UNCHANGED Reader!vars
    OBVIOUS
  <2>1. CASE Take
    BY <2>1, TakeIsSkip DEF Reader!Next
  <2>2. CASE Handle \/ Drop
    BY <2>2, WorkIsSettle DEF Reader!Next
  <2>3. CASE Poll \/ PollFails
    BY <2>3, PollIsConfirm DEF Reader!Next
  <2>4. CASE Crash
    BY <2>4, CrashIsRestart DEF Reader!Next
  <2>5. ASSUME NEW kind \in Kinds, Send(kind) PROVE Reader!Next
    BY <2>5 DEF Send, Reader!Next, Reader!Send, Position, Confirmed, history
  <2>6. CASE NotReady \/ Ready \/ BatchEnds \/ Reply \/ UNCHANGED vars
    BY <2>6 DEF NotReady, Ready, BatchEnds, Reply, vars, server, history, Reader!vars, Position,
       Confirmed
  <2>7. QED BY <2>1, <2>2, <2>3, <2>4, <2>5, <2>6 DEF Next, Gateway
<1>3. QED BY <1>1, <1>2, GatewayInvariant, ReaderInvariant, PTL
        DEF Spec, ImplementsDelivery, Reader!Spec
=============================================================================
