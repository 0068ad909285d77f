--------------------------- MODULE TelegramGateway ---------------------------
(* telegram::run_gateway: the loop that fetches the messages people send from *)
(* the Telegram server, handles each one and answers it. The server keeps a   *)
(* message until a request names a higher offset; the offset lives in memory, *)
(* so a gateway that is restarted by its service asks for them again.         *)
EXTENDS Integers, Sequences

CONSTANTS MaxUpdates,  \* bound: how many updates people send
          Limit,       \* how many updates one response holds
          MaxFailures, \* u32::MAX, where the failure count saturates
          InitialDelay, MaxDelay, \* BackoffPolicy::default(): 1 s, 60 s
          Doublings,   \* 16, the largest shift of the multiplier
          Width,       \* 32, its bits
          MaxCrashes   \* bound: how often the process dies

ASSUME SizesAssumption == /\ MaxUpdates \in Nat /\ Limit \in Nat \ {0}
                          /\ MaxFailures \in Nat \ {0} /\ MaxCrashes \in Nat

(* 1u32 << k, where no bit is shifted out.                                    *)
Shift[k \in Nat] == IF k = 0 THEN 1 ELSE 2 * Shift[k - 1]

(* The default policy is the only one in use; it is capped before the shift.  *)
ASSUME PolicyAssumption == /\ InitialDelay \in Nat \ {0} /\ MaxDelay \in Nat
                           /\ Doublings \in Nat /\ Width \in Nat /\ Doublings < Width
                           /\ InitialDelay * Shift[Doublings] >= MaxDelay

VARIABLES kinds,     \* the updates sent, in the order of their ids 1, 2, ...
          first,     \* the oldest one the server still keeps
          offset,    \* the gateway's offset, 0 for None
          batch,     \* the updates it has fetched and not yet taken
          current,   \* the one it works on
          pc,
          failures,  \* BackoffSupervisor::consecutive_failures
          crashes,
          times,     \* history: how often each update was handled
          dropped    \* history: the ones given up or refused instead

vars == <<kinds, first, offset, batch, current, pc, failures, crashes, times, dropped>>
server == <<kinds, first>>
history == <<times, dropped>>

Ids == 1..MaxUpdates
(* A message with text, or any other update.                                  *)
Kinds == {"text", "other"}

Init == /\ kinds = <<>> /\ first = 1
        /\ offset = 0 /\ batch = <<>> /\ current = 0 /\ pc = "load"
        /\ failures = 0 /\ crashes = 0
        /\ times = [u \in Ids |-> 0] /\ dropped = {}

(* Mutant: the count overflows.                                               *)
RecordFailureOverflow == failures' = failures + 1

RecordSuccess == failures' = 0
RecordFailure == failures' = IF failures < MaxFailures THEN failures + 1 ELSE failures

Least(a, b) == IF a < b THEN a ELSE b

(* Mutant: `1u32 << (n - 1)`, which a release build shifts modulo the width.  *)
DelayWraps(n) == Least(InitialDelay * Shift[(n - 1) % Width], MaxDelay)

(* The delay record_failure gives for the n-th failure in a row; a product    *)
(* checked_mul refuses is beyond MaxDelay. The caller sleeps that long, but   *)
(* for a reply that could not be sent: it counts and is not slept on.         *)
Delay(n) == Least(InitialDelay * Shift[Least(n - 1, Doublings)], MaxDelay)

----------------------------------------------------------------------------
(* People and the server.                                                     *)
Send(kind) == /\ Len(kinds) < MaxUpdates
              /\ kinds' = Append(kinds, kind)
              /\ UNCHANGED <<first, offset, batch, current, pc, failures, crashes, history>>

(* getUpdates: updates below the offset are forgotten, the oldest others sent.*)
Confirmed == IF offset > first THEN offset ELSE first
Response == [i \in 1..(IF Len(kinds) - Confirmed + 1 < Limit
                       THEN Len(kinds) - Confirmed + 1 ELSE Limit) |-> Confirmed + i - 1]

----------------------------------------------------------------------------
(* The loop: load the config, check Telegram is enabled and has a token, poll.*)
NotReady == /\ pc = "load"
            /\ RecordFailure
            /\ UNCHANGED <<server, offset, batch, current, pc, crashes, history>>

Ready == /\ pc = "load"
         /\ pc' = "poll"
         /\ UNCHANGED <<server, offset, batch, current, failures, crashes, history>>

Poll == /\ pc = "poll"
        /\ first' = Confirmed
        /\ batch' = Response
        /\ pc' = "next"
        /\ RecordSuccess
        /\ UNCHANGED <<kinds, offset, current, crashes, history>>

(* The request is lost, or it is the response and the server did its part.    *)
PollFails == /\ pc = "poll"
             /\ first' \in {first, Confirmed}
             /\ pc' = "load"
             /\ RecordFailure
             /\ UNCHANGED <<kinds, offset, batch, current, crashes, history>>

(* Mutants: the offset is the update's own id; it is not moved past updates   *)
(* without text.                                                              *)
TakeSameOffset ==
    /\ pc = "next" /\ batch # <<>>
    /\ offset' = Head(batch)
    /\ batch' = Tail(batch)
    /\ \/ kinds[Head(batch)] = "text" /\ current' = Head(batch) /\ pc' = "reload"
       \/ kinds[Head(batch)] # "text" /\ UNCHANGED <<current, pc>>
    /\ UNCHANGED <<server, failures, crashes, history>>

TakeTextOffset ==
    /\ pc = "next" /\ batch # <<>>
    /\ batch' = Tail(batch)
    /\ \/ /\ kinds[Head(batch)] = "text" /\ current' = Head(batch) /\ pc' = "reload"
          /\ offset' = Head(batch) + 1
       \/ kinds[Head(batch)] # "text" /\ UNCHANGED <<current, pc, offset>>
    /\ UNCHANGED <<server, failures, crashes, history>>

(* Mutant: the whole batch is confirmed when its first update is taken.       *)
TakeAll ==
    /\ pc = "next" /\ batch # <<>>
    /\ offset' = batch[Len(batch)] + 1
    /\ batch' = <<>>
    /\ \/ kinds[Head(batch)] = "text" /\ current' = Head(batch) /\ pc' = "reload"
       \/ kinds[Head(batch)] # "text" /\ UNCHANGED <<current, pc>>
    /\ UNCHANGED <<server, failures, crashes, history>>

(* Mutant: the newest update first.                                           *)
TakeNewest ==
    /\ pc = "next" /\ batch # <<>>
    /\ LET u == batch[Len(batch)] IN
         /\ offset' = u + 1
         /\ \/ kinds[u] = "text" /\ current' = u /\ pc' = "reload"
            \/ kinds[u] # "text" /\ UNCHANGED <<current, pc>>
    /\ batch' = SubSeq(batch, 1, Len(batch) - 1)
    /\ UNCHANGED <<server, failures, crashes, history>>

(* The offset moves on before the update is looked at.                        *)
Take ==
    /\ pc = "next" /\ batch # <<>>
    /\ offset' = Head(batch) + 1
    /\ batch' = Tail(batch)
    /\ \/ kinds[Head(batch)] = "text" /\ current' = Head(batch) /\ pc' = "reload"
       \/ kinds[Head(batch)] # "text" /\ UNCHANGED <<current, pc>>
    /\ UNCHANGED <<server, failures, crashes, history>>

BatchEnds == /\ pc = "next" /\ batch = <<>>
             /\ pc' = "load"
             /\ UNCHANGED <<server, offset, batch, current, failures, crashes, history>>

(* The config is loaded again. If that fails, or the sender is not allowed,   *)
(* one message says so and whether it arrives is not looked at.               *)
Drop == /\ pc = "reload"
        /\ dropped' = dropped \cup {current}
        /\ pc' = "next"
        /\ UNCHANGED <<server, offset, batch, current, failures, crashes, times>>

(* handle_text_with_state under catch_unwind: an error or a panic is a reply. *)
Handle == /\ pc = "reload"
          /\ times' = [times EXCEPT ![current] = @ + 1]
          /\ pc' = "reply"
          /\ UNCHANGED <<server, offset, batch, current, failures, crashes, dropped>>

(* A reply that cannot be sent is not sent again.                             *)
Reply == /\ pc = "reply"
         /\ UNCHANGED failures \/ RecordFailure
         /\ pc' = "next"
         /\ UNCHANGED <<server, offset, batch, current, crashes, history>>

Gateway == Ready \/ NotReady \/ Poll \/ PollFails \/ Take \/ BatchEnds \/ Drop \/ Handle \/ Reply

(* The process dies and its service starts it again.                          *)
Crash == /\ crashes < MaxCrashes
         /\ crashes' = crashes + 1
         /\ offset' = 0 /\ batch' = <<>> /\ current' = 0
         /\ pc' = "load" /\ failures' = 0
         /\ UNCHANGED <<server, history>>

Next == Gateway \/ Crash \/ \E kind \in Kinds : Send(kind)

Spec == Init /\ [][Next]_vars

(* The gateway keeps going (sleeps and requests have timeouts), and a gateway *)
(* that polls again and again is once in a while ready and answered.          *)
FairSpec == Spec /\ WF_vars(Gateway) /\ SF_vars(Ready) /\ SF_vars(Poll)

----------------------------------------------------------------------------
TypeOK == /\ kinds \in Seq(Kinds) /\ Len(kinds) <= MaxUpdates
          /\ first \in 1..MaxUpdates + 1
          /\ offset \in 0..MaxUpdates + 1
          /\ batch \in Seq(Ids)
          /\ current \in Ids \cup {0}
          /\ pc \in {"load", "poll", "next", "reload", "reply"}
          /\ failures \in 0..MaxFailures
          /\ crashes \in 0..MaxCrashes
          /\ times \in [Ids -> Nat]
          /\ dropped \subseteq Ids

(* run_gateway, `offset = Some(update.update_id + 1)`: a message is handled   *)
(* again only if the process died in between, and at most once per crash.     *)
HandledOncePerRun == \A u \in Ids : times[u] <= 1 + crashes

(* run_gateway: the server forgets no message that was not handled, refused   *)
(* or given up with a notice first, wherever a request is lost or the process *)
(* dies: the offset of a message travels with the NEXT request only.          *)
NothingForgotten ==
    \A u \in 1..first - 1 : kinds[u] = "text" => times[u] > 0 \/ u \in dropped

(* run_gateway handles messages in the order they were sent: one is handled   *)
(* for the first time only after all earlier ones are dealt with.             *)
InOrder ==
    \A u \in Ids : times[u] > 0 =>
       \A v \in 1..u - 1 : kinds[v] = "text" => times[v] > 0 \/ v \in dropped

(* run_gateway, all its bookkeeping together: it reads the log of updates in   *)
(* order, settles each before it goes on, lets the server forget only what is *)
(* settled, and starts again nowhere else than where that ends.               *)
Position == IF pc = "reload" THEN current ELSE Confirmed
Reader == INSTANCE Delivery WITH log <- kinds, position <- Position, confirmed <- first,
                                 given <- dropped
ImplementsDelivery == Reader!Spec

(* BackoffSupervisor: the delay that record_failure gives is InitialDelay for *)
(* the first failure after a success, doubles with every further one and stays*)
(* at MaxDelay once there, for as many failures as there are. (Failed replies *)
(* count, so the first delay that is slept may be a later one.)               *)
BacksOff ==
    [][failures' > failures =>
         Delay(failures') = Least(IF failures = 0 THEN InitialDelay ELSE 2 * Delay(failures),
                                  MaxDelay)]_failures

(* run_gateway: every message is dealt with in the end, though requests fail, *)
(* other updates sit between the messages and the process dies now and then.  *)
EveryMessageTaken ==
    \A u \in Ids : (u <= Len(kinds) /\ kinds[u] = "text") ~> (times[u] > 0 \/ u \in dropped)
=============================================================================
