------------------------------ MODULE Delivery ------------------------------
(* What people who write to the bot are promised (telegram.rs run_gateway over *)
(* the Bot API's getUpdates), however it is fetched, lost and fetched again:   *)
(* the updates form a log that one reader goes through, an update with text is *)
(* settled before the reader goes past it, and a reader that starts again goes *)
(* on from what was confirmed, which was all settled.                          *)
EXTENDS Integers, Sequences

CONSTANTS Ids, Kinds

VARIABLES log,       \* the updates in the order they were sent
          position,  \* the one the reader is at
          confirmed, \* the oldest one it would see again
          times,     \* how often each was handled
          given      \* the ones refused or given up instead

vars == <<log, position, confirmed, times, given>>

Init == /\ log = <<>> /\ position = 1 /\ confirmed = 1
        /\ times = [u \in Ids |-> 0] /\ given = {}

Send(kind) == /\ log' = Append(log, kind)
              /\ UNCHANGED <<position, confirmed, times, given>>

(* Past an update without text, or past one with text that is settled here.   *)
Skip == /\ position <= Len(log) /\ log[position] # "text"
        /\ position' = position + 1
        /\ UNCHANGED <<log, confirmed, times, given>>

Settle == /\ position <= Len(log) /\ log[position] = "text"
          /\ position' = position + 1
          /\ \/ times' = [times EXCEPT ![position] = @ + 1] /\ UNCHANGED given
             \/ given' = given \cup {position} /\ UNCHANGED times
          /\ UNCHANGED <<log, confirmed>>

Confirm == confirmed' = position /\ UNCHANGED <<log, position, times, given>>

Restart == position' = confirmed /\ UNCHANGED <<log, confirmed, times, given>>

Next == Skip \/ Settle \/ Confirm \/ Restart \/ \E kind \in Kinds : Send(kind)

Spec == Init /\ [][Next]_vars
=============================================================================
