----------------------------- MODULE EventChannel -----------------------------
(***************************************************************************)
(* What an event queue promises its users: a reliable FIFO channel.  Events*)
(* are posted one at a time, and each successful wait takes a non-empty    *)
(* run of the oldest events nobody took yet.                               *)
(***************************************************************************)
EXTENDS Integers, Sequences

CONSTANTS
  Queues,  \* the channels
  Events   \* what is posted on them

VARIABLES
  posted,  \* all events ever posted on each channel
  taken    \* all events ever taken from each channel

chanVars == <<posted, taken>>

Init ==
  /\ posted = [q \in Queues |-> << >>]
  /\ taken = [q \in Queues |-> << >>]

Post(q, e) ==
  /\ posted' = [posted EXCEPT ![q] = Append(@, e)]
  /\ taken' = taken

Take(q, n) ==
  /\ n > Len(taken[q])
  /\ taken' = [taken EXCEPT ![q] = SubSeq(posted[q], 1, n)]
  /\ posted' = posted

Next ==
  \E q \in Queues :
    \/ \E e \in Events : Post(q, e)
    \/ \E n \in 1 .. Len(posted[q]) : Take(q, n)

Spec == Init /\ [][Next]_chanVars
===============================================================================
