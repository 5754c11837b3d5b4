-------------------------------- MODULE TxFifo --------------------------------
(***************************************************************************)
(* What one hardware transmit queue of the acx driver promises to mac80211:*)
(* frames handed to the adapter are reported back exactly once, in the     *)
(* order they were submitted, each with the outcome of its own             *)
(* transmission.  TxRing implements this with a ring of descriptors.       *)
(***************************************************************************)
EXTENDS Naturals, Sequences

CONSTANTS
  Frames,      \* the socket buffers mac80211 may hand to the driver
  NoAckFrames, \* those that ask for no acknowledgement
  Capacity     \* number of descriptors of the queue (TX_CNT)

VARIABLES
  inflight,   \* submitted, not yet reported: <<[skb, outcome], ...>>, oldest first
  reported    \* the last tx status given to mac80211

fifoVars == <<inflight, reported>>

Nothing == [skb |-> "none", acked |-> FALSE]

Init ==
  /\ inflight = << >>
  /\ reported = Nothing

Submit(f) ==
  /\ Len(inflight) < Capacity
  /\ inflight' = Append(inflight, [skb |-> f, outcome |-> "pending"])
  /\ UNCHANGED reported

\* The adapter may finish the frames in any order.
Complete(i) ==
  /\ inflight[i].outcome = "pending"
  /\ \E o \in {"acked", "failed"} :
       inflight' = [inflight EXCEPT ![i].outcome = o]
  /\ UNCHANGED reported

\* The status of the oldest frame, and only once the adapter has finished it.  A frame
\* that asks for no acknowledgement is never said to have got one.
Report ==
  /\ inflight # << >>
  /\ Head(inflight).outcome # "pending"
  /\ reported' = [skb   |-> Head(inflight).skb,
                  acked |-> /\ Head(inflight).outcome = "acked"
                            /\ Head(inflight).skb \notin NoAckFrames]
  /\ inflight' = Tail(inflight)

\* The adapter is reset: what it had not reported is gone.
Reset ==
  /\ inflight' = << >>
  /\ UNCHANGED reported

Next ==
  \/ \E f \in Frames : Submit(f)
  \/ \E i \in 1..Len(inflight) : Complete(i)
  \/ Report
  \/ Reset

Spec == Init /\ [][Next]_fifoVars
===============================================================================
