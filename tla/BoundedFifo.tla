----------------------------- MODULE BoundedFifo -----------------------------
(***************************************************************************)
(* What every hand-off buffer of the demos promises: a first-in first-out  *)
(* channel that never holds more than Capacity values.  `chan' is what has *)
(* been put and not yet taken, `out' is everything taken, in order.        *)
(* CondQueue, SemQueue and ShmHandoff implement it.                        *)
(***************************************************************************)
EXTENDS Naturals, Sequences

CONSTANTS Value,      \* what may be put
          Capacity    \* how many values the channel holds

VARIABLES chan, out

fifoVars == <<chan, out>>

Init == chan = <<>> /\ out = <<>>

Put(v) ==
    /\ Len(chan) < Capacity
    /\ chan' = Append(chan, v)
    /\ UNCHANGED out

Get ==
    /\ chan # <<>>
    /\ out' = Append(out, Head(chan))
    /\ chan' = Tail(chan)

Next == (\E v \in Value : Put(v)) \/ Get

Spec == Init /\ [][Next]_fifoVars
=============================================================================
