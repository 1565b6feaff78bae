------------------------------ MODULE ByteStream ------------------------------
(***************************************************************************)
(* What the character device promises its users: one bounded stream of     *)
(* bytes.  A write appends, a read takes from the front, and nothing but a *)
(* reset (or a reload of the driver) discards.  `out' is everything read.  *)
(***************************************************************************)
EXTENDS Naturals, Sequences

CONSTANTS Byte, Capacity

VARIABLES chan, out

streamVars == <<chan, out>>

Init == chan = <<>> /\ out = <<>>

\* A write accepts between one byte and all the free space.
Write ==
    \E n \in 1 .. Capacity - Len(chan) :
        \E s \in [1 .. n -> Byte] : chan' = chan \o s /\ UNCHANGED out

Read ==
    \E n \in 1 .. Len(chan) :
        /\ out' = out \o SubSeq(chan, 1, n)
        /\ chan' = SubSeq(chan, n + 1, Len(chan))

Flush == chan' = <<>> /\ UNCHANGED out

Next == Write \/ Read \/ Flush

Spec == Init /\ [][Next]_streamVars
=============================================================================
