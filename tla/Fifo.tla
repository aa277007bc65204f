-------------------------------- MODULE Fifo --------------------------------
(***************************************************************************)
(* What the producer-consumer programs promise: the items 0, 1, 2, ... up  *)
(* to nitems - 1 pass from the producers to the consumers in order, each   *)
(* once, and at most NBUFF are on their way at any time.                   *)
(***************************************************************************)
EXTENDS Integers, Sequences

CONSTANTS NBUFF, nitems

VARIABLES next,    \* the item to be put next
          chan,    \* the items put and not yet taken
          out      \* the item taken last, -1 before the first

Init == next = 0 /\ chan = << >> /\ out = -1

Put == /\ next < nitems /\ Len(chan) < NBUFF
       /\ chan' = Append(chan, next)
       /\ next' = next + 1
       /\ UNCHANGED out

Get == /\ chan # << >>
       /\ out' = Head(chan)
       /\ chan' = Tail(chan)
       /\ UNCHANGED next

Next == Put \/ Get

Spec == Init /\ [][Next]_<<next, chan, out>>
=============================================================================
