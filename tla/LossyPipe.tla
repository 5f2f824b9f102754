----------------------------- MODULE LossyPipe ------------------------------
(***************************************************************************)
(* What the forwarder promises of the packets its socket accepted: they    *)
(* leave in the order they came, each at most once.  A packet may be       *)
(* dropped on the way, and the pipe may break under one, for good.         *)
(***************************************************************************)
EXTENDS Sequences

CONSTANT Packets

VARIABLES
  pending,     \* the packets inside the pipe, oldest first
  delivered,   \* those that left it
  intact       \* it is not broken

vars == <<pending, delivered, intact>>

Init == /\ pending = << >>
        /\ delivered = << >>
        /\ intact = TRUE

Enter == /\ \E p \in Packets : pending' = Append(pending, p)
         /\ UNCHANGED <<delivered, intact>>

Leave == /\ intact /\ pending # << >>
         /\ pending' = Tail(pending)

Deliver == /\ Leave
           /\ delivered' = Append(delivered, Head(pending))
           /\ UNCHANGED intact

Drop == Leave /\ UNCHANGED <<delivered, intact>>

Break == Leave /\ intact' = FALSE /\ UNCHANGED delivered

Next == Enter \/ Deliver \/ Drop \/ Break

Spec == Init /\ [][Next]_vars
=============================================================================
