---------------------------- MODULE OrderedPipe ----------------------------
(***************************************************************************)
(* What the senders of this repository promise: messages are taken, and    *)
(* given to the network in the order in which they were taken, none twice. *)
(* A pipe that may skip loses single messages; one that may not stops at   *)
(* the first it loses.                                                     *)
(***************************************************************************)
EXTENDS Naturals, Sequences

CONSTANT MaySkip

VARIABLES taken,   \* how many messages have been taken
          given    \* the numbers of those that reached the network, in order

Newest == IF given = <<>> THEN 0 ELSE given[Len(given)]

Init == taken = 0 /\ given = <<>>

Take == taken' = taken + 1 /\ UNCHANGED given

Give == \E m \in (Newest + 1) .. taken :
          /\ MaySkip \/ m = Newest + 1
          /\ given' = Append(given, m)
          /\ UNCHANGED taken

Next == Take \/ Give
Spec == Init /\ [][Next]_<<taken, given>>
=============================================================================
