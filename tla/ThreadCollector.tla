--------------------------- MODULE ThreadCollector ---------------------------
(***************************************************************************)
(* What fawkes::ThreadCollector promises its users (PluginManager): a list *)
(* of threads is added as a whole or not at all, it runs until it is       *)
(* removed, and a removal that is refused leaves it running.  The promise  *)
(* has two exceptions the code cannot hide: a pthread_create that fails    *)
(* half-way leaves the list broken, and a finalize() that fails leaves the *)
(* threads stopped but still on the books.                                 *)
(***************************************************************************)
CONSTANTS Lists          \* the thread lists, one per plugin

VARIABLES state          \* the state of every list

States == {"fresh", "running", "stopped", "gone", "broken"}

Init == state = [l \in Lists |-> "fresh"]

Become(l, s) == state' = [state EXCEPT ![l] = s]

(* ThreadCollector::add: all threads run, or the creation of one failed.   *)
Add(l) == state[l] = "fresh" /\ \E s \in {"running", "broken"} : Become(l, s)

(* ThreadCollector::remove and force_remove: all threads are stopped, and  *)
(* unless one of them failed to finalize the list is forgotten.            *)
Remove(l) == state[l] = "running" /\ Become(l, "stopped")
Forget(l) == state[l] = "stopped" /\ Become(l, "gone")

Next == \E l \in Lists : Add(l) \/ Remove(l) \/ Forget(l)

Spec == Init /\ [][Next]_state
=============================================================================
