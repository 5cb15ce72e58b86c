--------------------------- MODULE MCSwapController ---------------------------
(* Small instances of the Model Scheduler for TLC.                         *)
EXTENDS SwapInvariant, TLC

(* Models are alike, and so are slots.                                     *)
Symmetry == Permutations(Models) \cup Permutations(Slots)

(* A scheduler in service: nobody asks it to stop.  The instance with more *)
(* models than slots and a choice of what to preempt is checked like this. *)
InService == Init /\ [][Next /\ ~stopReader']_vars
=============================================================================
