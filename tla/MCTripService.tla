---------------------------- MODULE MCTripService ----------------------------
(* Instances of TripService and of its reads for TLC. *)
EXTENDS TripReads, TLC

\* The patches of the runs: every capacity, alone and together with filling the
\* fields; clearing them; and one that fails validation.
MCPatches ==
  LET patch(valid, c, fill, clear) ==
        [valid |-> valid, capacity |-> c, fill |-> fill, clear |-> clear]
  IN  {patch(TRUE, c, fill, {}) : c \in Keep..MaxCapacity, fill \in {{}, Fields}}
      \cup {patch(TRUE, Keep, {}, Fields), patch(FALSE, Keep, {}, {})}

MCSymmetry == Permutations(Members) \cup Permutations(Workers)
=============================================================================
