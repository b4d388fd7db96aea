------------------------------ MODULE MCTimer ------------------------------
(***************************************************************************)
(* Instances of Timer.  A timeout function may stop its own timer, and     *)
(* start or stop another one.                                              *)
(***************************************************************************)
EXTENDS Timer

Callbacks == {<<"none", "self">>, <<"stop", "self">>,
              <<"start", "other">>, <<"stop", "other">>, <<"detach", "other">>}

\* A timeout function that restarts, or detaches, its own timer.
Restarts == {<<"none", "self">>, <<"start", "self">>}
Detaches == {<<"none", "self">>, <<"detach", "self">>}

Perms == Permutations(TimerSet) \cup Permutations(Worker)

=============================================================================
