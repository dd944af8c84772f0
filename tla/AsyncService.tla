---------------------------- MODULE AsyncService ----------------------------
(***************************************************************************)
(* What every asynchronous class of eestv/net promises the owner that      *)
(* wants to get rid of it.  A stop is requested once; the stopped callback *)
(* runs when no handler that refers to the object is left, ready or        *)
(* outstanding; from then on none is created; so the object may be         *)
(* released.                                                               *)
(***************************************************************************)
VARIABLES phase,   \* "up", "stopping", "stopped", "released"
          busy     \* some handler that refers to the object is ready or outstanding

vars == <<phase, busy>>

Init == phase = "up" /\ busy = FALSE

\* Handlers come and go while the object is in use or on its way down.
Work == /\ phase \in {"up", "stopping"}
        /\ busy' \in BOOLEAN
        /\ UNCHANGED phase

RequestStop == /\ phase = "up"
               /\ phase' = "stopping"
               /\ busy' \in BOOLEAN

\* The stopped callback runs.
Finish == /\ phase = "stopping" /\ ~busy
          /\ phase' = "stopped"
          /\ UNCHANGED busy

\* The object is destroyed: unused, or after its stopped callback has run.
Release == /\ phase \in {"up", "stopped"} /\ ~busy
           /\ phase' = "released"
           /\ UNCHANGED busy

Next == Work \/ RequestStop \/ Finish \/ Release

Spec == Init /\ [][Next]_vars
=============================================================================
