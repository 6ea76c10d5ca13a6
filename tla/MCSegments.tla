----------------------------- MODULE MCSegments ----------------------------
(***************************************************************************)
(* Two processes; the first has two threads.  The backends share no state, *)
(* so a behaviour uses one of them.  Files are made and opened by one      *)
(* thread of each process: threads of a process meet in file_counter only. *)
(***************************************************************************)
EXTENDS Segments, TLC

CONSTANTS p1, p2, t1, t2, t3

VARIABLE backend

MCprocess == t1 :> p1 @@ t2 :> p1 @@ t3 :> p2

MCInit == Init /\ backend \in Kinds

MCNext ==
  /\ Next
  /\ \A t \in Threads : cur'[t].kind \in {"none", backend}
  /\ cur'[t2].kind # "file"
  /\ UNCHANGED backend

MCSpec == MCInit /\ [][MCNext]_<<vars, backend>>
=============================================================================
