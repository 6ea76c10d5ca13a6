---------------------------- MODULE SharedBuffer ----------------------------
(***************************************************************************)
(* What a buffer promises its clients, without counters, locks or threads: *)
(* objects come and go, leases exclude each other, and the memory is given *)
(* up exactly once, when nobody holds anything of the buffer any more.     *)
(***************************************************************************)
CONSTANTS Objects

Leases == {"read", "write", "exclusive"}
Kinds == {"handle", "map", "view"} \cup Leases

VARIABLES
  status,   \* "absent", "new" until its first handle, "live", then "released"
  holders   \* what each object is to the buffer, "none" if nothing

vars == <<status, holders>>

Held == {o \in Objects : holders[o] # "none"}
HeldAs(K) == {o \in Objects : holders[o] \in K}

\* Reads share; a write or an exclusive lease is alone.
Compatible(k) ==
  /\ k = "read" => HeldAs({"write", "exclusive"}) = {}
  /\ k \in {"write", "exclusive"} => HeldAs(Leases) = {}

Init ==
  /\ status = "absent"
  /\ holders = [o \in Objects |-> "none"]

Create == status = "absent" /\ status' = "new" /\ UNCHANGED holders

First(o) ==
  /\ status = "new"
  /\ status' = "live"
  /\ holders' = [holders EXCEPT ![o] = "handle"]

\* A new object is always obtained through a handle.
Obtain(o, k) ==
  /\ status = "live"
  /\ holders[o] = "none"
  /\ HeldAs({"handle"}) # {}
  /\ Compatible(k)
  /\ holders' = [holders EXCEPT ![o] = k]
  /\ UNCHANGED status

Drop(o) ==
  /\ holders[o] # "none"
  /\ holders' = [holders EXCEPT ![o] = "none"]
  /\ UNCHANGED status

GiveUp ==
  /\ status = "live" /\ Held = {}
  /\ status' = "released"
  /\ UNCHANGED holders

Next ==
  \/ Create \/ GiveUp
  \/ \E o \in Objects : First(o) \/ Drop(o) \/ \E k \in Kinds : Obtain(o, k)

\* The memory is not kept after the last object is gone.
Spec == Init /\ [][Next]_vars /\ WF_vars(GiveUp)
=============================================================================
