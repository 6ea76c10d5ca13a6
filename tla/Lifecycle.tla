------------------------------ MODULE Lifecycle ------------------------------
(***************************************************************************)
(* The BufferState machine: the sixteen states of core/types.hpp and the   *)
(* table of legal moves that RuntimeImpl::valid_transition encodes.        *)
(***************************************************************************)

BufferState ==
  {"DECLARED", "RESERVED", "ALLOCATED", "MAPPED", "IN_USE", "EXPORTING", "EXPORTED",
   "IMPORTING", "IMPORTED", "COPYING", "MIGRATING", "RELEASING", "RELEASED", "FAILED",
   "QUARANTINED", "INVALID"}

\* valid_transition as data: the states a buffer may move to from each state.
destinations ==
  [ DECLARED    |-> {"RESERVED", "ALLOCATED", "FAILED", "INVALID"},
    RESERVED    |-> {"ALLOCATED", "RELEASED", "FAILED", "INVALID"},
    ALLOCATED   |-> {"MAPPED", "COPYING", "IN_USE", "EXPORTING", "RELEASING",
                     "MIGRATING", "RELEASED", "FAILED", "INVALID"},
    MAPPED      |-> {"ALLOCATED", "IN_USE", "COPYING", "RELEASING", "RELEASED",
                     "FAILED", "INVALID"},
    IN_USE      |-> {"ALLOCATED", "COPYING", "RELEASING", "RELEASED", "FAILED",
                     "INVALID"},
    EXPORTING   |-> {"EXPORTED", "ALLOCATED", "FAILED"},
    EXPORTED    |-> {"ALLOCATED", "RELEASED", "FAILED"},
    IMPORTING   |-> {"IMPORTED", "FAILED", "INVALID"},
    IMPORTED    |-> {"ALLOCATED", "RELEASED", "FAILED", "INVALID"},
    COPYING     |-> {"ALLOCATED", "IN_USE", "RELEASED", "FAILED"},
    MIGRATING   |-> {"ALLOCATED", "FAILED"},
    RELEASING   |-> {"RELEASED", "FAILED"},
    RELEASED    |-> {"INVALID"},
    FAILED      |-> {"QUARANTINED", "INVALID"},
    QUARANTINED |-> {"INVALID"},
    INVALID     |-> {} ]

\* The table has a row for every state.
ASSUME TableTotal == DOMAIN destinations = BufferState

valid_transition(from, to) == to \in destinations[from]
=============================================================================
