-------------------------- MODULE MCBufferControl --------------------------
(***************************************************************************)
(* BufferControl for TLC: which operations the clients of a run use.       *)
(***************************************************************************)
EXTENDS BufferControl, TLC

Leasing == {"acquire_read", "acquire_write", "acquire_exclusive"}

\* No migration, same-process import, invalidation or shutdown.
CoreOps == {"allocate", "wrap_external", "import_shared", "share", "view", "map",
            "copy", "export", "pool_trim"} \cup Leasing

AllOps == CoreOps \cup {"import_local", "migrate", "migrate_borrowed",
                    "invalidate", "shutdown"}

\* invalidate is left out: it may wait for itself.  So is the migration of a
\* borrowed wrap: its finalization forgets the backing the runtime allocated.
ReturningOps == AllOps \ {"invalidate", "migrate_borrowed"}

Symmetry == Permutations(Threads) \cup Permutations(Objects)
=============================================================================
