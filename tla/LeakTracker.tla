----------------------------- MODULE LeakTracker -----------------------------
(***************************************************************************)
(* The malloc wrapper of demo 5 of 05_memory/memory_demo.c, used by any    *)
(* client: it allocates blocks and frees addresses it has, had or never    *)
(* got, and the allocator may hand out a freed address again.              *)
(***************************************************************************)
EXTENDS ProgramConstants, Sequences

VARIABLES g_alloc_list,         \* the records [ptr, size], newest first
          g_total_allocated,
          blocks,               \* addresses the allocator has given out
          crashed               \* a NULL pointer was dereferenced

vars == <<g_alloc_list, g_total_allocated, blocks, crashed>>

Init == g_alloc_list = <<>> /\ g_total_allocated = 0 /\ blocks = {} /\ crashed = FALSE

-----------------------------------------------------------------------------
(* Wrong variants of definitions below, each the shape of a plausible bug. *)

\* tracked_free unlinks everything up to the record it has found.
Unlinked_Prefix(k) == SubSeq(g_alloc_list, k + 1, Len(g_alloc_list))

-----------------------------------------------------------------------------
\* malloc fails, and NULL is returned; or the block is recorded; or there is no
\* memory for the record, which is not tested for.
tracked_malloc(size) ==
    /\ ~crashed
    /\ \E p \in Address \ blocks :
          /\ blocks' = blocks \cup {p}
          /\ \/ /\ g_alloc_list' = <<[ptr |-> p, size |-> size]>> \o g_alloc_list
                /\ g_total_allocated' = g_total_allocated + size
                /\ UNCHANGED crashed
             \/ crashed' = TRUE /\ UNCHANGED <<g_alloc_list, g_total_allocated>>

\* The list after *cur = tmp->next at its k-th record.
Unlinked(k) == [j \in 1 .. Len(g_alloc_list) - 1 |-> g_alloc_list[IF j < k THEN j ELSE j + 1]]

\* The walk stops at the first record of ptr; without one there is a warning only.
tracked_free(ptr) ==
    \E k \in DOMAIN g_alloc_list :
        /\ ~crashed
        /\ g_alloc_list[k].ptr = ptr /\ \A j \in 1 .. k - 1 : g_alloc_list[j].ptr # ptr
        /\ g_total_allocated' = g_total_allocated - g_alloc_list[k].size
        /\ g_alloc_list' = Unlinked(k)
        /\ blocks' = blocks \ {ptr}
        /\ UNCHANGED crashed

Next ==
    \/ \E size \in Sizes : tracked_malloc(size)
    \/ \E ptr \in Address : tracked_free(ptr)

-----------------------------------------------------------------------------
\* total is the sum of the sizes in s: rest[k] is that of its records from k on.
IsTotal(total, s) ==
    \E rest \in [1 .. Len(s) + 1 -> 0 .. total] :
        /\ rest[1] = total /\ rest[Len(s) + 1] = 0
        /\ \A k \in DOMAIN s : rest[k] = rest[k + 1] + s[k].size

\* check_leaks reports exactly the blocks that were not freed, each once, and their
\* total size, however often addresses are used again; it reports none if and only
\* if all are freed.
TrackerExact ==
    ~crashed =>
        /\ {g_alloc_list[k].ptr : k \in DOMAIN g_alloc_list} = blocks
        /\ \A j, k \in DOMAIN g_alloc_list : g_alloc_list[j].ptr = g_alloc_list[k].ptr => j = k
        /\ IsTotal(g_total_allocated, g_alloc_list)
=============================================================================
