----------------------------- MODULE WindowStack -----------------------------
(***************************************************************************)
(* The compositor's stacks of surfaces, bottom to top (g_zorder in          *)
(* alr_wayland/alr_compositor.cpp).  A surface is listed at most once.      *)
(***************************************************************************)
EXTENDS Integers, Sequences

CONSTANT None   \* nullptr

\* zorder_remove
Without(q, s) ==
    LET at == {i \in DOMAIN q : q[i] = s} IN
    IF at = {} THEN q
    ELSE [i \in 1 .. Len(q) - 1 |-> IF \A j \in at : i < j THEN q[i] ELSE q[i + 1]]

\* zorder_raise
Raise(q, s) == Append(Without(q, s), s)
=============================================================================
