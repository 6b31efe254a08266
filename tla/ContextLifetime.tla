-------------------------- MODULE ContextLifetime --------------------------
(****************************************************************************)
(* What the owner of a native resource promises: at most one exists at a    *)
(* time, the owner always knows which, a new one is made only when there is *)
(* none, and one that has been destroyed is destroyed once and never comes  *)
(* back.                                                                    *)
(****************************************************************************)
CONSTANTS Resource, None

VARIABLES
    owned,      \* the resource that exists, or None
    destroyed   \* the resources that have been destroyed

vars == <<owned, destroyed>>

Init == owned = None /\ destroyed = {}

Create ==
    /\ owned = None
    /\ owned' \in Resource \ destroyed
    /\ UNCHANGED destroyed

Destroy ==
    /\ owned # None
    /\ destroyed' = destroyed \cup {owned}
    /\ owned' = None

Next == Create \/ Destroy

Spec == Init /\ [][Next]_vars
=============================================================================
