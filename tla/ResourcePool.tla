---------------------------- MODULE ResourcePool ----------------------------
(***************************************************************************)
(* What a pool of exclusive resources promises: a resource is free or has  *)
(* one owner, a client owns at most one, and only its owner frees it.      *)
(* db::DatabasePool is shown to implement this specification.              *)
(***************************************************************************)
CONSTANTS Resources, Clients, NoResource   \* NoResource is not in Resources

VARIABLES free, owned

vars == <<free, owned>>

Init == /\ free = Resources
        /\ owned = [c \in Clients |-> NoResource]

Acquire(c) == /\ owned[c] = NoResource
              /\ \E r \in free : /\ free' = free \ {r}
                                 /\ owned' = [owned EXCEPT ![c] = r]

Release(c) == /\ owned[c] # NoResource
              /\ free' = free \cup {owned[c]}
              /\ owned' = [owned EXCEPT ![c] = NoResource]

Next == \E c \in Clients : Acquire(c) \/ Release(c)

Spec == Init /\ [][Next]_vars
=============================================================================
