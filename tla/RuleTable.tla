------------------------------ MODULE RuleTable ------------------------------
(***************************************************************************)
(* What the authorization system promises about its rules: a management    *)
(* request adds all of its rules at once, complete with their interfaces,  *)
(* or none; after that a rule does not change until it is removed.         *)
(***************************************************************************)
CONSTANTS
    Posts,      \* requests that add rules
    Initial     \* the rules stored at the start

VARIABLE table  \* a set of rules [id, consumer, provider, service, interfaces]

Init == table = Initial

\* The request q adds one rule for each of its providers and services, under a new id.
Add(q) ==
    LET new == table' \ table
    IN /\ table \subseteq table'
       /\ {<<r.provider, r.service>> : r \in new} = q.providers \X q.services
       /\ \A r \in new : /\ r.consumer = q.consumer
                         /\ r.interfaces = q.interfaces
                         /\ \A s \in table' : s # r => s.id # r.id

Remove(r) == table' = table \ {r}

Next == \/ \E q \in Posts : Add(q)
        \/ \E r \in table : Remove(r)

Spec == Init /\ [][Next]_table
=============================================================================
