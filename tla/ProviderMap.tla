----------------------------- MODULE ProviderMap -----------------------------
(***************************************************************************)
(* What the service registry promises about the table service_registry: it *)
(* is a map from service URIs to providers.  A URI is bound to a provider  *)
(* once and stays bound to it until the entry is removed; entries are      *)
(* removed one by one, or all of a provider's, of a service's or of a      *)
(* system's together.                                                      *)
(***************************************************************************)
CONSTANTS
    Uris,        \* service URIs
    Services,    \* ids of service definitions
    Systems      \* ids of systems

Unbound   == [service |-> 0, system |-> 0]
Providers == [service : Services, system : Systems]

VARIABLE provider    \* the provider each URI is bound to

Init == provider = [u \in Uris |-> Unbound]

\* any provider may register a URI that is not bound
Bind(u) == /\ provider[u] = Unbound
           /\ provider'[u] \in Providers
           /\ provider' = [provider EXCEPT ![u] = provider'[u]]

Remove(us) == provider' = [u \in Uris |-> IF u \in us THEN Unbound ELSE provider[u]]

\* one entry is added or removed, or all of the provider, the service or the
\* system of some entry are
Next == \E u \in Uris :
            \/ Bind(u)
            \/ Remove({u})
            \/ Remove({x \in Uris : provider[x] = provider[u]})
            \/ Remove({x \in Uris : provider[x].service = provider[u].service})
            \/ Remove({x \in Uris : provider[x].system = provider[u].system})

Spec == Init /\ [][Next]_provider
=============================================================================
