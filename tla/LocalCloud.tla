----------------------------- MODULE LocalCloud -----------------------------
(***************************************************************************)
(* A local cloud: the orchestrator, the authorization system and the       *)
(* service registry it calls, and the providers and operators that change  *)
(* the registry's entries and the authorization rules while requests are   *)
(* under way.  The registry is what module ProviderMap promises and        *)
(* ServiceRegistry implements: a set of entries, one per URI, each bound   *)
(* and removed at once.                                                    *)
(***************************************************************************)
EXTENDS Authorization, Orchestrator

CONSTANTS
    Offers,          \* entries that may be registered
    InitialEntries,  \* those registered at the start
    MaxWork          \* bound: requests and changes of the registry in a behaviour

ASSUME OffersAssumption ==
    /\ InitialEntries \subseteq Offers
    /\ \A e, f \in InitialEntries : e.uri = f.uri => e = f
    /\ \A e \in Offers : e.interfaces # {}    \* fillQueryList reports no other entry
    /\ MaxWork \in Nat

VARIABLES
    registry,   \* the registered entries
    work,       \* requests and changes of the registry so far
    (* What was so during a worker's request, for the properties. *)
    everEntries, keptEntries,   \* entries registered at some time, at all times
    everGrants, keptGrants,     \* grants in force at some time, at all times
    disturbed                   \* a fault decided the result of one of its calls

observed == <<everEntries, keptEntries, everGrants, keptGrants, disturbed>>
vars == <<authVars, orchVars, call, registry, work, observed>>

Init ==
    /\ WebGetInit /\ AuthInit /\ OrchInit
    /\ registry = InitialEntries
    /\ work = 0
    /\ everEntries = [o \in Callers |-> {}] /\ keptEntries = [o \in Callers |-> {}]
    /\ everGrants = [o \in Callers |-> {}] /\ keptGrants = [o \in Callers |-> {}]
    /\ disturbed = [o \in Callers |-> FALSE]
-----------------------------------------------------------------------------
\* A provider registers a service.
Register(e) ==
    /\ \A f \in registry : f.uri # e.uri
    /\ registry' = registry \cup {e}

\* A provider, or an operator, removes an entry.
Unregister(e) ==
    /\ e \in registry
    /\ registry' = registry \ {e}

ChangeRegistry ==
    /\ \E e \in Offers : Register(e) \/ Unregister(e)
    /\ UNCHANGED call

Matches(e, q) == e.service = q.service /\ (q.required = {} \/ e.interfaces \cap q.required # {})

\* The registry answers /query.  Its 400 for an unknown service means to the orchestrator
\* what an empty list means.
Query(o) ==
    /\ call[o].at = "query"
    /\ Answer(o, OK, {e \in registry : Matches(e, call[o].body)})

\* What the properties need to know of the time of a request.
InProgress(pc) == pc \notin {"idle", "done"}

\* A value that worker o's request has from its start on: start, then next at each step,
\* kept once it is answered.
Track(o, none, start, next, kept) ==
    IF opc'[o] = "idle" THEN none
    ELSE IF InProgress(opc[o]) THEN next
    ELSE IF InProgress(opc'[o]) THEN start ELSE kept

Observe ==
    /\ everEntries' = [o \in Callers |->
         Track(o, {}, registry', everEntries[o] \cup registry', everEntries[o])]
    /\ keptEntries' = [o \in Callers |->
         Track(o, {}, registry', keptEntries[o] \cap registry', keptEntries[o])]
    /\ everGrants' = [o \in Callers |->
         Track(o, {}, Grants', everGrants[o] \cup Grants', everGrants[o])]
    /\ keptGrants' = [o \in Callers |->
         Track(o, {}, Grants', keptGrants[o] \cap Grants', keptGrants[o])]
    /\ disturbed' = [o \in Callers |->
         Track(o, FALSE, FALSE, disturbed[o] \/ call'[o].faulty, disturbed[o])]

AuthorizationStep(A) == A /\ UNCHANGED <<orchVars, registry, work>> /\ Observe
OrchestratorStep(A)  == A /\ UNCHANGED <<authVars, registry, work>> /\ Observe
NetworkStep(A)       == A /\ UNCHANGED <<authVars, orchVars, registry, work>> /\ Observe

\* A client's request or a change of the registry.
Arrival ==
    /\ work < MaxWork /\ work' = work + 1
    /\ \/ /\ \E a \in AuthWorkers, q \in ManagementRequests : Receive(a, q)
          /\ UNCHANGED <<orchVars, registry>>
       \/ /\ \E o \in Callers, f \in Forms : Dispatch(o, f)
          /\ UNCHANGED <<authVars, registry>>
       \/ /\ ChangeRegistry
          /\ UNCHANGED <<authVars, orchVars>>
    /\ Observe

Next == \/ Arrival
        \/ \E a \in AuthWorkers : AuthorizationStep(Handle(a))
        \/ \E o \in Callers : \/ AuthorizationStep(Serve(o))
                              \/ OrchestratorStep(Database(o) \/ Orchestrate(o) \/ SendThrows(o))
                              \/ NetworkStep(Query(o) \/ Lose(o))
        \/ AuthorizationStep(Killed)

\* A worker of the orchestrator runs, or the service it has called answers.
Progress(o) == \/ OrchestratorStep(Orchestrate(o))
               \/ AuthorizationStep(Serve(o))
               \/ NetworkStep(Query(o))

\* Workers go on, services answer, and the pool gives a waiting worker a connection.
Fairness == /\ \A o \in Callers : WF_vars(Progress(o)) /\ SF_vars(OrchestratorStep(Database(o)))
            /\ \A a \in AuthWorkers : WF_vars(AuthorizationStep(Handle(a)))

Spec == Init /\ [][Next]_vars /\ Fairness
-----------------------------------------------------------------------------
(***************************************************************************)
(* Properties.                                                             *)
(***************************************************************************)
TypeOK ==
    /\ \A o \in Callers : /\ call[o].at \in {"none", "query", "check", "token", "reply"}
                          /\ call[o].status \in {0, OK, BadRequest, CurlError}
                          /\ call[o].faulty \in BOOLEAN
    /\ step \in [AuthWorkers -> {"idle", "begin", "insert", "readback", "delete", "get",
                                 "count", "rows", "done"}]
    /\ nextId \in Nat
    /\ \A r \in rules : r.id < nextId
    /\ opc \in [Callers -> {"idle", "database", "form", "query", "check", "build", "token", "done"}]
    /\ response \in [Callers -> {0, OK, BadRequest}]
    /\ connections \in 0..PoolSize
    /\ registry \subseteq Offers

Grant(f, e, i) == [consumer |-> f.requester, provider |-> e.provider, service |-> e.service,
                   interface |-> i]

\* A provider in a response was registered for the service at some time during the
\* request, and each interface listed for it is one that an entry of this provider offers
\* and that a rule gave the requester at some time during the request, although the
\* registry, the check and the tokens are asked one after the other while entries and
\* rules come and go (dynamicOrchestration, createOrchestrationResponse).
OnlyAuthorizedReturned ==
    \A o \in Callers : opc[o] = "done" => \A r \in vOrchResp[o] :
        /\ r.entry \in everEntries[o] /\ r.entry.service = form[o].service
        /\ r.interfaces # {}
        /\ \A i \in r.interfaces :
             /\ Grant(form[o], r.entry, i) \in everGrants[o]
             /\ \E e \in everEntries[o] : e.provider = r.entry.provider /\ i \in e.interfaces

\* An entry the request may have: it matches, it is preferred if only such ones are
\* wanted, and it needs no token.
Eligible(f, e) == /\ Matches(e, f)
                  /\ f.onlyPreferred => e \in selectPreferred(f, {e})
                  /\ ~NeedsToken(e)

\* If no call met a fault, a provider whose entry was registered, and one of whose
\* interfaces was authorized, during the whole request is in the response with this
\* interface (without matchmaking).  Entries secured by tokens are left out: the
\* authorization system cannot parse what createTokenRule writes.
AuthorizedIsReturned ==
    \A o \in Callers :
        (/\ opc[o] = "done" /\ response[o] = OK /\ ~disturbed[o]
         /\ form[o].auth = "string" /\ ~form[o].matchmaking) =>
            \A e \in keptEntries[o] : \A i \in e.interfaces :
                (Eligible(form[o], e) /\ Grant(form[o], e, i) \in keptGrants[o]) =>
                    \E r \in vOrchResp[o] : r.entry = e /\ i \in r.interfaces

\* A response to a request with matchmaking names one provider at most, and with
\* onlyPreferred none but the local ones of the request's list.
FlagsHonoured ==
    \A o \in Callers : (opc[o] = "done" /\ vOrchResp[o] # {}) =>
        /\ form[o].matchmaking => Cardinality(vOrchResp[o]) = 1
        /\ form[o].onlyPreferred => \A r \in vOrchResp[o] :
             \E p \in form[o].preferred : isLocal(p) /\ p.system = r.entry.provider

\* Every request is answered, or its process ends: workers that hold a connection while
\* they wait for other systems do not starve those that wait for one.
Answered ==
    /\ \A o \in Callers : InProgress(opc[o]) ~> ~InProgress(opc[o])
    /\ \A a \in AuthWorkers : step[a] \notin {"idle", "done"} ~> step[a] \in {"idle", "done"}
=============================================================================
