---------------------------- MODULE Orchestrator ----------------------------
(***************************************************************************)
(* The orchestrator core system (core/apps/Orchestrator): a request for a  *)
(* service is answered by asking the service registry who provides it      *)
(* (/query), the authorization system which of the providers' interfaces   *)
(* the requester may use (/intracloud/check), and, for each provider       *)
(* secured by tokens, the authorization system again (/token).  Every step *)
(* ends at a call, at its result, or at the response.  A worker holds a    *)
(* connection to the database, which it never uses, from the start of the  *)
(* handler to its end.                                                     *)
(*                                                                         *)
(* An entry of the registry is a record [uri, provider, service,           *)
(* interfaces, secure].  SQL leaves the order of the entries of a query    *)
(* open, so vectors of entries are sets; so is mAuthorizedProvIntfs, of    *)
(* <<provider, interface>> pairs.                                          *)
(***************************************************************************)
EXTENDS WebGet, FiniteSets

CONSTANTS
    Forms,      \* the service request forms that may arrive
    PoolSize    \* connections in the orchestrator's database pool

ASSUME PoolAssumption == PoolSize \in Nat \ {0} /\ IsFiniteSet(Callers)

VARIABLES
    opc,            \* where each worker is
    form,           \* its request (oInputServiceRequestForm)
    queryData,      \* entries the service registry returned
    authorized,     \* mAuthorizedProvIntfs
    vProviders,     \* createOrchestrationResponse: entries not yet dealt with
    asking,         \* the entry it asks tokens for, in a set
    vOrchResp,      \* entries put into the response
    response,       \* the status of the response
    connections     \* connections left in the pool

orchVars == <<opc, form, queryData, authorized, vProviders, asking, vOrchResp, response, connections>>

NoForm == [requester |-> "none"]
Missing == "missing"    \* a mandatory part of the form that is absent or blank

OrchInit ==
    /\ opc = [o \in Callers |-> "idle"]
    /\ form = [o \in Callers |-> NoForm]
    /\ queryData = [o \in Callers |-> {}]
    /\ authorized = [o \in Callers |-> {}]
    /\ vProviders = [o \in Callers |-> {}]
    /\ asking = [o \in Callers |-> {}]
    /\ vOrchResp = [o \in Callers |-> {}]
    /\ response = [o \in Callers |-> 0]
    /\ connections = PoolSize
-----------------------------------------------------------------------------
(***************************************************************************)
(* The checks of the form.  A preferred provider is a record [system,      *)
(* cloud, fault]: whether it names a cloud, and what checkSystemRequest    *)
(* returns for it.                                                         *)
(***************************************************************************)
isLocal(p) == ~p.cloud /\ p.system # Missing

\* The codes 1 and 2 are for forms without a service, which parseRequestForm has refused.
validateCrossParameterConstraints(f) ==
    IF f.onlyPreferred /\ ~f.preferredExist THEN 3 ELSE 0

\* vPreferredProviderDataValidated, as validateCrossParameterConstraints leaves it.
validated(f) == IF f.onlyPreferred /\ f.preferredExist
                  THEN {p \in f.preferred : isLocal(p)} ELSE {}

\* `if(!status) return status;': the later checks run only for a form that has failed the
\* first one, and their result replaces its error.  No cloud can be asked, as
\* isInterCloudOrchestrationPossible is false, so the codes 9 and 10 do not occur.
checkServiceRequestForm(f) ==
    LET faulty == {p \in validated(f) : p.fault # 0}
    IN IF validateCrossParameterConstraints(f) # 0 /\ faulty # {}
         THEN (CHOOSE p \in faulty : TRUE).fault ELSE 0

\* parseRequestForm and the form's checks: the request is refused.
FormRefused(f) == f.requester = Missing \/ f.service = Missing \/ checkServiceRequestForm(f) # 0
-----------------------------------------------------------------------------
selectPreferred(f, entries) ==
    IF ~f.preferredExist THEN {}
    ELSE {e \in entries : \E p \in f.preferred : isLocal(p) /\ p.system = e.provider}

\* Mutant: only the interfaces of one entry are asked for.
IntraCloudRuleOfOne(f, entries) ==
    LET first == CHOOSE e \in entries : TRUE
    IN [consumer |-> f.requester, auth |-> f.auth, service |-> first.service,
        asked |-> {<<e.provider, i>> : e \in entries, i \in first.interfaces}]

\* createIntraCloudRule.
IntraCloudRule(f, entries) ==
    [consumer |-> f.requester,
     auth     |-> f.auth,
     service  |-> (CHOOSE e \in entries : TRUE).service,
     asked    |-> UNION {{<<e.provider, i>> : i \in e.interfaces} : e \in entries}]

\* filterProviderListUsingAuthorizationResult: interfaces are collected per provider, over
\* all of its entries.
filterProviderList(entries, granted) ==
    {g \in granted : \E e \in entries : e.provider = g[1] /\ g[2] \in e.interfaces}

AuthorizedEntries(entries, auth) == {e \in entries : \E g \in auth : g[1] = e.provider}

\* Mutant: without a preferred provider among the entries, all of them are taken.
CandidatesOrAll(f, entries, auth) ==
    LET preferred == selectPreferred(f, entries)
        wanted    == IF f.onlyPreferred /\ preferred # {} THEN preferred
                     ELSE AuthorizedEntries(entries, auth)
    IN IF f.matchmaking THEN {{e} : e \in wanted} ELSE {wanted}

\* dynamicOrchestration: the lists of entries it may hand to createOrchestrationResponse.
\* Matchmaking picks one at random: of the preferred ones, authorized or not, or of those
\* of an authorized provider.
Candidates(f, entries, auth) ==
    LET preferred == selectPreferred(f, entries)
    IN CASE f.onlyPreferred /\ preferred = {}      -> {{}}
         [] f.onlyPreferred /\ preferred # {} /\ f.matchmaking -> {{e} : e \in preferred}
         [] f.onlyPreferred /\ preferred # {} /\ ~f.matchmaking -> {preferred}
         [] ~f.onlyPreferred /\ f.matchmaking      -> {{e} : e \in AuthorizedEntries(entries, auth)}
         [] ~f.onlyPreferred /\ ~f.matchmaking     -> {entries}

\* createTokenRule writes the provider's port with addStr, and the interface names
\* without quotes.
TokenRule(e) == [provider |-> e.provider, port |-> "string", interfaces |-> "bare"]

NeedsToken(e) == e.secure = "token"

\* The element of the response for the entry e.
Element(e, auth) == [entry |-> e, interfaces |-> {g[2] : g \in {h \in auth : h[1] = e.provider}}]
-----------------------------------------------------------------------------
\* handlePOST, up to the database connection it waits for.
Dispatch(o, f) ==
    /\ opc[o] \in {"idle", "done"}
    /\ opc' = [opc EXCEPT ![o] = "database"]
    /\ form' = [form EXCEPT ![o] = f]
    /\ queryData' = [queryData EXCEPT ![o] = {}]
    /\ authorized' = [authorized EXCEPT ![o] = {}]
    /\ vProviders' = [vProviders EXCEPT ![o] = {}]
    /\ asking' = [asking EXCEPT ![o] = {}]
    /\ vOrchResp' = [vOrchResp EXCEPT ![o] = {}]
    /\ response' = [response EXCEPT ![o] = 0]
    /\ UNCHANGED <<connections, call>>

\* Mutant: an early return with an error keeps the connection.
RespondKeeping(o, status, elements) ==
    /\ opc' = [opc EXCEPT ![o] = "done"]
    /\ response' = [response EXCEPT ![o] = status]
    /\ vOrchResp' = [vOrchResp EXCEPT ![o] = elements]
    /\ connections' = IF status = OK THEN connections + 1 ELSE connections

\* The handler returns: the connection goes back to the pool.
Respond(o, status, elements) ==
    /\ opc' = [opc EXCEPT ![o] = "done"]
    /\ response' = [response EXCEPT ![o] = status]
    /\ vOrchResp' = [vOrchResp EXCEPT ![o] = elements]
    /\ connections' = connections + 1

\* Mutant: a connection that another worker holds is handed out too.
DatabaseShared(o) ==
    /\ opc[o] = "database"
    /\ opc' = [opc EXCEPT ![o] = "form"]
    /\ connections' = IF connections > 0 THEN connections - 1 ELSE 0
    /\ UNCHANGED <<form, queryData, authorized, vProviders, asking, vOrchResp, response, call>>

Database(o) ==
    /\ opc[o] = "database" /\ connections > 0
    /\ opc' = [opc EXCEPT ![o] = "form"]
    /\ connections' = connections - 1
    /\ UNCHANGED <<form, queryData, authorized, vProviders, asking, vOrchResp, response, call>>

\* processOrchestration up to queryServiceRegistry.
ProcessForm(o) ==
    /\ opc[o] = "form"
    /\ IF FormRefused(form[o])
         THEN Respond(o, BadRequest, {}) /\ UNCHANGED call
         ELSE /\ Send(o, "query", [service |-> form[o].service, required |-> form[o].required])
              /\ opc' = [opc EXCEPT ![o] = "query"]
              /\ UNCHANGED <<vOrchResp, response, connections>>
    /\ UNCHANGED <<form, queryData, authorized, vProviders, asking>>

\* The registry's answer, and queryAuthorization up to its call.
Queried(o) ==
    /\ opc[o] = "query" /\ Replied(o)
    /\ LET entries == IF call[o].status = OK THEN call[o].body ELSE {}
       IN IF entries = {}
            THEN Respond(o, OK, {}) /\ Return(o) /\ UNCHANGED queryData
            ELSE /\ queryData' = [queryData EXCEPT ![o] = entries]
                 /\ Send(o, "check", IntraCloudRule(form[o], entries))
                 /\ opc' = [opc EXCEPT ![o] = "check"]
                 /\ UNCHANGED <<vOrchResp, response, connections>>
    /\ UNCHANGED <<form, authorized, vProviders, asking>>

\* The authorization system's answer, and the choice of entries.
Checked(o) ==
    /\ opc[o] = "check" /\ Replied(o)
    /\ Return(o)
    /\ LET auth == IF call[o].status = OK
                     THEN filterProviderList(queryData[o], call[o].body) ELSE {}
       IN IF auth = {}
            THEN Respond(o, OK, {}) /\ UNCHANGED <<authorized, vProviders>>
            ELSE \E chosen \in Candidates(form[o], queryData[o], auth) :
                   /\ authorized' = [authorized EXCEPT ![o] = auth]
                   /\ vProviders' = [vProviders EXCEPT ![o] = AuthorizedEntries(chosen, auth)]
                   /\ opc' = [opc EXCEPT ![o] = "build"]
                   /\ UNCHANGED <<vOrchResp, response, connections>>
    /\ UNCHANGED <<form, queryData, asking>>

\* createOrchestrationResponse: the loop up to the next call for tokens, or to its end.
\* Checked has left out the entries it skips, those of providers without authorization.
Build(o) ==
    /\ opc[o] = "build"
    /\ \/ /\ \A e \in vProviders[o] : ~NeedsToken(e)
          /\ Respond(o, OK, vOrchResp[o] \cup {Element(e, authorized[o]) : e \in vProviders[o]})
          /\ UNCHANGED <<vProviders, asking, call>>
       \/ /\ \E e \in vProviders[o] :
               /\ NeedsToken(e)
               /\ Send(o, "token", TokenRule(e))
               /\ asking' = [asking EXCEPT ![o] = {e}]
               /\ vProviders' = [vProviders EXCEPT ![o] = @ \ {e}]
          /\ opc' = [opc EXCEPT ![o] = "token"]
          /\ UNCHANGED <<vOrchResp, response, connections>>
    /\ UNCHANGED <<form, queryData, authorized>>

\* The answer to /token: an entry without tokens is left out.
GotTokens(o) ==
    /\ opc[o] = "token" /\ Replied(o)
    /\ Return(o)
    /\ vOrchResp' = [vOrchResp EXCEPT ![o] = @ \cup
         {Element(e, authorized[o]) : e \in {e \in asking[o] : call[o].status = OK}}]
    /\ asking' = [asking EXCEPT ![o] = {}]
    /\ opc' = [opc EXCEPT ![o] = "build"]
    /\ UNCHANGED <<form, queryData, authorized, vProviders, response, connections>>

\* A WebGet::Error (no handle, no option, no status code) leaves the handler, and dispatch
\* is noexcept: the orchestrator ends and is started again.
SendThrows(o) ==
    LET Left(f, none) == [c \in Callers |-> IF opc[c] = "done" THEN f[c] ELSE none]
    IN /\ call[o].at # "none"
       /\ call' = [c \in Callers |-> NoCall]
       /\ opc' = Left(opc, "idle")
       /\ form' = Left(form, NoForm)
       /\ queryData' = Left(queryData, {})
       /\ authorized' = Left(authorized, {})
       /\ vProviders' = Left(vProviders, {})
       /\ asking' = Left(asking, {})
       /\ vOrchResp' = Left(vOrchResp, {})
       /\ connections' = PoolSize
       /\ UNCHANGED response

Orchestrate(o) == ProcessForm(o) \/ Queried(o) \/ Checked(o) \/ Build(o) \/ GotTokens(o)
=============================================================================
