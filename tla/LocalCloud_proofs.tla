------------------------- MODULE LocalCloud_proofs --------------------------
(***************************************************************************)
(* Proofs about module LocalCloud, for every number of workers and         *)
(* requests, every registry and every set of rules.                        *)
(***************************************************************************)
EXTENDS LocalCloudSteps_proofs

\* A step of worker o leaves alone what the other workers hold.
Alone(o) == CloudTyped' /\ \A p \in Callers \ {o} : Held(p)' = Held(p)

LEMMA RespondAlone ==
    ASSUME NEW o \in Callers, NEW status, NEW elements, CloudTyped, Respond(o, status, elements)
    PROVE  /\ DOMAIN opc' = Callers /\ DOMAIN response' = Callers /\ DOMAIN vOrchResp' = Callers
           /\ \A p \in Callers \ {o} : /\ opc'[p] = opc[p] /\ response'[p] = response[p]
                                       /\ vOrchResp'[p] = vOrchResp[p]
BY Zenon DEF Respond, CloudTyped

LEMMA CallAlone ==
    ASSUME NEW o \in Callers, CloudTyped, NEW c, call' = [call EXCEPT ![o] = c]
    PROVE  DOMAIN call' = Callers /\ \A p \in Callers \ {o} : call'[p] = call[p]
BY Zenon DEF CloudTyped

LEMMA OrchestratorAlone ==
    ASSUME NEW o \in Callers, CloudTyped,
           \/ \E f \in Forms : Dispatch(o, f)
           \/ Database(o) \/ Orchestrate(o)
    PROVE  Alone(o)
<1>1. ASSUME NEW f \in Forms, Dispatch(o, f) PROVE Alone(o)
  BY <1>1, Zenon DEF Dispatch, Alone, CloudTyped, Held
<1>2. ASSUME Database(o) PROVE Alone(o)
  BY <1>2, Zenon DEF Database, Alone, CloudTyped, Held
<1>3. ASSUME ProcessForm(o) PROVE Alone(o)
  <2>1. CASE FormRefused(form[o])
    <3>1. Respond(o, BadRequest, {}) /\ UNCHANGED <<call, form, queryData, authorized, vProviders, asking>>
      BY <1>3, <2>1, Zenon DEF ProcessForm
    <3>. QED
      BY <3>1, RespondAlone, Zenon DEF Alone, CloudTyped, Held
  <2>2. CASE ~FormRefused(form[o])
    BY <1>3, <2>2, CallAlone, Zenon DEF ProcessForm, Send, Alone, CloudTyped, Held
  <2>. QED
    BY <2>1, <2>2, Zenon
<1>4. ASSUME Queried(o) PROVE Alone(o)
  <2>. DEFINE entries == IF call[o].status = OK THEN call[o].body ELSE {}
  <2>1. CASE entries = {}
    <3>1. /\ Respond(o, OK, {}) /\ Return(o)
          /\ UNCHANGED <<queryData, form, authorized, vProviders, asking>>
      BY <1>4, <2>1, Zenon DEF Queried
    <3>. QED
      BY <3>1, RespondAlone, CallAlone, Zenon DEF Return, Alone, CloudTyped, Held
  <2>2. CASE entries # {}
    <3>1. /\ queryData' = [queryData EXCEPT ![o] = entries]
          /\ Send(o, "check", IntraCloudRule(form[o], entries))
          /\ opc' = [opc EXCEPT ![o] = "check"]
          /\ UNCHANGED <<vOrchResp, response, form, authorized, vProviders, asking>>
      BY <1>4, <2>2, Zenon DEF Queried
    <3>. HIDE DEF entries
    <3>. QED
      BY <3>1, CallAlone, Zenon DEF Send, Alone, CloudTyped, Held
  <2>. QED
    BY <2>1, <2>2, Zenon
<1>5. ASSUME Checked(o) PROVE Alone(o)
  <2>. DEFINE auth == IF call[o].status = OK THEN filterProviderList(queryData[o], call[o].body) ELSE {}
  <2>1. DOMAIN call' = Callers /\ \A p \in Callers \ {o} : call'[p] = call[p]
    BY <1>5, CallAlone, Zenon DEF Checked, Return
  <2>2. CASE auth = {}
    <3>1. Respond(o, OK, {}) /\ UNCHANGED <<authorized, vProviders, form, queryData, asking>>
      BY <1>5, <2>2, Zenon DEF Checked
    <3>. QED
      BY <2>1, <3>1, RespondAlone, Zenon DEF Alone, CloudTyped, Held
  <2>3. CASE auth # {}
    <3>1. PICK chosen \in Candidates(form[o], queryData[o], auth) :
            /\ authorized' = [authorized EXCEPT ![o] = auth]
            /\ vProviders' = [vProviders EXCEPT ![o] = AuthorizedEntries(chosen, auth)]
            /\ opc' = [opc EXCEPT ![o] = "build"]
            /\ UNCHANGED <<vOrchResp, response, form, queryData, asking>>
      BY <1>5, <2>3, Zenon DEF Checked
    <3>. HIDE DEF auth
    <3>. QED
      BY <2>1, <3>1, Zenon DEF Alone, CloudTyped, Held
  <2>. QED
    BY <2>2, <2>3, Zenon
<1>6. ASSUME Build(o) PROVE Alone(o)
  <2>. DEFINE elements == vOrchResp[o] \cup {Element(e, authorized[o]) : e \in vProviders[o]}
  <2>1. UNCHANGED <<form, queryData, authorized>>
    BY <1>6, Zenon DEF Build
  <2>2. CASE Respond(o, OK, elements) /\ UNCHANGED <<vProviders, asking, call>>
    <3>. HIDE DEF elements
    <3>. QED
      BY <2>1, <2>2, RespondAlone, Zenon DEF Alone, CloudTyped, Held
  <2>3. ASSUME NEW e \in vProviders[o], Send(o, "token", TokenRule(e)),
               asking' = [asking EXCEPT ![o] = {e}],
               vProviders' = [vProviders EXCEPT ![o] = @ \ {e}],
               opc' = [opc EXCEPT ![o] = "token"], UNCHANGED <<vOrchResp, response>>
        PROVE  Alone(o)
    BY <2>1, <2>3, CallAlone, Zenon DEF Send, Alone, CloudTyped, Held
  <2>. QED
    BY <1>6, <2>2, <2>3, Zenon DEF Build
<1>7. ASSUME GotTokens(o) PROVE Alone(o)
  <2>1. DOMAIN call' = Callers /\ \A p \in Callers \ {o} : call'[p] = call[p]
    BY <1>7, CallAlone, Zenon DEF GotTokens, Return
  <2>. QED
    BY <1>7, <2>1, Zenon DEF GotTokens, Alone, CloudTyped, Held
<1>. QED
  BY <1>1, <1>2, <1>3, <1>4, <1>5, <1>6, <1>7, Zenon DEF Orchestrate

\* Nothing changes for the orchestrator but the answer that worker o gets.
LEMMA ReplyAlone ==
    ASSUME NEW o \in Callers, CloudTyped, NEW c, call' = [call EXCEPT ![o] = c], UNCHANGED orchVars
    PROVE  Alone(o) /\ Kept(o)' = Kept(o) /\ call'[o] = c
<1>1. DOMAIN call' = Callers /\ (\A p \in Callers \ {o} : call'[p] = call[p]) /\ call'[o] = c
  BY Zenon DEF CloudTyped
<1>. QED
  BY <1>1, Zenon DEF Alone, CloudTyped, Held, Kept, orchVars

\* A step of worker o that keeps its invariant keeps the others'.
LEMMA AloneInv ==
    ASSUME NEW o \in Callers, CloudInv, Observe, Alone(o), CallerInv(o)'
    PROVE  CloudInv'
BY Bystander, Zenon DEF CloudInv, Alone

LEMMA TerminateCloud ==
    ASSUME CloudInv, Observe, Terminate, UNCHANGED orchVars
    PROVE  CloudInv'
<1>1. /\ DOMAIN call' = Callers
      /\ \A o \in Callers : call'[o] = IF call[o].at \in {"check", "token"}
                                         THEN FaultyReply(CurlError) ELSE call[o]
  BY Zenon DEF Terminate
<1>2. CloudTyped'
  BY <1>1, Zenon DEF CloudInv, CloudTyped, orchVars
<1>3. ASSUME NEW o \in Callers PROVE CallerInv(o)'
  <2>1. Kept(o)' = Kept(o)
    BY Zenon DEF Kept, orchVars
  <2>2. CASE call[o].at \in {"check", "token"}
    <3>1. call'[o].at = "reply" /\ call'[o].body = {} /\ call'[o].faulty
      BY <1>1, <2>2 DEF FaultyReply
    <3>. QED
      BY <2>1, <2>2, <3>1, EmptyReply, Zenon DEF CloudInv
  <2>3. CASE call[o].at \notin {"check", "token"}
    <3>1. Held(o)' = Held(o)
      BY <1>1, <2>3, Zenon DEF Held, orchVars
    <3>. QED
      BY <3>1, Bystander, Zenon DEF CloudInv
  <2>. QED
    BY <2>2, <2>3, Zenon
<1>. QED
  BY <1>2, <1>3, Zenon DEF CloudInv

LEMMA SendThrowsStep ==
    ASSUME CloudInv, Observe, NEW c \in Callers, SendThrows(c)
    PROVE  CloudInv'
<1>1. CloudTyped'
  BY Zenon DEF SendThrows, CloudInv, CloudTyped
<1>2. ASSUME NEW o \in Callers, opc[o] # "done" PROVE CallerInv(o)'
  <2>1. opc'[o] = "idle" /\ call'[o].at = "none"
    BY <1>2, Zenon DEF SendThrows, NoCall
  <2>. QED
    BY <2>1, Zenon DEF CallerInv, CallFits, Sound, Complete
<1>3. ASSUME NEW o \in Callers, opc[o] = "done" PROVE CallerInv(o)'
  <2>1. /\ opc'[o] = "done" /\ call'[o].at = "none" /\ form'[o] = form[o]
        /\ vOrchResp'[o] = vOrchResp[o] /\ response'[o] = response[o]
    BY <1>3, Zenon DEF SendThrows, NoCall
  <2>2. Later(o)
    BY <1>3, <2>1, ObservedLater, Zenon
  <2>3. CallFits(o)'
    BY <2>1, Zenon DEF CallFits
  <2>4. Authorized(o)' /\ Flagged(o)'
    BY <1>3, <2>1, <2>2 DEF CloudInv, CallerInv, Sound, Authorized, Allowed, Flagged, Preferred, Later
  <2>5. Complete(o) => Complete(o)'
    BY <1>3, <2>1, <2>2, EntitledBefore, ZenonT(30) DEF Complete, Later
  <2>. QED
    BY <2>1, <2>3, <2>4, <2>5, Zenon DEF CloudInv, CallerInv, Sound
<1>. QED
  BY <1>1, <1>2, <1>3, Zenon DEF CloudInv

LEMMA ServeStep ==
    ASSUME CloudInv, Observe, NEW o \in Callers, Serve(o), UNCHANGED orchVars
    PROVE  CloudInv'
<1>1. CloudTyped /\ CallerInv(o)
  BY Zenon DEF CloudInv
<1>2. ASSUME Check(o) PROVE CloudInv'
  <2>1. Alone(o) /\ Kept(o)' = Kept(o)
    BY <1>1, <1>2, ReplyAlone, Zenon DEF Check, Answer
  <2>2. CallerInv(o)'
    BY <1>1, <1>2, <2>1, CheckReply, Zenon
  <2>. QED
    BY <2>1, <2>2, AloneInv, Zenon
<1>3. ASSUME call[o].at # "none",
             NEW c, call' = [call EXCEPT ![o] = c], c.at = "reply", c.body = {},
             c.faulty \/ form[o].auth # "string" \/ opc[o] = "token"
      PROVE  CloudInv'
  <2>1. Alone(o) /\ Kept(o)' = Kept(o) /\ call'[o] = c
    BY <1>1, <1>3, ReplyAlone, Zenon
  <2>2. CallerInv(o)'
    BY <1>1, <1>3, <2>1, EmptyReply, Zenon
  <2>. QED
    BY <2>1, <2>2, AloneInv, Zenon
<1>4. ASSUME call[o].at # "none", NEW status, Answer(o, status, {}),
             form[o].auth # "string" \/ opc[o] = "token"
      PROVE  CloudInv'
  <2>. DEFINE c == [at |-> "reply", status |-> status, body |-> {}, faulty |-> FALSE]
  <2>1. call' = [call EXCEPT ![o] = c]
    BY <1>4, Zenon DEF Answer
  <2>2. c.at = "reply" /\ c.body = {}
    BY Zenon
  <2>. HIDE DEF c
  <2>. QED
    BY <1>3, <1>4, <2>1, <2>2, Zenon
<1>5. ASSUME CheckFails(o) PROVE CloudInv'
  <2>1. PICK status : call' = [call EXCEPT ![o] = FaultyReply(status)]
    BY <1>5, Zenon DEF CheckFails
  <2>2. /\ FaultyReply(status).at = "reply" /\ FaultyReply(status).body = {}
        /\ FaultyReply(status).faulty
    BY Zenon DEF FaultyReply
  <2>3. call[o].at # "none"
    BY <1>5, Zenon DEF CheckFails
  <2>. QED
    BY <1>3, <2>1, <2>2, <2>3, Zenon
<1>6. ASSUME CheckUndefined(o) PROVE CloudInv'
  <2>1. opc[o] = "check" /\ form[o].auth # "string"
    <3>1. call[o].at = "check" /\ call[o].body.auth = "absent"
      BY <1>6, Zenon DEF CheckUndefined
    <3>2. opc[o] = "check"
      BY <1>1, <3>1, Zenon DEF CallerInv, CallFits
    <3>3. call[o].body = IntraCloudRule(form[o], queryData[o])
      BY <1>1, <3>1, <3>2, Zenon DEF CallerInv, CallFits
    <3>. QED
      BY <3>1, <3>2, <3>3 DEF IntraCloudRule
  <2>2. ASSUME NEW status, Answer(o, status, {}) PROVE CloudInv'
    <3>1. call[o].at # "none"
      BY <1>6, Zenon DEF CheckUndefined
    <3>. QED
      BY <1>4, <2>1, <2>2, <3>1, Zenon
  <2>. QED
    BY <1>6, <2>2, TerminateCloud, Zenon DEF CheckUndefined
<1>7. ASSUME Token(o) PROVE CloudInv'
  <2>1. call[o].at = "token" /\ opc[o] = "token"
    BY <1>1, <1>7, Zenon DEF Token, CallerInv, CallFits
  <2>2. PICK status : Answer(o, status, {})
    BY <1>7, Zenon DEF Token
  <2>. QED
    BY <1>4, <2>1, <2>2, Zenon
<1>. QED
  BY <1>2, <1>5, <1>6, <1>7, Zenon DEF Serve

LEMMA NetworkStepInv ==
    ASSUME CloudInv, Observe, NEW o \in Callers, Query(o) \/ Lose(o), UNCHANGED orchVars,
           registry' = registry
    PROVE  CloudInv'
<1>1. CloudTyped /\ CallerInv(o)
  BY Zenon DEF CloudInv
<1>2. CASE Query(o)
  <2>1. Alone(o) /\ Kept(o)' = Kept(o)
    BY <1>1, <1>2, ReplyAlone, Zenon DEF Query, Answer
  <2>2. CallerInv(o)'
    BY <1>1, <1>2, <2>1, QueryReply, Zenon
  <2>. QED
    BY <2>1, <2>2, AloneInv, Zenon
<1>3. CASE Lose(o)
  <2>1. Alone(o) /\ Kept(o)' = Kept(o) /\ call'[o] = FaultyReply(CurlError)
    BY <1>1, <1>3, ReplyAlone, Zenon DEF Lose
  <2>2. CallerInv(o)'
    BY <1>1, <1>3, <2>1, EmptyReply DEF Lose, FaultyReply
  <2>. QED
    BY <2>1, <2>2, AloneInv, Zenon
<1>. QED
  BY <1>2, <1>3, Zenon

-----------------------------------------------------------------------------
LEMMA CloudInitInv == Init => CloudInv
<1>. SUFFICES ASSUME Init PROVE CloudInv
  BY Zenon
<1>1. CloudTyped
  BY Zenon DEF Init, WebGetInit, OrchInit, CloudTyped
<1>2. ASSUME NEW o \in Callers PROVE CallerInv(o)
  <2>1. opc[o] = "idle" /\ call[o].at = "none"
    BY Zenon DEF Init, WebGetInit, OrchInit, NoCall
  <2>. QED
    BY <2>1, Zenon DEF CallerInv, CallFits, Sound, Complete
<1>. QED
  BY <1>1, <1>2, Zenon DEF CloudInv

LEMMA OrchestratorInv ==
    ASSUME CloudInv, Observe, NEW o \in Callers,
           \/ \E f \in Forms : Dispatch(o, f)
           \/ Database(o) \/ Orchestrate(o)
    PROVE  CloudInv'
<1>1. CloudTyped /\ CallerInv(o)
  BY Zenon DEF CloudInv
<1>2. CallerInv(o)'
  BY <1>1, DispatchStep, DatabaseStep, ProcessFormStep, QueriedStep, CheckedStep, BuildStep,
     GotTokensStep DEF Orchestrate
<1>3. Alone(o)
  BY <1>1, OrchestratorAlone, Zenon
<1>. QED
  BY <1>2, <1>3, AloneInv, Zenon

\* A step in which no call changes and no worker of the orchestrator moves.
LEMMA ElsewhereInv ==
    ASSUME CloudInv, Observe, UNCHANGED <<orchVars, call>>
    PROVE  CloudInv'
<1>1. CloudTyped'
  BY Zenon DEF CloudInv, CloudTyped, orchVars
<1>2. \A o \in Callers : Held(o)' = Held(o)
  BY Zenon DEF Held, orchVars
<1>. QED
  BY <1>1, <1>2, Bystander, Zenon DEF CloudInv

LEMMA CloudNextInv == CloudInv /\ [Next]_vars => CloudInv'
<1>. SUFFICES ASSUME CloudInv, [Next]_vars PROVE CloudInv'
  BY Zenon
<1>1. CASE UNCHANGED vars
  <2>1. /\ UNCHANGED <<opc, form, queryData, authorized, vProviders, asking, vOrchResp, response, call>>
        /\ UNCHANGED <<everEntries, keptEntries, everGrants, keptGrants, disturbed>>
    BY <1>1, Zenon DEF vars, orchVars, observed
  <2>2. ASSUME NEW o \in Callers PROVE CallFits(o)' <=> CallFits(o)
    BY <2>1, Zenon DEF CallFits
  <2>3. ASSUME NEW o \in Callers PROVE Sound(o)' <=> Sound(o)
    <3>1. Building(o)' <=> Building(o)
      BY <2>1 DEF Building, Fit, GrantOf
    <3>2. Authorized(o)' <=> Authorized(o)
      BY <2>1, Zenon DEF Authorized, Allowed
    <3>3. Flagged(o)' <=> Flagged(o)
      BY <2>1, Zenon DEF Flagged, Preferred
    <3>. QED
      BY <2>1, <3>1, <3>2, <3>3, Zenon DEF Sound, Offered, GrantOf
  <2>4. ASSUME NEW o \in Callers PROVE Complete(o)' <=> Complete(o)
    <3>1. \A e, i : Entitled(o, e, i)' <=> Entitled(o, e, i)
      BY <2>1, Zenon DEF Entitled
    <3>. QED
      BY <2>1, <3>1 DEF Complete
  <2>5. CloudTyped'
    BY <2>1, Zenon DEF CloudInv, CloudTyped
  <2>. QED
    BY <2>2, <2>3, <2>4, <2>5, Zenon DEF CloudInv, CallerInv
<1>2. ASSUME Arrival PROVE CloudInv'
  <2>1. ASSUME NEW a \in AuthWorkers, NEW q \in ManagementRequests, Receive(a, q),
               UNCHANGED orchVars, Observe
        PROVE  CloudInv'
    BY <2>1, ElsewhereInv, Zenon DEF Receive
  <2>2. ASSUME ChangeRegistry, UNCHANGED orchVars, Observe PROVE CloudInv'
    BY <2>2, ElsewhereInv, Zenon DEF ChangeRegistry
  <2>3. ASSUME NEW o \in Callers, NEW f \in Forms, Dispatch(o, f), Observe PROVE CloudInv'
    BY <2>3, OrchestratorInv, Zenon
  <2>. QED
    BY <1>2, <2>1, <2>2, <2>3, Zenon DEF Arrival
<1>3. ASSUME NEW a \in AuthWorkers, AuthorizationStep(Handle(a)) PROVE CloudInv'
  <2>1. Handle(a) /\ UNCHANGED orchVars /\ Observe
    BY <1>3, Zenon DEF AuthorizationStep
  <2>2. CASE Uncaught(a)
    BY <2>1, <2>2, TerminateCloud, Zenon DEF Uncaught
  <2>3. CASE ~Uncaught(a)
    <3>1. call' = call
      BY <2>1, <2>3, Zenon DEF Handle, Begin, InsertRule, InsertInterface, Commit, InsertFails, ReadBack,
         ReadBackFails, Delete, Get, Count, Rows, ReadFails
    <3>. QED
      BY <2>1, <3>1, ElsewhereInv, Zenon
  <2>. QED
    BY <2>2, <2>3, Zenon
<1>4. ASSUME NEW o \in Callers, AuthorizationStep(Serve(o)) PROVE CloudInv'
  BY <1>4, ServeStep, Zenon DEF AuthorizationStep
<1>5. ASSUME NEW o \in Callers, OrchestratorStep(Database(o) \/ Orchestrate(o) \/ SendThrows(o))
      PROVE  CloudInv'
  BY <1>5, OrchestratorInv, SendThrowsStep, Zenon DEF OrchestratorStep
<1>6. ASSUME NEW o \in Callers, NetworkStep(Query(o) \/ Lose(o)) PROVE CloudInv'
  BY <1>6, NetworkStepInv, Zenon DEF NetworkStep
<1>7. ASSUME AuthorizationStep(Killed) PROVE CloudInv'
  BY <1>7, TerminateCloud, Zenon DEF AuthorizationStep, Killed
<1>. QED
  BY <1>1, <1>2, <1>3, <1>4, <1>5, <1>6, <1>7, Zenon DEF Next

-----------------------------------------------------------------------------
\* The invariant from which the theorems about responses follow: Init establishes it and
\* every step of the orchestrator, the authorization system, the registry and the network
\* keeps it.
THEOREM CloudInvariant == Spec => []CloudInv
BY CloudInitInv, CloudNextInv, PTL DEF Spec

LEMMA CloudStepsAuthorization == [Next]_vars => [AuthNext]_authVars
<1>. SUFFICES ASSUME [Next]_vars PROVE AuthNext \/ UNCHANGED authVars
  BY Zenon
<1>1. CASE UNCHANGED vars
  BY <1>1, Zenon DEF vars
<1>2. CASE Arrival
  BY <1>2, Zenon DEF Arrival, AuthNext
<1>3. ASSUME NEW a \in AuthWorkers, AuthorizationStep(Handle(a)) PROVE AuthNext
  BY <1>3, Zenon DEF AuthorizationStep, AuthNext
<1>4. ASSUME NEW o \in Callers, AuthorizationStep(Serve(o)) PROVE AuthNext
  BY <1>4, Zenon DEF AuthorizationStep, AuthNext
<1>5. ASSUME NEW o \in Callers,
             \/ OrchestratorStep(Database(o) \/ Orchestrate(o) \/ SendThrows(o))
             \/ NetworkStep(Query(o) \/ Lose(o))
      PROVE  UNCHANGED authVars
  BY <1>5, Zenon DEF OrchestratorStep, NetworkStep
<1>6. CASE AuthorizationStep(Killed)
  BY <1>6, Zenon DEF AuthorizationStep, AuthNext
<1>. QED
  BY <1>1, <1>2, <1>3, <1>4, <1>5, <1>6, Zenon DEF Next

\* In the composition the authorization system does nothing that its own specification
\* does not allow (the orchestrator and the network only make and lose calls).
THEOREM CloudRunsAuthorization == Spec => AuthSpec
<1>1. Init => AuthInit
  BY Zenon DEF Init
<1>. QED
  BY <1>1, CloudStepsAuthorization, PTL DEF Spec, AuthSpec

\* In the local cloud too, a POST of rules that is answered OK reports what it stored.
THEOREM CloudPostReplyTrue == Spec => []PostReplyTrue
BY CloudRunsAuthorization, AuthPostReplyTrue, PTL

\* In the local cloud too, the rules are a table that a POST extends by all of its rules
\* or by none.
THEOREM CloudImplementsRuleTable == Spec => ImplementsRuleTable
BY CloudRunsAuthorization, AuthImplementsRuleTable, PTL

\* Whatever is registered, removed, granted and revoked meanwhile, and whichever calls
\* fail, a response names only providers that were registered for the service and
\* interfaces that were granted to the requester at some time during the request.
THEOREM CloudOnlyAuthorizedReturned == Spec => []OnlyAuthorizedReturned
<1>1. CloudInv => OnlyAuthorizedReturned
  BY Zenon DEF CloudInv, CallerInv, Sound, Authorized, Allowed, OnlyAuthorizedReturned
<1>. QED
  BY <1>1, CloudInvariant, PTL

\* Matchmaking leaves one provider at most and onlyPreferred none but the local ones of
\* the request's list, for every form, registry and set of rules.
THEOREM CloudFlagsHonoured == Spec => []FlagsHonoured
<1>1. CloudInv => FlagsHonoured
  <2>. SUFFICES ASSUME CloudInv, NEW o \in Callers, opc[o] = "done", vOrchResp[o] # {}
                PROVE  /\ form[o].matchmaking => Cardinality(vOrchResp[o]) = 1
                       /\ form[o].onlyPreferred => \A r \in vOrchResp[o] :
                            \E p \in form[o].preferred : isLocal(p) /\ p.system = r.entry.provider
    BY Zenon DEF FlagsHonoured
  <2>1. Flagged(o)
    BY Zenon DEF CloudInv, CallerInv, Sound
  <2>2. ASSUME form[o].matchmaking PROVE Cardinality(vOrchResp[o]) = 1
    <3>1. PICK r : vOrchResp[o] = {r}
      BY <2>1, <2>2, Zenon DEF Flagged
    <3>. QED
      BY <3>1, FS_Singleton, Zenon
  <2>. QED
    BY <2>1, <2>2, Zenon DEF Flagged, Preferred
<1>. QED
  BY <1>1, CloudInvariant, PTL

\* With a driver whose escape() quotes the text, a provider that was registered and
\* authorized during the whole of a request that met no fault is in the response.
THEOREM CloudAuthorizedIsReturned == ASSUME EscapeQuotes PROVE Spec => []AuthorizedIsReturned
<1>1. CloudInv => AuthorizedIsReturned
  <2>. SUFFICES ASSUME CloudInv, NEW o \in Callers,
                       /\ opc[o] = "done" /\ response[o] = OK /\ ~disturbed[o]
                       /\ form[o].auth = "string" /\ ~form[o].matchmaking
                PROVE  \A e \in keptEntries[o] : \A i \in e.interfaces :
                         (Eligible(form[o], e) /\ Grant(form[o], e, i) \in keptGrants[o]) =>
                             \E r \in vOrchResp[o] : r.entry = e /\ i \in r.interfaces
    BY Zenon DEF AuthorizedIsReturned
  <2>1. Complete(o)
    BY Zenon DEF CloudInv, CallerInv
  <2>2. ASSUME NEW e \in keptEntries[o], NEW i \in e.interfaces, Entitled(o, e, i)
        PROVE  \E r \in vOrchResp[o] : r.entry = e /\ i \in r.interfaces
    BY <2>1, <2>2, Zenon DEF Complete
  <2>. QED
    BY <2>2, Zenon DEF Entitled
<1>. QED
  BY <1>1, CloudInvariant, PTL

-----------------------------------------------------------------------------
(***************************************************************************)
(* Type correctness of module LocalCloud.  It rests on the balance of the  *)
(* orchestrator's connections: those in the pool and those that workers    *)
(* hold are PoolSize together.                                             *)
(***************************************************************************)
PCs     == {"idle", "database", "form", "query", "check", "build", "token", "done"}
Steps   == {"idle", "begin", "insert", "readback", "delete", "get", "count", "rows", "done"}
Holds   == {"form", "query", "check", "build", "token"}
Holding == {o \in Callers : opc[o] \in Holds}

Balanced == connections \in Nat /\ connections + Cardinality(Holding) = PoolSize

TypedCall(c) == /\ c.at \in {"none", "query", "check", "token", "reply"}
                /\ c.status \in {0, OK, BadRequest, CurlError}
                /\ c.faulty \in BOOLEAN

CallsTyped == DOMAIN call = Callers /\ \A o \in Callers : TypedCall(call[o])

OrchTyped == /\ opc \in [Callers -> PCs]
             /\ response \in [Callers -> {0, OK, BadRequest}]
             /\ Balanced

LEMMA HoldingFinite == IsFiniteSet(Holding) /\ Cardinality(Holding) \in Nat
BY PoolAssumption, FS_Subset, FS_CardinalityType, Zenon DEF Holding

\* A worker that moves takes a connection, gives it back, or keeps what it has.
LEMMA Moved ==
    ASSUME OrchTyped, NEW o \in Callers, NEW pc \in PCs, opc' = [opc EXCEPT ![o] = pc],
           connections' = CASE opc[o] \in Holds /\ pc \notin Holds -> connections + 1
                            [] opc[o] \notin Holds /\ pc \in Holds -> connections - 1
                            [] OTHER -> connections,
           (opc[o] \notin Holds /\ pc \in Holds) => connections > 0
    PROVE  opc' \in [Callers -> PCs] /\ Balanced'
<1>1. opc' \in [Callers -> PCs] /\ opc'[o] = pc /\ \A p \in Callers \ {o} : opc'[p] = opc[p]
  BY Zenon DEF OrchTyped
<1>2. CASE opc[o] \in Holds /\ pc \notin Holds
  <2>1. Holding' = Holding \ {o} /\ o \in Holding
    BY <1>1, <1>2, Zenon DEF Holding
  <2>2. Cardinality(Holding') = Cardinality(Holding) - 1
    BY <2>1, HoldingFinite, FS_RemoveElement, Zenon
  <2>3. connections' = connections + 1
    BY <1>2, Zenon
  <2>. QED
    BY <1>1, <2>2, <2>3, HoldingFinite, PoolAssumption DEF OrchTyped, Balanced
<1>3. CASE opc[o] \notin Holds /\ pc \in Holds
  <2>1. Holding' = Holding \cup {o} /\ o \notin Holding
    BY <1>1, <1>3, Zenon DEF Holding
  <2>2. Cardinality(Holding') = Cardinality(Holding) + 1
    BY <2>1, HoldingFinite, FS_AddElement, Zenon
  <2>3. connections' = connections - 1 /\ connections > 0
    BY <1>3, Zenon
  <2>. QED
    BY <1>1, <2>2, <2>3, HoldingFinite, PoolAssumption DEF OrchTyped, Balanced
<1>4. CASE opc[o] \in Holds <=> pc \in Holds
  <2>1. Holding' = Holding
    BY <1>1, <1>4, Zenon DEF Holding
  <2>2. connections' = connections
    BY <1>4, Zenon
  <2>. QED
    BY <1>1, <2>1, <2>2, Zenon DEF OrchTyped, Balanced
<1>. QED
  BY <1>2, <1>3, <1>4, Zenon

LEMMA RespondTyped ==
    ASSUME OrchTyped, NEW o \in Callers, opc[o] \in Holds, NEW status \in {OK, BadRequest},
           NEW elements, Respond(o, status, elements)
    PROVE  OrchTyped'
<1>1. response' \in [Callers -> {0, OK, BadRequest}]
  BY Zenon DEF Respond, OrchTyped
<1>2. opc' = [opc EXCEPT ![o] = "done"] /\ connections' = connections + 1
  BY Zenon DEF Respond
<1>3. "done" \in PCs /\ "done" \notin Holds
  BY Zenon DEF PCs, Holds
<1>. QED
  BY <1>1, <1>2, <1>3, Moved, Zenon DEF OrchTyped

\* A worker goes on with its connection.
LEMMA OnwardTyped ==
    ASSUME OrchTyped, NEW o \in Callers, opc[o] \in Holds, NEW pc \in Holds,
           opc' = [opc EXCEPT ![o] = pc], UNCHANGED <<response, connections>>
    PROVE  OrchTyped'
<1>1. pc \in PCs
  BY Zenon DEF PCs, Holds
<1>. QED
  BY <1>1, Moved, Zenon DEF OrchTyped

LEMMA OrchestratorTyped ==
    ASSUME OrchTyped, NEW o \in Callers,
           (\E f \in Forms : Dispatch(o, f)) \/ Database(o) \/ Orchestrate(o) \/ SendThrows(o)
    PROVE  OrchTyped'
<1>. USE DEF Holds
<1>1. ASSUME NEW f \in Forms, Dispatch(o, f) PROVE OrchTyped'
  <2>1. response' \in [Callers -> {0, OK, BadRequest}]
    BY <1>1, Zenon DEF Dispatch, OrchTyped
  <2>2. opc' = [opc EXCEPT ![o] = "database"] /\ connections' = connections /\ opc[o] \notin Holds
    BY <1>1, Zenon DEF Dispatch
  <2>3. "database" \in PCs /\ "database" \notin Holds
    BY Zenon DEF PCs
  <2>. QED
    BY <2>1, <2>2, <2>3, Moved, Zenon DEF OrchTyped
<1>2. ASSUME Database(o) PROVE OrchTyped'
  <2>1. /\ opc' = [opc EXCEPT ![o] = "form"] /\ connections' = connections - 1 /\ connections > 0
        /\ opc[o] \notin Holds /\ response' = response
    BY <1>2, Zenon DEF Database
  <2>2. "form" \in PCs /\ "form" \in Holds
    BY Zenon DEF PCs
  <2>. QED
    BY <2>1, <2>2, Moved, Zenon DEF OrchTyped
<1>3. ASSUME ProcessForm(o) PROVE OrchTyped'
  BY <1>3, RespondTyped, OnwardTyped, Zenon DEF ProcessForm
<1>4. ASSUME Queried(o) PROVE OrchTyped'
  BY <1>4, RespondTyped, OnwardTyped, Zenon DEF Queried
<1>5. ASSUME Checked(o) PROVE OrchTyped'
  BY <1>5, RespondTyped, OnwardTyped, Zenon DEF Checked
<1>6. ASSUME Build(o) PROVE OrchTyped'
  <2>1. ASSUME NEW elements, Respond(o, OK, elements) PROVE OrchTyped'
    BY <1>6, <2>1, RespondTyped, Zenon DEF Build
  <2>2. ASSUME opc' = [opc EXCEPT ![o] = "token"], UNCHANGED <<response, connections>> PROVE OrchTyped'
    BY <1>6, <2>2, OnwardTyped, Zenon DEF Build
  <2>. QED
    BY <1>6, <2>1, <2>2, Zenon DEF Build
<1>7. ASSUME GotTokens(o) PROVE OrchTyped'
  BY <1>7, OnwardTyped, Zenon DEF GotTokens
<1>8. ASSUME SendThrows(o) PROVE OrchTyped'
  <2>1. opc' = [c \in Callers |-> IF opc[c] = "done" THEN opc[c] ELSE "idle"]
    BY <1>8, Zenon DEF SendThrows
  <2>2. Holding' = {}
    BY <2>1, Zenon DEF Holding
  <2>3. connections' = PoolSize /\ response' = response
    BY <1>8, Zenon DEF SendThrows
  <2>4. Balanced'
    BY <2>2, <2>3, FS_EmptySet, PoolAssumption DEF Balanced
  <2>. QED
    BY <2>1, <2>3, <2>4, Zenon DEF OrchTyped, PCs
<1>. QED
  BY <1>1, <1>2, <1>3, <1>4, <1>5, <1>6, <1>7, <1>8 DEF Orchestrate

LEMMA CallPut ==
    ASSUME CallsTyped, NEW o \in Callers, NEW c, TypedCall(c), call' = [call EXCEPT ![o] = c]
    PROVE  CallsTyped'
<1>1. DOMAIN call' = Callers /\ call'[o] = c /\ \A p \in Callers \ {o} : call'[p] = call[p]
  BY Zenon DEF CallsTyped
<1>. QED
  BY <1>1, Zenon DEF CallsTyped, TypedCall

LEMMA CallSent ==
    ASSUME CallsTyped, NEW o \in Callers, NEW service \in {"query", "check", "token"}, NEW body,
           Send(o, service, body)
    PROVE  CallsTyped'
<1>. DEFINE c == [at |-> service, status |-> 0, body |-> body, faulty |-> FALSE]
<1>1. TypedCall(c) /\ call' = [call EXCEPT ![o] = c]
  BY Zenon DEF TypedCall, Send
<1>. HIDE DEF c
<1>. QED
  BY <1>1, CallPut, Zenon

LEMMA CallAnswered ==
    ASSUME CallsTyped, NEW o \in Callers, NEW status \in {OK, BadRequest}, NEW body,
           Answer(o, status, body)
    PROVE  CallsTyped'
<1>. DEFINE c == [at |-> "reply", status |-> status, body |-> body, faulty |-> FALSE]
<1>1. TypedCall(c) /\ call' = [call EXCEPT ![o] = c]
  BY Zenon DEF TypedCall, Answer
<1>. HIDE DEF c
<1>. QED
  BY <1>1, CallPut, Zenon

LEMMA CallReturned ==
    ASSUME CallsTyped, NEW o \in Callers, Return(o)
    PROVE  CallsTyped'
<1>1. TypedCall(NoCall)
  BY Zenon DEF TypedCall, NoCall
<1>. QED
  BY <1>1, CallPut, Zenon DEF Return

LEMMA CallFaulty ==
    ASSUME NEW status \in {OK, BadRequest, CurlError}
    PROVE  TypedCall(FaultyReply(status))
BY Zenon DEF TypedCall, FaultyReply

LEMMA CallsKept == CallsTyped /\ call' = call => CallsTyped'
BY Zenon DEF CallsTyped, TypedCall

LEMMA CallsTerminated == CallsTyped /\ Terminate => CallsTyped'
<1>. SUFFICES ASSUME CallsTyped, Terminate PROVE CallsTyped'
  BY Zenon
<1>1. /\ DOMAIN call' = Callers
      /\ \A o \in Callers : call'[o] = IF call[o].at \in {"check", "token"}
                                         THEN FaultyReply(CurlError) ELSE call[o]
  BY Zenon DEF Terminate
<1>2. TypedCall(FaultyReply(CurlError))
  BY CallFaulty, Zenon
<1>3. \A o \in Callers : call'[o] = FaultyReply(CurlError) \/ call'[o] = call[o]
  BY <1>1, Zenon
<1>. QED
  BY <1>1, <1>2, <1>3, Zenon DEF CallsTyped, TypedCall

LEMMA CallsServed ==
    ASSUME CallsTyped, NEW o \in Callers, Serve(o)
    PROVE  CallsTyped'
<1>1. ASSUME Check(o) PROVE CallsTyped'
  <2>. DEFINE q == call[o].body
              body == IF CheckStatus(q) = OK THEN CheckRule(q) ELSE {}
  <2>1. Answer(o, CheckStatus(q), body) /\ CheckStatus(q) \in {OK, BadRequest}
    BY <1>1, Zenon DEF Check, CheckStatus
  <2>. HIDE DEF q, body
  <2>. QED
    BY <2>1, CallAnswered, Zenon
<1>2. ASSUME CheckFails(o) PROVE CallsTyped'
  BY <1>2, CallFaulty, CallPut, Zenon DEF CheckFails
<1>3. ASSUME CheckUndefined(o) PROVE CallsTyped'
  BY <1>3, CallAnswered, CallsTerminated, Zenon DEF CheckUndefined
<1>4. ASSUME Token(o) PROVE CallsTyped'
  BY <1>4, CallAnswered, Zenon DEF Token
<1>. QED
  BY <1>1, <1>2, <1>3, <1>4, Zenon DEF Serve

LEMMA CallsOrchestrated ==
    ASSUME CallsTyped, NEW o \in Callers,
           (\E f \in Forms : Dispatch(o, f)) \/ Database(o) \/ Orchestrate(o) \/ SendThrows(o)
    PROVE  CallsTyped'
<1>1. ASSUME (\E f \in Forms : Dispatch(o, f)) \/ Database(o) PROVE CallsTyped'
  BY <1>1, CallsKept, Zenon DEF Dispatch, Database
<1>2. ASSUME ProcessForm(o) PROVE CallsTyped'
  BY <1>2, CallSent, CallsKept, Zenon DEF ProcessForm
<1>3. ASSUME Queried(o) PROVE CallsTyped'
  BY <1>3, CallSent, CallReturned, Zenon DEF Queried
<1>4. ASSUME Checked(o) \/ GotTokens(o) PROVE CallsTyped'
  BY <1>4, CallReturned, Zenon DEF Checked, GotTokens
<1>5. ASSUME Build(o) PROVE CallsTyped'
  BY <1>5, CallSent, CallsKept, Zenon DEF Build
<1>6. ASSUME SendThrows(o) PROVE CallsTyped'
  <2>1. call' = [c \in Callers |-> NoCall]
    BY <1>6, Zenon DEF SendThrows
  <2>. QED
    BY <2>1, Zenon DEF CallsTyped, TypedCall, NoCall
<1>. QED
  BY <1>1, <1>2, <1>3, <1>4, <1>5, <1>6, Zenon DEF Orchestrate

LEMMA StepTyped == step \in [AuthWorkers -> Steps] /\ [AuthNext]_authVars => step' \in [AuthWorkers -> Steps]
<1>. SUFFICES ASSUME step \in [AuthWorkers -> Steps], [AuthNext]_authVars
              PROVE  step' \in [AuthWorkers -> Steps]
  BY Zenon
<1>1. ASSUME NEW a \in AuthWorkers, NEW s \in Steps, Goto(a, s) PROVE step' \in [AuthWorkers -> Steps]
  BY <1>1, Zenon DEF Goto
<1>2. ASSUME step' = step PROVE step' \in [AuthWorkers -> Steps]
  BY <1>2, Zenon
<1>3. ASSUME Terminate PROVE step' \in [AuthWorkers -> Steps]
  BY <1>3, Zenon DEF Terminate, Steps
<1>. USE DEF Steps
<1>4. ASSUME NEW a \in AuthWorkers, NEW q \in ManagementRequests, Receive(a, q)
      PROVE  step' \in [AuthWorkers -> Steps]
  <2>1. q.kind \in {"post", "delete", "get", "list", "malformed"}
    BY RequestsAssumption, Zenon
  <2>2. q.kind # "malformed" => FirstStep(q) \in Steps
    BY <2>1, Zenon DEF FirstStep
  <2>. QED
    BY <1>1, <1>4, <2>2, Zenon DEF Receive, Reply
<1>5. ASSUME NEW a \in AuthWorkers, Handle(a) PROVE step' \in [AuthWorkers -> Steps]
  BY <1>1, <1>2, <1>3, <1>5, Zenon DEF Handle, Begin, InsertRule, InsertInterface, Commit, InsertFails, ReadBack,
     ReadBackFails, Delete, Get, Count, Rows, ReadFails, Uncaught, Reply
<1>6. ASSUME NEW c \in Callers, Serve(c) PROVE step' \in [AuthWorkers -> Steps]
  BY <1>2, <1>3, <1>6, Zenon DEF Serve, Check, CheckFails, CheckUndefined, Token, authVars
<1>. QED
  BY <1>2, <1>3, <1>4, <1>5, <1>6, Zenon DEF AuthNext, Killed, authVars

TypeInv == CallsTyped /\ OrchTyped /\ step \in [AuthWorkers -> Steps] /\ registry \subseteq Offers

LEMMA TypeInitInv == Init => TypeInv
<1>. SUFFICES ASSUME Init PROVE TypeInv
  BY Zenon
<1>1. CallsTyped
  BY Zenon DEF Init, WebGetInit, CallsTyped, TypedCall, NoCall
<1>2. Holding = {}
  BY Zenon DEF Init, OrchInit, Holding, Holds
<1>3. OrchTyped
  BY <1>2, FS_EmptySet, PoolAssumption DEF Init, OrchInit, OrchTyped, Balanced, PCs
<1>4. step \in [AuthWorkers -> Steps] /\ registry \subseteq Offers
  BY OffersAssumption, Zenon DEF Init, AuthInit, Steps
<1>. QED
  BY <1>1, <1>3, <1>4, Zenon DEF TypeInv

LEMMA TypeNextInv == TypeInv /\ [Next]_vars => TypeInv'
<1>. SUFFICES ASSUME TypeInv, [Next]_vars PROVE TypeInv'
  BY Zenon
<1>1. step' \in [AuthWorkers -> Steps]
  BY StepTyped, CloudStepsAuthorization, Zenon DEF TypeInv
<1>2. UNCHANGED orchVars => OrchTyped'
  BY Zenon DEF TypeInv, OrchTyped, Balanced, Holding, orchVars
<1>3. CASE UNCHANGED vars
  BY <1>1, <1>2, <1>3, CallsKept, Zenon DEF TypeInv, vars
<1>4. ASSUME Arrival PROVE TypeInv'
  <2>1. CASE \E o \in Callers, f \in Forms : Dispatch(o, f) /\ UNCHANGED registry
    BY <1>1, <2>1, CallsOrchestrated, OrchestratorTyped, Zenon DEF TypeInv
  <2>2. CASE UNCHANGED orchVars
    <3>1. call' = call
      BY <1>4, <2>2, Zenon DEF Arrival, Receive, ChangeRegistry, Dispatch
    <3>2. registry' \subseteq Offers
      BY <1>4, Zenon DEF TypeInv, Arrival, ChangeRegistry, Register, Unregister
    <3>. QED
      BY <1>1, <1>2, <2>2, <3>1, <3>2, CallsKept, Zenon DEF TypeInv
  <2>. QED
    BY <1>4, <2>1, <2>2, Zenon DEF Arrival
<1>5. ASSUME NEW a \in AuthWorkers, AuthorizationStep(Handle(a)) PROVE TypeInv'
  <2>1. CallsTyped'
    BY <1>5, CallsKept, CallsTerminated, Zenon DEF TypeInv, AuthorizationStep, Handle, Begin, InsertRule,
       InsertInterface, Commit, InsertFails, ReadBack, ReadBackFails, Delete, Get, Count, Rows,
       ReadFails, Uncaught
  <2>. QED
    BY <1>1, <1>2, <1>5, <2>1, Zenon DEF TypeInv, AuthorizationStep
<1>6. ASSUME NEW o \in Callers, AuthorizationStep(Serve(o)) PROVE TypeInv'
  BY <1>1, <1>2, <1>6, CallsServed, Zenon DEF TypeInv, AuthorizationStep
<1>7. ASSUME NEW o \in Callers, OrchestratorStep(Database(o) \/ Orchestrate(o) \/ SendThrows(o))
      PROVE  TypeInv'
  BY <1>1, <1>7, CallsOrchestrated, OrchestratorTyped, Zenon DEF TypeInv, OrchestratorStep
<1>8. ASSUME NEW o \in Callers, NetworkStep(Query(o) \/ Lose(o)) PROVE TypeInv'
  <2>1. CallsTyped'
    BY <1>8, CallAnswered, CallFaulty, CallPut, Zenon DEF TypeInv, NetworkStep, Query, Lose
  <2>. QED
    BY <1>1, <1>2, <1>8, <2>1, Zenon DEF TypeInv, NetworkStep
<1>9. ASSUME AuthorizationStep(Killed) PROVE TypeInv'
  BY <1>1, <1>2, <1>9, CallsTerminated, Zenon DEF TypeInv, AuthorizationStep, Killed
<1>. QED
  BY <1>3, <1>4, <1>5, <1>6, <1>7, <1>8, <1>9, Zenon DEF Next

\* The types hold for any number of workers, and the orchestrator's pool is balanced: no
\* path through a handler, an early return or an exception included, loses a connection
\* or gives one back twice.
THEOREM CloudTypeOK == Spec => []TypeOK
<1>1. TypeInv /\ AuthInv => TypeOK
  <2>. SUFFICES ASSUME TypeInv, AuthInv PROVE TypeOK
    BY Zenon
  <2>1. connections \in 0..PoolSize
    BY HoldingFinite, PoolAssumption DEF TypeInv, OrchTyped, Balanced
  <2>2. nextId \in Nat /\ \A r \in rules : r.id < nextId
    BY Zenon DEF AuthInv, AuthTyped, IdsFresh
  <2>. QED
    BY <2>1, <2>2, Zenon DEF TypeInv, CallsTyped, TypedCall, OrchTyped, PCs, Steps, TypeOK
<1>2. Spec => []TypeInv
  BY TypeInitInv, TypeNextInv, PTL DEF Spec
<1>. QED
  BY <1>1, <1>2, CloudRunsAuthorization, AuthInvariant, PTL
=============================================================================
