----------------------- MODULE LocalCloudSteps_proofs -----------------------
(***************************************************************************)
(* The invariant of module LocalCloud that its proofs rest on, the part of *)
(* the environment in keeping it (time passes for a waiting worker, results*)
(* of its calls arrive), and the steps of a worker of the orchestrator up  *)
(* to the answer of /query.                                                *)
(***************************************************************************)
EXTENDS LocalCloud, Authorization_proofs

\* What worker o of the orchestrator holds.
Held(o) == <<opc[o], form[o], queryData[o], authorized[o], vProviders[o], asking[o], vOrchResp[o],
             response[o], call[o]>>

CloudTyped ==
    /\ DOMAIN opc = Callers /\ DOMAIN form = Callers /\ DOMAIN queryData = Callers
    /\ DOMAIN authorized = Callers /\ DOMAIN vProviders = Callers /\ DOMAIN asking = Callers
    /\ DOMAIN vOrchResp = Callers /\ DOMAIN response = Callers /\ DOMAIN call = Callers

(***************************************************************************)
(* The inductive invariant, for one worker.  CallFits: it has a call only  *)
(* where it waits for one.  Sound: what it has been told, and what it has  *)
(* kept of that, was registered and granted at some time of its request.   *)
(* Complete: what was registered and granted all the time is in what it    *)
(* has been told, has kept and will put into the response.                 *)
(***************************************************************************)
CallFits(o) ==
    /\ opc[o] \in {"idle", "database", "form", "query", "check", "build", "token", "done"}
    /\ opc[o] \in {"idle", "database", "form", "build", "done"} => call[o].at = "none"
    /\ opc[o] = "query" => call[o].at \in {"query", "reply"}
    /\ opc[o] = "check" => call[o].at \in {"check", "reply"}
    /\ opc[o] = "token" => call[o].at \in {"token", "reply"}
    /\ opc[o] \in {"database", "form", "query", "check"} => vOrchResp[o] = {}
    /\ opc[o] \in {"database", "form", "query", "check", "build"} => asking[o] = {}
    /\ (opc[o] = "query" /\ call[o].at = "query") =>
         call[o].body.service = form[o].service /\ call[o].body.required = form[o].required
    /\ opc[o] \in {"check", "build", "token"} => queryData[o] # {}
    /\ (opc[o] = "check" /\ call[o].at = "check") =>
         call[o].body = IntraCloudRule(form[o], queryData[o])

Offered(o, entries) == \A e \in entries : e \in everEntries[o] /\ e.service = form[o].service

\* What a rule says that gives o's requester interface i of provider p.
GrantOf(o, p, i) == [consumer |-> form[o].requester, provider |-> p, service |-> form[o].service,
                     interface |-> i]

\* The entry e may be put into the response.
Fit(o, e) ==
    /\ e \in queryData[o]
    /\ \E g \in authorized[o] : g[1] = e.provider
    /\ form[o].onlyPreferred => \E p \in form[o].preferred : isLocal(p) /\ p.system = e.provider

Building(o) ==
    /\ \A g \in authorized[o] :
         /\ GrantOf(o, g[1], g[2]) \in everGrants[o]
         /\ \E e \in queryData[o] : e.provider = g[1] /\ g[2] \in e.interfaces
    /\ \A e \in vProviders[o] \cup asking[o] : Fit(o, e)
    /\ \A r \in vOrchResp[o] : \E e \in queryData[o] : Fit(o, e) /\ r = Element(e, authorized[o])
    /\ form[o].matchmaking =>
         \E e \in queryData[o] : /\ vProviders[o] \cup asking[o] \subseteq {e}
                                 /\ vOrchResp[o] \subseteq {Element(e, authorized[o])}

\* The properties' statements about an element of a response, and about a response.
Allowed(o, r) ==
    /\ r.entry \in everEntries[o] /\ r.entry.service = form[o].service
    /\ r.interfaces # {}
    /\ \A i \in r.interfaces :
         /\ Grant(form[o], r.entry, i) \in everGrants[o]
         /\ \E e \in everEntries[o] : e.provider = r.entry.provider /\ i \in e.interfaces

Preferred(o, r) ==
    form[o].onlyPreferred => \E p \in form[o].preferred : isLocal(p) /\ p.system = r.entry.provider

Authorized(o) == \A r \in vOrchResp[o] : Allowed(o, r)

Flagged(o) == /\ form[o].matchmaking => \A r, s \in vOrchResp[o] : r = s
              /\ \A r \in vOrchResp[o] : Preferred(o, r)

Sound(o) ==
    /\ (opc[o] = "query" /\ call[o].at = "reply" /\ call[o].status = OK) => Offered(o, call[o].body)
    /\ opc[o] \in {"check", "build", "token"} => Offered(o, queryData[o])
    /\ (opc[o] = "check" /\ call[o].at = "reply" /\ call[o].status = OK) =>
         \A g \in call[o].body : GrantOf(o, g[1], g[2]) \in everGrants[o]
    /\ opc[o] \in {"build", "token"} => Building(o)
    /\ opc[o] = "done" => Authorized(o) /\ Flagged(o)

\* The requester is entitled to interface i of the entry e.
Entitled(o, e, i) == /\ e \in keptEntries[o] /\ i \in e.interfaces
                     /\ Eligible(form[o], e) /\ Grant(form[o], e, i) \in keptGrants[o]

Complete(o) ==
    (opc[o] # "idle" /\ ~disturbed[o] /\ form[o].auth = "string" /\ ~form[o].matchmaking) =>
         /\ (opc[o] = "query" /\ call[o].at = "reply") =>
              /\ call[o].status = OK
              /\ \A e \in keptEntries[o] : Matches(e, form[o]) => e \in call[o].body
         /\ opc[o] \in {"check", "build", "token"} =>
              \A e \in keptEntries[o] : Matches(e, form[o]) => e \in queryData[o]
         /\ (opc[o] = "check" /\ call[o].at = "reply") =>
              /\ call[o].status = OK
              /\ \A e \in keptEntries[o] : \A i \in e.interfaces :
                   Entitled(o, e, i) => <<e.provider, i>> \in call[o].body
         /\ opc[o] \in {"build", "token"} =>
              \A e \in keptEntries[o] : \A i \in e.interfaces : Entitled(o, e, i) =>
                  /\ <<e.provider, i>> \in authorized[o]
                  /\ e \in vProviders[o] \/ Element(e, authorized[o]) \in vOrchResp[o]
         /\ (opc[o] = "done" /\ response[o] = OK) =>
              \A e \in keptEntries[o] : \A i \in e.interfaces : Entitled(o, e, i) =>
                  \E r \in vOrchResp[o] : r.entry = e /\ i \in r.interfaces

CallerInv(o) == CallFits(o) /\ Sound(o) /\ (EscapeQuotes => Complete(o))

CloudInv == CloudTyped /\ \A o \in Callers : CallerInv(o)
-----------------------------------------------------------------------------
\* What is observed of a request grows, or shrinks, from its start to its answer and is
\* then kept.
Later(o) ==
    /\ everEntries[o] \subseteq everEntries'[o] /\ everGrants[o] \subseteq everGrants'[o]
    /\ keptEntries'[o] \subseteq keptEntries[o] /\ keptGrants'[o] \subseteq keptGrants[o]
    /\ disturbed[o] => disturbed'[o]

\* A call that has been sent, or that has returned.
LEMMA SentCall ==
    ASSUME NEW o \in Callers, NEW service, NEW body, CloudTyped, Send(o, service, body)
    PROVE  call'[o].at = service /\ call'[o].body = body
<1>1. DOMAIN call = Callers
  BY Zenon DEF CloudTyped
<1>. QED
  BY <1>1, Zenon DEF Send

LEMMA ReturnedCall ==
    ASSUME NEW o \in Callers, CloudTyped, Return(o) PROVE call'[o].at = "none"
<1>1. DOMAIN call = Callers
  BY Zenon DEF CloudTyped
<1>. QED
  BY <1>1, Zenon DEF Return, NoCall

LEMMA Responded ==
    ASSUME NEW o \in Callers, NEW status, NEW elements, CloudTyped, Respond(o, status, elements)
    PROVE  opc'[o] = "done" /\ response'[o] = status /\ vOrchResp'[o] = elements
<1>1. DOMAIN opc = Callers /\ DOMAIN response = Callers /\ DOMAIN vOrchResp = Callers
  BY Zenon DEF CloudTyped
<1>. QED
  BY <1>1, Zenon DEF Respond

LEMMA ObservedLater ==
    ASSUME Observe, NEW o \in Callers, opc[o] # "idle", opc'[o] # "idle",
           opc[o] = "done" => opc'[o] = "done"
    PROVE  Later(o)
BY Zenon DEF Observe, Track, InProgress, Later

LEMMA ObservedNow ==
    ASSUME Observe, NEW o \in Callers, InProgress(opc[o]), opc'[o] # "idle"
    PROVE  /\ registry' \subseteq everEntries'[o] /\ Grants' \subseteq everGrants'[o]
           /\ keptEntries'[o] \subseteq registry' /\ keptGrants'[o] \subseteq Grants'
           /\ call'[o].faulty => disturbed'[o]
BY Zenon DEF Observe, Track

\* The properties of an entitlement a later state can only lose.
LEMMA EntitledBefore ==
    ASSUME NEW o, Later(o), form'[o] = form[o]
    PROVE  /\ keptEntries'[o] \subseteq keptEntries[o]
           /\ \A e, i : Entitled(o, e, i)' => Entitled(o, e, i)
BY Zenon DEF Later, Entitled, Eligible

LEMMA Bystander ==
    ASSUME NEW o \in Callers, CallerInv(o), Observe, Held(o)' = Held(o)
    PROVE  CallerInv(o)'
<1>1. CallFits(o)'
  BY Zenon DEF CallerInv, CallFits, Held
<1>2. CASE opc[o] = "idle"
  BY <1>1, <1>2, Zenon DEF CallerInv, Sound, Complete, Held
<1>3. CASE opc[o] # "idle"
  <2>1. Later(o)
    BY <1>3, ObservedLater, Zenon DEF Held
  <2>2. Sound(o)'
    <3>1. Building(o) => Building(o)'
      BY <2>1 DEF Building, Fit, GrantOf, Later, Held
    <3>2. Authorized(o) => Authorized(o)'
      BY <2>1, Zenon DEF Authorized, Allowed, Later, Held
    <3>3. Flagged(o) => Flagged(o)'
      BY Zenon DEF Flagged, Preferred, Held
    <3>. QED
      BY <2>1, <3>1, <3>2, <3>3, Zenon DEF CallerInv, Sound, Offered, GrantOf, Later, Held
  <2>3. Complete(o) => Complete(o)'
    BY <2>1, EntitledBefore DEF Complete, Later, Held
  <2>. QED
    BY <1>1, <2>2, <2>3, Zenon DEF CallerInv
<1>. QED
  BY <1>2, <1>3, Zenon

\* What o holds except its call.
Kept(o) == <<opc[o], form[o], queryData[o], authorized[o], vProviders[o], asking[o], vOrchResp[o],
             response[o]>>

\* An answer without content: a fault, a check that could not be made, or tokens.
LEMMA EmptyReply ==
    ASSUME NEW o \in Callers, CallerInv(o), Observe, Kept(o)' = Kept(o), call[o].at # "none",
           call'[o].at = "reply", call'[o].body = {},
           call'[o].faulty \/ form[o].auth # "string" \/ opc[o] = "token"
    PROVE  CallerInv(o)'
<1>1. opc[o] \in {"query", "check", "token"} /\ opc'[o] = opc[o]
  BY Zenon DEF CallerInv, CallFits, Kept
<1>2. CallFits(o)'
  BY <1>1, Zenon DEF CallerInv, CallFits, Kept
<1>3. Later(o)
  BY <1>1, ObservedLater, Zenon
<1>4. Sound(o)'
  <2>1. Building(o) => Building(o)'
    BY <1>3 DEF Building, Fit, GrantOf, Later, Kept
  <2>. QED
    BY <1>1, <1>3, <2>1, Zenon DEF CallerInv, Sound, Offered, Later, Kept
<1>5. Complete(o) => Complete(o)'
  <2>1. InProgress(opc[o])
    BY <1>1, Zenon DEF InProgress
  <2>2. call'[o].faulty => disturbed'[o]
    BY <1>1, <2>1, ObservedNow, Zenon
  <2>. QED
    BY <1>1, <1>3, <2>2, EntitledBefore, Zenon DEF Complete, Later, Kept
<1>. QED
  BY <1>2, <1>4, <1>5, Zenon DEF CallerInv

LEMMA QueryReply ==
    ASSUME NEW o \in Callers, CloudTyped, CallerInv(o), Observe, Kept(o)' = Kept(o),
           Query(o), registry' = registry
    PROVE  CallerInv(o)'
<1>1. /\ call[o].at = "query" /\ call'[o].at = "reply" /\ call'[o].status = OK
      /\ call'[o].body = {e \in registry : Matches(e, call[o].body)}
  BY Zenon DEF Query, Answer, CloudTyped
<1>2. opc[o] = "query" /\ opc'[o] = "query" /\ form'[o] = form[o]
  BY <1>1, Zenon DEF CallerInv, CallFits, Kept
<1>3. CallFits(o)'
  BY <1>1, <1>2, Zenon DEF CallerInv, CallFits, Kept
<1>4. /\ registry \subseteq everEntries'[o] /\ keptEntries'[o] \subseteq registry
  BY <1>2, ObservedNow, Zenon DEF InProgress
<1>5. \A e : Matches(e, call[o].body) <=> Matches(e, form[o])
  BY <1>1, <1>2, Zenon DEF CallerInv, CallFits, Matches
<1>6. Sound(o)'
  BY <1>1, <1>2, <1>4, <1>5, Zenon DEF Sound, Offered, Matches
<1>7. Complete(o)'
  BY <1>1, <1>2, <1>4, <1>5, Zenon DEF Complete
<1>. QED
  BY <1>3, <1>6, <1>7, Zenon DEF CallerInv

\* The rule asked about, for entries of one service.
LEMMA RuleAsked ==
    ASSUME NEW f, NEW entries, entries # {}, \A e \in entries : e.service = f.service
    PROVE  LET q == IntraCloudRule(f, entries)
           IN /\ q.consumer = f.requester /\ q.auth = f.auth /\ q.service = f.service
              /\ \A e \in entries : \A i \in e.interfaces : <<e.provider, i>> \in q.asked
              /\ \A g \in q.asked : \E e \in entries : \E i \in e.interfaces : g = <<e.provider, i>>
BY DEF IntraCloudRule

\* A pair that checkRule returns is granted, and one that is granted is returned.
LEMMA CheckRuleGrants ==
    ASSUME NEW q, NEW p, NEW i, <<p, i>> \in q.asked
    PROVE  <<p, i>> \in CheckRule(q) <=>
             [consumer |-> q.consumer, provider |-> p, service |-> q.service, interface |-> i] \in Grants
<1>1. <<p, i>> \in CheckRule(q) <=>
        \E r \in rules : /\ i \in Linked(r, links)
                         /\ r.service = q.service /\ r.consumer = q.consumer /\ r.provider = p
  BY Zenon DEF CheckRule, Linked
<1>. DEFINE g == [consumer |-> q.consumer, provider |-> p, service |-> q.service, interface |-> i]
<1>2. g \in Grants <=> \E d \in Records : /\ i \in d.interfaces /\ d.service = q.service
                                          /\ d.consumer = q.consumer /\ d.provider = p
  <2>. DEFINE G(r, j) == [consumer |-> r.consumer, provider |-> r.provider, service |-> r.service,
                          interface |-> j]
  <2>1. ASSUME NEW x PROVE x \in Grants <=> \E d \in Records : \E j \in d.interfaces : x = G(d, j)
    <3>1. x \in Grants <=> \E d \in Records : x \in Granted(d)
      BY Zenon DEF Grants
    <3>2. \A d : x \in Granted(d) <=> \E j \in d.interfaces : x = G(d, j)
      BY Zenon DEF Granted
    <3>. QED
      BY <3>1, <3>2, Zenon
  <2>2. \A d, j : g = G(d, j) <=> /\ d.consumer = q.consumer /\ d.provider = p
                                  /\ d.service = q.service /\ j = i
    BY Zenon
  <2>. QED
    BY <2>1, <2>2, Zenon
<1>3. \A d : d \in Records <=> \E r \in rules : Linked(r, links) # {} /\ d = Record(r, links)
  BY InJoin, Zenon DEF Records
<1>4. (\E d \in Records : /\ i \in d.interfaces /\ d.service = q.service
                          /\ d.consumer = q.consumer /\ d.provider = p)
      <=> \E r \in rules : /\ i \in Linked(r, links)
                           /\ r.service = q.service /\ r.consumer = q.consumer /\ r.provider = p
  BY <1>3, RecordFields
<1>. QED
  BY <1>1, <1>2, <1>4, Zenon

LEMMA CheckReply ==
    ASSUME NEW o \in Callers, CloudTyped, CallerInv(o), Observe, Kept(o)' = Kept(o), Check(o)
    PROVE  CallerInv(o)'
<1>. DEFINE q == call[o].body
<1>1. /\ call[o].at = "check" /\ call'[o].at = "reply" /\ call'[o].status = CheckStatus(q)
      /\ call'[o].body = IF CheckStatus(q) = OK THEN CheckRule(q) ELSE {}
  BY Zenon DEF Check, Answer, CloudTyped
<1>2. Grants' = Grants
  <2>1. rules' = rules /\ links' = links
    BY Zenon DEF Check, authVars
  <2>. QED
    BY <2>1, Zenon DEF Grants, Records
<1>3. /\ opc[o] = "check" /\ opc'[o] = "check" /\ form'[o] = form[o] /\ queryData'[o] = queryData[o]
      /\ q = IntraCloudRule(form[o], queryData[o]) /\ queryData[o] # {} /\ Offered(o, queryData[o])
  BY <1>1, Zenon DEF CallerInv, CallFits, Sound, Kept
<1>4. CallFits(o)'
  BY <1>1, <1>3, Zenon DEF CallerInv, CallFits, Kept
<1>5. Later(o)
  BY <1>3, ObservedLater, Zenon
<1>6. Grants \subseteq everGrants'[o] /\ keptGrants'[o] \subseteq Grants
  BY <1>2, <1>3, ObservedNow, Zenon DEF InProgress
<1>7. /\ q.consumer = form[o].requester /\ q.auth = form[o].auth /\ q.service = form[o].service
      /\ \A e \in queryData[o] : \A i \in e.interfaces : <<e.provider, i>> \in q.asked
      /\ \A g \in q.asked : \E e \in queryData[o] : \E i \in e.interfaces : g = <<e.provider, i>>
  BY <1>3, RuleAsked DEF Offered
<1>. HIDE DEF q
<1>8. \A p, i : <<p, i>> \in q.asked => (<<p, i>> \in CheckRule(q) <=> GrantOf(o, p, i) \in Grants)
  BY <1>7, CheckRuleGrants, Zenon DEF GrantOf
<1>9. ASSUME NEW g \in CheckRule(q) PROVE GrantOf(o, g[1], g[2]) \in Grants
  <2>1. g \in q.asked
    BY Zenon DEF CheckRule
  <2>2. PICK p, i : g = <<p, i>>
    BY <1>7, <2>1
  <2>. QED
    BY <1>8, <2>1, <2>2, Zenon
<1>10. Sound(o)'
  <2>1. Offered(o, queryData[o])'
    BY <1>3, <1>5, Zenon DEF Offered, Later
  <2>2. \A g \in call'[o].body : GrantOf(o, g[1], g[2])' \in everGrants'[o]
    BY <1>1, <1>3, <1>6, <1>9, Zenon DEF GrantOf
  <2>. QED
    BY <1>3, <2>1, <2>2, Zenon DEF Sound
<1>11. ASSUME EscapeQuotes, Complete(o) PROVE Complete(o)'
  <2>. SUFFICES ASSUME ~disturbed'[o], form[o].auth = "string", ~form[o].matchmaking
                PROVE  /\ \A e \in keptEntries'[o] : Matches(e, form[o]) => e \in queryData[o]
                       /\ call'[o].status = OK
                       /\ \A e \in keptEntries'[o] : \A i \in e.interfaces :
                            Entitled(o, e, i)' => <<e.provider, i>> \in call'[o].body
    BY <1>3, Zenon DEF Complete
  <2>1. \A e \in keptEntries'[o] : Matches(e, form[o]) => e \in queryData[o]
    BY <1>3, <1>5, <1>11, Zenon DEF Complete, Later
  <2>2. CheckStatus(q) = OK
    BY <1>7, <1>11, Zenon DEF CheckStatus
  <2>3. ASSUME NEW e \in keptEntries'[o], NEW i \in e.interfaces, Entitled(o, e, i)'
        PROVE  <<e.provider, i>> \in CheckRule(q)
    <3>1. Matches(e, form[o]) /\ Grant(form[o], e, i) \in keptGrants'[o]
      BY <1>3, <2>3, Zenon DEF Entitled, Eligible
    <3>2. e \in queryData[o] /\ e.service = form[o].service
      BY <2>1, <3>1, Zenon DEF Matches
    <3>3. Grant(form[o], e, i) = GrantOf(o, e.provider, i)
      BY <3>2, Zenon DEF Grant, GrantOf
    <3>4. GrantOf(o, e.provider, i) \in Grants
      BY <1>6, <3>1, <3>3, Zenon
    <3>5. <<e.provider, i>> \in q.asked
      BY <1>7, <3>2, Zenon
    <3>. QED
      BY <1>8, <3>4, <3>5, Zenon
  <2>. QED
    BY <1>1, <2>1, <2>2, <2>3, Zenon
<1>. QED
  BY <1>4, <1>10, <1>11, Zenon DEF CallerInv
-----------------------------------------------------------------------------
LEMMA DispatchStep ==
    ASSUME NEW o \in Callers, NEW f, CloudTyped, CallerInv(o), Dispatch(o, f)
    PROVE  CallerInv(o)'
<1>1. /\ opc'[o] = "database" /\ asking'[o] = {} /\ vOrchResp'[o] = {} /\ call' = call
      /\ opc[o] \in {"idle", "done"}
  BY Zenon DEF Dispatch, CloudTyped
<1>2. CallFits(o)'
  BY <1>1, Zenon DEF CallFits, CallerInv
<1>. QED
  BY <1>1, <1>2, Zenon DEF CallerInv, Sound, Complete

LEMMA DatabaseStep ==
    ASSUME NEW o \in Callers, CloudTyped, CallerInv(o), Database(o)
    PROVE  CallerInv(o)'
<1>1. /\ opc[o] = "database" /\ opc'[o] = "form" /\ asking' = asking /\ vOrchResp' = vOrchResp
      /\ call' = call
  BY Zenon DEF Database, CloudTyped
<1>2. CallFits(o)'
  BY <1>1, Zenon DEF CallFits, CallerInv
<1>. QED
  BY <1>1, <1>2, Zenon DEF CallerInv, Sound, Complete

\* A response without providers breaks no promise but that of completeness.
LEMMA EmptyResponse ==
    ASSUME NEW o \in Callers, opc'[o] = "done", vOrchResp'[o] = {}, call'[o].at = "none"
    PROVE  CallFits(o)' /\ Sound(o)'
BY Zenon DEF CallFits, Sound, Authorized, Flagged

LEMMA ProcessFormStep ==
    ASSUME NEW o \in Callers, CloudTyped, CallerInv(o), ProcessForm(o)
    PROVE  CallerInv(o)'
<1>1. opc[o] = "form" /\ call[o].at = "none" /\ vOrchResp[o] = {} /\ asking[o] = {}
  BY Zenon DEF ProcessForm, CallerInv, CallFits
<1>2. CASE FormRefused(form[o])
  <2>1. /\ opc'[o] = "done" /\ response'[o] = BadRequest /\ vOrchResp'[o] = {} /\ call' = call
    BY <1>2, Responded, Zenon DEF ProcessForm
  <2>2. Complete(o)'
    BY <2>1 DEF Complete, OK, BadRequest
  <2>. QED
    BY <1>1, <2>1, <2>2, EmptyResponse, Zenon DEF CallerInv
<1>3. CASE ~FormRefused(form[o])
  <2>1. /\ opc'[o] = "query" /\ call'[o].at = "query" /\ form' = form
        /\ call'[o].body.service = form[o].service /\ call'[o].body.required = form[o].required
        /\ vOrchResp' = vOrchResp /\ asking' = asking
    <3>1. /\ Send(o, "query", [service |-> form[o].service, required |-> form[o].required])
          /\ opc' = [opc EXCEPT ![o] = "query"] /\ form' = form
          /\ vOrchResp' = vOrchResp /\ asking' = asking
      BY <1>3, Zenon DEF ProcessForm
    <3>2. /\ call'[o].at = "query"
          /\ call'[o].body = [service |-> form[o].service, required |-> form[o].required]
      BY <3>1, SentCall, Zenon
    <3>3. opc'[o] = "query"
      BY <3>1, Zenon DEF CloudTyped
    <3>. QED
      BY <3>1, <3>2, <3>3
  <2>2. CallFits(o)'
    BY <1>1, <2>1, Zenon DEF CallFits
  <2>. QED
    BY <2>1, <2>2, Zenon DEF CallerInv, Sound, Complete
<1>. QED
  BY <1>2, <1>3, Zenon

LEMMA QueriedStep ==
    ASSUME NEW o \in Callers, CloudTyped, CallerInv(o), Observe, Queried(o)
    PROVE  CallerInv(o)'
<1>. DEFINE entries == IF call[o].status = OK THEN call[o].body ELSE {}
<1>1. /\ opc[o] = "query" /\ call[o].at = "reply" /\ vOrchResp[o] = {} /\ asking[o] = {}
  BY Zenon DEF Queried, Replied, CallerInv, CallFits
<1>2. Offered(o, entries)
  BY <1>1, Zenon DEF CallerInv, Sound, Offered
<1>3. form' = form /\ asking' = asking
  BY Zenon DEF Queried
<1>4. opc'[o] \in {"done", "check"}
  <2>1. Respond(o, OK, {}) \/ opc' = [opc EXCEPT ![o] = "check"]
    BY Zenon DEF Queried
  <2>. QED
    BY <2>1, Responded, Zenon DEF CloudTyped
<1>5. Later(o)
  BY <1>1, <1>4, ObservedLater, Zenon
<1>6. ASSUME Complete(o), ~disturbed'[o], form[o].auth = "string", ~form[o].matchmaking
      PROVE  \A e \in keptEntries'[o] : Matches(e, form[o]) => e \in entries
  BY <1>1, <1>5, <1>6, Zenon DEF Complete, Later
<1>7. CASE entries = {}
  <2>1. opc'[o] = "done" /\ vOrchResp'[o] = {} /\ call'[o].at = "none"
    <3>1. Respond(o, OK, {}) /\ Return(o)
      BY <1>7, Zenon DEF Queried
    <3>. QED
      BY <3>1, Responded, ReturnedCall, Zenon
  <2>2. Complete(o) => Complete(o)'
    BY <1>3, <1>6, <1>7, <2>1, Zenon DEF Complete, Entitled, Eligible
  <2>. QED
    BY <2>1, <2>2, EmptyResponse, Zenon DEF CallerInv
<1>8. CASE entries # {}
  <2>1. /\ queryData' = [queryData EXCEPT ![o] = entries] /\ vOrchResp' = vOrchResp
        /\ Send(o, "check", IntraCloudRule(form[o], entries))
        /\ opc' = [opc EXCEPT ![o] = "check"]
    BY <1>8, Zenon DEF Queried
  <2>. HIDE DEF entries
  <2>2. queryData'[o] = entries /\ opc'[o] = "check"
    BY <2>1, Zenon DEF CloudTyped
  <2>3. call'[o].at = "check" /\ call'[o].body = IntraCloudRule(form[o], entries)
    BY <2>1, SentCall, Zenon
  <2>4. CallFits(o)'
    BY <1>1, <1>3, <1>8, <2>1, <2>2, <2>3, Zenon DEF CallFits
  <2>5. Sound(o)'
    BY <1>2, <1>3, <1>5, <2>2, <2>3, Zenon DEF Sound, Offered, Later
  <2>6. Complete(o) => Complete(o)'
    BY <1>3, <1>6, <2>2, <2>3, Zenon DEF Complete
  <2>. QED
    BY <2>4, <2>5, <2>6, Zenon DEF CallerInv
<1>. QED
  BY <1>7, <1>8, Zenon

-----------------------------------------------------------------------------
(***************************************************************************)
(* The steps of a worker of the orchestrator from its choice of entries to *)
(* the end of createOrchestrationResponse keep the invariant of module     *)
(* LocalCloud for this worker.                                             *)
(***************************************************************************)
\* dynamicOrchestration chooses among the entries as the flags say.
LEMMA CandidatesFit ==
    ASSUME NEW f, NEW entries, NEW auth, NEW chosen \in Candidates(f, entries, auth)
    PROVE  /\ chosen \subseteq entries
           /\ f.onlyPreferred =>
                \A e \in chosen : \E p \in f.preferred : isLocal(p) /\ p.system = e.provider
           /\ f.matchmaking => \A e, g \in chosen : e = g
           /\ ~f.matchmaking => \A e \in entries :
                (f.onlyPreferred => e \in selectPreferred(f, {e})) => e \in chosen
<1>. DEFINE preferred == selectPreferred(f, entries)
<1>1. /\ preferred \subseteq entries
      /\ \A e \in preferred : \E p \in f.preferred : isLocal(p) /\ p.system = e.provider
      /\ \A e \in entries : e \in selectPreferred(f, {e}) => e \in preferred
  BY Zenon DEF selectPreferred
<1>. HIDE DEF preferred
<1>2. CASE f.onlyPreferred /\ preferred = {}
  <2>1. chosen = {}
    BY <1>2, Zenon DEF Candidates, preferred
  <2>. QED
    BY <1>1, <1>2, <2>1, Zenon
<1>3. CASE f.onlyPreferred /\ preferred # {} /\ f.matchmaking
  <2>1. chosen \in {{e} : e \in preferred}
    BY <1>3, Zenon DEF Candidates, preferred
  <2>. QED
    BY <1>1, <1>3, <2>1, Zenon
<1>4. CASE f.onlyPreferred /\ preferred # {} /\ ~f.matchmaking
  <2>1. chosen = preferred
    BY <1>4, Zenon DEF Candidates, preferred
  <2>. QED
    BY <1>1, <1>4, <2>1, Zenon
<1>5. CASE ~f.onlyPreferred /\ f.matchmaking
  <2>1. chosen \in {{e} : e \in AuthorizedEntries(entries, auth)}
    BY <1>5, Zenon DEF Candidates, preferred
  <2>. QED
    BY <1>5, <2>1, Zenon DEF AuthorizedEntries
<1>6. CASE ~f.onlyPreferred /\ ~f.matchmaking
  <2>1. chosen = entries
    BY <1>6, Zenon DEF Candidates, preferred
  <2>. QED
    BY <1>6, <2>1, Zenon
<1>. QED
  BY <1>2, <1>3, <1>4, <1>5, <1>6, Zenon

LEMMA CheckedStep ==
    ASSUME NEW o \in Callers, CloudTyped, CallerInv(o), Observe, Checked(o)
    PROVE  CallerInv(o)'
<1>. DEFINE auth == IF call[o].status = OK THEN filterProviderList(queryData[o], call[o].body) ELSE {}
<1>1. /\ opc[o] = "check" /\ call[o].at = "reply" /\ vOrchResp[o] = {} /\ asking[o] = {}
      /\ queryData[o] # {} /\ Offered(o, queryData[o])
  BY Zenon DEF Checked, Replied, CallerInv, CallFits, Sound
<1>2. form' = form /\ asking' = asking /\ queryData' = queryData /\ call'[o].at = "none"
  BY Zenon DEF Checked, Return, NoCall, CloudTyped
<1>3. opc'[o] \in {"done", "build"}
  BY Zenon DEF Checked, Respond, CloudTyped
<1>4. Later(o)
  BY <1>1, <1>3, ObservedLater, Zenon
<1>5. \A g \in auth : /\ GrantOf(o, g[1], g[2]) \in everGrants[o]
                      /\ \E e \in queryData[o] : e.provider = g[1] /\ g[2] \in e.interfaces
  BY <1>1, Zenon DEF filterProviderList, CallerInv, Sound
<1>6. ASSUME Complete(o), ~disturbed'[o], form[o].auth = "string", ~form[o].matchmaking,
             NEW e \in keptEntries'[o], NEW i \in e.interfaces, Entitled(o, e, i)'
      PROVE  e \in queryData[o] /\ <<e.provider, i>> \in auth
  <2>1. Entitled(o, e, i) /\ e \in keptEntries[o] /\ ~disturbed[o]
    BY <1>2, <1>4, <1>6, EntitledBefore, Zenon DEF Later
  <2>2. e \in queryData[o]
    BY <1>1, <1>6, <2>1, Zenon DEF Complete, Entitled, Eligible
  <2>3. call[o].status = OK /\ <<e.provider, i>> \in call[o].body
    BY <1>1, <1>6, <2>1, Zenon DEF Complete
  <2>. QED
    BY <2>2, <2>3, Zenon DEF filterProviderList
<1>7. CASE auth = {}
  <2>1. opc'[o] = "done" /\ vOrchResp'[o] = {}
    BY <1>7, Zenon DEF Checked, Respond, CloudTyped
  <2>2. Complete(o) => Complete(o)'
    BY <1>2, <1>6, <1>7, <2>1, Zenon DEF Complete
  <2>. QED
    BY <1>2, <2>1, <2>2, EmptyResponse, Zenon DEF CallerInv
<1>8. CASE auth # {}
  <2>1. PICK chosen \in Candidates(form[o], queryData[o], auth) :
          /\ authorized' = [authorized EXCEPT ![o] = auth]
          /\ vProviders' = [vProviders EXCEPT ![o] = AuthorizedEntries(chosen, auth)]
          /\ opc' = [opc EXCEPT ![o] = "build"]
          /\ vOrchResp' = vOrchResp
    BY <1>8, Zenon DEF Checked
  <2>. HIDE DEF auth
  <2>2. /\ authorized'[o] = auth /\ vProviders'[o] = AuthorizedEntries(chosen, auth)
        /\ opc'[o] = "build"
    BY <2>1, Zenon DEF CloudTyped
  <2>3. CallFits(o)'
    BY <1>1, <1>2, <2>1, <2>2, Zenon DEF CallFits
  <2>4. /\ chosen \subseteq queryData[o]
        /\ form[o].onlyPreferred =>
             \A e \in chosen : \E p \in form[o].preferred : isLocal(p) /\ p.system = e.provider
        /\ form[o].matchmaking => \A e, g \in chosen : e = g
        /\ ~form[o].matchmaking => \A e \in queryData[o] :
             (form[o].onlyPreferred => e \in selectPreferred(form[o], {e})) => e \in chosen
    BY CandidatesFit
  <2>5. Building(o)'
    <3>1. \A e \in vProviders'[o] : Fit(o, e)'
      BY <1>2, <2>2, <2>4, Zenon DEF Fit, AuthorizedEntries
    <3>2. \A g \in authorized'[o] : /\ GrantOf(o, g[1], g[2])' \in everGrants'[o]
                                    /\ \E e \in queryData'[o] : e.provider = g[1] /\ g[2] \in e.interfaces
      BY <1>2, <1>4, <1>5, <2>2, Zenon DEF GrantOf, Later
    <3>3. form[o].matchmaking => \E e \in queryData[o] : vProviders'[o] \subseteq {e}
      BY <1>1, <2>2, <2>4 DEF AuthorizedEntries
    <3>4. asking'[o] = {} /\ vOrchResp'[o] = {}
      BY <1>1, <1>2, <2>1, Zenon
    <3>5. form'[o].matchmaking =>
            \E e \in queryData'[o] : /\ vProviders'[o] \cup asking'[o] \subseteq {e}
                                     /\ vOrchResp'[o] \subseteq {Element(e, authorized'[o])}
      BY <1>2, <3>3, <3>4, Zenon
    <3>. QED
      BY <3>1, <3>2, <3>4, <3>5, Zenon DEF Building
  <2>6. Sound(o)'
    BY <1>1, <1>2, <1>4, <2>2, <2>5, Zenon DEF Sound, Offered, Later
  <2>7. ASSUME Complete(o) PROVE Complete(o)'
    <3>. SUFFICES ASSUME ~disturbed'[o], form[o].auth = "string", ~form[o].matchmaking
                  PROVE  /\ \A e \in keptEntries'[o] : Matches(e, form[o]) => e \in queryData[o]
                         /\ \A e \in keptEntries'[o] : \A i \in e.interfaces : Entitled(o, e, i)' =>
                              <<e.provider, i>> \in auth /\ e \in vProviders'[o]
      BY <1>2, <2>2, Zenon DEF Complete
    <3>1. \A e \in keptEntries'[o] : Matches(e, form[o]) => e \in queryData[o]
      BY <1>1, <1>4, <2>7, Zenon DEF Complete, Later
    <3>2. ASSUME NEW e \in keptEntries'[o], NEW i \in e.interfaces, Entitled(o, e, i)'
          PROVE  <<e.provider, i>> \in auth /\ e \in vProviders'[o]
      <4>1. e \in queryData[o] /\ <<e.provider, i>> \in auth
        BY <1>6, <2>7, <3>2, Zenon
      <4>2. e \in chosen
        BY <1>2, <2>4, <3>2, <4>1, Zenon DEF Entitled, Eligible
      <4>3. <<e.provider, i>>[1] = e.provider
        BY Zenon
      <4>. QED
        BY <2>2, <4>1, <4>2, <4>3, Zenon DEF AuthorizedEntries
    <3>. QED
      BY <3>1, <3>2, Zenon
  <2>. QED
    BY <2>3, <2>6, <2>7, Zenon DEF CallerInv
<1>. QED
  BY <1>7, <1>8, Zenon

LEMMA ElementFields ==
    ASSUME NEW e, NEW auth
    PROVE  /\ Element(e, auth).entry = e
           /\ \A i : i \in Element(e, auth).interfaces <=> \E g \in auth : g[1] = e.provider /\ g[2] = i
BY Zenon DEF Element

\* An element for an entry that may be put into the response keeps the response's promises.
LEMMA FitElement ==
    ASSUME NEW o \in Callers, Offered(o, queryData[o]), Building(o), NEW e, Fit(o, e),
           NEW r, r = Element(e, authorized[o])
    PROVE  Allowed(o, r) /\ Preferred(o, r)
<1>1. r.entry = e /\ \A i : i \in r.interfaces <=> \E g \in authorized[o] : g[1] = e.provider /\ g[2] = i
  BY ElementFields
<1>2. e \in everEntries[o] /\ e.service = form[o].service
  BY Zenon DEF Fit, Offered
<1>3. r.interfaces # {}
  BY <1>1, Zenon DEF Fit
<1>4. ASSUME NEW i \in r.interfaces
      PROVE  /\ Grant(form[o], e, i) \in everGrants[o]
             /\ \E x \in everEntries[o] : x.provider = e.provider /\ i \in x.interfaces
  <2>1. PICK g \in authorized[o] : g[1] = e.provider /\ g[2] = i
    BY <1>1, Zenon
  <2>2. Grant(form[o], e, i) = GrantOf(o, g[1], g[2])
    BY <1>2, <2>1, Zenon DEF Grant, GrantOf
  <2>3. \E x \in queryData[o] : x.provider = g[1] /\ g[2] \in x.interfaces
    BY Zenon DEF Building
  <2>. QED
    BY <2>1, <2>2, <2>3, Zenon DEF Building, Offered
<1>. QED
  BY <1>1, <1>2, <1>3, <1>4, Zenon DEF Fit, Allowed, Preferred

LEMMA BuildStep ==
    ASSUME NEW o \in Callers, CloudTyped, CallerInv(o), Observe, Build(o)
    PROVE  CallerInv(o)'
<1>1. /\ opc[o] = "build" /\ call[o].at = "none" /\ asking[o] = {} /\ queryData[o] # {}
      /\ Offered(o, queryData[o]) /\ Building(o)
  BY Zenon DEF Build, CallerInv, CallFits, Sound
<1>2. form' = form /\ queryData' = queryData /\ authorized' = authorized
  BY Zenon DEF Build
<1>3. opc'[o] \in {"done", "token"}
  BY Zenon DEF Build, Respond, CloudTyped
<1>4. Later(o)
  BY <1>1, <1>3, ObservedLater, Zenon
<1>5. ASSUME \A e \in vProviders[o] : ~NeedsToken(e),
             Respond(o, OK, vOrchResp[o] \cup {Element(e, authorized[o]) : e \in vProviders[o]}),
             call' = call
      PROVE  CallerInv(o)'
  <2>1. /\ opc'[o] = "done" /\ response'[o] = OK
        /\ vOrchResp'[o] = vOrchResp[o] \cup {Element(e, authorized[o]) : e \in vProviders[o]}
    BY <1>5, Zenon DEF Respond, CloudTyped
  <2>2. CallFits(o)'
    BY <1>1, <1>5, <2>1, Zenon DEF CallFits
  <2>3. \A r \in vOrchResp'[o] : \E e : Fit(o, e) /\ r = Element(e, authorized[o])
    BY <1>1, <2>1, Zenon DEF Building
  <2>4. Authorized(o)'
    <3>1. \A r \in vOrchResp'[o] : Allowed(o, r)
      BY <1>1, <2>3, FitElement, Zenon
    <3>2. \A r : Allowed(o, r) => Allowed(o, r)'
      BY <1>2, <1>4, Zenon DEF Allowed, Later
    <3>. QED
      BY <3>1, <3>2, Zenon DEF Authorized
  <2>5. Flagged(o)'
    <3>1. \A r \in vOrchResp'[o] : Preferred(o, r)
      BY <1>1, <2>3, FitElement, Zenon
    <3>2. ASSUME form[o].matchmaking PROVE \A r, s \in vOrchResp'[o] : r = s
      <4>1. PICK e : vProviders[o] \subseteq {e} /\ vOrchResp[o] \subseteq {Element(e, authorized[o])}
        BY <1>1, <3>2, Zenon DEF Building
      <4>2. \A r \in vOrchResp'[o] : r = Element(e, authorized[o])
        BY <2>1, <4>1, Zenon
      <4>. QED
        BY <4>2, Zenon
    <3>. QED
      BY <1>2, <3>1, <3>2, Zenon DEF Flagged, Preferred
  <2>6. Sound(o)'
    BY <2>1, <2>4, <2>5, Zenon DEF Sound
  <2>7. ASSUME Complete(o) PROVE Complete(o)'
    <3>. SUFFICES ASSUME ~disturbed'[o], form[o].auth = "string", ~form[o].matchmaking,
                         NEW e \in keptEntries'[o], NEW i \in e.interfaces, Entitled(o, e, i)'
                  PROVE  \E r \in vOrchResp'[o] : r.entry = e /\ i \in r.interfaces
      BY <1>2, <2>1, Zenon DEF Complete
    <3>1. Entitled(o, e, i) /\ e \in keptEntries[o] /\ ~disturbed[o]
      BY <1>2, <1>4, EntitledBefore, Zenon DEF Later
    <3>2. <<e.provider, i>> \in authorized[o] /\ (e \in vProviders[o] \/ Element(e, authorized[o]) \in vOrchResp[o])
      BY <1>1, <2>7, <3>1, Zenon DEF Complete
    <3>3. Element(e, authorized[o]) \in vOrchResp'[o]
      BY <2>1, <3>2, Zenon
    <3>4. <<e.provider, i>>[1] = e.provider /\ <<e.provider, i>>[2] = i
      BY Zenon
    <3>5. Element(e, authorized[o]).entry = e /\ i \in Element(e, authorized[o]).interfaces
      BY <3>2, <3>4, ElementFields
    <3>. QED
      BY <3>3, <3>5, Zenon
  <2>. QED
    BY <2>2, <2>6, <2>7, Zenon DEF CallerInv
<1>6. ASSUME NEW e \in vProviders[o], NeedsToken(e), Send(o, "token", TokenRule(e)),
             asking' = [asking EXCEPT ![o] = {e}],
             vProviders' = [vProviders EXCEPT ![o] = @ \ {e}],
             opc' = [opc EXCEPT ![o] = "token"], vOrchResp' = vOrchResp
      PROVE  CallerInv(o)'
  <2>1. /\ opc'[o] = "token" /\ asking'[o] = {e} /\ vProviders'[o] = vProviders[o] \ {e}
        /\ call'[o].at = "token"
    BY <1>6, Zenon DEF Send, CloudTyped
  <2>2. CallFits(o)'
    BY <1>1, <1>2, <2>1, Zenon DEF CallFits
  <2>3. Building(o)'
    <3>1. vProviders'[o] \cup asking'[o] = vProviders[o]
      BY <1>1, <1>6, <2>1, Zenon
    <3>2. \A x : Fit(o, x)' <=> Fit(o, x)
      BY <1>2, Zenon DEF Fit
    <3>3. \A g \in authorized[o] : /\ GrantOf(o, g[1], g[2])' \in everGrants'[o]
                                   /\ \E x \in queryData[o] : x.provider = g[1] /\ g[2] \in x.interfaces
      BY <1>1, <1>2, <1>4, Zenon DEF Building, GrantOf, Later
    <3>4. \A x \in vProviders[o] \cup asking[o] : Fit(o, x)
      BY <1>1, Zenon DEF Building
    <3>5. \A r \in vOrchResp[o] : \E x \in queryData[o] : Fit(o, x) /\ r = Element(x, authorized[o])
      BY <1>1, Zenon DEF Building
    <3>6. form[o].matchmaking =>
            \E x \in queryData[o] : /\ vProviders[o] \subseteq {x}
                                    /\ vOrchResp[o] \subseteq {Element(x, authorized[o])}
      BY <1>1, Zenon DEF Building
    <3>. QED
      BY <1>2, <1>6, <3>1, <3>2, <3>3, <3>4, <3>5, <3>6, Zenon DEF Building
  <2>4. Sound(o)'
    BY <1>1, <1>2, <1>4, <2>1, <2>3, Zenon DEF Sound, Offered, Later
  <2>5. ASSUME Complete(o) PROVE Complete(o)'
    <3>. SUFFICES ASSUME ~disturbed'[o], form[o].auth = "string", ~form[o].matchmaking
                  PROVE  /\ \A x \in keptEntries'[o] : Matches(x, form[o]) => x \in queryData[o]
                         /\ \A x \in keptEntries'[o] : \A i \in x.interfaces : Entitled(o, x, i)' =>
                              /\ <<x.provider, i>> \in authorized[o]
                              /\ x \in vProviders'[o] \/ Element(x, authorized[o]) \in vOrchResp[o]
      BY <1>2, <1>6, <2>1, Zenon DEF Complete
    <3>1. \A x, i : Entitled(o, x, i)' => Entitled(o, x, i) /\ x # e
      BY <1>2, <1>4, <1>6, EntitledBefore, Zenon DEF Entitled, Eligible
    <3>. QED
      BY <1>1, <1>4, <2>1, <2>5, <3>1, Zenon DEF Complete, Later
  <2>. QED
    BY <2>2, <2>4, <2>5, Zenon DEF CallerInv
<1>. QED
  BY <1>5, <1>6, Zenon DEF Build

LEMMA GotTokensStep ==
    ASSUME NEW o \in Callers, CloudTyped, CallerInv(o), Observe, GotTokens(o)
    PROVE  CallerInv(o)'
<1>1. /\ opc[o] = "token" /\ queryData[o] # {} /\ Offered(o, queryData[o]) /\ Building(o)
  BY Zenon DEF GotTokens, CallerInv, CallFits, Sound
<1>2. /\ form' = form /\ queryData' = queryData /\ authorized' = authorized /\ vProviders' = vProviders
      /\ opc'[o] = "build" /\ asking'[o] = {} /\ call'[o].at = "none"
      /\ vOrchResp'[o] = vOrchResp[o] \cup
           {Element(e, authorized[o]) : e \in {e \in asking[o] : call[o].status = OK}}
  BY Zenon DEF GotTokens, Return, NoCall, CloudTyped
<1>3. CallFits(o)'
  BY <1>1, <1>2, Zenon DEF CallFits
<1>4. Later(o)
  BY <1>1, <1>2, ObservedLater, Zenon
<1>5. Building(o)'
  <2>1. \A r \in vOrchResp'[o] : \E e \in queryData[o] : Fit(o, e) /\ r = Element(e, authorized[o])
    <3>1. \A e \in asking[o] : Fit(o, e) /\ e \in queryData[o]
      BY <1>1, Zenon DEF Building, Fit
    <3>. QED
      BY <1>1, <1>2, <3>1, Zenon DEF Building
  <2>2. form[o].matchmaking =>
          \E e \in queryData[o] : /\ vProviders'[o] \cup asking'[o] \subseteq {e}
                                  /\ vOrchResp'[o] \subseteq {Element(e, authorized[o])}
    BY <1>1, <1>2, Zenon DEF Building
  <2>3. \A e : Fit(o, e)' <=> Fit(o, e)
    BY <1>2, Zenon DEF Fit
  <2>4. \A g \in authorized[o] : /\ GrantOf(o, g[1], g[2])' \in everGrants'[o]
                                 /\ \E e \in queryData[o] : e.provider = g[1] /\ g[2] \in e.interfaces
    BY <1>1, <1>2, <1>4, Zenon DEF Building, GrantOf, Later
  <2>5. \A e \in vProviders'[o] \cup asking'[o] : Fit(o, e)'
    BY <1>1, <1>2, <2>3, Zenon DEF Building
  <2>. QED
    BY <1>2, <2>1, <2>2, <2>3, <2>4, <2>5, Zenon DEF Building
<1>6. Sound(o)'
  BY <1>1, <1>2, <1>4, <1>5, Zenon DEF Sound, Offered, Later
<1>7. Complete(o) => Complete(o)'
  BY <1>1, <1>2, <1>4, EntitledBefore, Zenon DEF Complete, Later
<1>. QED
  BY <1>3, <1>6, <1>7, Zenon DEF CallerInv
=============================================================================
