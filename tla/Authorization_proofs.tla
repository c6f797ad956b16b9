------------------------ MODULE Authorization_proofs ------------------------
(***************************************************************************)
(* Proofs about module Authorization, for every set of workers, callers,   *)
(* requests and stored rules.                                              *)
(***************************************************************************)
EXTENDS Authorization, FiniteSetTheorems, TLAPS

(***************************************************************************)
(* The inductive invariant.  AuthTyped: the functions are defined on the   *)
(* workers, and a worker's request is one that may arrive.  IdsFresh: ids  *)
(* are handed out once, so those of two transactions, and of a transaction *)
(* and the tables, differ.  Inserting(a) relates what a worker has         *)
(* inserted to what its request asks for; Inserted(a) says that of the     *)
(* committed tables, from the commit until the worker's next request.      *)
(***************************************************************************)
AuthTyped ==
    /\ DOMAIN step = AuthWorkers
    /\ DOMAIN job = AuthWorkers
    /\ DOMAIN todo = AuthWorkers
    /\ DOMAIN row = AuthWorkers
    /\ DOMAIN ifaces = AuthWorkers
    /\ DOMAIN newRules = AuthWorkers
    /\ DOMAIN newLinks = AuthWorkers
    /\ DOMAIN answer = AuthWorkers
    /\ nextId \in Nat
    /\ \A a \in AuthWorkers : job[a] \in ManagementRequests \cup {NoJob}
    /\ \A a \in AuthWorkers : step[a] \in {"begin", "insert", "readback"} =>
         job[a] \in Posts /\ job[a].interfaces # {}
    /\ \A a \in AuthWorkers : step[a] = "begin" => newRules[a] = {} /\ newLinks[a] = {}
    /\ \A a \in AuthWorkers : step[a] \in {"delete", "get", "count", "rows"} => job[a].kind # "post"

IdsFresh ==
    /\ \A r \in rules : r.id \in Nat /\ r.id < nextId
    /\ \A r, s \in rules : r.id = s.id => r = s
    /\ \A l \in links : l.rule \in Nat /\ l.rule < nextId
    /\ \A a \in AuthWorkers : \A r \in newRules[a] : r.id \in Nat /\ r.id < nextId
    /\ \A a \in AuthWorkers : \A r, s \in newRules[a] : r.id = s.id => r = s
    /\ \A a, b \in AuthWorkers : a # b =>
         \A r \in newRules[a], s \in newRules[b] : r.id # s.id

\* The rules inserted so far and the pairs to do are those of the request, without overlap.
Covers(a) ==
    /\ \A p \in job[a].providers, s \in job[a].services :
         <<p, s>> \in todo[a] \/ \E r \in newRules[a] : r.provider = p /\ r.service = s
    /\ \A t \in todo[a] : /\ t = <<t[1], t[2]>>
                          /\ t[1] \in job[a].providers /\ t[2] \in job[a].services
    /\ \A r \in newRules[a] : /\ r.provider \in job[a].providers
                              /\ r.service \in job[a].services
                              /\ r.consumer = job[a].consumer
                              /\ <<r.provider, r.service>> \notin todo[a]
    /\ \A r, s \in newRules[a] : (r.provider = s.provider /\ r.service = s.service) => r = s

Inserting(a) ==
    /\ Covers(a)
    /\ \A r \in newRules[a] :
         job[a].interfaces = Linked(r, newLinks[a]) \cup (IF r.id = row[a] THEN ifaces[a] ELSE {})
    /\ \A l \in newLinks[a] : \E r \in newRules[a] : r.id = l.rule
    /\ ifaces[a] # {} => \E r \in newRules[a] : r.id = row[a]
    /\ \A r \in newRules[a] : /\ \A s \in rules : s.id # r.id
                              /\ \A l \in links : l.rule # r.id

Inserted(a) ==
    /\ Covers(a) /\ todo[a] = {}
    /\ \A r \in newRules[a] : job[a].interfaces = Linked(r, links)
    /\ \A r \in newRules[a], s \in rules : s.id = r.id => s = r

PostAnswered(a) == step[a] = "done" /\ job[a].kind = "post" /\ answer[a].status = OK

Ids(R) == {r.id : r \in R}
Pairs(R) == {<<r.provider, r.service>> : r \in R}

\* What a worker has reported of its rules.
Reported(a) ==
    /\ answer[a].count = Cardinality(Ids(newRules[a]))
    /\ \A d \in answer[a].data : /\ \E r \in newRules[a] : d.provider = r.provider /\ d.service = r.service
                                 /\ d.consumer = job[a].consumer
                                 /\ d.interfaces = job[a].interfaces
    /\ \A r \in newRules[a] : (\E d \in answer[a].data : d.id = r.id) \/ r \notin rules

AuthInv ==
    /\ AuthTyped
    /\ IdsFresh
    /\ \A a \in AuthWorkers : step[a] = "insert" => Inserting(a)
    /\ \A a \in AuthWorkers : step[a] = "readback" \/ PostAnswered(a) => Inserted(a)
    /\ \A a \in AuthWorkers : PostAnswered(a) => Reported(a)
-----------------------------------------------------------------------------
\* What the worker a holds.
Mine(a) == <<step[a], job[a], todo[a], row[a], ifaces[a], newRules[a], newLinks[a], answer[a]>>

\* What a step outside a transaction makes of worker a: it inserts nothing and does not
\* report rules.
Outside(a) ==
    /\ job'[a] \in ManagementRequests \cup {NoJob}
    /\ newRules'[a] \in {newRules[a], {}}
    /\ step'[a] \notin {"insert", "readback"}
    /\ step'[a] = "begin" => /\ job'[a] \in Posts /\ job'[a].interfaces # {}
                             /\ newRules'[a] = {} /\ newLinks'[a] = {}
    /\ step'[a] \in {"delete", "get", "count", "rows"} => job'[a].kind # "post"
    /\ ~PostAnswered(a)'

\* The domains of the functions a step replaces stay the same.
SameDomains ==
    /\ DOMAIN step' = AuthWorkers /\ DOMAIN job' = AuthWorkers /\ DOMAIN todo' = AuthWorkers
    /\ DOMAIN row' = AuthWorkers /\ DOMAIN ifaces' = AuthWorkers /\ DOMAIN newRules' = AuthWorkers
    /\ DOMAIN newLinks' = AuthWorkers /\ DOMAIN answer' = AuthWorkers

\* The invariant survives a step in which each worker keeps what it holds or acts outside
\* a transaction, and the tables at most lose rules: every handler but postRecord, its
\* error paths, and the end of the process.
LEMMA OutsideStep ==
    ASSUME AuthInv, SameDomains,
           rules' \subseteq rules, links' = links, nextId' = nextId,
           \A a \in AuthWorkers : Mine(a)' = Mine(a) \/ Outside(a)
    PROVE  AuthInv'
<1>1. \A a \in AuthWorkers : newRules'[a] \in {newRules[a], {}}
  BY Zenon DEF Mine, Outside
<1>2. AuthTyped'
  BY Zenon DEF AuthInv, AuthTyped, SameDomains, Mine, Outside
<1>3. IdsFresh'
  BY <1>1, Zenon DEF AuthInv, IdsFresh
<1>4. ASSUME NEW a \in AuthWorkers, step'[a] = "insert" PROVE Inserting(a)'
  <2>1. Mine(a)' = Mine(a)
    BY <1>4, Zenon DEF Outside
  <2>2. step[a] = "insert" /\ Inserting(a)
    BY <1>4, <2>1, Zenon DEF AuthInv, Mine
  <2>. QED
    BY <2>1, <2>2 DEF Inserting, Covers, Mine
<1>5. ASSUME NEW a \in AuthWorkers, step'[a] = "readback" \/ PostAnswered(a)'
      PROVE  Inserted(a)' /\ (PostAnswered(a)' => Reported(a)')
  <2>1. Mine(a)' = Mine(a)
    BY <1>5, Zenon DEF Outside
  <2>2. PostAnswered(a)' <=> PostAnswered(a)
    BY <2>1, Zenon DEF Mine, PostAnswered
  <2>3. Inserted(a)
    BY <1>5, <2>1, <2>2, Zenon DEF AuthInv, Mine
  <2>4. Inserted(a)'
    BY <2>1, <2>3 DEF Inserted, Covers, Mine
  <2>5. ASSUME PostAnswered(a) PROVE Reported(a)'
    <3>1. Reported(a)
      BY <2>5, Zenon DEF AuthInv
    <3>. QED
      BY <2>1, <3>1 DEF Reported, Mine
  <2>. QED
    BY <2>2, <2>4, <2>5, Zenon
<1>. QED
  BY <1>2, <1>3, <1>4, <1>5, Zenon DEF AuthInv

LEMMA AuthInitInv == AuthInit => AuthInv
<1>. SUFFICES ASSUME AuthInit PROVE AuthInv
  BY Zenon
<1>1. AuthTyped
  BY StoredAssumption, Zenon DEF AuthInit, AuthTyped
<1>2. IdsFresh
  BY StoredAssumption, Zenon DEF AuthInit, IdsFresh
<1>. QED
  BY <1>1, <1>2, Zenon DEF AuthInit, AuthInv, PostAnswered

LEMMA BeginStep == ASSUME AuthInv, NEW a \in AuthWorkers, Begin(a) PROVE AuthInv'
<1>. USE DEF AuthInv, Begin, Goto, database
<1>1. AuthTyped'
  BY Zenon DEF AuthTyped
<1>2. IdsFresh'
  BY Zenon DEF IdsFresh
<1>3. step[a] = "begin" /\ newRules[a] = {} /\ newLinks[a] = {} /\ job[a] \in Posts
  BY Zenon DEF AuthTyped
<1>4. todo'[a] = job[a].providers \X job[a].services /\ ifaces'[a] = {}
  BY Zenon DEF AuthTyped
<1>5. Inserting(a)'
  BY <1>3, <1>4 DEF Inserting, Covers
<1>6. ASSUME NEW b \in AuthWorkers, b # a
      PROVE  step'[b] = step[b] /\ todo'[b] = todo[b] /\ ifaces'[b] = ifaces[b]
  BY <1>6, Zenon DEF AuthTyped
<1>7. \A b \in AuthWorkers : b # a /\ step'[b] = "insert" => Inserting(b)'
  BY <1>6 DEF Inserting, Covers
<1>8. step'[a] = "insert"
  BY Zenon DEF AuthTyped
<1>9. \A b \in AuthWorkers : step'[b] = "readback" \/ PostAnswered(b)' => Inserted(b)'
  BY <1>6, <1>8 DEF Inserted, Covers, PostAnswered
<1>10. \A b \in AuthWorkers : PostAnswered(b)' => Reported(b)'
  BY <1>6, <1>8 DEF Reported, PostAnswered
<1>. QED
  BY <1>1, <1>2, <1>5, <1>7, <1>9, <1>10, Zenon

LEMMA InsertRuleStep == ASSUME AuthInv, NEW a \in AuthWorkers, InsertRule(a) PROVE AuthInv'
<1>1. PICK t \in todo[a] :
        /\ todo' = [todo EXCEPT ![a] = @ \ {t}]
        /\ newRules' = [newRules EXCEPT ![a] = @ \cup
             {[id |-> nextId, consumer |-> job[a].consumer, provider |-> t[1], service |-> t[2]]}]
  BY Zenon DEF InsertRule
<1>. DEFINE new == [id |-> nextId, consumer |-> job[a].consumer, provider |-> t[1], service |-> t[2]]
<1>2. /\ step[a] = "insert" /\ ifaces[a] = {} /\ Inserting(a)
      /\ row' = [row EXCEPT ![a] = nextId] /\ nextId' = nextId + 1
      /\ ifaces' = [ifaces EXCEPT ![a] = job[a].interfaces]
      /\ rules' = rules /\ links' = links /\ step' = step /\ job' = job /\ newLinks' = newLinks
      /\ answer' = answer
  BY Zenon DEF InsertRule, AuthInv
<1>3. /\ todo'[a] = todo[a] \ {t} /\ newRules'[a] = newRules[a] \cup {new}
      /\ row'[a] = nextId /\ ifaces'[a] = job[a].interfaces
  BY <1>1, <1>2, Zenon DEF AuthInv, AuthTyped
<1>4. ASSUME NEW b \in AuthWorkers, b # a
      PROVE  /\ todo'[b] = todo[b] /\ newRules'[b] = newRules[b]
             /\ row'[b] = row[b] /\ ifaces'[b] = ifaces[b]
  BY <1>1, <1>2, <1>4, Zenon DEF AuthInv, AuthTyped
<1>5. AuthTyped'
  BY <1>1, <1>2, <1>4 DEF AuthInv, AuthTyped
<1>6. new.id = nextId /\ new.consumer = job[a].consumer /\ new.provider = t[1] /\ new.service = t[2]
  BY Zenon
<1>. HIDE DEF new
<1>7. IdsFresh'
  <2>1. nextId \in Nat
    BY Zenon DEF AuthInv, AuthTyped
  <2>2. \A b \in AuthWorkers : \A r \in newRules'[b] : r \in newRules[b] \/ (b = a /\ r = new)
    BY <1>3, <1>4, Zenon
  <2>. QED
    BY <1>2, <1>6, <2>1, <2>2 DEF AuthInv, IdsFresh
<1>8. nextId \in Nat /\ (\A r \in newRules[a] : r.id # nextId) /\ (\A l \in newLinks[a] : l.rule # nextId)
  BY <1>2 DEF AuthInv, AuthTyped, IdsFresh, Inserting
<1>9. Inserting(a)'
  <2>1. Covers(a)'
    BY <1>2, <1>3, <1>6 DEF Inserting, Covers
  <2>2. \A r \in newRules[a] : job[a].interfaces = Linked(r, newLinks[a])
    BY <1>2, Zenon DEF Inserting
  <2>3. Linked(new, newLinks[a]) = {}
    BY <1>6, <1>8, Zenon DEF Linked
  <2>4. \A s \in rules : s.id # new.id
    BY <1>6 DEF AuthInv, IdsFresh
  <2>5. \A l \in links : l.rule # new.id
    BY <1>6 DEF AuthInv, IdsFresh
  <2>6. \A r \in newRules'[a] : job'[a].interfaces = Linked(r, newLinks'[a]) \cup
                                  (IF r.id = row'[a] THEN ifaces'[a] ELSE {})
    BY <1>2, <1>3, <1>6, <1>8, <2>2, <2>3, Zenon
  <2>7. \E r \in newRules'[a] : r.id = row'[a]
    BY <1>3, <1>6, Zenon
  <2>. QED
    BY <1>2, <1>3, <2>1, <2>4, <2>5, <2>6, <2>7, Zenon DEF Inserting
<1>10. \A b \in AuthWorkers : step'[b] = "insert" => Inserting(b)'
  BY <1>2, <1>4, <1>9 DEF AuthInv, Inserting, Covers
<1>11. \A b \in AuthWorkers : step'[b] = "readback" \/ PostAnswered(b)' => Inserted(b)'
  BY <1>2, <1>4 DEF AuthInv, Inserted, Covers, PostAnswered
<1>12. ASSUME NEW b \in AuthWorkers, PostAnswered(b)' PROVE Reported(b)'
  <2>1. b # a /\ PostAnswered(b)
    BY <1>2, <1>12, Zenon DEF PostAnswered
  <2>2. Reported(b)
    BY <2>1, Zenon DEF AuthInv
  <2>. QED
    BY <1>2, <1>4, <2>1, <2>2 DEF Reported
<1>. QED
  BY <1>5, <1>7, <1>10, <1>11, <1>12, Zenon DEF AuthInv

\* Connection rows of other rules do not matter to a rule.
LEMMA LinkedUnion ==
    ASSUME NEW r, NEW ls, NEW ms, \A l \in ms : l.rule # r.id
    PROVE  Linked(r, ls \cup ms) = Linked(r, ls)
BY Zenon DEF Linked

LEMMA LinkedAdd ==
    ASSUME NEW r, NEW ls, NEW l, l.rule = r.id
    PROVE  Linked(r, ls \cup {l}) = Linked(r, ls) \cup {l.interface}
BY Zenon DEF Linked

LEMMA InsertInterfaceStep ==
    ASSUME AuthInv, NEW a \in AuthWorkers, InsertInterface(a) PROVE AuthInv'
<1>1. PICK i \in ifaces[a] :
        /\ ifaces' = [ifaces EXCEPT ![a] = @ \ {i}]
        /\ newLinks' = [newLinks EXCEPT ![a] = @ \cup {[rule |-> row[a], interface |-> i]}]
  BY Zenon DEF InsertInterface
<1>2. /\ step[a] = "insert" /\ Inserting(a)
      /\ rules' = rules /\ links' = links /\ nextId' = nextId /\ step' = step /\ job' = job
      /\ todo' = todo /\ row' = row /\ newRules' = newRules /\ answer' = answer
  BY Zenon DEF InsertInterface, AuthInv, database
<1>. DEFINE new == [rule |-> row[a], interface |-> i]
<1>3. ifaces'[a] = ifaces[a] \ {i} /\ newLinks'[a] = newLinks[a] \cup {new}
  BY <1>1, Zenon DEF AuthInv, AuthTyped
<1>4. \A b \in AuthWorkers : b # a => ifaces'[b] = ifaces[b] /\ newLinks'[b] = newLinks[b]
  BY <1>1, Zenon DEF AuthInv, AuthTyped
<1>5. AuthTyped'
  BY <1>1, <1>2, <1>4, Zenon DEF AuthInv, AuthTyped
<1>fields. new.rule = row[a] /\ new.interface = i
  BY Zenon
<1>. HIDE DEF new
<1>6. IdsFresh'
  BY <1>2, Zenon DEF AuthInv, IdsFresh
<1>7. Inserting(a)'
  <2>1. PICK r0 \in newRules[a] : r0.id = row[a]
    BY <1>2, Zenon DEF Inserting
  <2>2. ASSUME NEW r \in newRules[a]
        PROVE  job[a].interfaces = Linked(r, newLinks'[a]) \cup (IF r.id = row[a] THEN ifaces'[a] ELSE {})
    <3>1. job[a].interfaces = Linked(r, newLinks[a]) \cup (IF r.id = row[a] THEN ifaces[a] ELSE {})
      BY <1>2, Zenon DEF Inserting
    <3>2. CASE r.id = row[a]
      <4>1. Linked(r, newLinks[a] \cup {new}) = Linked(r, newLinks[a]) \cup {i}
        BY <1>fields, <3>2, LinkedAdd
      <4>. QED
        BY <1>3, <3>1, <3>2, <4>1
    <3>3. CASE r.id # row[a]
      <4>1. Linked(r, newLinks[a] \cup {new}) = Linked(r, newLinks[a])
        <5>1. \A l \in {new} : l.rule # r.id
          BY <1>fields, <3>3, Zenon
        <5>. QED
          BY <5>1, LinkedUnion, Zenon
      <4>. QED
        BY <1>3, <3>1, <3>3, <4>1, Zenon
    <3>. QED
      BY <3>2, <3>3, Zenon
  <2>3. \A l \in newLinks'[a] : \E r \in newRules[a] : r.id = l.rule
    BY <1>fields, <1>2, <1>3, <2>1, Zenon DEF Inserting
  <2>. QED
    BY <1>2, <2>1, <2>2, <2>3 DEF Inserting, Covers
<1>8. \A b \in AuthWorkers : step'[b] = "insert" => Inserting(b)'
  BY <1>2, <1>4, <1>7 DEF AuthInv, Inserting, Covers
<1>9. \A b \in AuthWorkers : step'[b] = "readback" \/ PostAnswered(b)' => Inserted(b)'
  BY <1>2 DEF AuthInv, Inserted, Covers, PostAnswered
<1>10. \A b \in AuthWorkers : PostAnswered(b)' => Reported(b)'
  BY <1>2, Zenon DEF AuthInv, Reported, PostAnswered
<1>. QED
  BY <1>5, <1>6, <1>8, <1>9, <1>10, Zenon DEF AuthInv

\* A commit adds the rules and interfaces of the transaction, whose ids nobody else has.
LEMMA CommitStep == ASSUME AuthInv, NEW a \in AuthWorkers, Commit(a) PROVE AuthInv'
<1>1. /\ step[a] = "insert" /\ ifaces[a] = {} /\ todo[a] = {} /\ Inserting(a)
      /\ rules' = rules \cup newRules[a] /\ links' = links \cup newLinks[a]
      /\ step' = [step EXCEPT ![a] = "readback"]
      /\ nextId' = nextId /\ job' = job /\ todo' = todo /\ row' = row /\ ifaces' = ifaces
      /\ newRules' = newRules /\ newLinks' = newLinks /\ answer' = answer
  BY Zenon DEF Commit, Goto, transaction, AuthInv
<1>2. step'[a] = "readback" /\ \A b \in AuthWorkers : b # a => step'[b] = step[b]
  BY <1>1, Zenon DEF AuthInv, AuthTyped
<1>3. AuthTyped'
  BY <1>1, <1>2, Zenon DEF AuthInv, AuthTyped
<1>4. \A l \in newLinks[a] : \E r \in newRules[a] : r.id = l.rule
  BY <1>1, Zenon DEF Inserting
<1>5. \A r \in newRules[a], s \in rules : s.id # r.id
  BY <1>1, Zenon DEF Inserting
<1>6. IdsFresh'
  BY <1>1, <1>4, <1>5 DEF AuthInv, IdsFresh
<1>7. ASSUME NEW b \in AuthWorkers, b # a, NEW r \in newRules[b]
      PROVE  (\A s \in newRules[a] : s.id # r.id) /\ (\A l \in newLinks[a] : l.rule # r.id)
  BY <1>4, <1>7, Zenon DEF AuthInv, IdsFresh
<1>8. ASSUME NEW b \in AuthWorkers, step'[b] = "insert" PROVE Inserting(b)'
  <2>1. b # a /\ Inserting(b)
    BY <1>2, <1>8, Zenon DEF AuthInv
  <2>2. Covers(b)'
    BY <1>1, <2>1 DEF Inserting, Covers
  <2>. QED
    BY <1>1, <1>7, <2>1, <2>2 DEF Inserting
<1>9. Inserted(a)'
  <2>1. Covers(a)'
    BY <1>1 DEF Inserting, Covers
  <2>2. ASSUME NEW r \in newRules[a] PROVE job[a].interfaces = Linked(r, links \cup newLinks[a])
    <3>1. \A l \in links : l.rule # r.id
      BY <1>1, Zenon DEF Inserting
    <3>2. Linked(r, newLinks[a] \cup links) = Linked(r, newLinks[a])
      BY <3>1, LinkedUnion, Zenon
    <3>3. job[a].interfaces = Linked(r, newLinks[a])
      BY <1>1, Zenon DEF Inserting
    <3>4. newLinks[a] \cup links = links \cup newLinks[a]
      BY Zenon
    <3>. QED
      BY <3>2, <3>3, <3>4, Zenon
  <2>3. \A r \in newRules[a], s \in rules \cup newRules[a] : s.id = r.id => s = r
    BY <1>5, Zenon DEF AuthInv, IdsFresh
  <2>. QED
    BY <1>1, <2>1, <2>2, <2>3, Zenon DEF Inserted
<1>10. ASSUME NEW b \in AuthWorkers, step'[b] = "readback" \/ PostAnswered(b)', b # a
       PROVE  Inserted(b)' /\ (PostAnswered(b)' => Reported(b)')
  <2>1. Inserted(b) /\ (PostAnswered(b)' <=> PostAnswered(b))
    BY <1>1, <1>2, <1>10, Zenon DEF AuthInv, PostAnswered
  <2>2. Covers(b)'
    BY <1>1, <2>1 DEF Inserted, Covers
  <2>3. \A r \in newRules[b] : Linked(r, links \cup newLinks[a]) = Linked(r, links)
    BY <1>7, <1>10, LinkedUnion, Zenon
  <2>4. Inserted(b)'
    BY <1>1, <1>7, <1>10, <2>1, <2>2, <2>3, Zenon DEF Inserted
  <2>5. ASSUME PostAnswered(b) PROVE Reported(b)'
    <3>1. Reported(b)
      BY <2>5, Zenon DEF AuthInv
    <3>2. \A r \in newRules[b] : r \notin newRules[a]
      BY <1>7, <1>10, Zenon
    <3>. QED
      BY <1>1, <3>1, <3>2, Zenon DEF Reported
  <2>. QED
    BY <2>1, <2>4, <2>5, Zenon
<1>11. ~PostAnswered(a)'
  BY <1>2, Zenon DEF PostAnswered
<1>. QED
  BY <1>3, <1>6, <1>8, <1>9, <1>10, <1>11, Zenon DEF AuthInv

LEMMA RecordFields ==
    ASSUME NEW r, NEW ls
    PROVE  /\ Record(r, ls).id = r.id /\ Record(r, ls).consumer = r.consumer
           /\ Record(r, ls).provider = r.provider /\ Record(r, ls).service = r.service
           /\ Record(r, ls).interfaces = Linked(r, ls)
BY Zenon DEF Record

\* A record of a join comes from a rule that has interfaces.
LEMMA InJoin ==
    ASSUME NEW rs, NEW ls, NEW d
    PROVE  d \in Join(rs, ls) <=> \E r \in rs : Linked(r, ls) # {} /\ d = Record(r, ls)
BY Zenon DEF Join, Linked

\* getRecordsByIds reports the committed rules of the request.
LEMMA ReadBackStep == ASSUME AuthInv, NEW a \in AuthWorkers, ReadBack(a) PROVE AuthInv'
<1>1. /\ step[a] = "readback" /\ Inserted(a) /\ job[a] \in Posts /\ job[a].interfaces # {}
      /\ step' = [step EXCEPT ![a] = "done"]
      /\ answer' = [answer EXCEPT ![a] = ReadBackAnswer(a)]
      /\ rules' = rules /\ links' = links /\ nextId' = nextId /\ job' = job /\ todo' = todo
      /\ row' = row /\ ifaces' = ifaces /\ newRules' = newRules /\ newLinks' = newLinks
  BY Zenon DEF ReadBack, Reply, Goto, database, transaction, AuthInv, AuthTyped
<1>2. /\ step'[a] = "done" /\ answer'[a] = ReadBackAnswer(a)
      /\ \A b \in AuthWorkers : b # a => Mine(b)' = Mine(b)
  BY <1>1, Zenon DEF AuthInv, AuthTyped, Mine
<1>3. CASE ~PostAnswered(a)'
  <2>1. Outside(a)
    BY <1>1, <1>2, <1>3, Zenon DEF Outside, AuthInv, AuthTyped
  <2>2. SameDomains
    BY <1>1, Zenon DEF SameDomains, AuthInv, AuthTyped
  <2>. QED
    BY <1>1, <1>2, <2>1, <2>2, OutsideStep, Zenon
<1>4. CASE PostAnswered(a)'
  <2>1. AuthTyped'
    BY <1>1, <1>2 DEF AuthInv, AuthTyped, Mine
  <2>2. IdsFresh'
    BY <1>1, Zenon DEF AuthInv, IdsFresh
  <2>3. Inserted(a)'
    BY <1>1 DEF Inserted, Covers
  <2>. DEFINE ids  == {r.id : r \in newRules[a]}
              data == {r \in Records : r.id \in ids}
  <2>4. answer'[a] = [status |-> OK, count |-> Cardinality(ids), data |-> data]
    BY <1>2, <1>4 DEF ReadBackAnswer, Refused, PostAnswered, OK, BadRequest
  <2>5. answer'[a].count = Cardinality(ids) /\ answer'[a].data = data
    BY <2>4
  <2>6. ASSUME NEW d \in data
        PROVE  /\ \E r \in newRules[a] : d.provider = r.provider /\ d.service = r.service
               /\ d.consumer = job[a].consumer /\ d.interfaces = job[a].interfaces
    <3>1. PICK r \in rules : d = Record(r, links)
      BY Zenon DEF Records, Join
    <3>2. PICK n \in newRules[a] : n.id = d.id
      BY <2>6, Zenon
    <3>3. r = n
      BY <1>1, <3>1, <3>2, RecordFields DEF Inserted
    <3>4. job[a].interfaces = Linked(n, links) /\ n.consumer = job[a].consumer
      BY <1>1, Zenon DEF Inserted, Covers
    <3>. QED
      BY <3>1, <3>3, <3>4, RecordFields
  <2>7. ASSUME NEW r \in newRules[a], r \in rules PROVE \E d \in data : d.id = r.id
    <3>1. Linked(r, links) # {}
      BY <1>1, Zenon DEF Inserted
    <3>2. \E l \in links : l.rule = r.id
      BY <3>1, Zenon DEF Linked
    <3>3. Record(r, links) \in Records
      BY <2>7, <3>2, Zenon DEF Records, Join
    <3>. QED
      BY <3>3, RecordFields
  <2>8. Reported(a)'
    BY <1>1, <2>5, <2>6, <2>7, Zenon DEF Reported, Ids
  <2>9. ASSUME NEW b \in AuthWorkers, b # a
        PROVE  /\ step'[b] = "insert" => Inserting(b)'
               /\ step'[b] = "readback" \/ PostAnswered(b)' => Inserted(b)'
               /\ PostAnswered(b)' => Reported(b)'
    <3>1. step'[b] = step[b] /\ answer'[b] = answer[b]
      BY <1>2, <2>9, Zenon DEF Mine
    <3>2. step[b] = "insert" => Inserting(b)'
      BY <1>1 DEF AuthInv, Inserting, Covers
    <3>3. PostAnswered(b)' <=> PostAnswered(b)
      BY <1>1, <3>1, Zenon DEF PostAnswered
    <3>4. step[b] = "readback" \/ PostAnswered(b) => Inserted(b)'
      BY <1>1 DEF AuthInv, Inserted, Covers
    <3>5. PostAnswered(b) => Reported(b)'
      <4>1. PostAnswered(b) => Reported(b)
        BY Zenon DEF AuthInv
      <4>2. Reported(b) => Reported(b)'
        BY <1>1, <3>1, Zenon DEF Reported, Ids
      <4>. QED
        BY <4>1, <4>2, Zenon
    <3>. QED
      BY <3>1, <3>2, <3>3, <3>4, <3>5, Zenon
  <2>10. step'[a] # "insert"
    BY <1>2, Zenon
  <2>. QED
    BY <2>1, <2>2, <2>3, <2>8, <2>9, <2>10, Zenon DEF AuthInv
<1>. QED
  BY <1>3, <1>4, Zenon

-----------------------------------------------------------------------------
\* A request accepted as a POST has interfaces.
LEMMA ValidHasInterfaces == ASSUME NEW q, Valid(q) PROVE q.interfaces # {}
BY FS_EmptySet DEF Valid

LEMMA ReceiveStep ==
    ASSUME AuthInv, NEW a \in AuthWorkers, NEW q \in ManagementRequests, Receive(a, q)
    PROVE  AuthInv'
<1>. USE DEF Receive, Reply, Goto, database
<1>1. rules' = rules /\ links' = links /\ nextId' = nextId
  BY Zenon
<1>2. SameDomains
  BY Zenon DEF AuthInv, AuthTyped, SameDomains
<1>3. \A b \in AuthWorkers : b # a => Mine(b)' = Mine(b)
  BY Zenon DEF AuthInv, AuthTyped, Mine
<1>4. job'[a] = q /\ newRules'[a] = {} /\ newLinks'[a] = {}
  BY Zenon DEF AuthInv, AuthTyped
<1>5. CASE q.kind = "malformed" \/ (q.kind = "post" /\ ~Valid(q))
  <2>1. step'[a] = "done" /\ answer'[a] = Refused
    BY <1>5, Zenon DEF AuthInv, AuthTyped
  <2>2. Outside(a)
    BY <1>4, <2>1 DEF Outside, PostAnswered, Refused, OK, BadRequest
  <2>. QED
    BY <1>1, <1>2, <1>3, <2>2, OutsideStep, Zenon
<1>6. CASE ~(q.kind = "malformed" \/ (q.kind = "post" /\ ~Valid(q)))
  <2>1. step'[a] = FirstStep(q)
    BY <1>6, Zenon DEF AuthInv, AuthTyped
  <2>2. FirstStep(q) \in {"begin", "delete", "get", "count"} /\ (FirstStep(q) = "begin" <=> q.kind = "post")
    BY <1>6, RequestsAssumption, Zenon DEF FirstStep
  <2>3. q.kind = "post" => q \in Posts /\ q.interfaces # {}
    BY <1>6, ValidHasInterfaces, Zenon DEF Posts
  <2>4. Outside(a)
    BY <1>4, <2>1, <2>2, <2>3, Zenon DEF Outside, PostAnswered
  <2>. QED
    BY <1>1, <1>2, <1>3, <2>4, OutsideStep, Zenon
<1>. QED
  BY <1>5, <1>6, Zenon

LEMMA TerminateStep == ASSUME AuthInv, Terminate PROVE AuthInv'
<1>. USE DEF Terminate, database
<1>1. rules' = rules /\ links' = links /\ nextId' = nextId
  BY Zenon
<1>2. SameDomains
  BY Zenon DEF SameDomains, AuthInv, AuthTyped
<1>3. ASSUME NEW a \in AuthWorkers, step[a] = "done" PROVE Mine(a)' = Mine(a)
  BY <1>3, Zenon DEF Mine
<1>4. ASSUME NEW a \in AuthWorkers, step[a] # "done" PROVE Outside(a)
  BY <1>4, Zenon DEF Outside, PostAnswered
<1>. QED
  BY <1>1, <1>2, <1>3, <1>4, OutsideStep, Zenon

\* The handlers that read or delete, and the error paths.
LEMMA AnswerStep ==
    ASSUME AuthInv, NEW a \in AuthWorkers,
           InsertFails(a) \/ ReadBackFails(a) \/ Delete(a) \/ Get(a) \/ Count(a) \/ Rows(a) \/ ReadFails(a)
    PROVE  AuthInv'
<1>. USE DEF Reply, Goto, database, transaction
<1>1. rules' \subseteq rules /\ links' = links /\ nextId' = nextId
  BY Zenon DEF InsertFails, ReadBackFails, Delete, Get, Count, Rows, ReadFails
<1>2. SameDomains
  BY Zenon DEF InsertFails, ReadBackFails, Delete, Get, Count, Rows, ReadFails, SameDomains, AuthInv, AuthTyped
<1>3. \A b \in AuthWorkers : b # a => Mine(b)' = Mine(b)
  BY Zenon DEF InsertFails, ReadBackFails, Delete, Get, Count, Rows, ReadFails, Mine, AuthInv, AuthTyped
<1>4. CASE InsertFails(a) \/ ReadBackFails(a)
  <2>1. DOMAIN step = AuthWorkers /\ DOMAIN answer = AuthWorkers /\ DOMAIN newRules = AuthWorkers
    BY Zenon DEF AuthInv, AuthTyped
  <2>2. step'[a] = "done" /\ answer'[a] = Refused /\ job' = job
    BY <1>4, <2>1, Zenon DEF InsertFails, ReadBackFails
  <2>3. newRules'[a] \in {newRules[a], {}}
    BY <1>4, <2>1, Zenon DEF InsertFails, ReadBackFails
  <2>4. ~PostAnswered(a)'
    <3>1. Refused.status # OK
      BY DEF Refused, OK, BadRequest
    <3>. QED
      BY <2>2, <3>1, Zenon DEF PostAnswered
  <2>5. job[a] \in ManagementRequests \cup {NoJob}
    BY Zenon DEF AuthInv, AuthTyped
  <2>6. Outside(a)
    BY <2>2, <2>3, <2>4, <2>5, Zenon DEF Outside
  <2>. QED
    BY <1>1, <1>2, <1>3, <2>6, OutsideStep, Zenon
<1>5. CASE Delete(a) \/ Get(a) \/ Count(a) \/ Rows(a) \/ ReadFails(a)
  <2>1. step[a] \in {"delete", "get", "count", "rows"}
    BY <1>5, Zenon DEF Delete, Get, Count, Rows, ReadFails
  <2>2. job[a].kind # "post"
    BY <2>1, Zenon DEF AuthInv, AuthTyped
  <2>3. step'[a] \in {"done", "rows"} /\ job' = job /\ newRules' = newRules
    BY <1>5, Zenon DEF Delete, Get, Count, Rows, ReadFails, AuthInv, AuthTyped
  <2>4. Outside(a)
    BY <2>2, <2>3, Zenon DEF Outside, PostAnswered, AuthInv, AuthTyped
  <2>. QED
    BY <1>1, <1>2, <1>3, <2>4, OutsideStep, Zenon
<1>. QED
  BY <1>4, <1>5, Zenon

LEMMA AuthNextInv == AuthInv /\ [AuthNext]_authVars => AuthInv'
<1>. SUFFICES ASSUME AuthInv, [AuthNext]_authVars PROVE AuthInv'
  BY Zenon
<1>1. CASE UNCHANGED authVars
  <2>1. SameDomains /\ \A a \in AuthWorkers : Mine(a)' = Mine(a)
    BY <1>1, Zenon DEF authVars, SameDomains, Mine, AuthInv, AuthTyped
  <2>. QED
    BY <1>1, <2>1, OutsideStep, Zenon DEF authVars
<1>2. ASSUME NEW a \in AuthWorkers, Handle(a) PROVE AuthInv'
  BY <1>2, BeginStep, InsertRuleStep, InsertInterfaceStep, CommitStep, ReadBackStep, AnswerStep,
     TerminateStep, Zenon DEF Handle, Uncaught
<1>3. ASSUME NEW a \in AuthWorkers, NEW q \in ManagementRequests, Receive(a, q) PROVE AuthInv'
  BY <1>3, ReceiveStep, Zenon
<1>4. ASSUME NEW c \in Callers, Serve(c) PROVE AuthInv'
  BY <1>1, <1>4, TerminateStep, Zenon DEF Serve, Check, CheckFails, CheckUndefined, Token
<1>5. CASE Killed
  BY <1>5, TerminateStep, Zenon DEF Killed
<1>. QED
  BY <1>1, <1>2, <1>3, <1>4, <1>5, Zenon DEF AuthNext

THEOREM AuthInvariant == AuthSpec => []AuthInv
BY AuthInitInv, AuthNextInv, PTL DEF AuthSpec

\* Rules with different ids, one for each pair of a product, are as many as the pairs.
LEMMA OneIdPerPair ==
    ASSUME NEW R, NEW P, NEW S, IsFiniteSet(P), IsFiniteSet(S),
           \A r, s \in R : r.id = s.id => r = s,
           \A r, s \in R : (r.provider = s.provider /\ r.service = s.service) => r = s,
           \A r \in R : r.provider \in P /\ r.service \in S,
           \A p \in P, s \in S : \E r \in R : r.provider = p /\ r.service = s
    PROVE  Cardinality(Ids(R)) = Cardinality(P \X S)
<1>. DEFINE T == P \X S
            U == Ids(R)
            of(t) == CHOOSE r \in R : r.provider = t[1] /\ r.service = t[2]
            f == [t \in T |-> of(t).id]
<1>1. \A t \in T : of(t) \in R /\ of(t).provider = t[1] /\ of(t).service = t[2]
  OBVIOUS
<1>. HIDE DEF of
<1>2. f \in [T -> U]
  BY <1>1, Zenon DEF Ids
<1>3. ASSUME NEW t \in T, NEW u \in T, f[t] = f[u] PROVE t = u
  <2>1. of(t) = of(u)
    BY <1>1, <1>3, Zenon
  <2>2. t[1] = u[1] /\ t[2] = u[2]
    BY <1>1, <2>1
  <2>. QED
    BY <2>2
<1>4. ASSUME NEW i \in U PROVE \E t \in T : f[t] = i
  <2>1. PICK r \in R : r.id = i
    BY Zenon DEF Ids
  <2>2. <<r.provider, r.service>> \in T
    BY Zenon
  <2>3. of(<<r.provider, r.service>>) = r
    BY <1>1, <2>2, Zenon
  <2>. QED
    BY <2>1, <2>2, <2>3, Zenon
<1>5. IsFiniteSet(T)
  BY FS_Product, Zenon
<1>. HIDE DEF T, U, f
<1>6. f \in Bijection(T, U)
  <2>1. DOMAIN f = T
    BY <1>2, Zenon
  <2>. QED
    BY <1>2, <1>3, <1>4, <2>1, Zenon DEF Bijection, Injection, IsInjective, Surjection
<1>7. Cardinality(U) = Cardinality(T)
  BY <1>5, <1>6, FS_Bijection, Zenon DEF ExistsBijection
<1>. QED
  BY <1>7, Zenon DEF T, U

\* postRecord: an answer OK reports what was stored.
THEOREM AuthPostReplyTrue == AuthSpec => []PostReplyTrue
<1>1. AuthInv => PostReplyTrue
  <2>. SUFFICES ASSUME AuthInv PROVE PostReplyTrue
    BY Zenon
  <2>1. ASSUME NEW a \in AuthWorkers, PostAnswered(a)
        PROVE  /\ answer[a].count = Cardinality(job[a].providers \X job[a].services)
               /\ Pairs(newRules[a]) = job[a].providers \X job[a].services
               /\ \A d \in answer[a].data :
                    /\ d.provider \in job[a].providers /\ d.service \in job[a].services
                    /\ d.consumer = job[a].consumer
                    /\ d.interfaces = job[a].interfaces
               /\ \A r \in newRules[a] : (\E d \in answer[a].data : d.id = r.id) \/ r \notin rules
    <3>1. Inserted(a) /\ Reported(a)
      BY <2>1, Zenon DEF AuthInv
    <3>2. job[a] \in ManagementRequests /\ job[a].kind = "post"
      BY <2>1 DEF AuthInv, AuthTyped, PostAnswered, NoJob
    <3>3. IsFiniteSet(job[a].providers) /\ IsFiniteSet(job[a].services)
      BY <3>2, RequestsAssumption, Zenon
    <3>4. /\ \A r \in newRules[a] : r.provider \in job[a].providers /\ r.service \in job[a].services
          /\ \A p \in job[a].providers, s \in job[a].services :
               \E r \in newRules[a] : r.provider = p /\ r.service = s
          /\ \A r, s \in newRules[a] : (r.provider = s.provider /\ r.service = s.service) => r = s
      BY <3>1 DEF Inserted, Covers
    <3>5. \A r, s \in newRules[a] : r.id = s.id => r = s
      BY Zenon DEF AuthInv, IdsFresh
    <3>6. Cardinality(Ids(newRules[a])) = Cardinality(job[a].providers \X job[a].services)
      BY <3>3, <3>4, <3>5, OneIdPerPair
    <3>7. Pairs(newRules[a]) = job[a].providers \X job[a].services
      <4>1. ASSUME NEW t \in job[a].providers \X job[a].services PROVE t \in Pairs(newRules[a])
        <5>1. PICK r \in newRules[a] : r.provider = t[1] /\ r.service = t[2]
          BY <3>4
        <5>2. t = <<r.provider, r.service>>
          BY <5>1
        <5>. QED
          BY <5>2, Zenon DEF Pairs
      <4>2. ASSUME NEW t \in Pairs(newRules[a]) PROVE t \in job[a].providers \X job[a].services
        BY <3>4 DEF Pairs
      <4>. QED
        BY <4>1, <4>2, Zenon
    <3>8. \A d \in answer[a].data : d.provider \in job[a].providers /\ d.service \in job[a].services
      BY <3>1, <3>4, Zenon DEF Reported
    <3>. QED
      BY <3>1, <3>6, <3>7, <3>8, Zenon DEF Reported
  <2>. QED
    BY <2>1, Zenon DEF PostReplyTrue, PostAnswered, Pairs
<1>. QED
  BY <1>1, AuthInvariant, PTL

-----------------------------------------------------------------------------
\* Rules under new ids, with connection rows of their own, are added to the join and leave
\* its records alone.
LEMMA JoinUnion ==
    ASSUME NEW rs, NEW ls, NEW nrs, NEW nls,
           \A l \in nls : \E r \in nrs : r.id = l.rule,
           \A r \in nrs : (\A s \in rs : s.id # r.id) /\ (\A l \in ls : l.rule # r.id)
    PROVE  Join(rs \cup nrs, ls \cup nls) = Join(rs, ls) \cup Join(nrs, nls)
<1>1. \A r \in rs : Linked(r, ls \cup nls) = Linked(r, ls)
  <2>1. \A r \in rs : \A l \in nls : l.rule # r.id
    BY Zenon
  <2>. QED
    BY <2>1, LinkedUnion, Zenon
<1>2. \A r \in nrs : Linked(r, ls \cup nls) = Linked(r, nls)
  <2>1. \A r \in nrs : Linked(r, nls \cup ls) = Linked(r, nls)
    BY LinkedUnion, Zenon
  <2>2. nls \cup ls = ls \cup nls
    BY Zenon
  <2>. QED
    BY <2>1, <2>2, Zenon
<1>3. \A r \in rs : Record(r, ls \cup nls) = Record(r, ls)
  BY <1>1, Zenon DEF Record
<1>4. \A r \in nrs : Record(r, ls \cup nls) = Record(r, nls)
  BY <1>2, Zenon DEF Record
<1>5. ASSUME NEW d
      PROVE  d \in Join(rs \cup nrs, ls \cup nls) <=> d \in Join(rs, ls) \cup Join(nrs, nls)
  <2>1. d \in Join(rs \cup nrs, ls \cup nls) <=>
          \E r \in rs \cup nrs : Linked(r, ls \cup nls) # {} /\ d = Record(r, ls \cup nls)
    <3>. DEFINE R == rs \cup nrs
                L == ls \cup nls
    <3>. HIDE DEF R, L
    <3>1. d \in Join(R, L) <=> \E r \in R : Linked(r, L) # {} /\ d = Record(r, L)
      BY InJoin
    <3>. QED
      BY <3>1, Zenon DEF R, L
  <2>2. d \in Join(rs, ls) <=> \E r \in rs : Linked(r, ls) # {} /\ d = Record(r, ls)
    BY InJoin, Zenon
  <2>3. d \in Join(nrs, nls) <=> \E r \in nrs : Linked(r, nls) # {} /\ d = Record(r, nls)
    BY InJoin
  <2>. QED
    BY <1>1, <1>2, <1>3, <1>4, <2>1, <2>2, <2>3, Zenon
<1>. QED
  BY <1>5, Zenon

\* A commit is the abstract step that adds the rules of the worker's request.
LEMMA CommitAdds == ASSUME AuthInv, NEW a \in AuthWorkers, Commit(a) PROVE RT!Add(job[a])
<1>1. /\ step[a] = "insert" /\ ifaces[a] = {} /\ todo[a] = {} /\ Inserting(a)
      /\ job[a] \in Posts /\ job[a].interfaces # {}
      /\ rules' = rules \cup newRules[a] /\ links' = links \cup newLinks[a]
  BY Zenon DEF Commit, AuthInv, AuthTyped
<1>. DEFINE N == Join(newRules[a], newLinks[a])
<1>2. Records' = Records \cup N
  <2>1. /\ \A l \in newLinks[a] : \E r \in newRules[a] : r.id = l.rule
        /\ \A r \in newRules[a] : (\A s \in rules : s.id # r.id) /\ (\A l \in links : l.rule # r.id)
    BY <1>1, Zenon DEF Inserting
  <2>2. Join(rules \cup newRules[a], links \cup newLinks[a]) = Join(rules, links) \cup N
    <3>. DEFINE R == newRules[a]
                L == newLinks[a]
    <3>. HIDE DEF R, L
    <3>1. /\ \A l \in L : \E r \in R : r.id = l.rule
          /\ \A r \in R : (\A s \in rules : s.id # r.id) /\ (\A l \in links : l.rule # r.id)
      BY <2>1, Zenon DEF R, L
    <3>2. Join(rules \cup R, links \cup L) = Join(rules, links) \cup Join(R, L)
      BY <3>1, JoinUnion
    <3>. QED
      BY <3>2, Zenon DEF R, L
  <2>. QED
    BY <1>1, <2>2, Zenon DEF Records
<1>3. \A d \in Records : \E r \in rules : d.id = r.id
  BY InJoin, RecordFields DEF Records
<1>4. \A r \in newRules[a] : Linked(r, newLinks[a]) = job[a].interfaces
  BY <1>1, Zenon DEF Inserting
<1>5. \A r \in newRules[a] : Record(r, newLinks[a]) \in N
  BY <1>1, <1>4, InJoin, Zenon
<1>6. \A d \in N : \E r \in newRules[a] : d = Record(r, newLinks[a])
  BY InJoin
<1>. HIDE DEF N
<1>7. \A d \in N : \E r \in newRules[a] : /\ d.id = r.id /\ d.consumer = r.consumer
                                          /\ d.provider = r.provider /\ d.service = r.service
                                          /\ d.interfaces = job[a].interfaces
  BY <1>4, <1>6, RecordFields
<1>8. \A d \in N : \A e \in Records : d.id # e.id
  BY <1>1, <1>3, <1>7 DEF Inserting
<1>9. Records' \ Records = N
  BY <1>2, <1>8, Zenon
<1>10. Pairs(N) = job[a].providers \X job[a].services
  <2>1. ASSUME NEW t \in job[a].providers \X job[a].services PROVE t \in Pairs(N)
    <3>1. PICK r \in newRules[a] : r.provider = t[1] /\ r.service = t[2]
      BY <1>1 DEF Inserting, Covers
    <3>2. t = <<Record(r, newLinks[a]).provider, Record(r, newLinks[a]).service>>
      BY <3>1, RecordFields
    <3>. QED
      BY <1>5, <3>2, Zenon DEF Pairs
  <2>2. ASSUME NEW t \in Pairs(N) PROVE t \in job[a].providers \X job[a].services
    <3>1. PICK d \in N : t = <<d.provider, d.service>>
      BY Zenon DEF Pairs
    <3>. QED
      BY <1>1, <1>7, <3>1 DEF Inserting, Covers
  <2>. QED
    BY <2>1, <2>2, Zenon
<1>11. \A r \in N : \A s \in Records' : s # r => s.id # r.id
  <2>1. ASSUME NEW r \in N, NEW s \in N, s.id = r.id PROVE s = r
    <3>1. PICK x \in newRules[a] : r = Record(x, newLinks[a])
      BY <1>6, Zenon
    <3>2. PICK y \in newRules[a] : s = Record(y, newLinks[a])
      BY <1>6, Zenon
    <3>3. x.id = y.id
      BY <2>1, <3>1, <3>2, RecordFields, Zenon
    <3>4. x = y
      BY <3>3, Zenon DEF AuthInv, IdsFresh
    <3>. QED
      BY <3>1, <3>2, <3>4, Zenon
  <2>. QED
    BY <1>2, <1>8, <2>1, Zenon
<1>12. \A r \in N : r.consumer = job[a].consumer /\ r.interfaces = job[a].interfaces
  BY <1>1, <1>7 DEF Inserting, Covers
<1>. QED
  BY <1>2, <1>9, <1>10, <1>11, <1>12, Zenon DEF RT!Add, Pairs

\* A DELETE removes the record with its id, if there is one.
LEMMA DeleteRemoves ==
    ASSUME AuthInv, NEW a \in AuthWorkers, Delete(a)
    PROVE  Records' = Records \/ \E r \in Records : RT!Remove(r)
<1>1. rules' = {r \in rules : r.id # job[a].id} /\ links' = links
  BY Zenon DEF Delete
<1>2. \A d : d \in Records' <=> \E r \in rules : r.id # job[a].id /\ Linked(r, links) # {} /\ d = Record(r, links)
  BY <1>1, InJoin DEF Records
<1>3. \A d : d \in Records <=> \E r \in rules : Linked(r, links) # {} /\ d = Record(r, links)
  BY InJoin, Zenon DEF Records
<1>4. CASE \A d \in Records : d.id # job[a].id
  BY <1>2, <1>3, <1>4, RecordFields
<1>5. CASE \E d \in Records : d.id = job[a].id
  <2>1. PICK d \in Records : d.id = job[a].id
    BY <1>5, Zenon
  <2>2. PICK r \in rules : r.id = job[a].id /\ d = Record(r, links)
    BY <1>3, <2>1, RecordFields
  <2>3. \A s \in rules : s.id = job[a].id => s = r
    BY <2>2, Zenon DEF AuthInv, IdsFresh
  <2>4. Records' = Records \ {d}
    BY <1>2, <1>3, <2>2, <2>3, RecordFields
  <2>. QED
    BY <2>1, <2>4, Zenon DEF RT!Remove
<1>. QED
  BY <1>4, <1>5, Zenon

\* The rules of /mgmt/intracloud behave as the abstract table (insRecord under its
\* TransactionLock, delRecord, restarts).
THEOREM AuthImplementsRuleTable == AuthSpec => ImplementsRuleTable
<1>1. AuthInit => RT!Init
  BY Zenon DEF AuthInit, RT!Init, Records
<1>2. AuthInv /\ [AuthNext]_authVars => [RT!Next]_Records
  <2>. SUFFICES ASSUME AuthInv, [AuthNext]_authVars PROVE RT!Next \/ Records' = Records
    BY Zenon
  <2>1. CASE rules' = rules /\ links' = links
    BY <2>1, Zenon DEF Records
  <2>2. ASSUME NEW a \in AuthWorkers, Commit(a) PROVE RT!Next
    <3>1. job[a] \in Posts
      BY <2>2, Zenon DEF AuthInv, AuthTyped, Commit
    <3>. QED
      BY <2>2, <3>1, CommitAdds, Zenon DEF RT!Next
  <2>3. ASSUME NEW a \in AuthWorkers, Delete(a) PROVE RT!Next \/ Records' = Records
    BY <2>3, DeleteRemoves, Zenon DEF RT!Next
  <2>4. ASSUME NEW a \in AuthWorkers, Handle(a), ~Commit(a), ~Delete(a)
        PROVE  rules' = rules /\ links' = links
    BY <2>4, Zenon DEF Handle, Begin, InsertRule, InsertInterface, InsertFails, ReadBack, ReadBackFails, Get,
                Count, Rows, ReadFails, Uncaught, Terminate, database
  <2>5. ASSUME NEW a \in AuthWorkers, NEW q \in ManagementRequests, Receive(a, q)
        PROVE  rules' = rules /\ links' = links
    BY <2>5, Zenon DEF Receive, database
  <2>6. ASSUME NEW c \in Callers, Serve(c) PROVE rules' = rules /\ links' = links
    BY <2>6, Zenon DEF Serve, Check, CheckFails, CheckUndefined, Token, Terminate, database, authVars
  <2>7. Killed \/ UNCHANGED authVars => rules' = rules /\ links' = links
    BY Zenon DEF Killed, Terminate, database, authVars
  <2>. QED
    BY <2>1, <2>2, <2>3, <2>4, <2>5, <2>6, <2>7, Zenon DEF AuthNext
<1>. QED
  BY <1>1, <1>2, AuthInvariant, PTL DEF AuthSpec, ImplementsRuleTable, RT!Spec
=============================================================================
