---------------------------- MODULE Authorization ----------------------------
(***************************************************************************)
(* The authorization core system (core/apps/Authorization): management of  *)
(* the intra-cloud rules, and the two services the orchestrator calls,     *)
(* /intracloud/check and /token.  The database is shared by the workers of *)
(* the server; each SQL statement is one step, the rows of an open         *)
(* transaction are seen by no other connection, and ids are handed out     *)
(* once.  The tables system_, service_definition and service_interface do  *)
(* not change here.  The ids in a request's lists are distinct, so the     *)
(* vectors of Models::IntraCloud are sets.                                 *)
(***************************************************************************)
EXTENDS WebGet, FiniteSets

CONSTANTS
    AuthWorkers,         \* threads serving management requests
    ManagementRequests,  \* the management requests they may get
    StoredRules,         \* rows the tables hold at the start
    StoredLinks,
    FirstId,             \* the next value of the auto-increment column
    EscapeQuotes         \* whether the driver's escape() puts quotes around the text

ASSUME StoredAssumption ==
    /\ FirstId \in Nat
    /\ \A r \in StoredRules : r.id \in Nat /\ r.id < FirstId
    /\ \A r, s \in StoredRules : r.id = s.id => r = s
    /\ \A l \in StoredLinks : l.rule \in Nat /\ l.rule < FirstId

ASSUME RequestsAssumption ==
    \A q \in ManagementRequests :
        /\ q.kind \in {"post", "delete", "get", "list", "malformed"}
        /\ q.kind = "post" => IsFiniteSet(q.providers) /\ IsFiniteSet(q.services)

VARIABLES
    rules,      \* committed rows of authorization_intra_cloud
    links,      \* committed rows of authorization_intra_cloud_interface_connection
    nextId,     \* the auto-increment counter of authorization_intra_cloud
    step,       \* where each worker is
    job,        \* the request it serves
    todo,       \* insRecord: <<provider, service>> pairs still to be inserted
    row,        \* insRecord: id of the rule inserted last
    ifaces,     \* insRecord: interfaces of that rule still to be inserted
    newRules,   \* rows inserted in the worker's transaction
    newLinks,
    count,      \* getRecordsByParams: the number of records
    answer      \* the response

authVars == <<rules, links, nextId, step, job, todo, row, ifaces, newRules, newLinks,
              count, answer>>
-----------------------------------------------------------------------------
NoJob     == [kind |-> "none"]
NoAnswer  == [status |-> 0, count |-> 0, data |-> {}]
Refused   == [status |-> BadRequest, count |-> 0, data |-> {}]

Posts == {q \in ManagementRequests : q.kind = "post"}

\* The interfaces that the connection rows ls give the rule r.
Linked(r, ls) == {l.interface : l \in {k \in ls : k.rule = r.id}}

Record(r, ls) == [id |-> r.id, consumer |-> r.consumer, provider |-> r.provider,
                  service |-> r.service, interfaces |-> Linked(r, ls)]

\* The join of the tables that every read of rules goes through: a rule without a
\* connection row, and a connection row without its rule, are not seen.
Join(rs, ls) == {Record(r, ls) : r \in {r \in rs : \E l \in ls : l.rule = r.id}}

Records == Join(rules, links)

\* What the rules allow: who may use which interface of which provider for a service.
Granted(r) == {[consumer |-> r.consumer, provider |-> r.provider, service |-> r.service,
                interface |-> i] : i \in r.interfaces}

Grants == UNION {Granted(r) : r \in Records}

AuthInit ==
    /\ rules = StoredRules
    /\ links = StoredLinks
    /\ nextId = FirstId
    /\ step = [a \in AuthWorkers |-> "idle"]
    /\ job = [a \in AuthWorkers |-> NoJob]
    /\ todo = [a \in AuthWorkers |-> {}]
    /\ row = [a \in AuthWorkers |-> 0]
    /\ ifaces = [a \in AuthWorkers |-> {}]
    /\ newRules = [a \in AuthWorkers |-> {}]
    /\ newLinks = [a \in AuthWorkers |-> {}]
    /\ count = [a \in AuthWorkers |-> 0]
    /\ answer = [a \in AuthWorkers |-> NoAnswer]
-----------------------------------------------------------------------------
database    == <<rules, links, nextId>>
transaction == <<todo, row, ifaces, newRules, newLinks>>

Goto(a, s) == step' = [step EXCEPT ![a] = s]

Reply(a, r) == Goto(a, "done") /\ answer' = [answer EXCEPT ![a] = r]

\* Models::IntraCloud::validate.
Valid(q) == LET size(s) == Cardinality(s)
            IN \/ size(q.services) > 1 /\ size(q.providers) = 1 /\ size(q.interfaces) = 1
               \/ size(q.services) = 1 /\ q.providers # {} /\ q.interfaces # {}

\* Endpoint::IntraCloud::handle up to the first statement.  "malformed" stands for
\* everything that the parsers refuse.
FirstStep(q) == CASE q.kind = "post"   -> "begin"
                  [] q.kind = "delete" -> "delete"
                  [] q.kind = "get"    -> "get"
                  [] q.kind = "list"   -> "count"

Receive(a, q) ==
    /\ step[a] \in {"idle", "done"}
    /\ job' = [job EXCEPT ![a] = q]
    /\ IF q.kind = "malformed" \/ (q.kind = "post" /\ ~Valid(q))
         THEN Reply(a, Refused)
         ELSE Goto(a, FirstStep(q)) /\ answer' = [answer EXCEPT ![a] = NoAnswer]
    /\ newRules' = [newRules EXCEPT ![a] = {}]
    /\ newLinks' = [newLinks EXCEPT ![a] = {}]
    /\ UNCHANGED <<database, todo, row, ifaces, count, call>>

\* insRecord: the TransactionLock begins a transaction.
Begin(a) ==
    /\ step[a] = "begin"
    /\ Goto(a, "insert")
    /\ todo' = [todo EXCEPT ![a] = job[a].providers \X job[a].services]
    /\ ifaces' = [ifaces EXCEPT ![a] = {}]
    /\ UNCHANGED <<database, job, row, newRules, newLinks, count, answer, call>>

InsertRule(a) ==
    /\ step[a] = "insert" /\ ifaces[a] = {}
    /\ \E t \in todo[a] :
         /\ todo' = [todo EXCEPT ![a] = @ \ {t}]
         /\ newRules' = [newRules EXCEPT ![a] = @ \cup
              {[id |-> nextId, consumer |-> job[a].consumer, provider |-> t[1], service |-> t[2]]}]
    /\ row' = [row EXCEPT ![a] = nextId]
    /\ nextId' = nextId + 1
    /\ ifaces' = [ifaces EXCEPT ![a] = job[a].interfaces]
    /\ UNCHANGED <<rules, links, step, job, newLinks, count, answer, call>>

InsertInterface(a) ==
    /\ step[a] = "insert"
    /\ \E i \in ifaces[a] :
         /\ ifaces' = [ifaces EXCEPT ![a] = @ \ {i}]
         /\ newLinks' = [newLinks EXCEPT ![a] = @ \cup {[rule |-> row[a], interface |-> i]}]
    /\ UNCHANGED <<database, step, job, todo, row, newRules, count, answer, call>>

Commit(a) ==
    /\ step[a] = "insert" /\ ifaces[a] = {} /\ todo[a] = {}
    /\ rules' = rules \cup newRules[a]
    /\ links' = links \cup newLinks[a]
    /\ Goto(a, "readback")
    /\ UNCHANGED <<nextId, job, transaction, count, answer, call>>

\* Mutant: the transaction is committed, not rolled back, when a statement fails.
InsertFailsCommitting(a) ==
    /\ step[a] \in {"begin", "insert"}
    /\ Reply(a, Refused)
    /\ rules' = rules \cup newRules[a]
    /\ links' = links \cup newLinks[a]
    /\ UNCHANGED <<nextId, job, transaction, count, call>>

\* A statement of insRecord fails: the exception makes ~TransactionLock roll back
\* (a failed begin leaves nothing to roll back) and postRecord answers 400.
InsertFails(a) ==
    /\ step[a] \in {"begin", "insert"}
    /\ Reply(a, Refused)
    /\ newRules' = [newRules EXCEPT ![a] = {}]
    /\ newLinks' = [newLinks EXCEPT ![a] = {}]
    /\ todo' = [todo EXCEPT ![a] = {}]
    /\ ifaces' = [ifaces EXCEPT ![a] = {}]
    /\ UNCHANGED <<database, job, row, count, call>>

\* Mutant: the count is that of the records found.
ReadBackAnswerCounted(a) ==
    LET data == {r \in Records : r.id \in {n.id : n \in newRules[a]}}
    IN IF data = {} THEN Refused
       ELSE [status |-> OK, count |-> Cardinality(data), data |-> data]

\* getRecordsByIds: the records found, but as count the number of ids.
ReadBackAnswer(a) ==
    LET ids  == {r.id : r \in newRules[a]}
        data == {r \in Records : r.id \in ids}
    IN IF data = {} THEN Refused
       ELSE [status |-> OK, count |-> Cardinality(ids), data |-> data]

ReadBack(a) ==
    /\ step[a] = "readback"
    /\ Reply(a, ReadBackAnswer(a))
    /\ UNCHANGED <<database, job, transaction, count, call>>

\* The rules are stored, but postRecord answers 400 all the same.
ReadBackFails(a) ==
    /\ step[a] = "readback"
    /\ Reply(a, Refused)
    /\ UNCHANGED <<database, job, transaction, count, call>>

\* delRecordById answers OK whether or not there was such a rule; the connection rows stay.
Delete(a) ==
    /\ step[a] = "delete"
    /\ rules' = {r \in rules : r.id # job[a].id}
    /\ Reply(a, [status |-> OK, count |-> 0, data |-> {}])
    /\ UNCHANGED <<links, nextId, job, transaction, count, call>>

Listing(n, rs) == IF rs = {} THEN Refused ELSE [status |-> OK, count |-> n, data |-> rs]

\* getRecordById.
Get(a) ==
    /\ step[a] = "get"
    /\ Reply(a, Listing(1, {r \in Records : r.id = job[a].id}))
    /\ UNCHANGED <<database, job, transaction, count, call>>

\* getRecordsByParams counts the records in one statement and reads them in another.
Count(a) ==
    /\ step[a] = "count"
    /\ count' = [count EXCEPT ![a] = Cardinality(rules)]
    /\ Goto(a, "rows")
    /\ UNCHANGED <<database, job, transaction, answer, call>>

Rows(a) ==
    /\ step[a] = "rows" /\ job[a].sort # "createdAt"
    /\ Reply(a, Listing(count[a], Records))
    /\ UNCHANGED <<database, job, transaction, count, call>>

\* fetch prepares the SELECT but cannot execute it: no row.
ReadFails(a) ==
    /\ step[a] \in {"get", "rows"} /\ (step[a] = "rows" => job[a].sort # "createdAt")
    /\ Reply(a, Refused)
    /\ UNCHANGED <<database, job, transaction, count, call>>
-----------------------------------------------------------------------------
\* The process ends and is started again.  The database rolls back what was open,
\* the workers' clients get no answer and the calls in progress fail.
Terminate ==
    LET Left(f, none) == [a \in AuthWorkers |-> IF step[a] = "done" THEN f[a] ELSE none]
    IN /\ step' = Left(step, "idle")
       /\ job' = Left(job, NoJob)
       /\ todo' = Left(todo, {})
       /\ row' = Left(row, 0)
       /\ ifaces' = Left(ifaces, {})
       /\ newRules' = Left(newRules, {})
       /\ newLinks' = Left(newLinks, {})
       /\ count' = Left(count, 0)
       /\ call' = [c \in Callers |-> IF call[c].at \in {"check", "token"}
                                       THEN FaultyReply(CurlError) ELSE call[c]]
       /\ UNCHANGED <<database, answer>>

\* An exception no handler catches reaches dispatch, which is noexcept: a failing
\* statement of DELETE or GET, the two ORDER BY clauses that sort_field=createdAt gives,
\* or a failing ROLLBACK in ~TransactionLock.
Uncaught(a) ==
    /\ step[a] \in {"insert", "delete", "get", "count", "rows"}
    /\ Terminate

\* The process is stopped from outside.
Killed ==
    /\ \/ \E a \in AuthWorkers : step[a] \notin {"idle", "done"}
       \/ \E c \in Callers : call[c].at \in {"check", "token"}
    /\ Terminate
-----------------------------------------------------------------------------
\* Mutant: the connection rows are not joined with their rule.
CheckRuleUnjoined(q) ==
    {p \in q.asked : \E r \in rules : \E l \in links :
        /\ r.service = q.service
        /\ r.consumer = q.consumer
        /\ r.provider = p[1]
        /\ l.interface = p[2]}

\* IntraCloudCheck::checkRule for the request q: the <<provider, interface>> pairs asked
\* for that a rule gives the consumer.
CheckRule(q) ==
    {p \in q.asked : \E r \in rules : \E l \in links :
        /\ l.rule = r.id
        /\ r.service = q.service
        /\ r.consumer = q.consumer
        /\ r.provider = p[1]
        /\ l.interface = p[2]}

\* The consumer's strings are pasted into the SELECT as escape() returns them: without
\* quotes it cannot be prepared.
CheckStatus(q) == IF q.auth = "string" /\ EscapeQuotes THEN OK ELSE BadRequest

Check(c) ==
    /\ call[c].at = "check" /\ call[c].body.auth # "absent"
    /\ LET q == call[c].body
       IN Answer(c, CheckStatus(q), IF CheckStatus(q) = OK THEN CheckRule(q) ELSE {})
    /\ UNCHANGED authVars

\* The SELECT cannot be prepared, or not be executed.
CheckFails(c) ==
    /\ call[c].at = "check" /\ call[c].body.auth # "absent"
    /\ \E status \in {OK, BadRequest} : call' = [call EXCEPT ![c] = FaultyReply(status)]
    /\ UNCHANGED authVars

\* Without authenticationInfo the parser compares find's result with the end of another
\* map and reads through it: refused, a text nobody has, or the end of the process.
CheckUndefined(c) ==
    /\ call[c].at = "check" /\ call[c].body.auth = "absent"
    /\ \/ /\ \E status \in {OK, BadRequest} : Answer(c, status, {})
          /\ UNCHANGED authVars
       \/ Terminate

\* Parsers::TokenRule: names must be JSON strings, the ports integers.
TokenRuleParses(q) == q.port = "number" /\ q.interfaces = "strings"

Token(c) ==
    /\ call[c].at = "token"
    /\ Answer(c, IF TokenRuleParses(call[c].body) THEN OK ELSE BadRequest, {})
    /\ UNCHANGED authVars
-----------------------------------------------------------------------------
Handle(a) == \/ Begin(a) \/ InsertRule(a) \/ InsertInterface(a) \/ Commit(a) \/ InsertFails(a)
             \/ ReadBack(a) \/ ReadBackFails(a) \/ Delete(a) \/ Get(a) \/ Count(a) \/ Rows(a)
             \/ ReadFails(a) \/ Uncaught(a)

Serve(c) == Check(c) \/ CheckFails(c) \/ CheckUndefined(c) \/ Token(c)

AuthNext == \/ \E a \in AuthWorkers : Handle(a) \/ \E q \in ManagementRequests : Receive(a, q)
            \/ \E c \in Callers : Serve(c)
            \/ Killed

\* Calls come and go by themselves; the rest changes by these steps only.
AuthSpec == AuthInit /\ [][AuthNext]_authVars
-----------------------------------------------------------------------------
(***************************************************************************)
(* Properties.                                                             *)
(***************************************************************************)

\* The tables, read through the join as every handler reads them, are a table of rules
\* that a POST of /mgmt/intracloud extends by all of its rules or by none, whatever the
\* other workers do, whichever statement fails and whenever the process ends
\* (insRecord and its TransactionLock), and that only a DELETE shrinks.
RT == INSTANCE RuleTable WITH table <- Records, Initial <- Join(StoredRules, StoredLinks)

ImplementsRuleTable == RT!Spec

\* A POST that is answered OK reports what it stored: the count is the number of rules
\* asked for, each record is complete, and a rule of the request that is missing from
\* the records is one that another worker has deleted since (postRecord reads the rules
\* back after the commit, getRecordsByIds takes the count from the ids).
PostReplyTrue ==
    \A a \in AuthWorkers :
        (step[a] = "done" /\ job[a].kind = "post" /\ answer[a].status = OK) =>
            LET q == job[a]
            IN /\ answer[a].count = Cardinality(q.providers \X q.services)
               /\ {<<r.provider, r.service>> : r \in newRules[a]} = q.providers \X q.services
               /\ \A d \in answer[a].data : /\ <<d.provider, d.service>> \in q.providers \X q.services
                                            /\ d.consumer = q.consumer
                                            /\ d.interfaces = q.interfaces
               /\ \A r \in newRules[a] : \/ \E d \in answer[a].data : d.id = r.id
                                         \/ r \notin rules
=============================================================================
