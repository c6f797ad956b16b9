------------------------------- MODULE WebGet -------------------------------
(***************************************************************************)
(* The HTTP client with which one core system calls another                *)
(* (http/wget/WG_Curl.cpp).  A call blocks its caller: each caller has at  *)
(* most one.  call[c].at names the service that is to answer, or is        *)
(* "reply" when the result has arrived.  A result is the status and the    *)
(* body of the response, or a negative code when curl could not perform    *)
(* the transfer; the client neither retries nor sets a time limit.         *)
(***************************************************************************)
EXTENDS Integers

CONSTANT Callers    \* threads that make calls

VARIABLE call

OK           == 200
BadRequest   == 400
CurlError    == -7     \* send returns -rc, whatever went wrong in perform

NoCall == [at |-> "none", status |-> 0, body |-> {}, faulty |-> FALSE]

WebGetInit == call = [c \in Callers |-> NoCall]

\* The client sends a request to a service.
Send(c, service, body) ==
    call' = [call EXCEPT ![c] = [at |-> service, status |-> 0, body |-> body, faulty |-> FALSE]]

\* The service answers.
Answer(c, status, body) ==
    call' = [call EXCEPT ![c] = [at |-> "reply", status |-> status, body |-> body, faulty |-> FALSE]]

\* What a caller gets when a fault, not the services' code, decides the result.
FaultyReply(status) == [at |-> "reply", status |-> status, body |-> {}, faulty |-> TRUE]

\* The request or the answer is lost: the service is down or the connection breaks.
Lose(c) == /\ call[c].at # "none"
           /\ ~call[c].faulty
           /\ call' = [call EXCEPT ![c] = FaultyReply(CurlError)]

\* The caller goes on with the result.
Return(c) == call' = [call EXCEPT ![c] = NoCall]

Replied(c) == call[c].at = "reply"
=============================================================================
