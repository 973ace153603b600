------------------------------ MODULE GrpcCalls ------------------------------
(***************************************************************************)
(* pkg_media._transport.grpc_transport.GrpcTransport._call: unary calls    *)
(* with retries, one token renewal and an idempotency key, over the shared *)
(* ClientCredentials.                                                      *)
(*                                                                         *)
(* The calls are coroutines of one loop.  The network and the media server *)
(* are external: a request may be processed late, even after the client    *)
(* gave up on it, or never; an answer may be lost; tokens may be revoked   *)
(* before they expire; the server keeps one record per idempotency key.    *)
(***************************************************************************)
EXTENDS ClientCredentials, FiniteSets

CONSTANTS
    Mutating,        \* the calls of MUTATING_METHODS
    Retries,         \* retries
    MaxRevoked       \* bound on the tokens revoked

ASSUME CallConstants ==
    /\ Mutating \subseteq Coroutines
    /\ Retries \in Nat
    /\ MaxRevoked \in Nat

VARIABLES
    call,      \* Coroutines -> the state of its _call
    requests,  \* external: requests sent and not yet processed
    revoked,   \* external: tokens revoked before their expiry
    records,   \* external: the idempotency keys the server has a record of
    effects    \* external: times the server carried out each mutating call

callVars == <<call, requests, revoked, records, effects>>
allVars == <<vars, callVars>>

Answers == {"none", "OK", "UNAUTHENTICATED", "UNAVAILABLE", "DEADLINE_EXCEEDED", "INTERNAL"}
Outcomes == {"ok", "error", "unauthenticated"}

\* "sent" counts the requests made so far; "rejected" are the tokens the
\* server refused this call.
NewCall == [pc |-> "new", attempt |-> 0, renewed |-> FALSE, sent |-> 0,
            tok |-> NoToken, answer |-> "none", rejected |-> {}]

CallsTypeOK ==
    /\ TypeOK
    /\ call \in [Coroutines -> [pc: {"new", "token", "sent", "backoff"} \cup Outcomes,
                           attempt: 0..Retries, renewed: BOOLEAN, sent: Nat,
                           tok: 1..MaxTokens \cup {NoToken}, answer: Answers,
                           rejected: SUBSET (1..MaxTokens)]]
    /\ \A m \in requests : m.call \in Coroutines /\ m.tok \in 1..MaxTokens
    /\ revoked \subseteq 1..MaxTokens
    /\ effects \in [Coroutines -> Nat]

CallsInit ==
    /\ Init
    /\ call = [c \in Coroutines |-> NewCall]
    /\ requests = {}
    /\ revoked = {}
    /\ records = {}
    /\ effects = [c \in Coroutines |-> 0]

-----------------------------------------------------------------------------
(* The client. *)

\* The server's record of a call: one uuid for all of its attempts.
KeyPerAttempt(c, n) == <<c, n>>
Key(c, n) == <<c, 0>>

\* The loop starts over: it asks for a token.
AskToken(c) ==
    /\ call[c].pc \in {"new", "backoff"}
    /\ Token(c)
    /\ call' = [call EXCEPT ![c].pc = "token"]
    /\ UNCHANGED <<requests, revoked, records, effects>>

\* token() is running in this call or another: its own steps.
TokenStep(c) ==
    /\ Enter(c) \/ Issue(c) \/ Fetched(c) \/ FetchFails(c) \/ Cancelled(c)
    /\ UNCHANGED <<call, requests, revoked, records, effects>>

\* token() raised: that is not an RpcError, so the call raises, too.
TokenFailed(c) ==
    /\ call[c].pc = "token" /\ asking[c].stage = "failed"
    /\ Leave(c)
    /\ call' = [call EXCEPT ![c].pc = "error"]
    /\ UNCHANGED <<requests, revoked, records, effects>>

\* token() returned: the request goes out with it and the call's key.
Send(c) ==
    /\ call[c].pc = "token" /\ asking[c].stage = "has"
    /\ Leave(c)
    /\ call' = [call EXCEPT ![c].pc = "sent", ![c].tok = asking[c].tok,
                            ![c].sent = @ + 1, ![c].answer = "none"]
    /\ requests' = requests \cup
           {[call |-> c, n |-> call[c].sent + 1, key |-> Key(c, call[c].sent + 1),
             tok |-> asking[c].tok]}
    /\ UNCHANGED <<revoked, records, effects>>

Succeed(c) ==
    /\ call[c].pc = "sent" /\ call[c].answer = "OK"
    /\ call' = [call EXCEPT ![c].pc = "ok"]
    /\ UNCHANGED <<vars, requests, revoked, records, effects>>

Renewing(c) ==
    [call EXCEPT ![c].pc = "token", ![c].renewed = TRUE,
                 ![c].rejected = @ \cup {call[c].tok}]

\* Faulty variant: the cached token is kept.
RenewKeeping(c) ==
    /\ call[c].pc = "sent" /\ call[c].answer = "UNAUTHENTICATED" /\ ~call[c].renewed
    /\ call' = Renewing(c)
    /\ Token(c)
    /\ UNCHANGED <<requests, revoked, records, effects>>

\* UNAUTHENTICATED for the first time: the cached token is dropped and the loop
\* starts over at once.
RenewOnce(c) ==
    /\ call[c].pc = "sent" /\ call[c].answer = "UNAUTHENTICATED" /\ ~call[c].renewed
    /\ call' = Renewing(c)
    /\ Renew(c)
    /\ UNCHANGED <<requests, revoked, records, effects>>

\* Every method is mutating (and keyed) or read-only: UNAVAILABLE is retried
\* after the backoff, as long as retries are left.
Retry(c) ==
    /\ call[c].pc = "sent" /\ call[c].answer = "UNAVAILABLE"
    /\ call[c].attempt < Retries
    /\ call' = [call EXCEPT ![c].pc = "backoff", ![c].attempt = @ + 1]
    /\ UNCHANGED <<vars, requests, revoked, records, effects>>

\* Any other failure is raised.
Raise(c) ==
    /\ call[c].pc = "sent"
    /\ \/ call[c].answer \in {"DEADLINE_EXCEEDED", "INTERNAL"}
       \/ call[c].answer = "UNAVAILABLE" /\ call[c].attempt = Retries
       \/ call[c].answer = "UNAUTHENTICATED" /\ call[c].renewed
    /\ call' = [call EXCEPT
           ![c].pc = IF call[c].answer = "UNAUTHENTICATED" THEN "unauthenticated"
                                                           ELSE "error",
           ![c].rejected = IF call[c].answer = "UNAUTHENTICATED"
                             THEN @ \cup {call[c].tok} ELSE @]
    /\ UNCHANGED <<vars, requests, revoked, records, effects>>

\* The call is cancelled while it waits for the answer or for its next attempt.
Abandon(c) ==
    /\ call[c].pc \in {"sent", "backoff"}
    /\ call' = [call EXCEPT ![c].pc = "error"]
    /\ UNCHANGED <<vars, requests, revoked, records, effects>>

-----------------------------------------------------------------------------
(* The network and the media server. *)

Accepts(tok) == tok \notin revoked /\ clock < expiries[tok]

\* The client still waits for the answer to request m.
Awaited(m) == call[m.call].pc = "sent" /\ call[m.call].sent = m.n
                 /\ call[m.call].answer = "none"

Answer(m, a) ==
    call' = IF Awaited(m) THEN [call EXCEPT ![m.call].answer = a] ELSE call

\* External: the server processes a request: it refuses the token, fails
\* before doing anything, or carries the call out unless it has a record of
\* its key.
Process(m) ==
    /\ requests' = requests \ {m}
    /\ \/ ~Accepts(m.tok) /\ Answer(m, "UNAUTHENTICATED") /\ UNCHANGED <<records, effects>>
       \/ Accepts(m.tok) /\ Answer(m, "INTERNAL") /\ UNCHANGED <<records, effects>>
       \/ /\ Accepts(m.tok)
          /\ Answer(m, "OK")
          /\ records' = records \cup {m.key}
          /\ effects' = IF m.call \in Mutating /\ m.key \notin records
                          THEN [effects EXCEPT ![m.call] = @ + 1] ELSE effects
    /\ UNCHANGED <<vars, revoked>>

\* External: the connection breaks or the deadline passes; the request may
\* still be processed, or have been.
Break(c) ==
    /\ call[c].pc = "sent" /\ call[c].answer = "none"
    /\ \E a \in {"UNAVAILABLE", "DEADLINE_EXCEEDED"} :
           call' = [call EXCEPT ![c].answer = a]
    /\ UNCHANGED <<vars, requests, revoked, records, effects>>

\* External: an issued token is revoked.
Revoke(tok) ==
    /\ tok \in 1..Len(expiries) \ revoked
    /\ Cardinality(revoked) < MaxRevoked
    /\ revoked' = revoked \cup {tok}
    /\ UNCHANGED <<vars, call, requests, records, effects>>

Passes ==
    /\ Tick
    /\ UNCHANGED <<call, requests, revoked, records, effects>>

CallsNext ==
    \/ \E c \in Coroutines :
         \/ AskToken(c) \/ TokenStep(c) \/ TokenFailed(c)
         \/ Send(c) \/ Succeed(c) \/ RenewOnce(c) \/ Retry(c) \/ Raise(c)
         \/ Abandon(c) \/ Break(c)
    \/ \E m \in requests : Process(m)
    \/ \E tok \in 1..MaxTokens : Revoke(tok)
    \/ Passes

CallsSpec == CallsInit /\ [][CallsNext]_allVars

-----------------------------------------------------------------------------
(* Correctness. *)

(* However often a mutating call is retried or renewed, and however late an  *)
(* abandoned attempt is processed, the server carries it out at most once;   *)
(* and once it has returned, exactly once.                                   *)
CarriedOutOnce ==
    \A c \in Mutating :
        /\ effects[c] <= 1
        /\ call[c].pc = "ok" => effects[c] = 1

(* A call never repeats a request with a token that the server refused it,   *)
(* whatever the other calls did to the shared credentials meanwhile: it only *)
(* fails as unauthenticated after two different tokens were refused.         *)
RejectedTokenNotReused ==
    \A c \in Coroutines :
        /\ call[c].pc = "sent" => call[c].tok \notin call[c].rejected
        /\ call[c].pc = "unauthenticated" => Cardinality(call[c].rejected) = 2
=============================================================================
