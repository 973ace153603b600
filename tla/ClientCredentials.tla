-------------------------- MODULE ClientCredentials --------------------------
(***************************************************************************)
(* pkg_media.credentials.ClientCredentials: the cached client-credentials  *)
(* token, shared by the coroutines of one event loop.                      *)
(*                                                                         *)
(* Coroutines run one at a time and give way only at an await: on the lock *)
(* and on the request to Keycloak.  Keycloak and its tokens are external.  *)
(***************************************************************************)
EXTENDS Integers, Sequences, SequencesExt

CONSTANTS
    Coroutines,
    NoToken,         \* the Python None
    Lifetime,        \* expires_in of the tokens Keycloak issues, in ticks
    RefreshMargin,   \* refresh_margin, in ticks
    MaxLatency,      \* ticks a token request takes at most
    MaxTokens,       \* bound on the tokens issued
    MaxTime          \* bound on the clock

ASSUME CredentialsConstants ==
    /\ NoToken \notin Nat
    /\ Lifetime \in Nat \ {0} /\ Lifetime % 2 = 0
    /\ RefreshMargin \in Nat
    /\ MaxLatency \in Nat
    /\ MaxTokens \in Nat
    /\ MaxTime \in Nat

VARIABLES
    token,      \* _token
    refreshAt,  \* _refresh_at
    lock,       \* _lock: its holder first, then those waiting, in order
    asking,     \* Coroutines -> where it is in token()
    expiries,   \* external: when each token issued so far expires
    clock

credentialVars == <<token, refreshAt, lock, asking, expiries>>
vars == <<token, refreshAt, lock, asking, expiries, clock>>

Tokens == 1..MaxTokens

\* "issued": Keycloak has answered and the answer is on its way; "has" and
\* "failed": token() has returned "tok", or raised.
Stages == {"no", "queued", "fetching", "issued", "has", "failed"}

AskingAt(stage, since, tok) == [stage |-> stage, since |-> since, tok |-> tok]
NotAsking == AskingAt("no", 0, NoToken)

TypeOK ==
    /\ token \in Tokens \cup {NoToken}
    /\ refreshAt \in Int
    /\ lock \in Seq(Coroutines)
    /\ asking \in [Coroutines ->
                      [stage: Stages, since: Nat, tok: Tokens \cup {NoToken}]]
    /\ expiries \in Seq(Nat) /\ Len(expiries) <= MaxTokens
    /\ clock \in Nat

Init ==
    /\ token = NoToken
    /\ refreshAt = 0
    /\ lock = <<>>
    /\ asking = [c \in Coroutines |-> NotAsking]
    /\ expiries = <<>>
    /\ clock = 0

-----------------------------------------------------------------------------

Due == token = NoToken \/ clock >= refreshAt

\* min(refresh_margin, lifetime / 2)
Margin == IF RefreshMargin < Lifetime \div 2 THEN RefreshMargin ELSE Lifetime \div 2

Returns(c) == [asking EXCEPT ![c] = AskingAt("has", 0, token)]
Fetching(c) == [asking EXCEPT ![c] = AskingAt("fetching", clock, NoToken)]

\* token(): the cached token, or the lock, taken at once when nobody has it.
Token(c) ==
    /\ asking[c].stage = "no"
    /\ IF ~Due
         THEN asking' = Returns(c) /\ UNCHANGED lock
         ELSE /\ lock' = Append(lock, c)
              /\ asking' = IF lock = <<>>
                             THEN Fetching(c)
                             ELSE [asking EXCEPT ![c].stage = "queued"]
    /\ UNCHANGED <<token, refreshAt, expiries, clock>>

\* Faulty variant: every waiter fetches, without looking again.
EnterUnchecked(c) ==
    /\ asking[c].stage = "queued" /\ Head(lock) = c
    /\ asking' = Fetching(c)
    /\ UNCHANGED <<lock, token, refreshAt, expiries, clock>>

\* A waiter has the lock: it fetches unless an earlier holder's fetch serves it.
Enter(c) ==
    /\ asking[c].stage = "queued" /\ Head(lock) = c
    /\ IF Due
         THEN asking' = Fetching(c) /\ UNCHANGED lock
         ELSE asking' = Returns(c) /\ lock' = Tail(lock)
    /\ UNCHANGED <<token, refreshAt, expiries, clock>>

\* External: Keycloak answers with a new token.
Issue(c) ==
    /\ asking[c].stage = "fetching" /\ Len(expiries) < MaxTokens
    /\ expiries' = Append(expiries, clock + Lifetime)
    /\ asking' = [asking EXCEPT
           ![c] = [@ EXCEPT !.stage = "issued", !.tok = Len(expiries) + 1]]
    /\ UNCHANGED <<token, refreshAt, lock, clock>>

\* Faulty variants: the lifetime counted from the answer, with no margin kept;
\* the lock kept by a fetch that failed.
FetchedLate(c) ==
    /\ asking[c].stage = "issued"
    /\ token' = asking[c].tok
    /\ refreshAt' = clock + Lifetime
    /\ asking' = [asking EXCEPT ![c].stage = "has"]
    /\ lock' = Tail(lock)
    /\ UNCHANGED <<expiries, clock>>

FetchFailsHolding(c) ==
    /\ asking[c].stage \in {"fetching", "issued"}
    /\ asking' = [asking EXCEPT ![c] = AskingAt("failed", 0, NoToken)]
    /\ UNCHANGED <<token, refreshAt, lock, expiries, clock>>

\* The rest of _fetch: the token is cached and returned, the lock released.
Fetched(c) ==
    /\ asking[c].stage = "issued"
    /\ token' = asking[c].tok
    /\ refreshAt' = asking[c].since + Lifetime - Margin
    /\ asking' = [asking EXCEPT ![c].stage = "has"]
    /\ lock' = Tail(lock)
    /\ UNCHANGED <<expiries, clock>>

\* The request fails, is refused, or its coroutine is cancelled: token()
\* raises and the cached token, if any, stays.
FetchFails(c) ==
    /\ asking[c].stage \in {"fetching", "issued"}
    /\ asking' = [asking EXCEPT ![c] = AskingAt("failed", 0, NoToken)]
    /\ lock' = Tail(lock)
    /\ UNCHANGED <<token, refreshAt, expiries, clock>>

\* A coroutine waiting for the lock is cancelled, and leaves the queue.
Cancelled(c) ==
    /\ asking[c].stage = "queued"
    /\ asking' = [asking EXCEPT ![c].stage = "failed"]
    /\ \E i \in DOMAIN lock : lock[i] = c /\ lock' = RemoveAt(lock, i)
    /\ UNCHANGED <<token, refreshAt, expiries, clock>>

\* invalidate()
Invalidated == token' = NoToken /\ refreshAt' = 0

Invalidate ==
    /\ Invalidated
    /\ UNCHANGED <<lock, asking, expiries, clock>>

\* invalidate() and at once token(): the loop's way of renewing a rejected
\* token, with no await in between.
Renew(c) ==
    /\ asking[c].stage = "no"
    /\ Invalidated
    /\ lock' = Append(lock, c)
    /\ asking' = IF lock = <<>> THEN Fetching(c)
                               ELSE [asking EXCEPT ![c].stage = "queued"]
    /\ UNCHANGED <<expiries, clock>>

\* The caller of token() goes on.
Leave(c) ==
    /\ asking[c].stage \in {"has", "failed"}
    /\ asking' = [asking EXCEPT ![c] = NotAsking]
    /\ UNCHANGED <<token, refreshAt, lock, expiries, clock>>

\* A token request takes at most MaxLatency; a returned token is judged at
\* that moment.
Tick ==
    /\ clock < MaxTime
    /\ \A c \in Coroutines :
          /\ asking[c].stage \in {"fetching", "issued"} => clock - asking[c].since < MaxLatency
          /\ asking[c].stage # "has"
    /\ clock' = clock + 1
    /\ UNCHANGED credentialVars

Next ==
    \/ \E c \in Coroutines :
         \/ Token(c) \/ Enter(c) \/ Issue(c) \/ Fetched(c) \/ FetchFails(c)
         \/ Cancelled(c) \/ Leave(c) \/ Renew(c)
    \/ Invalidate
    \/ Tick

Spec == Init /\ [][Next]_vars

-----------------------------------------------------------------------------
(* Correctness. *)

(* Concurrent callers share one fetch: only the lock's holder fetches, and   *)
(* only when no usable token is cached, however many callers queued up while *)
(* an earlier fetch was running.                                             *)
FetchOnlyWhenDue ==
    \A c \in Coroutines :
        asking[c].stage \in {"fetching", "issued"} =>
            Head(lock) = c /\ (token = NoToken \/ refreshAt <= asking[c].since)

(* A caller gets a token with at least the margin left (the margin is at     *)
(* most half of its life), from the cache, from another caller's fetch or    *)
(* from its own: holds when a fetch takes no more than half of the lifetime. *)
TokenLasts ==
    \A c \in Coroutines :
        asking[c].stage = "has" => expiries[asking[c].tok] - clock >= Margin

(* Every caller gets a token or an error: no order of fetches, failures and  *)
(* invalidations leaves one waiting for the lock.                            *)
AskersEnd ==
    \A c \in Coroutines : asking[c].stage # "no" ~> asking[c].stage = "no"
=============================================================================
