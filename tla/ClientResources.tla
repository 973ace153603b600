--------------------------- MODULE ClientResources ---------------------------
(***************************************************************************)
(* AsyncMediaClient over its transport and its ClientCredentials: what the *)
(* client opens (a channel or an httpx client to media, an httpx client to *)
(* Keycloak), when it opens it again, and what aclose() closes, while      *)
(* calls of the same loop are on their way.                                *)
(*                                                                         *)
(* A handle <<what, number>> is what the caller passed (1) or what was     *)
(* opened (2, 3 and so on); 0 is the Python None.                          *)
(* A call's answers are external; GrpcCalls counts its retries and tokens, *)
(* which are left open here.  Closing a handle ends what runs over it.     *)
(***************************************************************************)
EXTENDS ClientCredentials

CONSTANTS
    Closers,     \* the coroutines that call aclose(), more than once perhaps
    Clients,     \* how clients are built: the transport, and what is passed
    MaxAcloses   \* bound on the calls of aclose()

ASSUME ResourceConstants ==
    /\ Clients \subseteq [transport: {"http", "grpc"}, passed: SUBSET {"media", "keycloak"}]
    /\ MaxAcloses \in Nat

VARIABLES
    client,   \* how it was built: its transport, and what the caller passed
    refs,     \* the transport's _channel or _http, the credentials' _http
    owns,     \* _owns_channel, _owns_client
    stub,     \* _stubs: the channel of the cached stub
    open,     \* external: the handles not closed yet
    opened,   \* how many of each sort were opened
    calls,    \* Coroutines -> where its call is, and the handle it runs over
    closes,   \* Closers -> what its aclose() is closing, or "no"
    acloses,  \* how many there were
    past      \* ghost: whether they "overlap"ped or were "cancel"led, and
              \* whether the client was "used" since the last one began

handleVars == <<refs, open, opened>>
resourceVars == <<client, refs, owns, stub, open, opened, calls, closes, acloses, past>>
clientVars == <<vars, resourceVars>>

What == {"media", "keycloak"}

ResourcesTypeOK ==
    /\ TypeOK
    /\ client \in Clients
    /\ refs \in [What -> 0..MaxAcloses + 2] /\ opened \in [What -> 0..MaxAcloses + 1]
    /\ owns \in BOOLEAN
    /\ stub \in 0..MaxAcloses + 2
    /\ open \subseteq What \X (1..MaxAcloses + 2)
    /\ calls \in [Coroutines -> [pc: {"no", "token", "sent", "backoff"}, via: 0..MaxAcloses + 2]]
    /\ closes \in [Closers -> {"no"} \cup What]
    /\ acloses \in 0..MaxAcloses /\ past \subseteq {"overlap", "cancel", "used"}

\* An httpx client to media is there from the start, a channel is opened lazily.
ResourcesInit ==
    /\ Init
    /\ client \in Clients
    /\ refs = [what \in What |->
                  IF what \in client.passed THEN 1
                  ELSE IF what = "media" /\ client.transport = "http" THEN 2 ELSE 0]
    /\ opened = [what \in What |-> IF refs[what] = 2 THEN 1 ELSE 0]
    /\ open = {<<what, refs[what]>> : what \in {w \in What : refs[w] # 0}}
    /\ owns = ("media" \notin client.passed)
    /\ stub = 0
    /\ calls = [c \in Coroutines |-> [pc |-> "no", via |-> 0]]
    /\ closes = [a \in Closers |-> "no"]
    /\ acloses = 0
    /\ past = {"used"}

Ref(what) == IF refs[what] = 0 THEN opened[what] + 2 ELSE refs[what]

OpenIfNone(what) ==
    /\ refs' = [refs EXCEPT ![what] = Ref(what)]
    /\ open' = IF refs[what] = 0 THEN open \cup {<<what, Ref(what)>>} ELSE open
    /\ opened' = IF refs[what] = 0 THEN [opened EXCEPT ![what] = @ + 1] ELSE opened

At(c, pc, via) == calls' = [calls EXCEPT ![c] = [pc |-> pc, via |-> via]]

-----------------------------------------------------------------------------
(* Calls. *)

\* token() goes on; when it comes to _fetch, over the client to Keycloak.
FetchOver(c) ==
    /\ IF asking'[c].stage = "fetching"
         THEN /\ OpenIfNone("keycloak")
              /\ At(c, "token", Ref("keycloak"))
              /\ past' = past \cup {"used"}
         ELSE At(c, "token", 0) /\ UNCHANGED <<handleVars, past>>
    /\ UNCHANGED <<client, acloses, owns, stub, closes>>

\* A call starts, or starts over after its backoff.
Call(c) == calls[c].pc \in {"no", "backoff"} /\ Token(c) /\ FetchOver(c)

\* It is the call's turn to look at the token.
Turn(c) == Enter(c) /\ FetchOver(c)

\* External: Keycloak answers, unless the client to it was closed.  Bound: the
\* last token is for a client that was not.
Answered(c) ==
    /\ acloses > 0 => Len(expiries) < MaxTokens - 1
    /\ <<"keycloak", calls[c].via>> \in open
    /\ Issue(c)
    /\ UNCHANGED resourceVars

TokenEnds(c) ==
    /\ Fetched(c) \/ FetchFails(c)
    /\ UNCHANGED resourceVars

GivesUp(c) == Cancelled(c) /\ UNCHANGED resourceVars

\* token() raised.
TokenRaised(c) ==
    /\ asking[c].stage = "failed"
    /\ Leave(c)
    /\ At(c, "no", 0)
    /\ UNCHANGED <<client, acloses, handleVars, owns, stub, closes, past>>

\* Faulty variant: a channel opened again is not the transport's own.
OpenBorrowed ==
    /\ OpenIfNone("media")
    /\ UNCHANGED owns

\* _channel_or_open
ChannelOrOpen ==
    /\ OpenIfNone("media")
    /\ owns' = (owns \/ refs["media"] = 0)

\* The request goes out: over the cached stub's channel, or a new stub's
\* (_callable); over HTTP over the one client, closed or not.
Attempt(c) ==
    /\ asking[c].stage = "has"
    /\ Leave(c)
    /\ IF stub = 0 /\ client.transport = "grpc"
         THEN /\ ChannelOrOpen
              /\ stub' = Ref("media")
              /\ At(c, "sent", Ref("media"))
         ELSE /\ At(c, "sent", IF stub = 0 THEN refs["media"] ELSE stub)
              /\ UNCHANGED <<handleVars, owns, stub>>
    /\ past' = past \cup {"used"}
    /\ UNCHANGED <<client, acloses, closes>>

\* The call returns or raises, or is cancelled in its backoff.
Ends(c) ==
    /\ calls[c].pc \in {"sent", "backoff"}
    /\ At(c, "no", 0)
    /\ UNCHANGED <<vars, client, acloses, handleVars, owns, stub, closes, past>>

OverChannel(c) ==
    /\ calls[c].pc = "sent" /\ client.transport = "grpc"
    /\ <<"media", calls[c].via>> \in open

\* UNAVAILABLE: GrpcTransport sleeps before it tries again.
BacksOff(c) ==
    /\ OverChannel(c)
    /\ At(c, "backoff", 0)
    /\ UNCHANGED <<vars, client, acloses, handleVars, owns, stub, closes, past>>

\* UNAUTHENTICATED: the token is dropped and the next attempt begins at once.
Rejected(c) == OverChannel(c) /\ Renew(c) /\ FetchOver(c)

-----------------------------------------------------------------------------
(* AsyncMediaClient.aclose: the transport's, then the credentials'. *)

\* Faulty variant: the credentials' client is left open.
CloseNothingMore(a, left) ==
    /\ open' = left
    /\ closes' = [closes EXCEPT ![a] = "no"]

\* ClientCredentials.aclose, up to its await, with "left" open before it.
CloseCredentials(a, left) ==
    IF refs["keycloak"] # 0
      THEN /\ open' = left \ {<<"keycloak", refs["keycloak"]>>}
           /\ closes' = [closes EXCEPT ![a] = "keycloak"]
      ELSE /\ open' = left
           /\ closes' = [closes EXCEPT ![a] = "no"]

\* Faulty variant: the stubs are kept.
DropChannelOnly ==
    /\ refs' = [refs EXCEPT !["media"] = IF client.transport = "grpc" THEN 0 ELSE @]
    /\ UNCHANGED stub

\* GrpcTransport forgets its channel and its stubs, HttpTransport nothing.
DropChannel ==
    /\ refs' = [refs EXCEPT !["media"] = IF client.transport = "grpc" THEN 0 ELSE @]
    /\ stub' = 0

\* Faulty variant: whatever the transport uses is closed.
ClosesAny == refs["media"] # 0
Closes == owns /\ refs["media"] # 0

AtRest == \A a \in Closers : closes[a] = "no"

\* Bound: no time passes before or after an aclose(), so that only invalidate()
\* ends a token.
Closable == acloses < MaxAcloses /\ clock = 0

\* aclose() up to its first await.
Aclose(a) ==
    /\ closes[a] = "no" /\ Closable
    /\ acloses' = acloses + 1
    /\ IF Closes
         THEN /\ open' = open \ {<<"media", refs["media"]>>}
              /\ closes' = [closes EXCEPT ![a] = "media"]
              /\ UNCHANGED <<refs, stub>>
         ELSE DropChannel /\ CloseCredentials(a, open)
    /\ past' = (past \ {"used"}) \cup (IF AtRest THEN {} ELSE {"overlap"})
    /\ UNCHANGED <<vars, client, owns, opened, calls>>

\* The channel or client to media is closed.
MediaClosed(a) ==
    /\ closes[a] = "media"
    /\ DropChannel
    /\ CloseCredentials(a, open)
    /\ UNCHANGED <<vars, client, acloses, owns, opened, calls, past>>

\* The client to Keycloak is closed.
KeycloakClosed(a) ==
    /\ closes[a] = "keycloak"
    /\ refs' = [refs EXCEPT !["keycloak"] = 0]
    /\ closes' = [closes EXCEPT ![a] = "no"]
    /\ UNCHANGED <<vars, client, acloses, owns, stub, open, opened, calls, past>>

\* aclose() is cancelled at its await, or what it closes raises.
CloseCancelled(a) ==
    /\ closes[a] # "no"
    /\ closes' = [closes EXCEPT ![a] = "no"]
    /\ past' = past \cup {"cancel"}
    /\ UNCHANGED <<vars, client, acloses, handleVars, owns, stub, calls>>

-----------------------------------------------------------------------------

\* Bound: time passes for a client that is not closed, and opens all it uses.
TimePasses ==
    /\ acloses = 0 /\ client.passed = {} /\ client.transport = "grpc"
    /\ Tick
    /\ UNCHANGED resourceVars

Drops == Invalidate /\ UNCHANGED <<clock, resourceVars>>

ResourcesNext ==
    \/ \E c \in Coroutines :
         \/ Call(c) \/ Turn(c) \/ Answered(c) \/ TokenEnds(c) \/ GivesUp(c)
         \/ TokenRaised(c) \/ Attempt(c) \/ Ends(c) \/ BacksOff(c) \/ Rejected(c)
    \/ \E a \in Closers : Aclose(a) \/ MediaClosed(a) \/ KeycloakClosed(a) \/ CloseCancelled(a)
    \/ Drops \/ TimePasses

ResourcesSpec == ResourcesInit /\ [][ResourcesNext]_clientVars

\* The event loop runs every coroutine that is ready, and every token request
\* is answered or times out.
FairResources ==
    ResourcesSpec /\ \A c \in Coroutines :
        WF_clientVars(Turn(c) \/ TokenEnds(c)) /\ WF_clientVars(TokenRaised(c) \/ Attempt(c))

-----------------------------------------------------------------------------
(* Correctness. *)

Own == {h \in open : h[2] # 1}

(* README.md:308 and :329: aclose() closes the client's connections and      *)
(* never the channel or httpx client that was passed in.  Whatever the       *)
(* client opens again, for a call or a retry that comes after, the next      *)
(* aclose() closes: it is not lost.  Unless two acloses overlap: the second  *)
(* to end forgets what was opened after the first.                           *)
HandlesReleased ==
    /\ "media" \in client.passed => <<"media", 1>> \in open
    /\ "overlap" \notin past =>
          /\ \A h \in Own : refs[h[1]] = h[2]
          /\ AtRest /\ past \cap {"used", "cancel"} = {} => Own = {}

(* After aclose() has returned, calls run over a channel that is open: no    *)
(* stub of a closed channel is left to them.  An aclose() that was cancelled *)
(* leaves the closed channel in place.                                       *)
AttemptsOverOpenChannel ==
    [][\A c \in Coroutines :
          /\ calls[c].pc # "sent" /\ calls'[c].pc = "sent"
          /\ client.transport = "grpc" /\ AtRest /\ "cancel" \notin past
          => <<"media", calls'[c].via>> \in open']_clientVars
=============================================================================
