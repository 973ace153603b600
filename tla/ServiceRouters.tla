--------------------------- MODULE ServiceRouters ---------------------------
(***************************************************************************)
(* pkg_media.integrations.fastapi: the media router and the grant router   *)
(* of a service, which answer its browser users from the app's own rules   *)
(* and the media library, called with the service's credentials.           *)
(*                                                                         *)
(* Requests share nothing but the library's grants, so one is in progress  *)
(* at a time.  The hooks (authorize, can_access, get_subject) are the      *)
(* app's, the library and the browsers are external.                       *)
(***************************************************************************)
EXTENDS FiniteSets, MediaGrants, RemoteErrors

CONSTANTS
    Users,
    Permissions,    \* Users -> the permissions the app gave them
    Profiles,       \* the app's profiles: name -> profile
    GrantRequests,  \* the bodies of POST {prefix}/grants
    Assets,
    Pages,          \* the lists of POST {prefix}/resolve, as sets of assets
    Transports,     \* the transports a client may have been built with
    Files,          \* <<type, size>> of the uploads browsers try
    MaxGrants       \* bound on the grants issued

\* What a call can fail with: a status of the library, a connection that fails
\* or loses the answer, an answer that makes no sense, an argument that keeps
\* it from being sent, an exception of the app's hook.
Causes == DOMAIN RpcErrors \cup {"UNREACHED", "GARBLED", "UNSENT", "HOOK"}

ASSUME RouterConstants ==
    /\ \A n \in DOMAIN Profiles : IsProfile(Profiles[n])
    /\ \A n \in DOMAIN Profiles : Profiles[n].name = n
    /\ DOMAIN Permissions = Users
    /\ \A r \in GrantRequests : r.scopes # {} /\ r.profile \subseteq STRING
    /\ \A r \in GrantRequests : \A m, n \in r.profile : m = n
    /\ Pages \subseteq (SUBSET Assets) \ {{}}
    /\ Transports \subseteq {"http", "grpc"}
    /\ \A f \in Files : f[1] \in DOMAIN WildcardOf /\ f[2] \subseteq Nat
    /\ None \notin Users \cup Assets \cup Causes

VARIABLES
    router,     \* how the routers were built: the client's transport, thumbnails,
                \* and whether get_subject was given
    request,    \* the request in progress, or the last one
    reply,      \* its response: the status, and what it carries
    issued,     \* external: the grants the library has signed
    upload      \* external: the last upload it took with one, and the grant

routerVars == <<router, request, reply, issued, upload>>

\* One item, and what the library answers for one asset: "bare" is ok without
\* the asset, "missing" no answer.  thumbnail: it has the public thumbnail's
\* link, within the asset or beside it.
Statuses == {"ok", "bare", "not_found", "forbidden", "error"}
Items == [status: Statuses, thumbnail: BOOLEAN]
Unanswered == [status |-> "missing", thumbnail |-> FALSE]
Results ==
    {i \in Items : i.thumbnail => i.status # "not_found"} \cup {Unanswered}
HttpStatuses == {400, 401, 403, 404, 409, 410, 413, 422, 429, 500, 502, 503}

\* The statuses the channel itself ends calls with.
RpcCodes == {"UNAVAILABLE", "DEADLINE_EXCEEDED", "UNIMPLEMENTED", "INTERNAL",
             "RESOURCE_EXHAUSTED", "UNKNOWN"}

NoBody == [scopes |-> {}, profile |-> {}, assets |-> {}, sessions |-> {}]

\* failure: the status the library or the way to it failed with.  Ghosts: yes,
\* that authorize accepted the request; said, the library's answer for each id.
NoRequest == [pc |-> "none", kind |-> "none", user |-> None, body |-> NoBody,
              ids |-> {}, allowed |-> {}, failure |-> None,
              yes |-> FALSE, said |-> <<>>]
NoReply == [status |-> 0, grant |-> {}, items |-> <<>>]

RouterOptions == [transport: Transports, thumbnails: BOOLEAN, subject: BOOLEAN]

RouterTypeOK ==
    /\ router \in RouterOptions
    /\ request.pc \in {"none", "asked", "sent", "answered"}
    /\ request.kind \in {"none", "grant", "asset", "resolve"}
    /\ request.user \in Users \cup {None}
    /\ request.ids \subseteq Assets /\ request.allowed \subseteq request.ids
    /\ reply.status \in {0, 200, 201, 403, 404, 422, 500, 502}
    /\ \A a \in DOMAIN reply.items : reply.items[a] \in Items

RouterInit ==
    /\ router \in RouterOptions
    /\ request = NoRequest
    /\ reply = NoReply
    /\ issued = {}
    /\ upload = <<>>

Respond(status, grant, items) ==
    reply' = [status |-> status, grant |-> grant, items |-> items]
Answered == request' = [request EXCEPT !.pc = "answered"]

\* Faulty variant: every exception of the client is taken for the request's fault.
FailedAlike(class, passthrough, failure) ==
    /\ reply' = [NoReply EXCEPT !.status =
           IF passthrough # {} /\ IsA(class, "MediaLibraryError") THEN 422
           ELSE IF IsA(class, "MediaLibraryError") THEN 502 ELSE 500]
    /\ request' = [request EXCEPT !.pc = "answered", !.failure = failure]

\* The end of a request whose call raised: _media_library_errors turns the
\* client's own exceptions into 502, unless they are passed through; an
\* exception nothing catches answers 500.
Failed(class, passthrough, failure) ==
    /\ reply' = [NoReply EXCEPT !.status =
           IF \E p \in passthrough : IsA(class, p) THEN 422
           ELSE IF IsA(class, "MediaLibraryError") THEN 502 ELSE 500]
    /\ request' = [request EXCEPT !.pc = "answered", !.failure = failure]

-----------------------------------------------------------------------------
(* How a call fails: the failure's status, and the exception. *)

\* The library refuses the call with a reason the service declares; over HTTP
\* with a status that stands for the same gRPC status.
Refusal(service, reason) ==
    LET code == Refusals[service][reason] IN
    IF router.transport = "grpc"
      THEN {<<code, ErrorFromRpc(RefusalStatus(service, reason)).class>>}
      ELSE {<<code, RaiseForStatus(h, reason).class>> :
               h \in {s \in HttpStatuses : GrpcStatusForHttp(s) = code}}

\* The library is not reached, or its answer is lost: a bare status over gRPC,
\* an exception of httpx over HTTP.
Unreached ==
    IF router.transport = "grpc"
      THEN {<<"UNREACHED", ErrorFromRpc(BareStatus(code)).class>> : code \in RpcCodes}
      ELSE {<<"UNREACHED", "HTTPError">>}

\* Its answer is not what the client's models take, or over HTTP not JSON.
Garbled ==
    {<<"GARBLED", class>> : class \in
        {"pydantic.ValidationError"} \cup
        (IF router.transport = "http" THEN {"JSONDecodeError"} ELSE {})}

Broken == Unreached \cup Garbled

\* The token request fails: token() raises before anything is sent.
NoTokenFailures ==
    {<<"UNAUTHENTICATED", "UnauthenticatedError">>, <<"UNAVAILABLE", "UnavailableError">>}

Failures(service) ==
    NoTokenFailures \cup Broken \cup UNION {Refusal(service, r) : r \in DOMAIN Refusals[service]}

-----------------------------------------------------------------------------
(* POST {prefix}/grants. *)

AskGrant(user, body) ==
    /\ request.pc \in {"none", "answered"}
    /\ request' = [NoRequest EXCEPT !.pc = "asked", !.kind = "grant",
                                    !.user = user, !.body = body]
    /\ reply' = NoReply
    /\ UNCHANGED <<router, issued, upload>>

Unknown(body) == ~(body.profile \subseteq DOMAIN Profiles)
Named(body) == {Profiles[n] : n \in body.profile}

\* Faulty variant: manage:* is left to the app.
AcceptableManaged(body) == ~Unknown(body)
Acceptable(body) == "manage:*" \notin body.scopes /\ ~Unknown(body)

\* What the browser asks for is refused before the app is asked.
RefuseBody ==
    /\ request.pc = "asked" /\ request.kind = "grant"
    /\ ~Acceptable(request.body)
    /\ Respond(422, {}, <<>>) /\ Answered
    /\ UNCHANGED <<router, issued, upload>>

\* authorize says no: the app's own rule, and the profile's permissions.
Refuse ==
    /\ request.pc = "asked" /\ request.kind = "grant" /\ Acceptable(request.body)
    /\ Respond(403, {}, <<>>) /\ Answered
    /\ UNCHANGED <<router, issued, upload>>

\* authorize says yes: grants.issue builds the payload, and the call is made.
Authorize ==
    /\ request.pc = "asked" /\ request.kind = "grant" /\ Acceptable(request.body)
    /\ \A p \in Named(request.body) : MayUse(p, Permissions[request.user], TRUE)
    /\ IF \E p \in Named(request.body) : AllowsNothing(p)
         THEN Failed("ValueError", {"ValidationError"}, "UNSENT")
         ELSE request' = [request EXCEPT !.pc = "sent", !.yes = TRUE] /\ UNCHANGED reply
    /\ UNCHANGED <<router, issued, upload>>

\* get_subject, None unless the app gives one.
SubjectOf(user) == IF router.subject THEN {user} ELSE {}

\* What the library signs: what grants.issue sent, as it is received; and, as a
\* ghost, the browser's request it was sent for.
Signed(r) ==
    [grant |-> Sent(router.transport, Payload(r.body.scopes, r.body.assets, r.body.sessions,
                                       Named(r.body), SubjectOf(r.user))),
     user |-> r.user, body |-> r.body, yes |-> r.yes]

\* External: the grant is issued, and arrives.
Issue ==
    /\ request.pc = "sent" /\ request.kind = "grant" /\ Cardinality(issued) < MaxGrants
    /\ issued' = issued \cup {Signed(request)}
    /\ Respond(201, {Signed(request)}, <<>>) /\ Answered
    /\ UNCHANGED <<router, upload>>

\* External: the grant is issued, and its answer lost.
IssueLost ==
    /\ request.pc = "sent" /\ request.kind = "grant" /\ Cardinality(issued) < MaxGrants
    /\ issued' = issued \cup {Signed(request)}
    /\ \E f \in Broken : Failed(f[2], {"ValidationError"}, f[1])
    /\ UNCHANGED <<router, upload>>

\* External: the call fails.
GrantFails ==
    /\ request.pc = "sent" /\ request.kind = "grant"
    /\ \E f \in Failures("Grants") : Failed(f[2], {"ValidationError"}, f[1])
    /\ UNCHANGED <<router, issued, upload>>

\* External: a browser uploads a file with a grant, as one of the files it has;
\* only what the library admits counts.
Upload(g, file) ==
    /\ "upload" \in g.grant.scopes
    /\ \E p \in g.grant.profile : Admits(p, file[1], file[2])
    /\ upload' = <<g, file>>
    /\ UNCHANGED <<router, request, reply, issued>>

-----------------------------------------------------------------------------
(* GET {prefix}/{asset_id} and POST {prefix}/resolve. *)

\* The gate asks can_access and, unless there is nothing to resolve, the
\* library, as the service.
AskAssets(user, kind, ids) ==
    /\ request.pc \in {"none", "answered"}
    /\ \E may \in SUBSET ids :
           request' = [NoRequest EXCEPT !.pc = "sent", !.kind = kind, !.user = user,
                                        !.ids = ids, !.allowed = may]
    /\ reply' = NoReply
    /\ UNCHANGED <<router, issued, upload>>

\* Faulty variant: resolve_denied is not set from the router's thumbnails.
ResolvedAlways == request.ids

Resolved == IF router.thumbnails THEN request.ids ELSE request.allowed

\* Faulty variant: hide_missing is not set.
GateItemShowing(may, result) ==
    IF ~may /\ result.status # "not_found" THEN [result EXCEPT !.status = "forbidden"]
    ELSE IF result = Unanswered THEN [result EXCEPT !.status = "error"] ELSE result

\* One item of the gate: a denied user gets forbidden, whether the asset is
\* there or not, and its public thumbnail if the library sent one.
GateItem(may, result) ==
    IF ~may THEN [result EXCEPT !.status = "forbidden"]
    ELSE IF result = Unanswered THEN [result EXCEPT !.status = "error"] ELSE result

\* The status of GET.
StatusOf(item) ==
    CASE item.status = "ok" -> 200
      [] item.status = "not_found" -> 404
      [] item.status = "forbidden" -> 403
      [] OTHER -> 502

Deliver(results) ==
    LET items == [a \in request.ids |-> GateItem(a \in request.allowed, results[a])]
    IN  /\ request' = [request EXCEPT !.pc = "answered", !.said = results]
        /\ IF request.kind = "resolve"
             THEN Respond(200, {}, items)
             ELSE Respond(StatusOf(items[CHOOSE a \in request.ids : TRUE]), {}, items)

\* External: the library answers for every asset the gate resolves; delivery is
\* gRPC only, and not called when there is nothing to resolve.
Resolve ==
    /\ request.pc = "sent" /\ request.kind # "grant"
    /\ router.transport = "grpc" \/ Resolved = {}
    /\ \E results \in [request.ids -> Results] :
          /\ \A a \in request.ids \ Resolved : results[a] = Unanswered
          /\ Deliver(results)
    /\ UNCHANGED <<router, issued, upload>>

\* The call fails; over HTTP the client has no delivery.
DeliveryFailures ==
    IF router.transport = "http" THEN {<<"UNIMPLEMENTED", "UnimplementedError">>}
    ELSE Failures("Delivery")

\* Faulty variant: the gate wraps nothing.
GateFailuresRaw == DeliveryFailures

\* The gate wraps the exceptions of httpx and of the decoding.
TransportOrDecodeErrors == {"HTTPError", "pydantic.ValidationError", "JSONDecodeError"}
GateFailures ==
    {<<f[1], IF f[2] \in TransportOrDecodeErrors THEN "MediaLibraryError" ELSE f[2]>> :
        f \in DeliveryFailures}

ResolveFails ==
    /\ request.pc = "sent" /\ request.kind # "grant" /\ Resolved # {}
    /\ \E f \in GateFailures : Failed(f[2], {}, f[1])
    /\ UNCHANGED <<router, issued, upload>>

\* can_access raises an exception of its own, or the client's.
AccessRaises(class) ==
    /\ request.pc = "sent" /\ request.kind # "grant"
    /\ Failed(class, {}, "HOOK")
    /\ UNCHANGED <<router, issued, upload>>

-----------------------------------------------------------------------------

RouterNext ==
    \/ \E user \in Users, body \in GrantRequests : AskGrant(user, body)
    \/ RefuseBody \/ Refuse \/ Authorize \/ Issue \/ IssueLost \/ GrantFails
    \/ \E g \in issued, file \in Files : Upload(g, file)
    \/ \E user \in Users, a \in Assets : AskAssets(user, "asset", {a})
    \/ \E user \in Users, ids \in Pages : AskAssets(user, "resolve", ids)
    \/ Resolve \/ ResolveFails
    \/ \E class \in {"TypeError", "NotFoundError"} : AccessRaises(class)

RouterSpec == RouterInit /\ [][RouterNext]_routerVars

-----------------------------------------------------------------------------
(* Correctness. *)

(* An answer tells whose doing it is: 403 that the app said no (or that the  *)
(* library keeps an asset from the service itself), 404 and 422 what is      *)
(* wrong with the request, 502 that the media library refused or failed; a   *)
(* refusal of the service's own credentials never looks like one of the      *)
(* user's.  A grant whose library was not reached or made no sense may also  *)
(* end as the app's own 500: UnreachableIs502 is about those.                *)
AnswersTellTheirCause ==
    request.pc = "answered" =>
        LET status == reply.status
            f == request.failure
        IN  IF request.kind = "grant"
            THEN /\ status = 201 <=> f = None /\ request.yes
                 /\ status = 403 <=> f = None /\ ~request.yes /\ Acceptable(request.body)
                 /\ status = 422 <=> f = "INVALID_ARGUMENT" \/ ~Acceptable(request.body)
                 /\ f \in DOMAIN RpcErrors \ {"INVALID_ARGUMENT"} => status = 502
                 /\ f \in {"UNREACHED", "GARBLED"} => status \in {500, 502}
                 /\ f = "UNSENT" => status = 500
            ELSE /\ f # None => status \in {502} \cup (IF f = "HOOK" THEN {500} ELSE {})
                 /\ f = None /\ request.kind = "resolve" => status = 200
                 /\ f = None /\ request.kind = "asset" =>
                      \A a \in request.ids :
                        LET said == IF a \in request.allowed THEN request.said[a].status
                                                             ELSE "forbidden"
                        IN  /\ status = 200 <=> said = "ok"
                            /\ status = 404 <=> said = "not_found"
                            /\ status = 403 <=> said = "forbidden"
                            /\ status = 502 <=> said \in {"bare", "error", "missing"}

(* What create_grant_router says of its answers: 502 when the media library  *)
(* cannot be reached.  The code does not keep to it over HTTP.               *)
UnreachableIs502 ==
    request.pc = "answered" /\ request.kind = "grant" /\ request.failure = "UNREACHED" =>
        reply.status = 502

(* Every asset the app denies is answered forbidden, whatever the library    *)
(* said of it, and may differ from another denied one by its public          *)
(* thumbnail only, and not even by that when the router shows no thumbnails. *)
(* With them a denied asset that has one can be told from one that does not  *)
(* exist.  What the library could not resolve is an error, not a denial.     *)
DeniedAreForbidden ==
    \A a \in DOMAIN reply.items :
        LET item == reply.items[a] IN
        /\ a \notin request.allowed =>
              /\ item.status = "forbidden"
              /\ item.thumbnail => router.thumbnails /\ request.said[a].thumbnail
        /\ a \in request.allowed /\ item.status = "forbidden" =>
              request.said[a].status = "forbidden"

(* The library signs nothing but what the app said yes to: for this user,    *)
(* these assets and sessions, a profile of the app's own, and never          *)
(* everything (manage:* ).  What a browser gets is what was signed for it.   *)
GrantsAsDecided ==
    /\ \A g \in issued :
          /\ g.yes
          /\ g.grant.subject = SubjectOf(g.user)
          /\ g.grant.scopes = g.body.scopes \ {"manage:*"}
          /\ UNION g.grant.assets = g.body.assets
          /\ UNION g.grant.sessions = g.body.sessions
          /\ \A p \in Named(g.body) : MayUse(p, Permissions[g.user], TRUE)
          /\ {} = g.grant.profile <=> g.body.profile = {}
    /\ reply.grant # {} =>
          /\ reply.grant \subseteq issued
          /\ \A g \in reply.grant : g.user = request.user /\ g.body = request.body

(* Whatever a browser uploads with a grant, over either transport, is a file *)
(* the named profile accepts, up to the documented differences: a profile    *)
(* that accepts nothing does not become one that accepts anything.           *)
UploadsFitTheProfile ==
    upload # <<>> =>
        \A p \in Named(upload[1].body) : FitsOnServer(p, upload[2][1], upload[2][2])
=============================================================================
