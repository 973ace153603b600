----------------------------- MODULE MediaGrants ----------------------------
(***************************************************************************)
(* pkg_media.grants: what the app asks the media library to sign for one   *)
(* of its users, as the client sends it over HTTP and over gRPC, and what  *)
(* the library lets a browser do with it (external, by grants.proto).      *)
(*                                                                         *)
(* As in UploadProfile an optional value is a set of at most one.          *)
(***************************************************************************)
EXTENDS UploadProfile

CONSTANT WildcardOf   \* type/subtype -> its "type/*" entry

ASSUME WildcardsAreEntries ==
    \A mime \in DOMAIN WildcardOf : mime \in MimeTypes /\ WildcardOf[mime] \in MimeTypes

\* Faulty variant: every profile has a payload.
AllowsNothingUnchecked(p) == FALSE

\* grant_profile_payload raises ValueError for a profile that accepts nothing.
AllowsNothing(p) == {} \in p.allowed \/ 0 \in p.maxSize

\* grant_profile_payload: any type is no list of types; the least size and the
\* permissions are the app's own checks and not sent.
ProfilePayload(p) ==
    [kind |-> p.kind, visibility |-> p.visibility,
     types |-> {types \in p.allowed : AnyType \notin types}, maxSize |-> p.maxSize]

\* GrantsAPI.issue: empty lists of ids are not sent, and no field that is None.
Payload(scopes, assets, sessions, profile, subject) ==
    [scopes |-> scopes, assets |-> {assets} \ {{}}, sessions |-> {sessions} \ {{}},
     profile |-> {ProfilePayload(p) : p \in profile}, subject |-> subject]

\* _grant_profile: a repeated field that is empty is a field that is not set.
\* (It refuses an empty list, which only a profile given as a mapping can hold.)
GrpcProfile(payload) == [payload EXCEPT !.types = @ \ {{}}]

\* issue_grant of the two transports: what the library reads.
Sent(transport, payload) ==
    IF transport = "grpc"
      THEN [payload EXCEPT !.profile = {GrpcProfile(p) : p \in @}]
      ELSE payload

\* External: an upload session opened with a grant; the library compares the
\* declared type and size with the grant's profile.
Admits(profile, mime, size) ==
    /\ \A types \in profile.types : mime \in types \/ WildcardOf[mime] \in types
    /\ \A hi \in profile.maxSize : \E n \in size : n <= hi

\* What the profile itself accepts, up to the documented differences: "type/*"
\* stands for its types, and there is no least size.
FitsOnServer(p, mime, size) ==
    /\ \A types \in p.allowed : {AnyType, mime, WildcardOf[mime]} \cap types # {}
    /\ \A hi \in p.maxSize : \E n \in size : n <= hi
=============================================================================
