--------------------------- MODULE ServiceUploads ----------------------------
(***************************************************************************)
(* Browser uploads started by the app's backend: the upload router of      *)
(* pkg_media.integrations.fastapi (start, refresh, attach),                *)
(* service_uploads.claim_upload, UploadsAPI.verify_upload and an           *)
(* InMemoryUploadStore, over the HTTP transport.                           *)
(*                                                                         *)
(* Every request is served by a thread of the threadpool; between two      *)
(* calls to the media library or to the store the other threads, the       *)
(* browsers and the server go on.  A request that is refused without any   *)
(* effect (404, 403, 409, 415, 422) is not a step.                         *)
(*                                                                         *)
(* A session makes at most one asset, so the asset of session s is called  *)
(* s, too.                                                                 *)
(***************************************************************************)
EXTENDS UploadProfile, FiniteSets, Sequences

CONSTANTS
    Workers,     \* threads of the threadpool
    Users,       \* get_owner(user)
    Profiles,    \* the app's profiles
    SessionIds,
    Contents,    \* file contents, each with its mime type and size; the server
                 \* stores equal contents as one blob
    MaxRestarts, \* bound on the restarts of the service
    None

ASSUME UploadConstants ==
    /\ None \notin Users \cup Profiles \cup SessionIds \cup Contents
    /\ \A p \in Profiles : IsProfile(p)
    /\ MaxRestarts \in Nat
    /\ \A c \in Contents : c.mime \in MimeTypes /\ c.size \in Nat

VARIABLES
    req,       \* Workers -> the request in progress
    store,     \* the UploadSessionStore: _records of the InMemoryUploadStore
    attaches,  \* ghost: session -> what on_attach was called with, in order
    sessions,  \* external: the sessions, and the assets they made
    grants,    \* external: upload grants issued
    orphans,   \* ghost: sessions left behind by a request to the media library
               \* that got no answer, or by a restart
    restarts   \* how often the service was restarted

vars == <<req, store, attaches, sessions, grants, orphans, restarts>>
external == <<sessions, grants, orphans, restarts>>

Pcs == {"idle", "create", "grant", "save", "abort", "refresh",
        "session", "asset", "mark", "attach"}

Requests == [pc: Pcs, user: Users \cup {None}, profile: Profiles \cup {None},
             session: SessionIds \cup {None}, asset: SessionIds \cup {None},
             blob: Contents \cup {None}]

Request(pc, u, p, s, a) ==
    [pc |-> pc, user |-> u, profile |-> p, session |-> s, asset |-> a, blob |-> None]
Idle == Request("idle", None, None, None, None)

\* UploadRecord; attached is attached_asset_id.
Records == [owner: Users, profile: Profiles, attached: SessionIds \cup {None}]

\* tagged: the server returns upload_session_id with the asset.
Sessions == [state: {"none", "open", "finalized", "aborted"},
             by: Users \cup {None}, profile: Profiles \cup {None},
             blob: Contents \cup {None}, tagged: BOOLEAN]

NoSession == [state |-> "none", by |-> None, profile |-> None,
              blob |-> None, tagged |-> FALSE]

TypeOK ==
    /\ req \in [Workers -> Requests]
    /\ DOMAIN store \subseteq SessionIds
    /\ \A s \in DOMAIN store : store[s] \in Records
    /\ attaches \in [SessionIds -> Seq(Users \X SessionIds)]
    /\ sessions \in [SessionIds -> Sessions]
    /\ grants \subseteq [session: SessionIds, subject: Users]
    /\ orphans \subseteq SessionIds
    /\ restarts \in 0..MaxRestarts

Init ==
    /\ req = [w \in Workers |-> Idle]
    /\ store = [s \in {} |-> {}]
    /\ attaches = [s \in SessionIds |-> <<>>]
    /\ sessions = [s \in SessionIds |-> NoSession]
    /\ grants = {}
    /\ orphans = {}
    /\ restarts = 0

At(w, pc) == req[w].pc = pc
Goto(w, pc) == req' = [req EXCEPT ![w].pc = pc]
Begin(w, pc, u, p, s, a) == req' = [req EXCEPT ![w] = Request(pc, u, p, s, a)]
End(w) == req' = [req EXCEPT ![w] = Idle]

-----------------------------------------------------------------------------
(* start_upload. *)

\* The profile accepts the file as the browser describes it and can_start
\* agrees: open_session begins.  Bound: every upload starts before a restart.
Start(w, u, p, mime, size) ==
    /\ At(w, "idle")
    /\ restarts = 0
    /\ ValidFile(p, mime, size)
    /\ Begin(w, "create", u, p, None, None)
    /\ UNCHANGED <<store, attaches, external>>

Create(w, s) ==
    /\ At(w, "create") /\ sessions[s].state = "none"
    /\ sessions' = [sessions EXCEPT ![s].state = "open", ![s].by = req[w].user,
                                    ![s].profile = req[w].profile]

\* create_session answered; the grant is next.
Created(w, s) ==
    /\ Create(w, s)
    /\ req' = [req EXCEPT ![w].pc = "grant", ![w].session = s]
    /\ UNCHANGED <<store, attaches, grants, orphans, restarts>>

\* create_session got no answer: nothing is known to abort.
CreateFails(w) ==
    /\ At(w, "create")
    /\ \/ UNCHANGED <<sessions, orphans, restarts>>
       \/ \E s \in SessionIds : Create(w, s) /\ orphans' = orphans \cup {s}
    /\ End(w)
    /\ UNCHANGED <<store, attaches, grants, restarts>>

GrantFor(w) == [session |-> req[w].session, subject |-> req[w].user]

Granted(w) ==
    /\ At(w, "grant")
    /\ grants' = grants \cup {GrantFor(w)}
    /\ Goto(w, "save")
    /\ UNCHANGED <<store, attaches, sessions, orphans, restarts>>

\* Faulty variant: the session is left open.
GrantFailsLeaving(w) ==
    /\ At(w, "grant")
    /\ grants' \in {grants, grants \cup {GrantFor(w)}}
    /\ End(w)
    /\ UNCHANGED <<store, attaches, sessions, orphans, restarts>>

\* issue_grant got no answer: the session is aborted.
GrantFails(w) ==
    /\ At(w, "grant")
    /\ grants' \in {grants, grants \cup {GrantFor(w)}}
    /\ Goto(w, "abort")
    /\ UNCHANGED <<store, attaches, sessions, orphans, restarts>>

\* store.save, and the 201 with the grant.
Save(w) ==
    /\ At(w, "save")
    /\ store' = [s \in DOMAIN store \cup {req[w].session} |->
                    IF s = req[w].session
                      THEN [owner |-> req[w].user, profile |-> req[w].profile,
                            attached |-> None]
                      ELSE store[s]]
    /\ End(w)
    /\ UNCHANGED <<attaches, external>>

SaveFails(w) ==
    /\ At(w, "save")
    /\ Goto(w, "abort")
    /\ UNCHANGED <<store, attaches, external>>

Abort(s) == sessions' = [sessions EXCEPT ![s].state = "aborted"]

\* The abort is best effort; the request ends with its error either way.
AbortQuietly(w) ==
    /\ At(w, "abort")
    /\ \/ Abort(req[w].session) /\ UNCHANGED orphans
       \/ orphans' = orphans \cup {req[w].session} /\ UNCHANGED sessions
    /\ End(w)
    /\ UNCHANGED <<store, attaches, grants, restarts>>

-----------------------------------------------------------------------------
(* refresh_grant. *)

\* Faulty variant: the owner is not compared.
RefreshAnyone(w, u, s) ==
    /\ At(w, "idle")
    /\ s \in DOMAIN store /\ store[s].attached = None
    /\ Begin(w, "refresh", u, None, s, None)
    /\ UNCHANGED <<store, attaches, external>>

\* The user's own session, not attached yet.
Refresh(w, u, s) ==
    /\ At(w, "idle")
    /\ s \in DOMAIN store
    /\ store[s].owner = u
    /\ store[s].attached = None
    /\ Begin(w, "refresh", u, None, s, None)
    /\ UNCHANGED <<store, attaches, external>>

Refreshed(w) ==
    /\ At(w, "refresh")
    /\ grants' = grants \cup {GrantFor(w)}
    /\ End(w)
    /\ UNCHANGED <<store, attaches, sessions, orphans, restarts>>

-----------------------------------------------------------------------------
(* attach_upload and claim_upload. *)

\* Faulty variant: the profile is not compared.
AttachAnyProfile(w, u, s, p, a) ==
    /\ At(w, "idle")
    /\ s \in DOMAIN store /\ store[s].owner = u /\ store[s].attached = None
    /\ Begin(w, "session", u, p, s, a)
    /\ UNCHANGED <<store, attaches, external>>

\* The user's own record, for the profile, accepted by check_attach and not
\* attached yet.  (The router reads the record once more than claim_upload;
\* its owner and profile never change.)
Attach(w, u, s, p, a) ==
    /\ At(w, "idle")
    /\ s \in DOMAIN store
    /\ store[s].owner = u
    /\ store[s].profile = p
    /\ store[s].attached = None
    /\ Begin(w, "session", u, p, s, a)
    /\ UNCHANGED <<store, attaches, external>>

\* verify_upload, get_session: the session must be finalized.
SessionRead(w) ==
    /\ At(w, "session")
    /\ IF sessions[req[w].session].state = "finalized"
         THEN req' = [req EXCEPT ![w].pc = "asset",
                                 ![w].blob = sessions[req[w].session].blob]
         ELSE End(w)
    /\ UNCHANGED <<store, attaches, external>>

Made(a) == sessions[a].blob # None

\* Faulty variant: an asset without upload_session_id passes.
FromSessionIfTagged(w) ==
    sessions[req[w].asset].tagged => req[w].asset = req[w].session

\* from_session: by the asset's upload_session_id, or on older servers by its
\* blob.
FromSession(w) ==
    IF sessions[req[w].asset].tagged
      THEN req[w].asset = req[w].session
      ELSE sessions[req[w].asset].blob = req[w].blob

\* The asset a session made: kind and visibility are those of the profile the
\* session was created with, mime type and size those of the bytes.
AssetOf(a) ==
    [kind |-> sessions[a].profile.kind, visibility |-> sessions[a].profile.visibility,
     mime |-> sessions[a].blob.mime, size |-> sessions[a].blob.size]

\* visibility, and profile.verify_asset.
Fits(a, p) == AssetOf(a).visibility = p.visibility /\ ValidAsset(p, AssetOf(a))

\* verify_upload, get_asset: an asset of this session that fits the profile.
AssetRead(w) ==
    /\ At(w, "asset") /\ Made(req[w].asset)
    /\ IF FromSession(w) /\ Fits(req[w].asset, req[w].profile) THEN Goto(w, "mark") ELSE End(w)
    /\ UNCHANGED <<store, attaches, external>>

\* Faulty variant: the answer of mark_attached is not looked at.
MarkAttachedAnyway(w) ==
    /\ At(w, "mark")
    /\ store' = IF store[req[w].session].attached = None
                  THEN [store EXCEPT ![req[w].session].attached = req[w].asset]
                  ELSE store
    /\ Goto(w, "attach")
    /\ UNCHANGED <<attaches, external>>

\* store.mark_attached, atomic: the first claim wins.
MarkAttached(w) ==
    /\ At(w, "mark")
    /\ IF store[req[w].session].attached = None
         THEN /\ store' = [store EXCEPT ![req[w].session].attached = req[w].asset]
              /\ Goto(w, "attach")
         ELSE End(w) /\ UNCHANGED store
    /\ UNCHANGED <<attaches, external>>

\* on_attach(user, claimed); it may raise, which leaves the record attached.
OnAttach(w) ==
    /\ At(w, "attach")
    /\ attaches' = [attaches EXCEPT ![req[w].session] =
                       Append(@, <<req[w].user, req[w].asset>>)]
    /\ End(w)
    /\ UNCHANGED <<store, external>>

\* A call to the media library fails, or has no such session or asset: 502, 404.
CallFails(w) ==
    /\ req[w].pc \in {"refresh", "session", "asset"}
    /\ End(w)
    /\ UNCHANGED <<store, attaches, external>>

-----------------------------------------------------------------------------
(* The browsers, which got a grant with the 201. *)

\* A browser may hold a grant for the session: its 201 was sent, though the
\* record may be lost since.
Started(s) == s \in DOMAIN store \/ (restarts > 0 /\ \E g \in grants : g.session = s)

\* External: the browser has sent the parts and finalizes.
Finalize(s, c) ==
    /\ sessions[s].state = "open" /\ Started(s)
    /\ \E tagged \in BOOLEAN :
          sessions' = [sessions EXCEPT ![s].state = "finalized", ![s].blob = c,
                                       ![s].tagged = tagged]
    /\ UNCHANGED <<req, store, attaches, grants, orphans, restarts>>

\* External: the session is given up, before or after it was finalized.
GiveUp(s) ==
    /\ sessions[s].state \in {"open", "finalized"} /\ Started(s)
    /\ Abort(s)
    /\ UNCHANGED <<req, store, attaches, grants, orphans, restarts>>

-----------------------------------------------------------------------------

\* Sessions whose start, or whose on_attach, a restart cuts off.
CutOff == {req[w].session : w \in {v \in Workers : req[v].pc \in {"grant", "save", "abort", "attach"}}}

\* The service is restarted: its requests end; an InMemoryUploadStore loses its
\* records, the app's own store keeps them.
Restart ==
    /\ restarts < MaxRestarts
    /\ restarts' = restarts + 1
    /\ req' = [w \in Workers |-> Idle]
    /\ \/ UNCHANGED store /\ orphans' = orphans \cup CutOff
       \/ store' = <<>> /\ orphans' = orphans \cup CutOff \cup DOMAIN store
    /\ UNCHANGED <<attaches, sessions, grants>>

Next ==
    \/ Restart
    \/ \E w \in Workers :
         \/ \E u \in Users, p \in Profiles, mime \in MimeTypes,
               size \in {{}} \cup {{c.size} : c \in Contents} : Start(w, u, p, mime, size)
         \/ \E s \in SessionIds : Created(w, s)
         \/ CreateFails(w)
         \/ Granted(w) \/ GrantFails(w)
         \/ Save(w) \/ SaveFails(w) \/ AbortQuietly(w)
         \/ \E u \in Users, s \in SessionIds : Refresh(w, u, s)
         \/ Refreshed(w)
         \/ \E u \in Users, s, a \in SessionIds, p \in Profiles : Attach(w, u, s, p, a)
         \/ SessionRead(w) \/ AssetRead(w) \/ MarkAttached(w) \/ OnAttach(w)
         \/ CallFails(w)
    \/ \E s \in SessionIds, c \in Contents : Finalize(s, c)
    \/ \E s \in SessionIds : GiveUp(s)

Spec == Init /\ [][Next]_vars

-----------------------------------------------------------------------------
(* Correctness. *)

(* However many attach requests run at once, on_attach is called at most     *)
(* once for a session, even when it raised: by its owner, with the asset on  *)
(* the record.  A record says attached only when it was called or is about   *)
(* to be, unless a restart came in between; then no request calls it again.  *)
AttachedOnce ==
    \A s \in SessionIds :
        /\ Len(attaches[s]) <= 1
        /\ attaches[s] # <<>> =>
              \/ s \in DOMAIN store /\ attaches[s] = << <<store[s].owner, store[s].attached>> >>
              \/ s \in orphans \ DOMAIN store
        /\ s \in DOMAIN store \ orphans /\ store[s].attached # None =>
              \/ attaches[s] # <<>>
              \/ \E w \in Workers : req[w].pc = "attach" /\ req[w].session = s

(* What is attached was made by the session (or, on a server that does not   *)
(* say, has the session's bytes), and its kind, visibility, mime type and    *)
(* size are what the profile of the record asks for, although the browser    *)
(* may upload another file than the one it described.                        *)
AttachedIsVerified ==
    \A s \in DOMAIN store :
        LET a == store[s].attached
        IN  a # None =>
              /\ Made(s) /\ Made(a)
              /\ a = s \/ (~sessions[a].tagged /\ sessions[a].blob = sessions[s].blob)
              /\ AssetOf(a).kind = store[s].profile.kind
              /\ AssetOf(a).visibility = store[s].profile.visibility
              /\ sessions[a].blob.mime \notin Malformed
              /\ \A types \in store[s].profile.allowed :
                    types \cap {sessions[a].blob.mime, AnyType} # {}
              /\ \A hi \in store[s].profile.maxSize : sessions[a].blob.size <= hi
              /\ \A lo \in store[s].profile.minSize : lo <= sessions[a].blob.size

(* A session the server keeps open has a record, or its start is still being *)
(* carried out; nothing else leaves one behind but a request to the media    *)
(* library that got no answer, and a restart.                                *)
RecordedOrClosed ==
    \A s \in SessionIds \ orphans :
        sessions[s].state = "open" =>
            \/ s \in DOMAIN store
            \/ \E w \in Workers : req[w].session = s /\ req[w].pc \in {"grant", "save", "abort"}

(* Grants for a session go to the user who started it, and to no one else.   *)
GrantsForTheStarter ==
    \A g \in grants : sessions[g.session].by = g.subject
=============================================================================
