------------------------- MODULE ServiceUploadsProofs -------------------------
(***************************************************************************)
(* Proofs about ServiceUploads, for any number of threads, users, profiles *)
(* and sessions: every upload is attached once and verified, every session *)
(* is recorded or closed, and grants go to the user who started it.        *)
(***************************************************************************)
EXTENDS ServiceUploads, TLAPS

Starting == {"grant", "save", "abort"}
Claiming == {"session", "asset", "mark", "attach"}

\* What verify_upload found out of asset a of session s.
Verified(s, a, p) ==
    /\ Made(s) /\ Made(a)
    /\ a = s \/ (~sessions[a].tagged /\ sessions[a].blob = sessions[s].blob)
    /\ Fits(a, p)

\* What a request knows stays true while the others go on.
WorkerInv(w) ==
    /\ req[w].pc = "create" => req[w].user \in Users /\ req[w].profile \in Profiles
    /\ req[w].pc \in Starting =>
          /\ req[w].user \in Users /\ req[w].profile \in Profiles
          /\ req[w].session \in SessionIds /\ req[w].session \notin DOMAIN store
          /\ sessions[req[w].session].state # "none"
          /\ sessions[req[w].session].by = req[w].user
          /\ sessions[req[w].session].profile = req[w].profile
          /\ attaches[req[w].session] = <<>>
    /\ req[w].pc = "refresh" =>
          /\ req[w].user \in Users /\ req[w].session \in SessionIds
          /\ sessions[req[w].session].state # "none"
          /\ sessions[req[w].session].by = req[w].user
    /\ req[w].pc \in Claiming =>
          /\ req[w].asset \in SessionIds
          /\ req[w].session \in DOMAIN store
          /\ store[req[w].session].owner = req[w].user
          /\ store[req[w].session].profile = req[w].profile
    /\ req[w].pc = "asset" =>
          Made(req[w].session) /\ req[w].blob = sessions[req[w].session].blob
    /\ req[w].pc = "mark" => Verified(req[w].session, req[w].asset, req[w].profile)
    /\ req[w].pc = "attach" =>
          store[req[w].session].attached = req[w].asset /\ attaches[req[w].session] = <<>>

\* One request at most starts a session, and one calls on_attach for it.
AloneInv ==
    \A v, w \in Workers :
        /\ req[v].session = req[w].session
        /\ \/ req[v].pc \in Starting /\ req[w].pc \in Starting
           \/ req[v].pc = "attach" /\ req[w].pc = "attach"
        => v = w

SessionInv(s) ==
    /\ sessions[s].state = "none" => s \notin DOMAIN store /\ attaches[s] = <<>>
    /\ sessions[s].state \in {"none", "open"} => sessions[s].blob = None
    /\ sessions[s].state = "finalized" => sessions[s].blob # None

\* A record is the session's, and what it says attached was verified.
RecordInv(s) ==
    s \in DOMAIN store =>
        /\ sessions[s].by = store[s].owner /\ sessions[s].profile = store[s].profile
        /\ store[s].attached = None => attaches[s] = <<>>
        /\ store[s].attached # None =>
              /\ Verified(s, store[s].attached, store[s].profile)
              /\ attaches[s] \in {<<>>, << <<store[s].owner, store[s].attached>> >>}

\* What a record that was lost leaves behind.
LostInv(s) ==
    s \notin DOMAIN store /\ attaches[s] # <<>> => s \in orphans /\ Len(attaches[s]) = 1

\* Nothing is left open, or attached without its call, but by a failure.
AccountedInv(s) ==
    s \notin orphans =>
        /\ sessions[s].state = "open" =>
              s \in DOMAIN store \/ \E w \in Workers : req[w].pc \in Starting /\ req[w].session = s
        /\ s \in DOMAIN store /\ store[s].attached # None =>
              attaches[s] # <<>> \/ \E w \in Workers : req[w].pc = "attach" /\ req[w].session = s

GrantsInv ==
    \A g \in grants :
        sessions[g.session].state # "none" /\ sessions[g.session].by = g.subject

EachInv(s) == SessionInv(s) /\ RecordInv(s) /\ LostInv(s) /\ AccountedInv(s)

IInv ==
    /\ TypeOK
    /\ \A w \in Workers : WorkerInv(w)
    /\ AloneInv
    /\ \A s \in SessionIds : EachInv(s)
    /\ GrantsInv

-----------------------------------------------------------------------------
(* How a request moves on. *)

Moves(w) ==
    /\ req' \in [Workers -> Requests]
    /\ \A v \in Workers \ {w} : req'[v] = req[v]

LEMMA Replaced ==
    ASSUME TypeOK, NEW w \in Workers, NEW r \in Requests, req' = [req EXCEPT ![w] = r]
    PROVE  Moves(w) /\ req'[w] = r
BY DEF TypeOK, Moves

LEMMA Went ==
    ASSUME TypeOK, NEW w \in Workers, NEW pc \in Pcs, Goto(w, pc)
    PROVE  /\ Moves(w) /\ req'[w].pc = pc
           /\ req'[w].user = req[w].user /\ req'[w].profile = req[w].profile
           /\ req'[w].session = req[w].session /\ req'[w].asset = req[w].asset
           /\ req'[w].blob = req[w].blob
<1> DEFINE r == [req[w] EXCEPT !.pc = pc]
<1>1. req[w] \in Requests  BY DEF TypeOK
<1>2. /\ r \in Requests /\ r.pc = pc /\ r.user = req[w].user /\ r.profile = req[w].profile
      /\ r.session = req[w].session /\ r.asset = req[w].asset /\ r.blob = req[w].blob
  BY <1>1 DEF Requests
<1>3. req' = [req EXCEPT ![w] = r]  BY DEF Goto
<1> HIDE DEF r
<1> QED  BY <1>2, <1>3, Replaced

LEMMA Ended ==
    ASSUME TypeOK, NEW w \in Workers, End(w)
    PROVE  Moves(w) /\ req'[w].pc = "idle"
<1>1. Idle \in Requests /\ Idle.pc = "idle"  BY DEF Idle, Request, Requests, Pcs
<1> QED  BY <1>1, Replaced DEF End

LEMMA Begun ==
    ASSUME TypeOK, NEW w \in Workers, NEW pc \in Pcs, NEW u \in Users,
           NEW p \in Profiles \cup {None}, NEW s \in SessionIds \cup {None},
           NEW a \in SessionIds \cup {None}, Begin(w, pc, u, p, s, a)
    PROVE  /\ Moves(w) /\ req'[w].pc = pc
           /\ req'[w].user = u /\ req'[w].profile = p
           /\ req'[w].session = s /\ req'[w].asset = a
<1> DEFINE r == Request(pc, u, p, s, a)
<1>1. r \in Requests /\ r.pc = pc /\ r.user = u /\ r.profile = p /\ r.session = s /\ r.asset = a
  BY DEF Requests, Request
<1>2. req' = [req EXCEPT ![w] = r]  BY DEF Begin
<1> HIDE DEF r
<1> QED  BY <1>1, <1>2, Replaced

-----------------------------------------------------------------------------
(* What a step leaves of a session, and of what others know. *)

\* A session that was created keeps its user and profile, and one that was
\* finalized its bytes.
Evolves ==
    \A s \in SessionIds : sessions[s].state # "none" =>
        /\ sessions'[s].state # "none"
        /\ sessions'[s].by = sessions[s].by /\ sessions'[s].profile = sessions[s].profile
        /\ sessions[s].blob # None => sessions'[s].blob = sessions[s].blob
                                         /\ sessions'[s].tagged = sessions[s].tagged

LEMMA Unevolved == ASSUME sessions' = sessions PROVE Evolves
BY DEF Evolves

LEMMA MadeKept ==
    ASSUME IInv, Evolves, NEW a \in SessionIds, Made(a)
    PROVE  /\ Made(a)' /\ sessions'[a].blob = sessions[a].blob
           /\ sessions'[a].tagged = sessions[a].tagged /\ sessions'[a].profile = sessions[a].profile
BY DEF Made, IInv, EachInv, SessionInv, Evolves

LEMMA VerifiedKept ==
    ASSUME IInv, Evolves, NEW s \in SessionIds, NEW a \in SessionIds, NEW p, Verified(s, a, p)
    PROVE  Verified(s, a, p)'
<1>1. AssetOf(a)' = AssetOf(a)  BY MadeKept DEF Verified, AssetOf
<1>2. Fits(a, p)' <=> Fits(a, p)  BY <1>1 DEF Fits, ValidAsset, TypeAllowed, SizeAllowed
<1> QED  BY <1>2, MadeKept DEF Verified

\* A request that does not move keeps what it knows, when the step leaves it
\* its record, and its calls of on_attach.
LEMMA WorkerKept ==
    ASSUME IInv, Evolves, NEW v \in Workers, req'[v] = req[v],
           req[v].pc \in Starting => /\ req[v].session \notin DOMAIN store'
                                     /\ attaches'[req[v].session] = attaches[req[v].session],
           req[v].pc \in Claiming => /\ req[v].session \in DOMAIN store'
                                     /\ store'[req[v].session].owner = store[req[v].session].owner
                                     /\ store'[req[v].session].profile = store[req[v].session].profile,
           req[v].pc = "attach" =>
               /\ store'[req[v].session].attached = store[req[v].session].attached
               /\ attaches'[req[v].session] = attaches[req[v].session]
    PROVE  WorkerInv(v)'
<1> USE DEF IInv
<1>1. WorkerInv(v) /\ DOMAIN store \subseteq SessionIds  BY DEF TypeOK
<1>2. CASE req[v].pc \in Starting \cup {"create", "refresh"}
  BY <1>1, <1>2 DEF WorkerInv, Evolves, Starting, Claiming
<1>3. CASE req[v].pc \in {"session", "attach"}
  BY <1>1, <1>3 DEF WorkerInv, Starting, Claiming
<1>4. CASE req[v].pc = "asset"
  BY <1>1, <1>4, MadeKept DEF WorkerInv, Starting, Claiming
<1>5. CASE req[v].pc = "mark"
  <2>1. Verified(req[v].session, req[v].asset, req[v].profile)'
    BY <1>1, <1>5, VerifiedKept DEF WorkerInv, Claiming
  <2> QED  BY <1>1, <1>5, <2>1 DEF WorkerInv, Starting, Claiming
<1>6. CASE req[v].pc = "idle"
  BY <1>6 DEF WorkerInv, Starting, Claiming
<1>7. req[v].pc \in Pcs  BY DEF TypeOK, Requests
<1> QED  BY <1>2, <1>3, <1>4, <1>5, <1>6, <1>7 DEF Pcs, Starting

LEMMA RecordKept ==
    ASSUME IInv, Evolves, NEW s \in SessionIds, store' = store, attaches' = attaches
    PROVE  RecordInv(s)'
<1> SUFFICES ASSUME s \in DOMAIN store
             PROVE  /\ sessions'[s].by = store[s].owner /\ sessions'[s].profile = store[s].profile
                    /\ store[s].attached = None => attaches[s] = <<>>
                    /\ store[s].attached # None =>
                          /\ Verified(s, store[s].attached, store[s].profile)'
                          /\ attaches[s] \in {<<>>, << <<store[s].owner, store[s].attached>> >>}
  BY DEF RecordInv, Verified, Made, Fits, AssetOf
<1>1. RecordInv(s) /\ SessionInv(s) /\ store[s].attached \in SessionIds \cup {None}
  BY DEF IInv, EachInv, TypeOK, Records
<1>2. sessions'[s].by = sessions[s].by /\ sessions'[s].profile = sessions[s].profile
  BY <1>1 DEF Evolves, SessionInv
<1>3. store[s].attached # None => Verified(s, store[s].attached, store[s].profile)'
  BY <1>1, VerifiedKept DEF RecordInv
<1> QED  BY <1>1, <1>2, <1>3 DEF RecordInv

\* Steps of one request that leave the sessions and the records alone.
KnowInv ==
    /\ \A w \in Workers : WorkerInv(w)
    /\ AloneInv
    /\ \A s \in SessionIds : EachInv(s)

LEMMA MovesOn ==
    ASSUME IInv, NEW w \in Workers, Moves(w), WorkerInv(w)',
           UNCHANGED <<store, attaches, sessions, orphans>>,
           \/ /\ req[w].pc \notin Starting \cup {"attach"}
              /\ req'[w].pc \notin Starting \cup {"attach"}
           \/ /\ req[w].pc \in Starting /\ req'[w].pc \in Starting
              /\ req'[w].session = req[w].session
    PROVE  KnowInv'
<1>1. Evolves  BY Unevolved
<1>2. \A v \in Workers : WorkerInv(v)'
  <2> SUFFICES ASSUME NEW v \in Workers, v # w PROVE WorkerInv(v)'
    OBVIOUS
  <2>1. req'[v] = req[v]  BY DEF Moves
  <2>2. WorkerInv(v)  BY DEF IInv
  <2> QED  BY <1>1, <2>1, <2>2, WorkerKept DEF WorkerInv
<1>3. AloneInv'
  BY DEF IInv, AloneInv, Moves, Starting
<1>4. ASSUME NEW s \in SessionIds PROVE EachInv(s)'
  <2>1. EachInv(s)  BY DEF IInv
  <2>2. RecordInv(s)'  BY <1>1, RecordKept
  <2>3. AccountedInv(s)'
    BY <2>1 DEF EachInv, AccountedInv, Moves, Starting
  <2> QED  BY <2>1, <2>2, <2>3 DEF EachInv, SessionInv, LostInv
<1> QED  BY <1>2, <1>3, <1>4 DEF KnowInv

\* The same, with nothing issued either.
LEMMA Quiet ==
    ASSUME IInv, KnowInv', req' \in [Workers -> Requests],
           UNCHANGED <<store, attaches, sessions, grants, orphans, restarts>>
    PROVE  IInv'
BY DEF IInv, KnowInv, TypeOK, GrantsInv

LEMMA ToQuiet ==
    ASSUME IInv, NEW w \in Workers, Moves(w), WorkerInv(w)',
           UNCHANGED <<store, attaches, sessions, grants, orphans, restarts>>,
           \/ /\ req[w].pc \notin Starting \cup {"attach"}
              /\ req'[w].pc \notin Starting \cup {"attach"}
           \/ /\ req[w].pc \in Starting /\ req'[w].pc \in Starting
              /\ req'[w].session = req[w].session
    PROVE  IInv'
BY MovesOn, Quiet DEF Moves

LEMMA EndsQuietly ==
    ASSUME IInv, NEW w \in Workers, End(w), req[w].pc \notin Starting \cup {"attach"},
           UNCHANGED <<store, attaches, sessions, grants, orphans, restarts>>
    PROVE  IInv'
<1>1. Moves(w) /\ req'[w].pc = "idle"  BY Ended DEF IInv
<1>2. WorkerInv(w)'  BY <1>1 DEF WorkerInv, Starting, Claiming
<1> QED  BY <1>1, <1>2, ToQuiet DEF Starting

-----------------------------------------------------------------------------
(* start_upload. *)

LEMMA StartKeeps ==
    ASSUME IInv, NEW w \in Workers, NEW u \in Users, NEW p \in Profiles,
           NEW mime, NEW size, Start(w, u, p, mime, size)
    PROVE  IInv'
<1>1. Moves(w) /\ req'[w].pc = "create" /\ req'[w].user = u /\ req'[w].profile = p
  BY Begun DEF Start, IInv, Pcs
<1>2. WorkerInv(w)'  BY <1>1 DEF WorkerInv, Starting, Claiming
<1> QED  BY <1>1, <1>2, ToQuiet DEF Start, At, Starting, external

\* create_session made session s: none of the others knows it.
LEMMA Makes ==
    ASSUME IInv, NEW w \in Workers, NEW s \in SessionIds, Create(w, s)
    PROVE  /\ Evolves /\ sessions' \in [SessionIds -> Sessions]
           /\ sessions'[s].state = "open" /\ sessions'[s].blob = None
           /\ sessions'[s].by = req[w].user /\ sessions'[s].profile = req[w].profile
           /\ req[w].user \in Users /\ req[w].profile \in Profiles
           /\ \A t \in SessionIds \ {s} : sessions'[t] = sessions[t]
           /\ s \notin DOMAIN store /\ attaches[s] = <<>>
           /\ \A v \in Workers : req[v].pc \in Starting \cup Claiming => req[v].session # s
<1>1. WorkerInv(w) /\ SessionInv(s) /\ sessions \in [SessionIds -> Sessions]
  BY DEF IInv, EachInv, TypeOK
<1>2. req[w].user \in Users /\ req[w].profile \in Profiles  BY <1>1 DEF WorkerInv, Create, At
<1>3. /\ sessions' \in [SessionIds -> Sessions]
      /\ sessions'[s].state = "open" /\ sessions'[s].blob = sessions[s].blob
      /\ sessions'[s].by = req[w].user /\ sessions'[s].profile = req[w].profile
      /\ \A t \in SessionIds \ {s} : sessions'[t] = sessions[t]
  BY <1>1, <1>2 DEF Create, Sessions
<1>4. Evolves  BY <1>3 DEF Evolves, Create
<1>5. \A v \in Workers : req[v].pc \in Starting \cup Claiming => req[v].session # s
  BY <1>1 DEF IInv, WorkerInv, SessionInv, Create
<1> QED  BY <1>1, <1>2, <1>3, <1>4, <1>5 DEF SessionInv, Create

LEMMA MadeOthers ==
    ASSUME IInv, NEW w \in Workers, NEW s \in SessionIds, Create(w, s),
           Moves(w), UNCHANGED <<store, attaches>>
    PROVE  \A v \in Workers \ {w} : WorkerInv(v)'
<1> SUFFICES ASSUME NEW v \in Workers \ {w} PROVE WorkerInv(v)'
  OBVIOUS
<1>1. Evolves /\ req'[v] = req[v] /\ WorkerInv(v)
  BY Makes DEF Moves, IInv
<1> QED  BY <1>1, WorkerKept DEF WorkerInv

LEMMA CreatedKeeps ==
    ASSUME IInv, NEW w \in Workers, NEW s \in SessionIds, Created(w, s)
    PROVE  IInv'
<1> DEFINE r == [req[w] EXCEPT !.pc = "grant", !.session = s]
<1>1. req[w] \in Requests  BY DEF IInv, TypeOK
<1>2. r \in Requests /\ r.pc = "grant" /\ r.session = s /\ r.user = req[w].user
      /\ r.profile = req[w].profile
  BY <1>1 DEF Requests, Pcs
<1>3. req' = [req EXCEPT ![w] = r]  BY DEF Created
<1> HIDE DEF r
<1>4. Moves(w) /\ req'[w].pc = "grant" /\ req'[w].session = s /\ req'[w].user = req[w].user
      /\ req'[w].profile = req[w].profile
  BY <1>2, <1>3, Replaced DEF IInv
<1>13. /\ Create(w, s)
      /\ store' = store /\ attaches' = attaches /\ grants' = grants
      /\ orphans' = orphans /\ restarts' = restarts
  BY DEF Created
<1> USE <1>13
<1>5. WorkerInv(w)'
  BY <1>4, Makes DEF WorkerInv, Starting, Claiming
<1>6. \A v \in Workers : WorkerInv(v)'
  BY <1>4, <1>5, MadeOthers
<1>7. AloneInv'
  <2>1. \A v \in Workers \ {w} :
            /\ req'[v] = req[v]
            /\ req[v].pc \in Starting \cup {"attach"} => req[v].session # s
    BY <1>4, Makes DEF Moves, Claiming
  <2>2. AloneInv /\ req'[w].pc = "grant" /\ req'[w].session = s
    BY <1>4 DEF IInv
  <2>3. ASSUME NEW v \in Workers, NEW x \in Workers, v # x,
               req'[v].session = req'[x].session,
               \/ req'[v].pc \in Starting /\ req'[x].pc \in Starting
               \/ req'[v].pc = "attach" /\ req'[x].pc = "attach"
        PROVE  FALSE
    <3>1. v # w /\ x # w  BY <2>1, <2>2, <2>3 DEF Starting
    <3>2. req'[v] = req[v] /\ req'[x] = req[x]  BY <2>1, <3>1
    <3> QED  BY <2>2, <2>3, <3>2 DEF AloneInv
  <2> QED  BY <2>3 DEF AloneInv
<1>8. ASSUME NEW t \in SessionIds PROVE EachInv(t)'
  <2>1. EachInv(t)  BY DEF IInv
  <2>2. RecordInv(t)'  BY Makes, RecordKept
  <2>3. SessionInv(t)'  BY <2>1, Makes DEF EachInv, SessionInv
  <2>4. req[w].pc = "create"  BY DEF Create, At
  <2>5. AccountedInv(t)'
    <3>1. CASE t = s
      BY <3>1, <1>4, Makes DEF AccountedInv, Starting
    <3>2. CASE t # s
      BY <3>2, <2>1, <2>4, <1>4, Makes DEF EachInv, AccountedInv, Moves, Starting
    <3> QED  BY <3>1, <3>2
  <2> QED  BY <2>1, <2>2, <2>3, <2>5 DEF EachInv, LostInv
<1>9. GrantsInv'  BY Makes DEF IInv, GrantsInv, Evolves, TypeOK
<1> QED  BY <1>4, <1>6, <1>7, <1>8, <1>9, Makes DEF IInv, TypeOK, Moves

LEMMA CreateFailsKeeps == ASSUME IInv, NEW w \in Workers, CreateFails(w) PROVE IInv'
<1>1. Moves(w) /\ req'[w].pc = "idle"  BY Ended DEF IInv, CreateFails
<1>2. CASE UNCHANGED <<sessions, orphans, restarts>>
  BY <1>2, EndsQuietly DEF CreateFails, At, Starting
<1>3. ASSUME NEW s \in SessionIds, Create(w, s), orphans' = orphans \cup {s} PROVE IInv'
  <2> USE DEF CreateFails
  <2>1. WorkerInv(w)'  BY <1>1 DEF WorkerInv, Starting, Claiming
  <2>2. \A v \in Workers : WorkerInv(v)'  BY <1>1, <1>3, <2>1, MadeOthers
  <2>3. AloneInv'  BY <1>1 DEF IInv, AloneInv, Moves, Starting
  <2>4. ASSUME NEW t \in SessionIds PROVE EachInv(t)'
    <3>1. EachInv(t)  BY DEF IInv
    <3>2. RecordInv(t)'  BY <1>3, Makes, RecordKept
    <3>3. SessionInv(t)'  BY <1>3, <3>1, Makes DEF EachInv, SessionInv
    <3>4. AccountedInv(t)'
      BY <1>1, <1>3, <3>1, Makes DEF EachInv, AccountedInv, Moves, Starting, At
    <3> QED  BY <1>3, <3>1, <3>2, <3>3, <3>4 DEF EachInv, LostInv
  <2>5. GrantsInv'  BY <1>3, Makes DEF IInv, GrantsInv, Evolves, TypeOK
  <2> QED  BY <1>1, <1>3, <2>2, <2>3, <2>4, <2>5, Makes DEF IInv, TypeOK, Moves
<1> QED  BY <1>2, <1>3 DEF CreateFails

\* A grant is asked for by a request that starts or refreshes the session.
LEMMA GrantKeeps ==
    ASSUME IInv, NEW w \in Workers, req[w].pc \in {"grant", "refresh"},
           grants' \in {grants, grants \cup {GrantFor(w)}}, sessions' = sessions
    PROVE  GrantsInv' /\ grants' \subseteq [session: SessionIds, subject: Users]
<1>1. WorkerInv(w)  BY DEF IInv
<1>2. /\ req[w].session \in SessionIds /\ req[w].user \in Users
      /\ sessions[req[w].session].state # "none"
      /\ sessions[req[w].session].by = req[w].user
  BY <1>1 DEF WorkerInv, Starting
<1>3. /\ GrantFor(w) \in [session: SessionIds, subject: Users]
      /\ GrantFor(w).session = req[w].session /\ GrantFor(w).subject = req[w].user
  BY <1>2 DEF GrantFor
<1> QED  BY <1>2, <1>3 DEF GrantsInv, IInv, TypeOK

\* A start goes on with its session.
LEMMA StartGoesOn ==
    ASSUME IInv, NEW w \in Workers, req[w].pc \in {"grant", "save"},
           NEW pc \in {"save", "abort"}, Goto(w, pc),
           UNCHANGED <<store, attaches, sessions, orphans>>
    PROVE  KnowInv' /\ req' \in [Workers -> Requests]
<1>1. /\ Moves(w) /\ req'[w].pc = pc
      /\ req'[w].user = req[w].user /\ req'[w].profile = req[w].profile
      /\ req'[w].session = req[w].session
  BY Went DEF IInv, Pcs
<1>2. WorkerInv(w)  BY DEF IInv
<1>3. WorkerInv(w)'  BY <1>1, <1>2 DEF WorkerInv, Starting, Claiming
<1> QED  BY <1>1, <1>3, MovesOn DEF Starting, Moves

LEMMA GrantedKeeps ==
    ASSUME IInv, NEW w \in Workers, Granted(w) \/ GrantFails(w)
    PROVE  IInv'
<1>1. PICK pc \in {"save", "abort"} : Goto(w, pc)
  BY DEF Granted, GrantFails
<1>2. /\ req[w].pc = "grant" /\ grants' \in {grants, grants \cup {GrantFor(w)}}
      /\ UNCHANGED <<store, attaches, sessions, orphans, restarts>>
  BY DEF Granted, GrantFails, At
<1>3. KnowInv' /\ req' \in [Workers -> Requests]  BY <1>1, <1>2, StartGoesOn
<1>4. GrantsInv' /\ grants' \subseteq [session: SessionIds, subject: Users]
  BY <1>2, GrantKeeps
<1> QED  BY <1>2, <1>3, <1>4 DEF IInv, KnowInv, TypeOK

LEMMA SaveFailsKeeps == ASSUME IInv, NEW w \in Workers, SaveFails(w) PROVE IInv'
<1>1. KnowInv' /\ req' \in [Workers -> Requests]
  BY StartGoesOn DEF SaveFails, At, external
<1> QED  BY <1>1, Quiet DEF SaveFails, external

LEMMA SaveKeeps == ASSUME IInv, NEW w \in Workers, Save(w) PROVE IInv'
<1> DEFINE s == req[w].session
           new == [owner |-> req[w].user, profile |-> req[w].profile, attached |-> None]
<1>1. /\ End(w) /\ req[w].pc = "save"
      /\ UNCHANGED <<attaches, sessions, grants, orphans, restarts>>
  BY DEF Save, external, At
<1>2. Moves(w) /\ req'[w].pc = "idle"  BY <1>1, Ended DEF IInv
<1>3. WorkerInv(w)  BY DEF IInv
<1>4. /\ req[w].user \in Users /\ req[w].profile \in Profiles
      /\ s \in SessionIds /\ s \notin DOMAIN store /\ attaches[s] = <<>>
      /\ sessions[s].state # "none"
      /\ sessions[s].by = req[w].user /\ sessions[s].profile = req[w].profile
  BY <1>1, <1>3 DEF WorkerInv, Starting
<1>5. /\ DOMAIN store' = DOMAIN store \cup {s} /\ store'[s] = new
      /\ \A t \in DOMAIN store : store'[t] = store[t]
  BY <1>4 DEF Save
<1>6. new \in Records /\ new.owner = req[w].user /\ new.profile = req[w].profile
      /\ new.attached = None
  BY <1>4 DEF Records
<1> HIDE DEF s, new
<1>7. Evolves  BY <1>1, Unevolved
<1>8. ASSUME NEW v \in Workers PROVE WorkerInv(v)'
  <2>1. CASE v = w  BY <1>2, <2>1 DEF WorkerInv, Starting, Claiming
  <2>2. CASE v # w
    <3>1. req'[v] = req[v] /\ WorkerInv(v)  BY <2>2, <1>2 DEF Moves, IInv
    <3>2. req[v].pc \in Starting => req[v].session # s
      BY <1>1, <2>2 DEF IInv, AloneInv, Starting, s
    <3> QED  BY <1>1, <1>5, <1>7, <3>1, <3>2, WorkerKept DEF WorkerInv, Claiming
  <2> QED  BY <2>1, <2>2
<1>9. AloneInv'  BY <1>2 DEF IInv, AloneInv, Moves, Starting
<1>10. ASSUME NEW t \in SessionIds PROVE EachInv(t)'
  <2>1. EachInv(t)  BY DEF IInv
  <2>2. CASE t = s
    BY <2>1, <2>2, <1>1, <1>4, <1>5, <1>6 DEF EachInv, SessionInv, RecordInv, LostInv, AccountedInv
  <2>3. CASE t # s
    <3>1. t \in DOMAIN store' <=> t \in DOMAIN store  BY <1>5, <2>3
    <3>2. SessionInv(t)' /\ LostInv(t)'  BY <2>1, <3>1, <1>1 DEF EachInv, SessionInv, LostInv
    <3>3. RecordInv(t)'
      BY <2>1, <3>1, <1>1, <1>5 DEF EachInv, RecordInv, Verified, Made, Fits, AssetOf
    <3>4. AccountedInv(t)'
      BY <2>1, <2>3, <3>1, <1>1, <1>2, <1>5 DEF EachInv, AccountedInv, Moves, Starting, s
    <3> QED  BY <3>2, <3>3, <3>4 DEF EachInv
  <2> QED  BY <2>2, <2>3
<1>11. TypeOK'
  BY <1>1, <1>2, <1>4, <1>5, <1>6 DEF IInv, TypeOK, Moves
<1> QED  BY <1>1, <1>8, <1>9, <1>10, <1>11 DEF IInv, GrantsInv

-----------------------------------------------------------------------------
(* Sessions that are closed, by the service or by others. *)

\* Session s is finalized or aborted, and others stay.
Closes(s) ==
    /\ sessions' \in [SessionIds -> Sessions]
    /\ sessions[s].state # "none" /\ sessions'[s].state \notin {"none", "open"}
    /\ sessions'[s].by = sessions[s].by /\ sessions'[s].profile = sessions[s].profile
    /\ sessions[s].blob # None => sessions'[s].blob = sessions[s].blob
                                    /\ sessions'[s].tagged = sessions[s].tagged
    /\ sessions'[s].state = "finalized" => sessions'[s].blob # None
    /\ \A t \in SessionIds \ {s} : sessions'[t] = sessions[t]

LEMMA ClosesKeep ==
    ASSUME IInv, NEW s \in SessionIds, Closes(s), UNCHANGED <<store, attaches, grants>>
    PROVE  /\ Evolves /\ GrantsInv'
           /\ \A t \in SessionIds : SessionInv(t)' /\ RecordInv(t)'
           /\ \A t \in SessionIds : sessions'[t].state = "open" => sessions[t].state = "open"
<1>1. Evolves  BY DEF Closes, Evolves
<1>2. GrantsInv'  BY <1>1 DEF IInv, GrantsInv, Evolves, TypeOK
<1>3. \A t \in SessionIds : sessions'[t].state = "open" => sessions[t].state = "open"
  BY DEF Closes
<1>4. ASSUME NEW t \in SessionIds PROVE SessionInv(t)' /\ RecordInv(t)'
  <2>1. SessionInv(t)  BY DEF IInv, EachInv
  <2> QED  BY <1>1, <2>1, RecordKept DEF SessionInv, Closes
<1> QED  BY <1>1, <1>2, <1>3, <1>4

\* Aborted: by the request that started it, or given up.
LEMMA AbortCloses ==
    ASSUME IInv, NEW s \in SessionIds, Abort(s), sessions[s].state # "none"
    PROVE  Closes(s)
<1>1. sessions \in [SessionIds -> Sessions]  BY DEF IInv, TypeOK
<1>2. sessions[s] \in Sessions  BY <1>1
<1> DEFINE x == [sessions[s] EXCEPT !.state = "aborted"]
<1>3. /\ x \in Sessions /\ x.state = "aborted" /\ x.by = sessions[s].by
      /\ x.profile = sessions[s].profile /\ x.blob = sessions[s].blob
      /\ x.tagged = sessions[s].tagged
  BY <1>2 DEF Sessions
<1>4. sessions' = [sessions EXCEPT ![s] = x]  BY DEF Abort
<1> HIDE DEF x
<1> QED  BY <1>1, <1>3, <1>4 DEF Closes

\* The other steps of the browsers.
LEMMA OutsideKeeps ==
    ASSUME IInv, NEW s \in SessionIds, Closes(s),
           UNCHANGED <<req, store, attaches, grants, orphans, restarts>>
    PROVE  IInv'
<1>1. \A w \in Workers : WorkerInv(w)'
  <2> SUFFICES ASSUME NEW w \in Workers PROVE WorkerInv(w)'
    OBVIOUS
  <2>1. WorkerInv(w) /\ Evolves  BY ClosesKeep DEF IInv
  <2> QED  BY <2>1, WorkerKept DEF WorkerInv
<1>2. AloneInv'  BY DEF IInv, AloneInv
<1>3. ASSUME NEW t \in SessionIds PROVE EachInv(t)'
  <2>1. EachInv(t)  BY DEF IInv
  <2>2. AccountedInv(t)'  BY <2>1, ClosesKeep DEF EachInv, AccountedInv
  <2> QED  BY <2>1, <2>2, ClosesKeep DEF EachInv, LostInv
<1> QED  BY <1>1, <1>2, <1>3, ClosesKeep DEF IInv, TypeOK, Closes

LEMMA FinalizeKeeps ==
    ASSUME IInv, NEW s \in SessionIds, NEW c \in Contents, Finalize(s, c)
    PROVE  IInv'
<1>1. sessions \in [SessionIds -> Sessions] /\ SessionInv(s)  BY DEF IInv, EachInv, TypeOK
<1>2. sessions[s] \in Sessions  BY <1>1
<1>3. PICK tagged \in BOOLEAN :
          sessions' = [sessions EXCEPT ![s].state = "finalized", ![s].blob = c,
                                       ![s].tagged = tagged]
  BY DEF Finalize
<1> DEFINE x == [sessions[s] EXCEPT !.state = "finalized", !.blob = c, !.tagged = tagged]
<1>4. /\ x \in Sessions /\ x.state = "finalized" /\ x.by = sessions[s].by
      /\ x.profile = sessions[s].profile /\ x.blob # None
  BY <1>2, UploadConstants DEF Sessions
<1>5. sessions' = [sessions EXCEPT ![s] = x]  BY <1>3
<1> HIDE DEF x
<1>6. Closes(s)  BY <1>1, <1>4, <1>5 DEF Closes, SessionInv, Finalize
<1> QED  BY <1>6, OutsideKeeps DEF Finalize

LEMMA GiveUpKeeps == ASSUME IInv, NEW s \in SessionIds, GiveUp(s) PROVE IInv'
BY AbortCloses, OutsideKeeps DEF GiveUp

LEMMA AbortQuietlyKeeps == ASSUME IInv, NEW w \in Workers, AbortQuietly(w) PROVE IInv'
<1> DEFINE s == req[w].session
<1>1. /\ End(w) /\ req[w].pc = "abort"
      /\ store' = store /\ attaches' = attaches /\ grants' = grants /\ restarts' = restarts
  BY DEF AbortQuietly, At
<1>2. Moves(w) /\ req'[w].pc = "idle"  BY <1>1, Ended DEF IInv
<1>3. WorkerInv(w)  BY DEF IInv
<1>4. s \in SessionIds /\ sessions[s].state # "none"
  BY <1>1, <1>3 DEF WorkerInv, Starting
<1>5. \/ Closes(s) /\ orphans' = orphans
      \/ orphans' = orphans \cup {s} /\ sessions' = sessions
  BY <1>4, AbortCloses DEF AbortQuietly
<1> HIDE DEF s
<1>6. /\ Evolves /\ GrantsInv' /\ sessions' \in [SessionIds -> Sessions]
      /\ \A t \in SessionIds : SessionInv(t)' /\ RecordInv(t)'
  <2>1. CASE Closes(s)  BY <1>1, <1>4, <2>1, ClosesKeep DEF Closes
  <2>2. CASE sessions' = sessions
    <3>1. GrantsInv' /\ sessions' \in [SessionIds -> Sessions]
      BY <1>1, <2>2 DEF IInv, GrantsInv, TypeOK
    <3>2. \A t \in SessionIds : SessionInv(t)'
      BY <1>1, <2>2 DEF IInv, EachInv, SessionInv
    <3> QED  BY <1>1, <2>2, <3>1, <3>2, Unevolved, RecordKept
  <2> QED  BY <1>5, <2>1, <2>2
<1>7. ASSUME NEW v \in Workers PROVE WorkerInv(v)'
  <2>1. CASE v = w  BY <1>2, <2>1 DEF WorkerInv, Starting, Claiming
  <2>2. CASE v # w
    <3>1. req'[v] = req[v] /\ WorkerInv(v)  BY <2>2, <1>2 DEF Moves, IInv
    <3> QED  BY <1>1, <1>6, <3>1, WorkerKept DEF WorkerInv
  <2> QED  BY <2>1, <2>2
<1>8. AloneInv'  BY <1>2 DEF IInv, AloneInv, Moves, Starting
<1>9. ASSUME NEW t \in SessionIds PROVE EachInv(t)'
  <2>1. EachInv(t)  BY DEF IInv
  <2>2. LostInv(t)'  BY <2>1, <1>1, <1>5 DEF EachInv, LostInv
  <2>3. AccountedInv(t)'
    <3>1. CASE t = s
      BY <2>1, <3>1, <1>1, <1>2, <1>5 DEF EachInv, AccountedInv, Moves, Closes
    <3>2. CASE t # s
      <4>1. sessions'[t] = sessions[t] /\ (t \in orphans' <=> t \in orphans)
        BY <1>5, <3>2 DEF Closes
      <4> QED  BY <2>1, <3>2, <4>1, <1>1, <1>2 DEF EachInv, AccountedInv, Moves, s
    <3> QED  BY <3>1, <3>2
  <2> QED  BY <1>6, <2>2, <2>3 DEF EachInv
<1>10. orphans' \subseteq SessionIds  BY <1>4, <1>5 DEF IInv, TypeOK
<1> QED  BY <1>1, <1>2, <1>6, <1>7, <1>8, <1>9, <1>10 DEF IInv, TypeOK, Moves

-----------------------------------------------------------------------------
(* refresh_grant, attach_upload and claim_upload. *)

LEMMA RefreshKeeps ==
    ASSUME IInv, NEW w \in Workers, NEW u \in Users, NEW s \in SessionIds, Refresh(w, u, s)
    PROVE  IInv'
<1>1. Moves(w) /\ req'[w].pc = "refresh" /\ req'[w].user = u /\ req'[w].session = s
  BY Begun DEF Refresh, IInv, Pcs
<1>2. sessions[s].state # "none" /\ sessions[s].by = u
  BY DEF IInv, EachInv, SessionInv, RecordInv, Refresh
<1>3. sessions' = sessions /\ UNCHANGED <<store, attaches, grants, orphans, restarts>>
  BY DEF Refresh, external
<1>4. WorkerInv(w)'  BY <1>1, <1>2, <1>3 DEF WorkerInv, Starting, Claiming
<1> QED  BY <1>1, <1>3, <1>4, ToQuiet DEF Refresh, At, Starting

LEMMA RefreshedKeeps == ASSUME IInv, NEW w \in Workers, Refreshed(w) PROVE IInv'
<1>1. /\ req[w].pc = "refresh" /\ End(w) /\ grants' = grants \cup {GrantFor(w)}
      /\ UNCHANGED <<store, attaches, sessions, orphans, restarts>>
  BY DEF Refreshed, At
<1>2. Moves(w) /\ req'[w].pc = "idle"  BY <1>1, Ended DEF IInv
<1>3. WorkerInv(w)'  BY <1>2 DEF WorkerInv, Starting, Claiming
<1>4. KnowInv'  BY <1>1, <1>2, <1>3, MovesOn DEF Starting
<1>5. GrantsInv' /\ grants' \subseteq [session: SessionIds, subject: Users]
  BY <1>1, GrantKeeps
<1> QED  BY <1>1, <1>2, <1>4, <1>5 DEF IInv, KnowInv, TypeOK, Moves

LEMMA AttachKeeps ==
    ASSUME IInv, NEW w \in Workers, NEW u \in Users, NEW s \in SessionIds,
           NEW p \in Profiles, NEW a \in SessionIds, Attach(w, u, s, p, a)
    PROVE  IInv'
<1>1. /\ Moves(w) /\ req'[w].pc = "session" /\ req'[w].user = u /\ req'[w].profile = p
      /\ req'[w].session = s /\ req'[w].asset = a
  BY Begun DEF Attach, IInv, Pcs
<1>2. /\ s \in DOMAIN store /\ store[s].owner = u /\ store[s].profile = p /\ req[w].pc = "idle"
      /\ UNCHANGED <<store, attaches, sessions, grants, orphans, restarts>>
  BY DEF Attach, At, external
<1>3. WorkerInv(w)'  BY <1>1, <1>2 DEF WorkerInv, Starting, Claiming
<1> QED  BY <1>1, <1>2, <1>3, ToQuiet DEF Starting

LEMMA SessionReadKeeps == ASSUME IInv, NEW w \in Workers, SessionRead(w) PROVE IInv'
<1>1. /\ req[w].pc = "session"
      /\ UNCHANGED <<store, attaches, sessions, grants, orphans, restarts>>
  BY DEF SessionRead, At, external
<1>2. CASE End(w)  BY <1>1, <1>2, EndsQuietly DEF Starting
<1>3. CASE sessions[req[w].session].state = "finalized" /\ ~End(w)
  <2> DEFINE blob == sessions[req[w].session].blob
             r == [req[w] EXCEPT !.pc = "asset", !.blob = blob]
  <2>1. WorkerInv(w) /\ req[w] \in Requests /\ sessions \in [SessionIds -> Sessions]
    BY DEF IInv, TypeOK
  <2>2. /\ req[w].asset \in SessionIds /\ req[w].session \in DOMAIN store
        /\ store[req[w].session].owner = req[w].user
        /\ store[req[w].session].profile = req[w].profile
        /\ req[w].session \in SessionIds
    BY <1>1, <2>1 DEF WorkerInv, Claiming, IInv, TypeOK
  <2>3. blob \in Contents \cup {None}  BY <2>1, <2>2 DEF Sessions
  <2>4. /\ r \in Requests /\ r.pc = "asset" /\ r.blob = blob /\ r.session = req[w].session
        /\ r.asset = req[w].asset /\ r.user = req[w].user /\ r.profile = req[w].profile
    BY <2>1, <2>3 DEF Requests, Pcs
  <2>5. req' = [req EXCEPT ![w] = r]  BY <1>3 DEF SessionRead
  <2> HIDE DEF r
  <2>6. Moves(w) /\ req'[w] = r  BY <2>4, <2>5, Replaced DEF IInv
  <2>7. Made(req[w].session)
    <3>1. SessionInv(req[w].session)  BY <2>2 DEF IInv, EachInv
    <3> QED  BY <1>3, <3>1 DEF SessionInv, Made
  <2>8. sessions'[req[w].session].blob # None  BY <1>1, <2>7 DEF Made
  <2> HIDE DEF blob
  <2>9. blob = sessions'[req[w].session].blob  BY <1>1 DEF blob
  <2>10. WorkerInv(w)'
    BY <1>1, <2>2, <2>4, <2>6, <2>8, <2>9 DEF WorkerInv, Starting, Claiming, Made
  <2> QED  BY <1>1, <2>4, <2>6, <2>10, ToQuiet DEF Starting
<1> QED  BY <1>2, <1>3 DEF SessionRead

LEMMA AssetReadKeeps == ASSUME IInv, NEW w \in Workers, AssetRead(w) PROVE IInv'
<1>1. /\ req[w].pc = "asset"
      /\ UNCHANGED <<store, attaches, sessions, grants, orphans, restarts>>
  BY DEF AssetRead, At, external
<1>2. CASE End(w)  BY <1>1, <1>2, EndsQuietly DEF Starting
<1>3. CASE FromSession(w) /\ Fits(req[w].asset, req[w].profile) /\ Goto(w, "mark")
  <2>1. /\ Moves(w) /\ req'[w].pc = "mark"
        /\ req'[w].user = req[w].user /\ req'[w].profile = req[w].profile
        /\ req'[w].session = req[w].session /\ req'[w].asset = req[w].asset
    BY <1>3, Went DEF IInv, Pcs
  <2>2. WorkerInv(w)  BY DEF IInv
  <2>3. Verified(req[w].session, req[w].asset, req[w].profile)
    BY <1>1, <1>3, <2>2 DEF AssetRead, FromSession, WorkerInv, Verified
  <2>4. /\ req[w].asset \in SessionIds /\ req[w].session \in SessionIds
    BY <1>1, <2>2 DEF WorkerInv, Claiming, IInv, TypeOK
  <2>5. Verified(req[w].session, req[w].asset, req[w].profile)'
    <3>1. Verified(req[w].session, req[w].asset, req'[w].profile)
      BY <2>1, <2>3
    <3> QED  BY <1>1, <2>1, <2>3, <2>4 DEF Verified, Made, Fits, AssetOf
  <2>6. WorkerInv(w)'
    BY <1>1, <2>1, <2>2, <2>5 DEF WorkerInv, Starting, Claiming
  <2> QED  BY <1>1, <2>1, <2>6, ToQuiet DEF Starting
<1> QED  BY <1>2, <1>3 DEF AssetRead

LEMMA CallFailsKeeps == ASSUME IInv, NEW w \in Workers, CallFails(w) PROVE IInv'
BY EndsQuietly DEF CallFails, Starting, external

\* The first claim: the record says attached, and on_attach is next.
LEMMA FirstClaimKeeps ==
    ASSUME IInv, NEW w \in Workers, MarkAttached(w), store[req[w].session].attached = None
    PROVE  IInv'
<1>1. WorkerInv(w) /\ req[w].pc = "mark" /\ DOMAIN store \subseteq SessionIds
  BY DEF MarkAttached, At, IInv, TypeOK
<1>a. PICK s \in SessionIds, a \in SessionIds : s = req[w].session /\ a = req[w].asset
  BY <1>1 DEF WorkerInv, Claiming
<1>b. PICK p, r : p = store[s].profile /\ r = [store[s] EXCEPT !.attached = a]
  OBVIOUS
<1>2. /\ s = req[w].session /\ a = req[w].asset /\ p = store[s].profile
      /\ r = [store[s] EXCEPT !.attached = a]
  BY <1>a, <1>b
<1>3. /\ Goto(w, "attach") /\ store' = [store EXCEPT ![s] = r]
      /\ attaches' = attaches /\ sessions' = sessions /\ grants' = grants
      /\ orphans' = orphans /\ restarts' = restarts /\ store[s].attached = None
  BY <1>2 DEF MarkAttached, external
<1>4. /\ Moves(w) /\ req'[w].pc = "attach"
      /\ req'[w].user = req[w].user /\ req'[w].profile = req[w].profile
      /\ req'[w].session = s /\ req'[w].asset = a
  BY <1>2, <1>3, Went DEF IInv, Pcs
<1>5. /\ s \in DOMAIN store /\ store[s] \in Records
      /\ store[s].owner = req[w].user /\ p = req[w].profile /\ Verified(s, a, p)
  BY <1>1, <1>2 DEF WorkerInv, Claiming, IInv, TypeOK
<1>6. /\ r \in Records /\ r.attached = a /\ r.owner = store[s].owner /\ r.profile = p
  BY <1>2, <1>5 DEF Records
<1>7. /\ DOMAIN store' = DOMAIN store /\ store'[s] = r
      /\ \A t \in DOMAIN store \ {s} : store'[t] = store[t]
  BY <1>3, <1>5
<1>8. /\ a # None /\ attaches[s] = <<>>
  BY <1>3, <1>5, UploadConstants DEF IInv, EachInv, RecordInv
<1>9. Evolves  BY <1>3, Unevolved
<1>10. \A v \in Workers : req[v].pc = "attach" => req[v].session # s
  <2> SUFFICES ASSUME NEW v \in Workers, req[v].pc = "attach", req[v].session = s
               PROVE  FALSE
    OBVIOUS
  <2>1. WorkerInv(v)  BY DEF IInv
  <2>2. store[s].attached \in SessionIds  BY <2>1 DEF WorkerInv, Claiming
  <2> QED  BY <1>3, <2>2, UploadConstants
<1>11. ASSUME NEW v \in Workers PROVE WorkerInv(v)'
  <2>1. CASE v = w
    BY <1>3, <1>4, <1>5, <1>6, <1>7, <1>8, <2>1 DEF WorkerInv, Starting, Claiming
  <2>2. CASE v # w
    <3>1. req'[v] = req[v] /\ WorkerInv(v)  BY <2>2, <1>4 DEF Moves, IInv
    <3>2. req[v].pc \in Claiming =>
              /\ store'[req[v].session].owner = store[req[v].session].owner
              /\ store'[req[v].session].profile = store[req[v].session].profile
      BY <1>2, <1>6, <1>7, <3>1 DEF WorkerInv
    <3>3. req[v].pc = "attach" =>
              store'[req[v].session].attached = store[req[v].session].attached
      BY <1>7, <1>10, <3>1 DEF WorkerInv, Claiming
    <3> QED  BY <1>3, <1>7, <1>9, <3>1, <3>2, <3>3, WorkerKept DEF WorkerInv
  <2> QED  BY <2>1, <2>2
<1>12. AloneInv'
  <2>1. \A v \in Workers \ {w} :
            req'[v] = req[v] /\ (req[v].pc = "attach" => req[v].session # s)
    BY <1>4, <1>10 DEF Moves
  <2> QED  BY <1>4, <2>1 DEF IInv, AloneInv, Starting
<1>13. ASSUME NEW t \in SessionIds PROVE EachInv(t)'
  <2>1. EachInv(t)  BY DEF IInv
  <2>2. SessionInv(t)' /\ LostInv(t)'
    BY <2>1, <1>3, <1>7 DEF EachInv, SessionInv, LostInv
  <2>3. CASE t = s
    <3>1. Verified(s, a, p)'
      BY <1>5, <1>9, VerifiedKept
    <3>2. RecordInv(t)'
      BY <2>1, <2>3, <3>1, <1>2, <1>3, <1>5, <1>6, <1>7, <1>8 DEF EachInv, RecordInv
    <3>3. AccountedInv(t)'
      BY <2>1, <2>3, <1>3, <1>4, <1>5, <1>7 DEF EachInv, AccountedInv, Starting
    <3> QED  BY <2>2, <3>2, <3>3 DEF EachInv
  <2>4. CASE t # s
    <3>1. RecordInv(t)'
      BY <2>1, <2>4, <1>3, <1>7 DEF EachInv, RecordInv, Verified, Made, Fits, AssetOf
    <3>2. AccountedInv(t)'
      BY <2>1, <2>4, <1>1, <1>2, <1>3, <1>4, <1>7 DEF EachInv, AccountedInv, Moves, Starting
    <3> QED  BY <2>2, <3>1, <3>2 DEF EachInv
  <2> QED  BY <2>3, <2>4
<1>14. TypeOK'
  BY <1>3, <1>4, <1>6, <1>7 DEF IInv, TypeOK, Moves
<1> QED  BY <1>3, <1>11, <1>12, <1>13, <1>14 DEF IInv, GrantsInv

LEMMA MarkAttachedKeeps == ASSUME IInv, NEW w \in Workers, MarkAttached(w) PROVE IInv'
<1>1. CASE store[req[w].session].attached = None  BY <1>1, FirstClaimKeeps
<1>2. CASE store[req[w].session].attached # None
  BY <1>2, EndsQuietly DEF MarkAttached, At, Starting, external
<1> QED  BY <1>1, <1>2

\* on_attach was called for the session of the record.
LEMMA OnAttachKeeps == ASSUME IInv, NEW w \in Workers, OnAttach(w) PROVE IInv'
<1>1. WorkerInv(w) /\ req[w].pc = "attach" /\ DOMAIN store \subseteq SessionIds
  BY DEF OnAttach, At, IInv, TypeOK
<1>a. PICK s \in SessionIds, a \in SessionIds : s = req[w].session /\ a = req[w].asset
  BY <1>1 DEF WorkerInv, Claiming
<1>b. PICK u : u = req[w].user
  OBVIOUS
<1>2. /\ s \in DOMAIN store /\ store[s] \in Records /\ store[s].owner = u
      /\ store[s].attached = a /\ attaches[s] = <<>> /\ a # None /\ u \in Users
  BY <1>1, <1>a, <1>b, UploadConstants DEF WorkerInv, Claiming, IInv, TypeOK, Records
<1>3. /\ attaches' = [attaches EXCEPT ![s] = << <<u, a>> >>]
      /\ End(w) /\ store' = store /\ sessions' = sessions /\ grants' = grants
      /\ orphans' = orphans /\ restarts' = restarts
  BY <1>a, <1>b, <1>2 DEF OnAttach, external
<1>4. Moves(w) /\ req'[w].pc = "idle"  BY <1>3, Ended DEF IInv
<1>5. /\ attaches' \in [SessionIds -> Seq(Users \X SessionIds)]
      /\ attaches'[s] = << <<u, a>> >>
      /\ \A t \in SessionIds \ {s} : attaches'[t] = attaches[t]
  <2>1. << <<u, a>> >> \in Seq(Users \X SessionIds)  BY <1>2
  <2> QED  BY <1>3, <2>1 DEF IInv, TypeOK
<1>6. Evolves  BY <1>3, Unevolved
<1>7. ASSUME NEW v \in Workers PROVE WorkerInv(v)'
  <2>1. CASE v = w  BY <1>4, <2>1 DEF WorkerInv, Starting, Claiming
  <2>2. CASE v # w
    <3>1. req'[v] = req[v] /\ WorkerInv(v)  BY <2>2, <1>4 DEF Moves, IInv
    <3>2. req[v].pc \in Starting \cup {"attach"} =>
              req[v].session # s /\ req[v].session \in SessionIds
      BY <1>1, <1>a, <1>2, <2>2, <3>1 DEF IInv, AloneInv, WorkerInv, Starting, Claiming
    <3> QED  BY <1>3, <1>5, <1>6, <3>1, <3>2, WorkerKept DEF WorkerInv
  <2> QED  BY <2>1, <2>2
<1>8. AloneInv'  BY <1>4 DEF IInv, AloneInv, Moves, Starting
<1>9. ASSUME NEW t \in SessionIds PROVE EachInv(t)'
  <2>1. EachInv(t)  BY DEF IInv
  <2>2. CASE t # s
    <3>1. SessionInv(t)' /\ LostInv(t)'
      BY <2>1, <2>2, <1>3, <1>5 DEF EachInv, SessionInv, LostInv
    <3>2. RecordInv(t)'
      BY <2>1, <2>2, <1>3, <1>5 DEF EachInv, RecordInv, Verified, Made, Fits, AssetOf
    <3>3. AccountedInv(t)'
      BY <2>1, <2>2, <1>1, <1>a, <1>3, <1>4, <1>5 DEF EachInv, AccountedInv, Moves, Starting
    <3> QED  BY <3>1, <3>2, <3>3 DEF EachInv
  <2>3. CASE t = s
    <3>1. Verified(s, store[s].attached, store[s].profile)
      BY <2>1, <2>3, <1>2 DEF EachInv, RecordInv
    <3>2. Verified(s, store[s].attached, store[s].profile)'
      BY <1>3, <3>1 DEF Verified, Made, Fits, AssetOf
    <3>3. RecordInv(t)'
      BY <2>1, <2>3, <1>2, <1>3, <1>5, <3>2 DEF EachInv, RecordInv
    <3>4. SessionInv(t)' /\ LostInv(t)' /\ AccountedInv(t)'
      BY <2>1, <2>3, <1>2, <1>3, <1>5 DEF EachInv, SessionInv, RecordInv, LostInv, AccountedInv
    <3> QED  BY <3>3, <3>4 DEF EachInv
  <2> QED  BY <2>2, <2>3
<1> QED  BY <1>3, <1>4, <1>5, <1>7, <1>8, <1>9 DEF IInv, TypeOK, GrantsInv, Moves

-----------------------------------------------------------------------------
(* A restart. *)

LEMMA RestartKeeps == ASSUME IInv, Restart PROVE IInv'
<1>1. /\ restarts < MaxRestarts /\ restarts' = restarts + 1
      /\ req' = [w \in Workers |-> Idle]
      /\ attaches' = attaches /\ sessions' = sessions /\ grants' = grants
      /\ \/ store' = store /\ orphans' = orphans \cup CutOff
         \/ DOMAIN store' = {} /\ orphans' = orphans \cup CutOff \cup DOMAIN store
  BY DEF Restart
<1>2. /\ req' \in [Workers -> Requests]
      /\ \A w \in Workers : req'[w].pc = "idle"
  BY <1>1 DEF Idle, Request, Requests, Pcs
<1>3. CutOff \subseteq SessionIds
  BY DEF CutOff, IInv, TypeOK, WorkerInv, Starting, Claiming
<1>4. TypeOK'
  BY <1>1, <1>2, <1>3, UploadConstants DEF IInv, TypeOK
<1>5. \A w \in Workers : WorkerInv(w)'
  BY <1>2 DEF WorkerInv, Starting, Claiming
<1>6. AloneInv'  BY <1>2 DEF AloneInv, Starting
<1>7. ASSUME NEW s \in SessionIds PROVE EachInv(s)'
  <2>1. EachInv(s)  BY DEF IInv
  <2>2. SessionInv(s)'  BY <2>1, <1>1 DEF EachInv, SessionInv
  <2>3. RecordInv(s)'
    BY <2>1, <1>1 DEF EachInv, RecordInv, Verified, Made, Fits, AssetOf
  <2>4. LostInv(s)'
    BY <2>1, <1>1 DEF EachInv, RecordInv, LostInv
  <2>5. \A w \in Workers :
            req[w].pc \in Starting \cup {"attach"} /\ req[w].session = s => s \in CutOff
    BY DEF CutOff, Starting
  <2>6. AccountedInv(s)'
    BY <2>1, <2>5, <1>1 DEF EachInv, AccountedInv
  <2> QED  BY <2>2, <2>3, <2>4, <2>6 DEF EachInv
<1> QED  BY <1>1, <1>4, <1>5, <1>6, <1>7 DEF IInv, GrantsInv

-----------------------------------------------------------------------------
(* The invariant, and what follows. *)

LEMMA InitIInv == Init => IInv
<1> SUFFICES ASSUME Init PROVE IInv
  OBVIOUS
<1>1. Idle \in Requests /\ Idle.pc = "idle"  BY DEF Idle, Request, Requests, Pcs
<1>2. NoSession \in Sessions /\ NoSession.state = "none" /\ NoSession.blob = None
  BY DEF NoSession, Sessions
<1>3. DOMAIN store = {}  BY DEF Init
<1>4. TypeOK  BY <1>1, <1>2, <1>3, UploadConstants DEF Init, TypeOK
<1>5. \A w \in Workers : WorkerInv(w)
  BY <1>1 DEF Init, WorkerInv, Starting, Claiming
<1>6. AloneInv  BY <1>1 DEF Init, AloneInv, Starting
<1>7. \A s \in SessionIds : EachInv(s)
  BY <1>2, <1>3 DEF Init, EachInv, SessionInv, RecordInv, LostInv, AccountedInv
<1> QED  BY <1>4, <1>5, <1>6, <1>7 DEF IInv, GrantsInv, Init

LEMMA NextIInv == IInv /\ [Next]_vars => IInv'
<1> SUFFICES ASSUME IInv, [Next]_vars PROVE IInv'
  OBVIOUS
<1>1. CASE UNCHANGED vars
  <2>1. KnowInv'
    BY <1>1 DEF vars, IInv, KnowInv, WorkerInv, AloneInv, EachInv, SessionInv, RecordInv, LostInv,
                AccountedInv, Verified, Made, Fits, AssetOf
  <2> QED  BY <1>1, <2>1, Quiet DEF vars, IInv, TypeOK
<1> QED
  BY <1>1, RestartKeeps, StartKeeps, CreatedKeeps, CreateFailsKeeps, GrantedKeeps, SaveKeeps,
     SaveFailsKeeps, AbortQuietlyKeeps, RefreshKeeps, RefreshedKeeps, AttachKeeps,
     SessionReadKeeps, AssetReadKeeps, MarkAttachedKeeps, OnAttachKeeps, CallFailsKeeps,
     FinalizeKeeps, GiveUpKeeps DEF Next

(* For any number of threads, users and sessions, whatever fails or is        *)
(* restarted, the requests, the store and the sessions keep IInv.            *)
THEOREM UploadsInvariance == Spec => []IInv
<1>1. Init => IInv  BY InitIInv
<1>2. IInv /\ [Next]_vars => IInv'  BY NextIInv
<1> QED  BY <1>1, <1>2, PTL DEF Spec

(* claim_upload: however many attach requests run at once, the first to mark  *)
(* the record calls on_attach, and no other does, for its owner.             *)
THEOREM ClaimedOnce == Spec => []AttachedOnce
<1>1. ASSUME IInv PROVE AttachedOnce
  <2> SUFFICES ASSUME NEW s \in SessionIds
               PROVE  /\ Len(attaches[s]) <= 1
                      /\ attaches[s] # <<>> =>
                            \/ /\ s \in DOMAIN store
                               /\ attaches[s] = << <<store[s].owner, store[s].attached>> >>
                            \/ s \in orphans \ DOMAIN store
                      /\ s \in DOMAIN store \ orphans /\ store[s].attached # None =>
                            \/ attaches[s] # <<>>
                            \/ \E w \in Workers : req[w].pc = "attach" /\ req[w].session = s
    BY DEF AttachedOnce
  <2>1. RecordInv(s) /\ LostInv(s) /\ AccountedInv(s)  BY <1>1 DEF IInv, EachInv
  <2>2. Len(attaches[s]) <= 1
    <3>1. CASE attaches[s] = <<>>  BY <3>1
    <3>2. CASE s \in DOMAIN store /\ attaches[s] # <<>>
      <4>1. attaches[s] = << <<store[s].owner, store[s].attached>> >>
        BY <2>1, <3>2 DEF RecordInv
      <4> QED  BY <4>1
    <3>3. CASE s \notin DOMAIN store /\ attaches[s] # <<>>
      <4>1. Len(attaches[s]) = 1  BY <2>1, <3>3, Zenon DEF LostInv
      <4> QED  BY <4>1
    <3> QED  BY <3>1, <3>2, <3>3
  <2>3. attaches[s] # <<>> =>
            \/ s \in DOMAIN store /\ attaches[s] = << <<store[s].owner, store[s].attached>> >>
            \/ s \in orphans \ DOMAIN store
    BY <2>1 DEF RecordInv, LostInv
  <2>4. s \in DOMAIN store \ orphans /\ store[s].attached # None =>
            \/ attaches[s] # <<>>
            \/ \E w \in Workers : req[w].pc = "attach" /\ req[w].session = s
    BY <2>1 DEF AccountedInv
  <2> QED  BY <2>2, <2>3, <2>4
<1> QED  BY <1>1, UploadsInvariance, PTL

(* verify_upload: what a record says attached was made by its session, or has *)
(* its bytes, and is what the profile asks for.                              *)
THEOREM ClaimedIsVerified == Spec => []AttachedIsVerified
<1>1. ASSUME IInv PROVE AttachedIsVerified
  <2> SUFFICES ASSUME NEW s \in DOMAIN store, NEW a, a = store[s].attached, a # None
               PROVE  /\ Made(s) /\ Made(a)
                      /\ a = s \/ (~sessions[a].tagged /\ sessions[a].blob = sessions[s].blob)
                      /\ AssetOf(a).kind = store[s].profile.kind
                      /\ AssetOf(a).visibility = store[s].profile.visibility
                      /\ sessions[a].blob.mime \notin Malformed
                      /\ \A types \in store[s].profile.allowed :
                            types \cap {sessions[a].blob.mime, AnyType} # {}
                      /\ \A hi \in store[s].profile.maxSize : sessions[a].blob.size <= hi
                      /\ \A lo \in store[s].profile.minSize : lo <= sessions[a].blob.size
    BY DEF AttachedIsVerified
  <2>1. Verified(s, a, store[s].profile)
    BY <1>1 DEF IInv, EachInv, RecordInv, TypeOK
  <2>2. Fits(a, store[s].profile)  BY <2>1 DEF Verified
  <2>3. AssetOf(a).mime = sessions[a].blob.mime /\ AssetOf(a).size = sessions[a].blob.size
    BY DEF AssetOf
  <2>4. /\ ValidAsset(store[s].profile, AssetOf(a))
        /\ AssetOf(a).visibility = store[s].profile.visibility
    BY <2>2 DEF Fits
  <2>5. /\ AssetOf(a).kind = store[s].profile.kind
        /\ TypeAllowed(store[s].profile, sessions[a].blob.mime)
        /\ SizeAllowed(store[s].profile, sessions[a].blob.size)
    BY <2>3, <2>4 DEF ValidAsset
  <2>6. /\ \A hi \in store[s].profile.maxSize : sessions[a].blob.size <= hi
        /\ \A lo \in store[s].profile.minSize : lo <= sessions[a].blob.size
    BY <2>5 DEF SizeAllowed
  <2>7. /\ sessions[a].blob.mime \notin Malformed
        /\ \A types \in store[s].profile.allowed :
              types \cap {sessions[a].blob.mime, AnyType} # {}
    BY <2>5 DEF TypeAllowed
  <2> QED  BY <2>1, <2>4, <2>5, <2>6, <2>7 DEF Verified
<1> QED  BY <1>1, UploadsInvariance, PTL

(* start_upload: a session is recorded, or closed by the request that fails,  *)
(* unless the media library did not answer it or the service was restarted.  *)
THEOREM StartedIsRecorded == Spec => []RecordedOrClosed
<1>1. IInv => RecordedOrClosed
  BY DEF IInv, EachInv, AccountedInv, RecordedOrClosed, Starting
<1> QED  BY <1>1, UploadsInvariance, PTL

(* start_upload and refresh_grant: only the user who started a session gets   *)
(* grants for it.                                                            *)
THEOREM StarterGetsGrants == Spec => []GrantsForTheStarter
<1>1. IInv => GrantsForTheStarter  BY DEF IInv, GrantsInv, GrantsForTheStarter
<1> QED  BY <1>1, UploadsInvariance, PTL
=============================================================================
