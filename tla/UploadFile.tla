----------------------------- MODULE UploadFile ------------------------------
(***************************************************************************)
(* pkg_media.uploads.UploadsAPI.upload_file against one upload session of  *)
(* the media library: create, the parts in order, finalize, and after a    *)
(* failure the best-effort abort.                                          *)
(*                                                                         *)
(* The client waits for one request at a time.  A request may fail before  *)
(* or after the server carried it out, and the server may still carry it   *)
(* out after the client has given it up (a finalize that outlasts the      *)
(* client's timeout).                                                      *)
(***************************************************************************)
EXTENDS Integers, FiniteSets, FiniteSetsExt

CONSTANTS
    Sizes,            \* file sizes, in bytes
    ServerPartSize,   \* the part size the server returns
    CustomPartSizes   \* what callers pass as part_size_bytes; 0 is None

ASSUME UploadConstants ==
    /\ Sizes \subseteq Nat
    /\ ServerPartSize \in Nat \ {0}
    /\ CustomPartSizes \subseteq Nat

VARIABLES
    up,        \* the call of upload_file
    answer,    \* to the request the client waits for
    session,   \* external: the upload session on the server
    received,  \* external: the parts the server has
    wire,      \* external: requests on their way
    unclean    \* ghost: a request of the clean-up failed

vars == <<up, answer, session, received, wire, unclean>>

Waiting == {"create", "part", "finalize", "check", "abort"}
Ends == {"returned", "raised", "cancelled"}
Open == {"initiated", "in_progress"}
States == Open \cup {"none", "finalized", "failed", "expired", "aborted"}

MaxSize == Max(Sizes)
Parts == [n: 1..MaxSize, from: 0..MaxSize, len: 1..MaxSize]
Requests == [op: Waiting \ {"part"}] \cup [op: {"part"}, part: Parts]

TypeOK ==
    /\ up \in [pc: Waiting \cup Ends \cup {"new"}, size: Sizes,
               partSize: Nat, n: 0..MaxSize + 1, offset: 0..MaxSize,
               left: 0..MaxSize]
    /\ answer \in {"none", "ok", "error"} \cup States
    /\ session \in [state: States, blob: {"none", "stored", "deleted"},
                    partsExpected: Nat \cup {-1}, late: BOOLEAN]
    /\ received \subseteq Parts
    /\ wire \subseteq Requests
    /\ unclean \in BOOLEAN

\* The size is known before anything is sent, but the source may turn out to
\* hold less.
Init ==
    /\ \E size \in Sizes, p \in CustomPartSizes, left \in 0..MaxSize :
          /\ left <= size
          /\ up = [pc |-> "new", size |-> size, partSize |-> p,
                   n |-> 0, offset |-> 0, left |-> left]
    /\ answer = "none"
    /\ session = [state |-> "none", blob |-> "none", partsExpected |-> -1,
                  late |-> FALSE]
    /\ received = {}
    /\ wire = {}
    /\ unclean = FALSE

-----------------------------------------------------------------------------
(* The client. *)

Smaller(a, b) == IF a < b THEN a ELSE b

\* Faulty variant: rounded down.
TotalPartsFloor(size, p) == size \div p

\* -(-size // part_size): rounded up, none for an empty file.
TotalParts(size, p) == (size + p - 1) \div p

\* A request nobody waits for any more is lost, or carried out late.
Abandoned == wire' \in {{}, wire}

\* Waits for the answer to request r.
Sends(r, u) ==
    /\ up' = [u EXCEPT !.pc = r.op]
    /\ wire' = wire \cup {r}
    /\ answer' = "none"

Ask(op) == [op |-> op]

Raises(u) ==
    /\ up' = [u EXCEPT !.pc = "raised"]
    /\ answer' = "none"
    /\ UNCHANGED wire

\* Faulty variant: a chunk shorter than asked for is not noticed.
ContinueUnread(u) ==
    IF u.n > TotalParts(u.size, u.partSize)
      THEN Sends(Ask("finalize"), u)
      ELSE LET read == Smaller(u.left, Smaller(u.partSize, u.size - u.offset))
           IN  Sends([op |-> "part", part |-> [n |-> u.n, from |-> u.offset, len |-> read]],
                     [u EXCEPT !.left = @ - read])

\* The rest of the loop from part u.n on, up to the next await: the chunk is
\* read and sent; a source that ends early fails the upload, and after the
\* last part the session is finalized.
Continue(u) ==
    IF u.n > TotalParts(u.size, u.partSize)
      THEN Sends(Ask("finalize"), u)
      ELSE LET expected == Smaller(u.partSize, u.size - u.offset)
           IN  IF u.left < expected
                 THEN Sends(Ask("abort"), u)
                 ELSE Sends([op |-> "part",
                             part |-> [n |-> u.n, from |-> u.offset, len |-> expected]],
                            [u EXCEPT !.left = @ - expected])

\* upload_file called: the profile accepts the file (or nothing is sent).
Upload ==
    /\ up.pc = "new"
    /\ Sends(Ask("create"), up)
    /\ UNCHANGED <<session, received, unclean>>

Answered(op) == up.pc = op /\ answer \notin {"none", "error"}

\* Faulty variant: the parts the session accepts are not counted.
CreatedUnchecked ==
    /\ Answered("create")
    /\ Continue([up EXCEPT !.n = 1, !.partSize = IF @ # 0 THEN @ ELSE ServerPartSize])
    /\ UNCHANGED <<session, received, unclean>>

\* The session is there; a part size that needs more parts than it accepts
\* fails the upload.
Created ==
    /\ Answered("create")
    /\ LET u == [up EXCEPT !.n = 1,
                           !.partSize = IF @ # 0 THEN @ ELSE ServerPartSize]
       IN  IF session.partsExpected # -1
                /\ TotalParts(u.size, u.partSize) > session.partsExpected
             THEN Sends(Ask("abort"), u)
             ELSE Continue(u)
    /\ UNCHANGED <<session, received, unclean>>

PartDone ==
    /\ Answered("part")
    /\ Continue([up EXCEPT !.n = @ + 1,
                           !.offset = @ + Smaller(up.partSize, up.size - @)])
    /\ UNCHANGED <<session, received, unclean>>

Finalized ==
    /\ Answered("finalize")
    /\ up' = [up EXCEPT !.pc = "returned"]
    /\ answer' = "none"
    /\ UNCHANGED <<session, received, wire, unclean>>

\* Faulty variants: an upload that could not be finalized is aborted at once;
\* one that failed before is not aborted; a failed abort is repeated.
FailedAborting ==
    /\ up.pc \in Waiting /\ answer = "error"
    /\ IF up.pc \in {"part", "finalize"} THEN Sends(Ask("abort"), up) ELSE Raises(up)
    /\ unclean' = (unclean \/ up.pc \in {"check", "abort"})
    /\ UNCHANGED <<session, received>>

FailedLeaving ==
    /\ up.pc \in Waiting /\ answer = "error"
    /\ IF up.pc = "finalize" THEN Sends(Ask("check"), up) ELSE Raises(up)
    /\ unclean' = (unclean \/ up.pc \in {"check", "abort"})
    /\ UNCHANGED <<session, received>>

FailedInsisting ==
    /\ up.pc \in Waiting /\ answer = "error"
    /\ \/ up.pc \in {"part", "abort"} /\ Sends(Ask("abort"), up)
       \/ up.pc = "finalize" /\ Sends(Ask("check"), up)
       \/ up.pc \in {"create", "check"} /\ Raises(up)
    /\ unclean' = (unclean \/ up.pc \in {"check", "abort"})
    /\ UNCHANGED <<session, received>>

\* The request failed.  Without a session the error is raised; a part's error
\* is followed by an abort, finalize's by a look at the session first; a
\* clean-up that fails is given up.
Failed ==
    /\ up.pc \in Waiting /\ answer = "error"
    /\ \/ up.pc = "part" /\ Sends(Ask("abort"), up)
       \/ up.pc = "finalize" /\ Sends(Ask("check"), up)
       \/ up.pc \in {"create", "check", "abort"} /\ Raises(up)
    /\ unclean' = (unclean \/ up.pc \in {"check", "abort"})
    /\ UNCHANGED <<session, received>>

\* _abort_quietly with check_finalized: get_session decides.
Checked ==
    /\ Answered("check")
    /\ IF answer = "finalized" THEN Raises(up) ELSE Sends(Ask("abort"), up)
    /\ UNCHANGED <<session, received, unclean>>

Aborted ==
    /\ Answered("abort")
    /\ Raises(up)
    /\ UNCHANGED <<session, received, unclean>>

\* The task is cancelled at an await: CancelledError is not an Exception, so
\* no except clause runs.
Cancel ==
    /\ up.pc \in Waiting
    /\ up' = [up EXCEPT !.pc = "cancelled"]
    /\ answer' = "none"
    /\ Abandoned
    /\ UNCHANGED <<session, received, unclean>>

-----------------------------------------------------------------------------
(* The network and the server. *)

\* External: answers reach only a client that still waits for them.
Reply(r, a) == answer' = IF up.pc = r.op /\ answer = "none" THEN a ELSE answer

\* The client has looked at the session, or is not going to any more.
LookedAt ==
    \/ up.pc = "check" /\ answer # "none"
    \/ up.pc \in {"abort"} \cup Ends

\* External: what carrying out r does to an open session, and the answer.
Carry(r) ==
    \/ /\ r.op = "create" /\ session.state = "none"
       /\ \E e \in {-1, TotalParts(up.size, ServerPartSize)} :
             session' = [session EXCEPT !.state = "initiated", !.partsExpected = e]
       /\ Reply(r, "ok") /\ UNCHANGED received
    \/ /\ r.op = "part" /\ session.state \in Open
       /\ received' = received \cup {r.part}
       /\ session' = [session EXCEPT !.state = "in_progress"]
       /\ Reply(r, "ok")
    \/ /\ r.op = "finalize" /\ session.state \in Open
       /\ session' = [session EXCEPT !.state = "finalized", !.blob = "stored",
                                     !.late = LookedAt]
       /\ Reply(r, "ok") /\ UNCHANGED received
    \/ /\ r.op = "finalize" /\ session.state \in Open
       /\ \E s \in {session.state, "failed"} : session' = [session EXCEPT !.state = s]
       /\ Reply(r, "error") /\ UNCHANGED received
    \/ /\ r.op = "check" /\ session.state # "none"
       /\ Reply(r, session.state) /\ UNCHANGED <<session, received>>
    \/ /\ r.op = "abort" /\ session.state # "none"
       /\ session' = [session EXCEPT !.state = "aborted",
                                     !.blob = IF @ = "stored" THEN "deleted" ELSE @]
       /\ Reply(r, "ok") /\ UNCHANGED received

\* External: the server carries a request out, or refuses it.
Serve ==
    /\ \E r \in wire :
          /\ wire' = wire \ {r}
          /\ \/ Carry(r)
             \/ Reply(r, "error") /\ UNCHANGED <<session, received>>
    /\ UNCHANGED <<up, unclean>>

\* External: the client gets no answer, whether or not the server answered
\* or still will.
Break ==
    /\ up.pc \in Waiting /\ answer # "error"
    /\ answer' = "error"
    /\ Abandoned
    /\ UNCHANGED <<up, session, received, unclean>>

\* External: the server gives up a session.
Expire ==
    /\ session.state \in Open
    /\ session' = [session EXCEPT !.state = "expired"]
    /\ UNCHANGED <<up, answer, received, wire, unclean>>

ClientStep ==
    Upload \/ Created \/ PartDone \/ Finalized \/ Failed \/ Checked \/ Aborted

Next ==
    \/ Upload \/ Created \/ PartDone \/ Finalized \/ Failed \/ Checked \/ Aborted
    \/ Cancel
    \/ Serve \/ Break \/ Expire

Spec == Init /\ [][Next]_vars

\* The loop runs the coroutine, and httpx ends every request.
FairSpec == Spec /\ WF_vars(ClientStep) /\ WF_vars(Break)

-----------------------------------------------------------------------------
(* Correctness. *)

(* What is finalized is the file: its parts are numbered from 1 without a    *)
(* gap, each number once, they follow one another in that order without      *)
(* overlapping, and every byte of the size announced is in one of them and   *)
(* none beyond, also when the source ends early or the last part is short.   *)
FinalizedIsWhole ==
    session.state = "finalized" =>
        /\ \A b \in 0..(up.size - 1) : \E p \in received : b \in p.from..(p.from + p.len - 1)
        /\ \A p \in received : 0 <= p.from /\ 0 < p.len /\ p.from + p.len <= up.size
        /\ \A p \in received : p.n > 0 /\ \A k \in 1..p.n : \E q \in received : q.n = k
        /\ \A p, q \in received :
              /\ p.n < q.n => p.from + p.len <= q.from
              /\ p.n = q.n => p = q

(* No part is sent that the session does not accept.                         *)
PartsExpectedKept ==
    session.partsExpected # -1 =>
        \A p \in received : p.n <= session.partsExpected

(* upload_file never deletes the blob of a session that was finalized by the *)
(* time it looked at it, also when finalize's answer was lost; and returns   *)
(* only while the blob is there.  (A finalize carried out between the look   *)
(* and the abort does lose its blob.)                                        *)
BlobKept ==
    /\ session.blob = "deleted" => session.late
    /\ up.pc = "returned" => session.blob = "stored"

(* When upload_file raises after its session was created, the session is     *)
(* closed, unless the clean-up itself could not be carried out.              *)
ClosedWhenRaised ==
    up.pc = "raised" /\ up.n > 0 /\ ~unclean => session.state \notin Open

(* The README's claim for any failure, a cancelled upload included.          *)
ClosedOnAnyFailure ==
    up.pc \in {"raised", "cancelled"} /\ up.n > 0 /\ ~unclean =>
        session.state \notin Open

(* upload_file ends.                                                         *)
UploadEnds == up.pc # "new" ~> up.pc \in Ends
=============================================================================
