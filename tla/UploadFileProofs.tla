--------------------------- MODULE UploadFileProofs ---------------------------
(***************************************************************************)
(* Proofs about UploadFile, for files and part sizes of any size: which    *)
(* parts are sent, and what upload_file leaves of its session when it      *)
(* fails.                                                                  *)
(***************************************************************************)
EXTENDS UploadFile, TLAPS

Calls == [pc: Waiting \cup Ends \cup {"new"}, size: Sizes, partSize: Nat,
          n: Nat, offset: Int, left: Int]

SessionRecords == [state: States, blob: {"none", "stored", "deleted"},
                   partsExpected: Int, late: BOOLEAN]

Typed ==
    /\ up \in Calls
    /\ session \in SessionRecords
    /\ \A r \in wire : r.op \in Waiting
    /\ up.pc \in {"new", "create"} => up.n = 0
    /\ up.pc \in {"part", "finalize", "check", "abort"} => up.n > 0
    /\ up.n > 0 => up.partSize > 0

\* Neither there yet nor open.
Closed == session.state \notin Open \cup {"none"}

\* Where the session is, as far as the call got.
PlaceInv ==
    /\ up.n > 0 => session.state # "none"
    /\ Answered("create") => session.state # "none"
    /\ session.blob # "none" => Closed
    /\ session.blob = "stored" => session.state = "finalized"
    /\ session.blob # "none" => up.pc \in {"finalize", "check", "abort"} \cup Ends
    /\ \A r \in wire : r.op = "finalize" => up.pc \in {"finalize", "check", "abort"} \cup Ends
    /\ \A r \in wire : r.op = "abort" => up.pc \in {"abort", "raised", "cancelled"}

\* What the answer that upload_file is waiting for says of the session.
AnswerInv ==
    /\ Answered("finalize") \/ up.pc = "returned" => session.blob = "stored"
    /\ Answered("check") /\ answer = "finalized" => Closed
    /\ Answered("abort") => Closed
    /\ up.pc = "raised" /\ up.n > 0 /\ ~unclean => Closed

\* Before the look at the session, a blob is seen by it.
SeenInv ==
    /\ session.blob = "stored" /\ ~session.late =>
          /\ up.pc \in {"finalize", "check"} \cup Ends
          /\ Answered("check") => answer = "finalized"
          /\ \A r \in wire : r.op # "abort"
    /\ session.blob = "deleted" => session.late

ExpectedInv ==
    session.partsExpected # -1 =>
        /\ \A p \in received : p.n <= session.partsExpected
        /\ \A r \in wire : r.op = "part" => r.part.n <= session.partsExpected
        /\ up.pc = "part" => TotalParts(up.size, up.partSize) <= session.partsExpected

\* Nothing is received before the session is there.
EarlyInv == session.state = "none" => received = {} /\ \A r \in wire : r.op # "part"

IInv == Typed /\ PlaceInv /\ AnswerInv /\ SeenInv /\ ExpectedInv /\ EarlyInv

\* Part k of the file of call u, and its first m parts.
Chunk(u, k) ==
    [n |-> k, from |-> (k - 1) * u.partSize,
     len |-> Smaller(u.partSize, u.size - (k - 1) * u.partSize)]

Chunks(u, m) == {Chunk(u, k) : k \in 1..m}

Sending(op) == \E r \in wire : r.op = op

\* Which parts of the file the server has: none before the session is there,
\* those before the current one, which is on its way or there, and all of them
\* from finalize on.
ChunksInv ==
    /\ up.n = 0 =>
          /\ received = {} /\ up.offset = 0 /\ session.state # "finalized"
          /\ ~Sending("part") /\ ~Sending("finalize")
    /\ up.pc = "part" =>
          /\ up.n <= TotalParts(up.size, up.partSize)
          /\ up.offset = (up.n - 1) * up.partSize
          /\ received \in {Chunks(up, up.n - 1), Chunks(up, up.n)}
          /\ \A r \in wire : r.op = "part" => r = [op |-> "part", part |-> Chunk(up, up.n)]
          /\ Answered("part") => received = Chunks(up, up.n) /\ ~Sending("part")
    /\ up.pc = "finalize" \/ Sending("finalize") \/ session.state = "finalized" =>
          /\ received = Chunks(up, TotalParts(up.size, up.partSize))
          /\ ~Sending("part")
    /\ session.state = "finalized" => session.blob = "stored"

-----------------------------------------------------------------------------

LEMMA TotalPartsInt ==
    ASSUME NEW size \in Nat, NEW p \in Nat \ {0}
    PROVE  TotalParts(size, p) \in Int
BY DEF TotalParts

LEMMA CallTyped ==
    ASSUME NEW u \in Calls
    PROVE  u.size \in Nat /\ u.partSize \in Nat /\ u.n \in Nat /\ u.offset \in Int
<1>1. u.size \in Sizes /\ u.partSize \in Nat /\ u.n \in Nat /\ u.offset \in Int
  BY DEF Calls
<1> QED  BY <1>1, UploadConstants

LEMMA AskIs == ASSUME NEW op PROVE Ask(op).op = op
BY DEF Ask

\* The call waits for the answer to r.
LEMMA SendsTo ==
    ASSUME NEW u \in Calls, NEW r, r.op \in Waiting, Sends(r, u)
    PROVE  /\ up' \in Calls /\ up'.pc = r.op
           /\ up'.size = u.size /\ up'.partSize = u.partSize /\ up'.n = u.n
           /\ wire' = wire \cup {r} /\ answer' = "none"
BY DEF Sends, Calls

\* A request that follows from where the call and the session are.
LEMMA Asks ==
    ASSUME IInv, NEW u \in Calls, NEW r, r.op \in Waiting \ {"create"}, Sends(r, u),
           UNCHANGED <<session, received>>,
           u.n > 0, u.partSize > 0, session.state # "none",
           r.op = "part" =>
               /\ session.blob = "none"
               /\ \A q \in wire : q.op # "finalize"
               /\ session.partsExpected # -1 =>
                     /\ r.part.n <= session.partsExpected
                     /\ TotalParts(u.size, u.partSize) <= session.partsExpected,
           r.op = "abort" => ~(session.blob = "stored" /\ ~session.late),
           r.op # "abort" => \A q \in wire : q.op # "abort"
    PROVE  IInv'
<1>1. /\ up' \in Calls /\ up'.pc = r.op
      /\ up'.size = u.size /\ up'.partSize = u.partSize /\ up'.n = u.n
      /\ wire' = wire \cup {r} /\ answer' = "none"
  BY SendsTo
<1>2. session' = session /\ received' = received  OBVIOUS
<1>3. Typed'  BY <1>1, <1>2 DEF IInv, Typed, Waiting
<1>4. PlaceInv'
  BY <1>1, <1>2, AskIs DEF IInv, PlaceInv, Answered, Waiting, Closed
<1>5. AnswerInv'
  BY <1>1, <1>2 DEF AnswerInv, Answered, Waiting
<1>6. SeenInv'
  BY <1>1, <1>2, AskIs DEF IInv, SeenInv, PlaceInv, Answered, Waiting
<1>7. ExpectedInv'
  BY <1>1, <1>2 DEF IInv, ExpectedInv
<1>8. EarlyInv'  BY <1>1, <1>2 DEF EarlyInv
<1> QED  BY <1>3, <1>4, <1>5, <1>6, <1>7, <1>8 DEF IInv

\* upload_file ends.
LEMMA EndsAt ==
    ASSUME IInv, NEW e \in Ends, up.pc \in Waiting, up' = [up EXCEPT !.pc = e],
           answer' = "none", wire' \in {wire, {}}, UNCHANGED <<session, received>>,
           e = "returned" => up.pc = "finalize" /\ session.blob = "stored",
           e = "raised" /\ up.n > 0 /\ ~unclean' => Closed
    PROVE  IInv'
<1>1. /\ up' \in Calls /\ up'.pc = e /\ up'.n = up.n /\ up'.partSize = up.partSize
  BY DEF IInv, Typed, Calls
<1>2. /\ session' = session /\ received' = received /\ answer' = "none" /\ wire' \subseteq wire
  OBVIOUS
<1>3. Typed'  BY <1>1, <1>2 DEF IInv, Typed, Ends
<1>4. PlaceInv'
  BY <1>1, <1>2 DEF IInv, PlaceInv, Answered, Ends, Waiting, Closed
<1>5. AnswerInv'
  BY <1>1, <1>2 DEF AnswerInv, Answered, Ends, Closed
<1>6. SeenInv'
  BY <1>1, <1>2 DEF IInv, SeenInv, Answered, Ends
<1>7. ExpectedInv'
  BY <1>1, <1>2 DEF IInv, ExpectedInv, Ends
<1>8. EarlyInv'  BY <1>2 DEF IInv, EarlyInv
<1> QED  BY <1>3, <1>4, <1>5, <1>6, <1>7, <1>8 DEF IInv

\* No answer, or none that says anything.
LEMMA Unanswered ==
    ASSUME IInv, UNCHANGED <<up, session, received, unclean>>, wire' \subseteq wire,
           answer' \in {answer, "error", "none"}
    PROVE  IInv'
<1>1. /\ up' = up /\ session' = session /\ received' = received /\ unclean' = unclean
  OBVIOUS
<1>2. Typed' /\ EarlyInv' /\ ExpectedInv'
  BY <1>1 DEF IInv, Typed, EarlyInv, ExpectedInv
<1>3. \A op : Answered(op)' => Answered(op) /\ answer' = answer
  BY <1>1 DEF Answered
<1>4. PlaceInv'  BY <1>1, <1>3 DEF IInv, PlaceInv, Closed
<1>5. AnswerInv'  BY <1>1, <1>3 DEF IInv, AnswerInv, Closed
<1>6. SeenInv'  BY <1>1, <1>3 DEF IInv, SeenInv
<1> QED  BY <1>2, <1>4, <1>5, <1>6 DEF IInv

-----------------------------------------------------------------------------
(* The steps of the client. *)

\* The loop's next chunk, or finalize after the last, or an abort.
LEMMA ContinueKeeps ==
    ASSUME IInv, NEW u \in Calls, Continue(u), UNCHANGED <<session, received>>,
           u.n > 0, u.partSize > 0, session.state # "none",
           up.pc \in {"create", "part"},
           session.partsExpected # -1 => TotalParts(u.size, u.partSize) <= session.partsExpected
    PROVE  IInv'
<1> DEFINE expected == Smaller(u.partSize, u.size - u.offset)
           rest == [u EXCEPT !.left = @ - expected]
           part == [op |-> "part", part |-> [n |-> u.n, from |-> u.offset, len |-> expected]]
<1>1. /\ \A q \in wire : q.op # "abort"
      /\ session.blob = "none" /\ \A q \in wire : q.op # "finalize"
  BY DEF IInv, PlaceInv, Ends
<1>2. CASE Sends(Ask("finalize"), u) \/ Sends(Ask("abort"), u)
  BY <1>1, <1>2, Asks, AskIs DEF Waiting
<1>3. CASE Sends(part, rest) /\ ~(u.n > TotalParts(u.size, u.partSize))
  <2>1. u.size \in Nat /\ u.partSize \in Nat \ {0} /\ u.n \in Nat /\ u.offset \in Int
    BY CallTyped
  <2>2. expected \in Int  BY <2>1 DEF Smaller
  <2>3. TotalParts(u.size, u.partSize) \in Int  BY <2>1, TotalPartsInt
  <2>4. part.op = "part" /\ part.part.n = u.n  OBVIOUS
  <2> HIDE DEF expected, part
  <2>5. rest \in Calls /\ rest.n = u.n /\ rest.size = u.size /\ rest.partSize = u.partSize
    BY <2>2 DEF Calls
  <2>6. session.partsExpected \in Int  BY DEF IInv, Typed, SessionRecords
  <2> HIDE DEF rest
  <2> QED  BY <1>1, <1>3, <2>1, <2>3, <2>4, <2>5, <2>6, Asks DEF Waiting
<1> QED  BY <1>2, <1>3 DEF Continue

LEMMA UploadKeeps == ASSUME IInv, Upload PROVE IInv'
<1>1. /\ up' \in Calls /\ up'.pc = "create" /\ up'.n = 0
      /\ wire' = wire \cup {Ask("create")} /\ answer' = "none"
  BY SendsTo, AskIs DEF Upload, IInv, Typed, Waiting
<1>2. up.pc = "new" /\ session' = session /\ received' = received
  BY DEF Upload
<1>3. Typed'  BY <1>1, <1>2, AskIs DEF IInv, Typed, Waiting
<1>4. PlaceInv'
  BY <1>1, <1>2, AskIs DEF IInv, PlaceInv, Answered, Ends, Closed
<1>5. AnswerInv'  BY <1>1, <1>2 DEF AnswerInv, Answered
<1>6. SeenInv'  BY <1>1, <1>2 DEF IInv, SeenInv, PlaceInv, Ends
<1>7. ExpectedInv' /\ EarlyInv'
  BY <1>1, <1>2, AskIs DEF IInv, ExpectedInv, EarlyInv
<1> QED  BY <1>3, <1>4, <1>5, <1>6, <1>7 DEF IInv

LEMMA CreatedKeeps == ASSUME IInv, Created PROVE IInv'
<1> DEFINE size == IF up.partSize # 0 THEN up.partSize ELSE ServerPartSize
           u == [up EXCEPT !.n = 1, !.partSize = size]
<1>1. up \in Calls /\ up.partSize \in Nat  BY DEF IInv, Typed, Calls
<1>2. size \in Nat /\ size > 0  BY <1>1, UploadConstants
<1>3. up.pc = "create" /\ UNCHANGED <<session, received>>  BY DEF Created, Answered
<1>4. session.state # "none"  BY DEF Created, IInv, PlaceInv
<1>5. IF session.partsExpected # -1 /\ TotalParts(u.size, u.partSize) > session.partsExpected
        THEN Sends(Ask("abort"), u)
        ELSE Continue(u)
  BY DEF Created
<1> HIDE DEF size
<1>6. u \in Calls /\ u.n = 1 /\ u.partSize = size /\ u.size = up.size
  BY <1>1, <1>2 DEF Calls
<1>7. TotalParts(u.size, u.partSize) \in Int /\ session.partsExpected \in Int
  BY <1>1, <1>2, <1>6, TotalPartsInt, UploadConstants DEF Calls, IInv, Typed, SessionRecords
<1>8. session.blob = "none"  BY <1>3 DEF IInv, PlaceInv, Ends
<1> HIDE DEF u
<1>9. CASE Sends(Ask("abort"), u)
  BY <1>2, <1>3, <1>4, <1>6, <1>8, <1>9, Asks, AskIs DEF Waiting
<1>10. CASE Continue(u) /\ ~(session.partsExpected # -1
                             /\ TotalParts(u.size, u.partSize) > session.partsExpected)
  BY <1>2, <1>3, <1>4, <1>6, <1>7, <1>10, ContinueKeeps
<1> QED  BY <1>5, <1>9, <1>10

LEMMA PartDoneKeeps == ASSUME IInv, PartDone PROVE IInv'
<1> DEFINE offset == up.offset + Smaller(up.partSize, up.size - up.offset)
           n == up.n + 1
           u == [up EXCEPT !.n = n, !.offset = offset]
<1>1. up \in Calls /\ up.pc = "part" /\ up.n > 0 /\ up.partSize > 0
  BY DEF IInv, Typed, PartDone, Answered
<1>2. up.n \in Nat /\ up.partSize \in Nat /\ up.size \in Nat /\ up.offset \in Int
  BY <1>1, CallTyped
<1>3. offset \in Int  BY <1>2 DEF Smaller
<1>4. Continue(u) /\ UNCHANGED <<session, received>>  BY DEF PartDone
<1>7. n \in Nat /\ n > 0  BY <1>1, <1>2
<1> HIDE DEF offset, n
<1>5. u \in Calls /\ u.n = n /\ u.partSize = up.partSize /\ u.size = up.size
  BY <1>1, <1>3, <1>7 DEF Calls
<1> HIDE DEF u
<1>6. /\ session.state # "none"
      /\ session.partsExpected # -1 => TotalParts(u.size, u.partSize) <= session.partsExpected
  BY <1>1, <1>5 DEF IInv, PlaceInv, ExpectedInv
<1> QED  BY <1>1, <1>4, <1>5, <1>6, <1>7, ContinueKeeps

LEMMA FinalizedKeeps == ASSUME IInv, Finalized PROVE IInv'
<1>1. up.pc = "finalize" /\ session.blob = "stored"
  BY DEF Finalized, Answered, IInv, AnswerInv
<1>2. up' = [up EXCEPT !.pc = "returned"] /\ answer' = "none" /\ wire' = wire
      /\ UNCHANGED <<session, received>>
  BY DEF Finalized
<1> QED  BY <1>1, <1>2, EndsAt DEF Ends, Waiting

LEMMA RaisesKeeps ==
    ASSUME IInv, up.pc \in Waiting, Raises(up), UNCHANGED <<session, received>>,
           up.n > 0 /\ ~unclean' => Closed
    PROVE  IInv'
<1>1. up' = [up EXCEPT !.pc = "raised"] /\ answer' = "none" /\ wire' = wire
  BY DEF Raises
<1> QED  BY <1>1, EndsAt DEF Ends

LEMMA FailedKeeps == ASSUME IInv, Failed PROVE IInv'
<1>1. up.pc \in Waiting /\ answer = "error" /\ UNCHANGED <<session, received>>
  BY DEF Failed
<1>2. up \in Calls  BY DEF IInv, Typed
<1>3. CASE up.pc = "part" /\ Sends(Ask("abort"), up)
  BY <1>1, <1>2, <1>3, Asks, AskIs DEF IInv, Typed, PlaceInv, Waiting, Ends
<1>4. CASE up.pc = "finalize" /\ Sends(Ask("check"), up)
  BY <1>1, <1>2, <1>4, Asks, AskIs DEF IInv, Typed, PlaceInv, Waiting, Ends
<1>5. CASE up.pc \in {"create", "check", "abort"} /\ Raises(up)
  <2>1. up.n > 0 => unclean'
    <3>1. CASE up.pc = "create"  BY <3>1 DEF IInv, Typed
    <3>2. CASE up.pc \in {"check", "abort"}  BY <3>2, Zenon DEF Failed
    <3> QED  BY <1>5, <3>1, <3>2
  <2> QED  BY <1>1, <1>5, <2>1, RaisesKeeps
<1> QED  BY <1>3, <1>4, <1>5 DEF Failed

LEMMA CheckedKeeps == ASSUME IInv, Checked PROVE IInv'
<1>1. /\ up.pc = "check" /\ Answered("check") /\ UNCHANGED <<session, received>>
      /\ unclean' = unclean
  BY DEF Checked, Answered
<1>2. CASE answer = "finalized" /\ Raises(up)
  <2>1. Closed  BY <1>1, <1>2 DEF IInv, AnswerInv
  <2> QED  BY <1>1, <1>2, <2>1, RaisesKeeps DEF Waiting
<1>3. CASE answer # "finalized" /\ Sends(Ask("abort"), up)
  <2>1. ~(session.blob = "stored" /\ ~session.late)
    BY <1>1, <1>3 DEF IInv, SeenInv
  <2>2. up \in Calls /\ up.n > 0 /\ up.partSize > 0 /\ session.state # "none"
    BY <1>1 DEF IInv, Typed, PlaceInv
  <2> QED  BY <1>1, <1>3, <2>1, <2>2, Asks, AskIs DEF Waiting
<1> QED  BY <1>2, <1>3 DEF Checked

LEMMA AbortedKeeps == ASSUME IInv, Aborted PROVE IInv'
<1>1. /\ up.pc = "abort" /\ Raises(up) /\ UNCHANGED <<session, received>> /\ Closed
  BY DEF Aborted, Answered, IInv, AnswerInv
<1> QED  BY <1>1, RaisesKeeps DEF Waiting

LEMMA CancelKeeps == ASSUME IInv, Cancel PROVE IInv'
<1>1. /\ up.pc \in Waiting /\ up' = [up EXCEPT !.pc = "cancelled"] /\ answer' = "none"
      /\ wire' \in {wire, {}} /\ UNCHANGED <<session, received>>
  BY DEF Cancel, Abandoned
<1> QED  BY <1>1, EndsAt DEF Ends

-----------------------------------------------------------------------------
(* The steps of the server. *)

\* r is carried out: the client's place stays, the answer reaches it or not.
Carries(r, a) ==
    /\ up' = up /\ unclean' = unclean
    /\ r \in wire /\ wire' = wire \ {r}
    /\ Reply(r, a)

LEMMA RepliesTo ==
    ASSUME NEW r, NEW a, Carries(r, a)
    PROVE  /\ wire' \subseteq wire /\ r \in wire
           /\ \A op : Answered(op)' =>
                  \/ Answered(op) /\ answer' = answer
                  \/ op = r.op /\ answer' = a /\ up.pc = r.op
BY DEF Carries, Reply, Answered

LEMMA CreateCarried ==
    ASSUME IInv, NEW r, Carries(r, "ok"), r.op = "create", session.state = "none",
           NEW e \in {-1, TotalParts(up.size, ServerPartSize)},
           session' = [session EXCEPT !.state = "initiated", !.partsExpected = e],
           received' = received
    PROVE  IInv'
<1>1. up \in Calls /\ session \in SessionRecords  BY DEF IInv, Typed
<1>2. e \in Int  BY <1>1, CallTyped, TotalPartsInt, UploadConstants
<1>3. /\ session' \in SessionRecords /\ session'.state = "initiated"
      /\ session'.blob = session.blob /\ session'.late = session.late
  BY <1>1, <1>2 DEF SessionRecords, States, Open
<1>4. up' = up /\ unclean' = unclean  BY DEF Carries
<1>5. session.blob = "none" /\ up.n = 0
  BY <1>1 DEF IInv, PlaceInv, Closed, SessionRecords, Calls
<1>6. Typed'  BY <1>3, <1>4, RepliesTo DEF IInv, Typed
<1>7. PlaceInv'
  BY <1>3, <1>4, <1>5, RepliesTo DEF IInv, PlaceInv
<1>8. AnswerInv'
  <2>1. up.pc \notin {"part", "finalize", "check", "abort", "returned"}
    BY <1>5 DEF IInv, Typed, AnswerInv
  <2> QED  BY <2>1, <1>3, <1>4, <1>5, RepliesTo DEF IInv, AnswerInv, Answered
<1>9. SeenInv'  BY <1>3, <1>4, <1>5 DEF SeenInv
<1>10. ExpectedInv'
  <2>1. received = {} /\ \A q \in wire' : q.op # "part"
    BY RepliesTo DEF IInv, EarlyInv
  <2>2. up.pc # "part"  BY <1>5 DEF IInv, Typed
  <2> QED  BY <1>4, <2>1, <2>2 DEF ExpectedInv
<1>11. EarlyInv'  BY <1>3 DEF EarlyInv
<1> QED  BY <1>6, <1>7, <1>8, <1>9, <1>10, <1>11 DEF IInv

LEMMA PartCarried ==
    ASSUME IInv, NEW r, Carries(r, "ok"), r.op = "part", session.state \in Open,
           session' = [session EXCEPT !.state = "in_progress"],
           received' = received \cup {r.part}
    PROVE  IInv'
<1>1. up \in Calls /\ session \in SessionRecords  BY DEF IInv, Typed
<1>2. /\ session' \in SessionRecords /\ session'.state = "in_progress"
      /\ session'.blob = session.blob /\ session'.late = session.late
      /\ session'.partsExpected = session.partsExpected
  BY <1>1 DEF SessionRecords, States, Open
<1>3. up' = up /\ unclean' = unclean /\ ~Closed  BY DEF Carries, Closed
<1>4. session.blob = "none"  BY <1>3 DEF IInv, PlaceInv
<1>5. Typed'  BY <1>2, <1>3, RepliesTo DEF IInv, Typed
<1>6. PlaceInv'  BY <1>2, <1>3, <1>4, RepliesTo DEF IInv, PlaceInv
<1>7. AnswerInv'
  BY <1>2, <1>3, <1>4, RepliesTo DEF IInv, AnswerInv
<1>8. SeenInv'  BY <1>2, <1>4 DEF SeenInv
<1>9. ExpectedInv'  BY <1>2, <1>3, RepliesTo DEF IInv, ExpectedInv
<1>10. EarlyInv'  BY <1>2 DEF EarlyInv
<1> QED  BY <1>5, <1>6, <1>7, <1>8, <1>9, <1>10 DEF IInv

LEMMA FinalizeCarried ==
    ASSUME IInv, NEW r, Carries(r, "ok"), r.op = "finalize",
           session.state \in Open,
           session' = [session EXCEPT !.state = "finalized", !.blob = "stored",
                                      !.late = LookedAt],
           received' = received
    PROVE  IInv'
<1>1. up \in Calls /\ session \in SessionRecords  BY DEF IInv, Typed
<1>2. LookedAt \in BOOLEAN  BY DEF LookedAt
<1>3. /\ session' \in SessionRecords /\ session'.state = "finalized"
      /\ session'.blob = "stored" /\ session'.late = LookedAt
      /\ session'.partsExpected = session.partsExpected
  BY <1>1, <1>2 DEF SessionRecords, States, Open
<1>4. up' = up /\ unclean' = unclean /\ ~Closed  BY DEF Carries, Closed
<1>5. Closed'  BY <1>3 DEF Closed, Open
<1>6. up.pc \in {"finalize", "check", "abort"} \cup Ends
  BY RepliesTo DEF IInv, PlaceInv
<1>7. Typed'  BY <1>3, <1>4, RepliesTo DEF IInv, Typed
<1>8. PlaceInv'  BY <1>3, <1>4, <1>5, <1>6, RepliesTo DEF IInv, PlaceInv
<1>9. AnswerInv'  BY <1>3, <1>5 DEF AnswerInv
<1>10. SeenInv'
  <2>1. ~LookedAt => /\ up.pc \in {"finalize", "check"}
                     /\ up.pc = "check" => answer = "none"
    BY <1>6 DEF LookedAt
  <2>2. ~LookedAt => ~Answered("check")'
    BY <2>1, RepliesTo DEF Answered
  <2>3. ~LookedAt => \A q \in wire' : q.op # "abort"
    BY <2>1, RepliesTo DEF IInv, PlaceInv
  <2> QED  BY <1>2, <1>3, <1>4, <2>1, <2>2, <2>3 DEF SeenInv
<1>11. ExpectedInv'  BY <1>3, <1>4, RepliesTo DEF IInv, ExpectedInv
<1>12. EarlyInv'  BY <1>3 DEF EarlyInv
<1> QED  BY <1>7, <1>8, <1>9, <1>10, <1>11, <1>12 DEF IInv

\* finalize fails on the server, and a session that expires.
LEMMA Worsens ==
    ASSUME IInv, NEW s \in {session.state, "failed", "expired"}, session.state \in Open,
           session' = [session EXCEPT !.state = s], UNCHANGED <<up, received, unclean>>,
           wire' \subseteq wire, answer' \in {answer, "error"}
    PROVE  IInv'
<1>1. up \in Calls /\ session \in SessionRecords /\ ~Closed  BY DEF IInv, Typed, Closed
<1>2. /\ session' \in SessionRecords /\ session'.state = s
      /\ session'.blob = session.blob /\ session'.late = session.late
      /\ session'.partsExpected = session.partsExpected
  BY <1>1 DEF SessionRecords, States, Open
<1>3. session.blob = "none"  BY <1>1 DEF IInv, PlaceInv, SessionRecords
<1>4. \A op : Answered(op)' => Answered(op) /\ answer' = answer  BY DEF Answered
<1>5. s # "none"  BY DEF Open
<1>6. Typed'  BY <1>2 DEF IInv, Typed
<1>7. PlaceInv'  BY <1>2, <1>3, <1>5 DEF IInv, PlaceInv
<1>8. AnswerInv'
  BY <1>1, <1>2, <1>4 DEF IInv, AnswerInv
<1>9. SeenInv'  BY <1>2, <1>3 DEF SeenInv
<1>10. ExpectedInv'  BY <1>2 DEF IInv, ExpectedInv
<1>11. EarlyInv'  BY <1>2, <1>5 DEF EarlyInv
<1> QED  BY <1>6, <1>7, <1>8, <1>9, <1>10, <1>11 DEF IInv

LEMMA CheckCarried ==
    ASSUME IInv, NEW r, Carries(r, session.state), r.op = "check",
           UNCHANGED <<session, received>>
    PROVE  IInv'
<1>1. up' = up /\ unclean' = unclean /\ session' = session /\ received' = received
  BY DEF Carries
<1>2. Closed' <=> Closed  BY <1>1 DEF Closed
<1>3. Typed' /\ EarlyInv' /\ ExpectedInv'
  BY <1>1, RepliesTo DEF IInv, Typed, EarlyInv, ExpectedInv
<1>4. PlaceInv'  BY <1>1, <1>2, RepliesTo DEF IInv, PlaceInv
<1>5. AnswerInv'
  <2>1. session.state = "finalized" => Closed  BY DEF Closed, Open
  <2> QED  BY <1>1, <1>2, <2>1, RepliesTo DEF IInv, AnswerInv
<1>6. SeenInv'
  BY <1>1, RepliesTo DEF IInv, SeenInv, PlaceInv
<1> QED  BY <1>3, <1>4, <1>5, <1>6 DEF IInv

LEMMA AbortCarried ==
    ASSUME IInv, NEW r, Carries(r, "ok"), r.op = "abort", session.state # "none",
           session' = [session EXCEPT !.state = "aborted",
                                      !.blob = IF @ = "stored" THEN "deleted" ELSE @],
           received' = received
    PROVE  IInv'
<1>1. up \in Calls /\ session \in SessionRecords  BY DEF IInv, Typed
<1>2. /\ session' \in SessionRecords /\ session'.state = "aborted"
      /\ session'.blob = IF session.blob = "stored" THEN "deleted" ELSE session.blob
      /\ session'.late = session.late /\ session'.partsExpected = session.partsExpected
  BY <1>1 DEF SessionRecords, States, Open
<1>3. up' = up /\ unclean' = unclean /\ Closed'  BY <1>2 DEF Carries, Closed, Open
<1>4. up.pc \in {"abort", "raised", "cancelled"}  BY RepliesTo DEF IInv, PlaceInv
<1>5. session.blob = "stored" => session.late  BY RepliesTo DEF IInv, SeenInv
<1>6. Typed'  BY <1>2, <1>3, RepliesTo DEF IInv, Typed
<1>7. PlaceInv'  BY <1>2, <1>3, <1>4, RepliesTo DEF IInv, PlaceInv, Ends
<1>8. AnswerInv'  BY <1>3, <1>4 DEF AnswerInv, Answered
<1>9. SeenInv'  BY <1>2, <1>5 DEF IInv, SeenInv
<1>10. ExpectedInv'  BY <1>2, <1>3, RepliesTo DEF IInv, ExpectedInv
<1>11. EarlyInv'  BY <1>2 DEF EarlyInv
<1> QED  BY <1>6, <1>7, <1>8, <1>9, <1>10, <1>11 DEF IInv

LEMMA ServeKeeps == ASSUME IInv, Serve PROVE IInv'
<1>1. PICK r \in wire : /\ wire' = wire \ {r}
                        /\ \/ Carry(r)
                           \/ Reply(r, "error") /\ UNCHANGED <<session, received>>
  BY DEF Serve
<1>2. up' = up /\ unclean' = unclean  BY DEF Serve
<1>3. \A a : Reply(r, a) => Carries(r, a) /\ answer' \in {answer, a}
  BY <1>1, <1>2 DEF Carries, Reply
<1>4. CASE Reply(r, "error") /\ UNCHANGED <<session, received>>
  BY <1>1, <1>2, <1>3, <1>4, Unanswered
<1>5. CASE r.op = "create" /\ Carry(r)
  BY <1>3, <1>5, CreateCarried DEF Carry
<1>6. CASE r.op = "part" /\ Carry(r)
  BY <1>3, <1>6, PartCarried DEF Carry
<1>7. CASE r.op = "finalize" /\ Carry(r)
  <2>1. ASSUME NEW s \in {session.state, "failed"}, session.state \in Open,
               session' = [session EXCEPT !.state = s], Reply(r, "error"), received' = received
        PROVE  IInv'
    <3>1. wire' \subseteq wire /\ answer' \in {answer, "error"}  BY <1>1, <1>3, <2>1
    <3> QED  BY <1>2, <2>1, <3>1, Worsens
  <2>2. CASE /\ session.state \in Open
             /\ session' = [session EXCEPT !.state = "finalized", !.blob = "stored",
                                           !.late = LookedAt]
             /\ Reply(r, "ok") /\ received' = received
    BY <1>3, <1>7, <2>2, FinalizeCarried
  <2> QED  BY <1>7, <2>1, <2>2 DEF Carry
<1>8. CASE r.op = "check" /\ Carry(r)
  BY <1>3, <1>8, CheckCarried DEF Carry
<1>9. CASE r.op = "abort" /\ Carry(r)
  BY <1>3, <1>9, AbortCarried DEF Carry
<1> QED  BY <1>1, <1>4, <1>5, <1>6, <1>7, <1>8, <1>9 DEF Carry

LEMMA BreakKeeps == ASSUME IInv, Break PROVE IInv'
BY Unanswered DEF Break, Abandoned

LEMMA ExpireKeeps == ASSUME IInv, Expire PROVE IInv'
BY Worsens DEF Expire

-----------------------------------------------------------------------------
(* The invariant, and what follows. *)

LEMMA InitIInv == Init => IInv
<1> SUFFICES ASSUME Init PROVE IInv
  OBVIOUS
<1>1. PICK size \in Sizes, p \in CustomPartSizes, left \in 0..MaxSize :
          up = [pc |-> "new", size |-> size, partSize |-> p,
                n |-> 0, offset |-> 0, left |-> left]
  BY DEF Init
<1>2. p \in Nat /\ left \in Int  BY UploadConstants
<1>3. up \in Calls /\ up.pc = "new" /\ up.n = 0  BY <1>1, <1>2 DEF Calls
<1>4. session \in SessionRecords /\ session.state = "none" /\ session.blob = "none"
      /\ session.partsExpected = -1
  BY DEF Init, SessionRecords, States
<1>5. wire = {} /\ received = {}  BY DEF Init
<1>6. Typed  BY <1>3, <1>4, <1>5 DEF Typed
<1>7. PlaceInv /\ AnswerInv
  BY <1>3, <1>4, <1>5 DEF PlaceInv, AnswerInv, Answered
<1>8. SeenInv /\ ExpectedInv /\ EarlyInv
  BY <1>4, <1>5 DEF SeenInv, ExpectedInv, EarlyInv
<1> QED  BY <1>6, <1>7, <1>8 DEF IInv

LEMMA NextIInv == IInv /\ [Next]_vars => IInv'
<1> SUFFICES ASSUME IInv, [Next]_vars PROVE IInv'
  OBVIOUS
<1>1. CASE UNCHANGED vars  BY <1>1, Unanswered DEF vars
<1> QED
  BY <1>1, UploadKeeps, CreatedKeeps, PartDoneKeeps, FinalizedKeeps, FailedKeeps, CheckedKeeps,
     AbortedKeeps, CancelKeeps, ServeKeeps, BreakKeeps, ExpireKeeps DEF Next

(* For files and part sizes of any size, and requests that fail, are carried  *)
(* out late or get no answer, the call and its session keep IInv.            *)
THEOREM UploadFileInvariance == Spec => []IInv
<1>1. Init => IInv  BY InitIInv
<1>2. IInv /\ [Next]_vars => IInv'  BY NextIInv
<1> QED  BY <1>1, <1>2, PTL DEF Spec

(* upload_file never sends a part whose number is above what the session      *)
(* accepts, whatever part size the caller or the server asked for.           *)
THEOREM SendsExpectedParts == Spec => []PartsExpectedKept
<1>1. IInv => PartsExpectedKept  BY DEF IInv, ExpectedInv, PartsExpectedKept
<1> QED  BY <1>1, UploadFileInvariance, PTL

(* _abort_quietly looks at the session after a finalize that failed: a blob   *)
(* that is there by then is never deleted.                                   *)
THEOREM KeepsBlobs == Spec => []BlobKept
<1>1. IInv => BlobKept  BY DEF IInv, SeenInv, AnswerInv, BlobKept
<1> QED  BY <1>1, UploadFileInvariance, PTL

(* An upload_file that raises leaves no open session behind, unless its       *)
(* clean-up failed, too.                                                     *)
THEOREM RaisesClosed == Spec => []ClosedWhenRaised
<1>1. IInv => ClosedWhenRaised  BY DEF IInv, AnswerInv, Closed, ClosedWhenRaised
<1> QED  BY <1>1, UploadFileInvariance, PTL
-----------------------------------------------------------------------------
(* The parts of a file. *)

LEMMA ProductOrder ==
    ASSUME NEW i \in Int, NEW j \in Int, NEW p \in Nat, i <= j
    PROVE  i * p <= j * p
OBVIOUS

LEMMA ProductNext ==
    ASSUME NEW i \in Int, NEW p \in Int
    PROVE  /\ i * p \in Int
           /\ i * p = (i - 1) * p + p
           /\ 0 * p = 0
OBVIOUS

LEMMA TotalPartsRoundsUp ==
    ASSUME NEW size \in Nat, NEW p \in Nat \ {0}
    PROVE  /\ TotalParts(size, p) \in Nat
           /\ TotalParts(size, p) * p >= size
           /\ TotalParts(size, p) * p < size + p
BY DEF TotalParts

\* Part k is one of them when the file goes on after the k - 1 parts before it.
LEMMA IsPart ==
    ASSUME NEW size \in Nat, NEW p \in Nat \ {0}, NEW k \in Nat \ {0}
    PROVE  k <= TotalParts(size, p) <=> (k - 1) * p < size
<1> DEFINE t == TotalParts(size, p)
<1>1. t \in Nat /\ t * p >= size /\ t * p < size + p
  BY TotalPartsRoundsUp
<1>2. (t - 1) * p = t * p - p /\ (k - 1) * p \in Int /\ t * p \in Int
  BY <1>1
<1> HIDE DEF t
<1>3. k <= t => (k - 1) * p <= (t - 1) * p
  BY <1>1, ProductOrder
<1>4. k > t => t * p <= (k - 1) * p
  BY <1>1, ProductOrder
<1>5. k <= t <=> (k - 1) * p < size
  BY <1>1, <1>2, <1>3, <1>4
<1> QED  BY <1>5 DEF t

\* What a part holds.
LEMMA ChunkIs ==
    ASSUME NEW u, u.size \in Nat, u.partSize \in Nat \ {0},
           NEW k \in 1..TotalParts(u.size, u.partSize)
    PROVE  LET c == Chunk(u, k)
           IN  /\ c.n = k /\ c.from = (k - 1) * u.partSize /\ c.from \in Nat
               /\ c.len \in Nat \ {0} /\ c.len <= u.partSize
               /\ c.from + c.len <= u.size
               /\ c.from + c.len = k * u.partSize \/ c.from + c.len = u.size
<1> DEFINE from == (k - 1) * u.partSize
<1>0. k \in Nat \ {0} /\ k <= TotalParts(u.size, u.partSize)
  BY TotalPartsRoundsUp
<1>1. from \in Nat /\ k * u.partSize = from + u.partSize
  <2>1. 0 * u.partSize <= (k - 1) * u.partSize  BY <1>0, ProductOrder
  <2> QED  BY <1>0, <2>1
<1>2. from < u.size
  BY <1>0, IsPart
<1> HIDE DEF from
<1>3. /\ Chunk(u, k).n = k /\ Chunk(u, k).from = from
      /\ Chunk(u, k).len = Smaller(u.partSize, u.size - from)
  BY DEF Chunk, from
<1>4. /\ Chunk(u, k).len \in Nat \ {0} /\ Chunk(u, k).len <= u.partSize
      /\ from + Chunk(u, k).len <= u.size
      /\ from + Chunk(u, k).len = k * u.partSize \/ from + Chunk(u, k).len = u.size
  BY <1>0, <1>1, <1>2, <1>3 DEF Smaller
<1> QED  BY <1>0, <1>1, <1>3, <1>4 DEF from

\* All its parts are the whole file.
LEMMA ChunksAreWhole ==
    ASSUME up.size \in Nat, up.partSize \in Nat \ {0},
           received = Chunks(up, TotalParts(up.size, up.partSize))
    PROVE  FinalizedIsWhole
<1> DEFINE t == TotalParts(up.size, up.partSize)
<1>1. t \in Nat  BY TotalPartsRoundsUp
<1>2. ASSUME NEW c \in received
      PROVE  /\ c = Chunk(up, c.n) /\ c.n \in 1..t
             /\ c.from = (c.n - 1) * up.partSize /\ c.from \in Nat
             /\ c.len \in Nat \ {0} /\ c.len <= up.partSize
             /\ c.from + c.len <= up.size
  <2>1. PICK k \in 1..t : c = Chunk(up, k)  BY <1>2 DEF Chunks
  <2> QED  BY <2>1, ChunkIs
<1>3. \A k \in 1..t : Chunk(up, k) \in received /\ Chunk(up, k).n = k
  BY ChunkIs DEF Chunks
<1>4. ASSUME NEW b \in 0..(up.size - 1)
      PROVE  \E c \in received : b \in c.from..(c.from + c.len - 1)
  <2> DEFINE k == b \div up.partSize + 1
  <2>1. /\ k \in Nat \ {0} /\ (k - 1) * up.partSize <= b
        /\ b < k * up.partSize /\ (k - 1) * up.partSize \in Int
    OBVIOUS
  <2> HIDE DEF k
  <2>2. k \in 1..t
    <3>1. (k - 1) * up.partSize < up.size  BY <2>1
    <3> QED  BY <1>1, <2>1, <3>1, IsPart
  <2>3. b \in Chunk(up, k).from..(Chunk(up, k).from + Chunk(up, k).len - 1)
    BY <2>1, <2>2, ChunkIs
  <2> QED  BY <1>3, <2>2, <2>3
<1>5. ASSUME NEW c \in received, NEW d \in received, c.n < d.n
      PROVE  c.from + c.len <= d.from
  <2> HIDE DEF t
  <2>1. c.n \in Int /\ d.n \in Int  BY <1>1, <1>2, <1>5
  <2>2. c.n * up.partSize <= (d.n - 1) * up.partSize  BY <1>5, <2>1, ProductOrder
  <2>3. c.n * up.partSize = (c.n - 1) * up.partSize + up.partSize  BY <2>1
  <2>4. (c.n - 1) * up.partSize \in Int /\ (d.n - 1) * up.partSize \in Int  BY <2>1
  <2> QED  BY <1>2, <1>5, <2>2, <2>3, <2>4
<1>6. \A c \in received : c.n > 0 /\ \A k \in 1..c.n : \E d \in received : d.n = k
  <2> HIDE DEF t
  <2> QED  BY <1>1, <1>2, <1>3
<1>7. \A c, d \in received : c.n = d.n => c = d
  BY <1>2
<1>8. \A c \in received : 0 <= c.from /\ 0 < c.len /\ c.from + c.len <= up.size
  BY <1>2
<1> QED  BY <1>4, <1>5, <1>6, <1>7, <1>8 DEF FinalizedIsWhole

LEMMA OneMoreChunk ==
    ASSUME NEW u, NEW k \in Nat \ {0}
    PROVE  Chunks(u, k) = Chunks(u, k - 1) \cup {Chunk(u, k)}
<1>1. 1..k = 1..(k - 1) \cup {k}  OBVIOUS
<1> QED  BY <1>1 DEF Chunks

\* The parts depend on the sizes only.
LEMMA SameChunks ==
    ASSUME NEW u, NEW v, u.size = v.size, u.partSize = v.partSize
    PROVE  \A k : Chunk(u, k) = Chunk(v, k) /\ Chunks(u, k) = Chunks(v, k)
BY DEF Chunk, Chunks

-----------------------------------------------------------------------------
(* Which parts the server has, step by step. *)

\* A step that neither receives a part nor goes on to the next request of the
\* loop; an answer to "part" is not a new one.
LEMMA KeepsChunks ==
    ASSUME ChunksInv, received' = received,
           up'.size = up.size, up'.partSize = up.partSize \/ up.n = 0,
           up'.n = 0 => up.n = 0 /\ up'.offset = up.offset,
           \A r \in wire' : r.op \in {"part", "finalize"} => r \in wire,
           session' = session \/ session'.state # "finalized",
           up'.pc \in {"part", "finalize"} =>
               up' = up /\ (Answered("part")' => Answered("part"))
    PROVE  ChunksInv'
<1>1. /\ Sending("part")' => Sending("part")
      /\ Sending("finalize")' => Sending("finalize")
  BY DEF Sending
<1>2. up'.n = 0 =>
          /\ received' = {} /\ up'.offset = 0 /\ session'.state # "finalized"
          /\ ~Sending("part")' /\ ~Sending("finalize")'
  BY <1>1 DEF ChunksInv
<1>3. ASSUME up'.pc = "part"
      PROVE  /\ up'.n <= TotalParts(up'.size, up'.partSize)
             /\ up'.offset = (up'.n - 1) * up'.partSize
             /\ received' \in {Chunks(up', up'.n - 1), Chunks(up', up'.n)}
             /\ \A r \in wire' : r.op = "part" => r = [op |-> "part", part |-> Chunk(up', up'.n)]
             /\ Answered("part")' => received' = Chunks(up', up'.n) /\ ~Sending("part")'
  BY <1>1, <1>3 DEF ChunksInv
<1>4. ASSUME up'.pc = "finalize" \/ Sending("finalize")' \/ session'.state = "finalized"
      PROVE  /\ received' = Chunks(up', TotalParts(up'.size, up'.partSize))
             /\ ~Sending("part")'
  <2>1. up.pc = "finalize" \/ Sending("finalize") \/ session.state = "finalized"
    BY <1>1, <1>4
  <2>2. up'.partSize = up.partSize
    BY <1>1, <1>4 DEF ChunksInv
  <2> QED  BY <1>1, <2>1, <2>2, SameChunks DEF ChunksInv
<1>5. session'.state = "finalized" => session'.blob = "stored"
  BY DEF ChunksInv
<1> QED  BY <1>2, <1>3, <1>4, <1>5 DEF ChunksInv

\* The loop goes on when the server has the parts before part u.n.
LEMMA ContinueChunks ==
    ASSUME NEW u, u.size \in Nat, u.partSize \in Nat \ {0}, u.n \in Nat \ {0}, u \in Calls,
           Continue(u), UNCHANGED <<session, received>>,
           received = Chunks(u, u.n - 1), ~Sending("part"), ~Sending("finalize"),
           session.state # "finalized",
           u.n <= TotalParts(u.size, u.partSize) + 1,
           u.n <= TotalParts(u.size, u.partSize) => u.offset = (u.n - 1) * u.partSize
    PROVE  ChunksInv'
<1> DEFINE t == TotalParts(u.size, u.partSize)
<1>1. t \in Nat  BY TotalPartsRoundsUp
<1>2. CASE u.n > t /\ Sends(Ask("finalize"), u)
  <2>1. /\ up' \in Calls /\ up'.pc = "finalize"
        /\ up'.size = u.size /\ up'.partSize = u.partSize /\ up'.n = u.n
        /\ wire' = wire \cup {Ask("finalize")}
    BY <1>2, SendsTo, AskIs DEF Waiting
  <2>2. u.n - 1 = t  BY <1>1, <1>2
  <2>3. received' = Chunks(up', TotalParts(up'.size, up'.partSize))
    BY <2>1, <2>2, SameChunks
  <2>4. ~Sending("part")'  BY <2>1, AskIs DEF Sending
  <2> QED  BY <2>1, <2>3, <2>4 DEF ChunksInv
<1>3. CASE ~(u.n > t) /\ Sends(Ask("abort"), u)
  <2>1. /\ up'.pc = "abort" /\ up'.n = u.n /\ wire' = wire \cup {Ask("abort")}
    BY <1>3, SendsTo, AskIs DEF Waiting
  <2>2. ~Sending("part")' /\ ~Sending("finalize")'  BY <2>1, AskIs DEF Sending
  <2> QED  BY <2>1, <2>2 DEF ChunksInv
<1>4. ASSUME ~(u.n > t),
             NEW len, len = Smaller(u.partSize, u.size - u.offset),
             Sends([op |-> "part", part |-> [n |-> u.n, from |-> u.offset, len |-> len]],
                   [u EXCEPT !.left = @ - len])
      PROVE  ChunksInv'
  <2> DEFINE r == [op |-> "part", part |-> [n |-> u.n, from |-> u.offset, len |-> len]]
  <2>1. u.n <= t /\ u.offset = (u.n - 1) * u.partSize  BY <1>1, <1>4
  <2>2. r = [op |-> "part", part |-> Chunk(u, u.n)]  BY <1>4, <2>1 DEF Chunk
  <2>3. /\ up' = [[u EXCEPT !.left = @ - len] EXCEPT !.pc = "part"]
        /\ wire' = wire \cup {r} /\ answer' = "none"
    BY <1>4 DEF Sends
  <2>4. /\ up'.pc = "part" /\ up'.n = u.n /\ up'.offset = u.offset
        /\ up'.size = u.size /\ up'.partSize = u.partSize
    BY <2>3 DEF Calls
  <2>5. ~Sending("finalize")' /\ \A q \in wire' : q.op = "part" => q = r
    BY <2>3 DEF Sending
  <2>6. ~Answered("part")'  BY <2>3 DEF Answered
  <2> HIDE DEF r, t
  <2>7. \A k : Chunk(up', k) = Chunk(u, k) /\ Chunks(up', k) = Chunks(u, k)
    BY <2>4, SameChunks
  <2>8. /\ up'.n <= TotalParts(up'.size, up'.partSize)
        /\ up'.offset = (up'.n - 1) * up'.partSize
        /\ received' = Chunks(up', up'.n - 1)
        /\ \A q \in wire' : q.op = "part" => q = [op |-> "part", part |-> Chunk(up', up'.n)]
    BY <2>1, <2>2, <2>4, <2>5, <2>7 DEF t
  <2> QED  BY <2>4, <2>5, <2>6, <2>8 DEF ChunksInv
<1> QED  BY <1>2, <1>3, <1>4 DEF Continue

LEMMA CreatedChunks == ASSUME IInv, ChunksInv, Created PROVE ChunksInv'
<1> DEFINE size == IF up.partSize # 0 THEN up.partSize ELSE ServerPartSize
           u == [up EXCEPT !.n = 1, !.partSize = size]
<1>1. /\ up \in Calls /\ up.size \in Nat /\ size \in Nat \ {0} /\ up.n = 0 /\ up.pc = "create"
  BY CallTyped, UploadConstants DEF IInv, Typed, Created, Answered
<1>2. UNCHANGED <<session, received>>
  BY DEF Created
<1>3. Sends(Ask("abort"), u) \/ Continue(u)
  BY DEF Created
<1> HIDE DEF size
<1>4. u \in Calls /\ u.size = up.size /\ u.partSize = size /\ u.n = 1 /\ u.offset = up.offset
  BY <1>1 DEF Calls
<1> HIDE DEF u
<1>5. CASE Sends(Ask("abort"), u)
  <2>1. /\ up'.pc = "abort" /\ up'.n = 1 /\ up'.size = up.size
        /\ wire' = wire \cup {Ask("abort")}
    BY <1>4, <1>5, SendsTo, AskIs DEF Waiting
  <2> QED  BY <1>1, <1>2, <2>1, AskIs, KeepsChunks
<1>6. CASE Continue(u)
  <2>1. /\ received = {} /\ up.offset = 0 /\ session.state # "finalized"
        /\ ~Sending("part") /\ ~Sending("finalize")
    BY <1>1 DEF ChunksInv
  <2>2. Chunks(u, u.n - 1) = {}
    BY <1>4 DEF Chunks
  <2>3. (u.n - 1) * u.partSize = 0
    <3>1. u.n - 1 = 0 /\ u.partSize \in Int  BY <1>1, <1>4
    <3> QED  BY <3>1, ProductNext
  <2>4. TotalParts(u.size, u.partSize) \in Nat
    BY <1>1, <1>4, TotalPartsRoundsUp
  <2> QED  BY <1>1, <1>2, <1>4, <1>6, <2>1, <2>2, <2>3, <2>4, ContinueChunks
<1> QED  BY <1>3, <1>5, <1>6

LEMMA PartDoneChunks == ASSUME IInv, ChunksInv, PartDone PROVE ChunksInv'
<1> DEFINE offset == up.offset + Smaller(up.partSize, up.size - up.offset)
           n == up.n + 1
           t == TotalParts(up.size, up.partSize)
           u == [up EXCEPT !.n = n, !.offset = offset]
<1>1. /\ up \in Calls /\ up.pc = "part" /\ up.n \in Nat \ {0} /\ up.partSize \in Nat \ {0}
      /\ up.size \in Nat /\ up.offset \in Int
  BY CallTyped DEF IInv, Typed, PartDone, Answered
<1>2. /\ up.n <= t /\ up.offset = (up.n - 1) * up.partSize
      /\ received = Chunks(up, up.n) /\ ~Sending("part")
  BY <1>1 DEF ChunksInv, PartDone
<1>3. ~Sending("finalize") /\ session.state # "finalized"
  <2>1. session.blob = "none" /\ \A r \in wire : r.op # "finalize"
    BY <1>1 DEF IInv, PlaceInv, Ends
  <2> QED  BY <2>1 DEF ChunksInv, Sending
<1>4. Continue(u) /\ UNCHANGED <<session, received>>  BY DEF PartDone
<1>5. t \in Nat  BY <1>1, TotalPartsRoundsUp
<1>6. n \in Nat \ {0} /\ n <= t + 1 /\ n - 1 = up.n  BY <1>1, <1>2, <1>5
<1>7. offset \in Int /\ (n <= t => offset = (n - 1) * up.partSize)
  <2>1. n <= t => (n - 1) * up.partSize < up.size
    BY <1>1, <1>6, IsPart
  <2>2. (n - 1) * up.partSize = up.offset + up.partSize
    <3>1. up.n * up.partSize = (up.n - 1) * up.partSize + up.partSize
      BY <1>1, ProductNext
    <3> HIDE DEF n
    <3> QED  BY <1>2, <1>6, <3>1
  <2> HIDE DEF n, t
  <2> QED  BY <1>1, <2>1, <2>2 DEF Smaller
<1> HIDE DEF offset, n
<1>8. u \in Calls /\ u.size = up.size /\ u.partSize = up.partSize /\ u.n = n /\ u.offset = offset
  BY <1>1, <1>6, <1>7 DEF Calls
<1> HIDE DEF u
<1>9. received = Chunks(u, u.n - 1)
  BY <1>2, <1>6, <1>8, SameChunks
<1> QED  BY <1>1, <1>2, <1>3, <1>4, <1>6, <1>7, <1>8, <1>9, ContinueChunks

\* A request that is not one of the loop's.
LEMMA SendsOther ==
    ASSUME IInv, ChunksInv, NEW op \in {"create", "check", "abort"}, Sends(Ask(op), up),
           UNCHANGED <<session, received>>
    PROVE  ChunksInv'
<1>1. /\ up' = [up EXCEPT !.pc = op] /\ wire' = wire \cup {Ask(op)} /\ up \in Calls
  BY AskIs DEF Sends, IInv, Typed
<1>2. /\ up'.pc = op /\ up'.n = up.n /\ up'.offset = up.offset
      /\ up'.size = up.size /\ up'.partSize = up.partSize
  BY <1>1 DEF Calls
<1> QED  BY <1>1, <1>2, AskIs, KeepsChunks

\* The call ends.
LEMMA EndsChunks ==
    ASSUME IInv, ChunksInv, NEW e \in Ends, up' = [up EXCEPT !.pc = e],
           wire' \in {wire, {}}, UNCHANGED <<session, received>>
    PROVE  ChunksInv'
<1>1. /\ up'.pc = e /\ up'.n = up.n /\ up'.offset = up.offset
      /\ up'.size = up.size /\ up'.partSize = up.partSize
  BY DEF IInv, Typed, Calls
<1> QED  BY <1>1, KeepsChunks DEF Ends

LEMMA ClientChunks ==
    ASSUME IInv, ChunksInv, ClientStep \/ Cancel
    PROVE  ChunksInv'
<1>1. CASE Upload  BY <1>1, SendsOther DEF Upload
<1>2. CASE Created  BY <1>2, CreatedChunks
<1>3. CASE PartDone  BY <1>3, PartDoneChunks
<1>4. CASE Finalized  BY <1>4, EndsChunks DEF Finalized, Ends
<1>5. CASE Failed  BY <1>5, SendsOther, EndsChunks DEF Failed, Raises, Ends
<1>6. CASE Checked  BY <1>6, SendsOther, EndsChunks DEF Checked, Raises, Ends
<1>7. CASE Aborted  BY <1>7, EndsChunks DEF Aborted, Raises, Ends
<1>8. CASE Cancel  BY <1>8, EndsChunks DEF Cancel, Abandoned, Ends
<1> QED
  BY <1>1, <1>2, <1>3, <1>4, <1>5, <1>6, <1>7, <1>8 DEF ClientStep

\* An answer, or none, and the session not finalized by it.
LEMMA AnswersChunks ==
    ASSUME ChunksInv, UNCHANGED <<up, received>>, wire' \subseteq wire,
           session' = session \/ session'.state # "finalized",
           Answered("part")' => Answered("part")
    PROVE  ChunksInv'
BY KeepsChunks

LEMMA PartServed ==
    ASSUME IInv, ChunksInv, NEW r, Carries(r, "ok"), r.op = "part", session.state \in Open,
           session' = [session EXCEPT !.state = "in_progress"],
           received' = received \cup {r.part}
    PROVE  ChunksInv'
<1>1. /\ up' = up /\ r \in wire /\ wire' = wire \ {r}
      /\ session'.state = "in_progress"
  BY DEF Carries, IInv, Typed, SessionRecords
<1>2. Sending("part") /\ up.n # 0 /\ ~Sending("finalize")
      /\ up.pc # "finalize"
  BY <1>1 DEF ChunksInv, Sending
<1>3. ~Sending("finalize")'  BY <1>1, <1>2 DEF Sending
<1>4. CASE up.pc = "part"
  <2>1. /\ \A q \in wire : q.op = "part" => q = [op |-> "part", part |-> Chunk(up, up.n)]
        /\ up.n \in Nat \ {0}
        /\ received \in {Chunks(up, up.n - 1), Chunks(up, up.n)}
    BY <1>2, <1>4 DEF ChunksInv, IInv, Typed, Calls
  <2>2. r.part = Chunk(up, up.n) /\ ~Sending("part")'
    BY <1>1, <2>1 DEF Sending
  <2>3. received' = Chunks(up, up.n)
    BY <2>1, <2>2, OneMoreChunk
  <2> QED  BY <1>1, <1>2, <1>3, <1>4, <2>1, <2>2, <2>3 DEF ChunksInv
<1>5. CASE up.pc # "part"
  BY <1>1, <1>2, <1>3, <1>5 DEF ChunksInv
<1> QED  BY <1>4, <1>5

LEMMA FinalizeServed ==
    ASSUME IInv, ChunksInv, NEW r, Carries(r, "ok"), r.op = "finalize",
           session' = [session EXCEPT !.state = "finalized", !.blob = "stored",
                                      !.late = LookedAt],
           received' = received
    PROVE  ChunksInv'
<1>1. /\ up' = up /\ r \in wire /\ wire' \subseteq wire
      /\ session'.state = "finalized" /\ session'.blob = "stored"
  BY DEF Carries, IInv, Typed, SessionRecords
<1>2. Sending("finalize") /\ up.n # 0 /\ up.pc # "part"
  BY <1>1 DEF ChunksInv, Sending, IInv, PlaceInv, Ends
<1>3. ~Sending("part")' /\ received = Chunks(up, TotalParts(up.size, up.partSize))
  BY <1>1, <1>2 DEF ChunksInv, Sending
<1> QED  BY <1>1, <1>2, <1>3 DEF ChunksInv

LEMMA ServeChunks == ASSUME IInv, ChunksInv, Serve PROVE ChunksInv'
<1>1. PICK r \in wire : /\ wire' = wire \ {r}
                        /\ \/ Carry(r)
                           \/ Reply(r, "error") /\ UNCHANGED <<session, received>>
  BY DEF Serve
<1>2. up' = up /\ unclean' = unclean  BY DEF Serve
<1>3. \A a : Reply(r, a) => Carries(r, a)
  BY <1>1, <1>2 DEF Carries
<1>4. \A a : Reply(r, a) /\ (r.op # "part" \/ a = "error") => (Answered("part")' => Answered("part"))
  BY <1>2 DEF Reply, Answered
<1>5. CASE Reply(r, "error") /\ UNCHANGED <<session, received>>
  BY <1>1, <1>2, <1>4, <1>5, AnswersChunks
<1>6. session \in SessionRecords  BY DEF IInv, Typed
<1>7. CASE r.op = "create" /\ Carry(r)
  <2>1. received' = received /\ session'.state = "initiated" /\ Reply(r, "ok")
    BY <1>6, <1>7 DEF Carry, SessionRecords
  <2> QED  BY <1>1, <1>2, <1>4, <1>7, <2>1, AnswersChunks
<1>8. CASE r.op = "part" /\ Carry(r)
  BY <1>3, <1>8, PartServed DEF Carry
<1>9. CASE r.op = "finalize" /\ Carry(r)
  <2>1. ASSUME NEW s \in {session.state, "failed"}, session.state \in Open,
               session' = [session EXCEPT !.state = s], Reply(r, "error"), received' = received
        PROVE  ChunksInv'
    <3>1. session'.state # "finalized"  BY <1>6, <2>1 DEF Open, SessionRecords
    <3> QED  BY <1>1, <1>2, <1>4, <2>1, <3>1, AnswersChunks
  <2>2. CASE /\ session' = [session EXCEPT !.state = "finalized", !.blob = "stored",
                                           !.late = LookedAt]
             /\ Reply(r, "ok") /\ received' = received
    BY <1>3, <1>9, <2>2, FinalizeServed
  <2> QED  BY <1>9, <2>1, <2>2 DEF Carry
<1>10. CASE r.op = "check" /\ Carry(r)
  <2>1. UNCHANGED <<session, received>> /\ Reply(r, session.state)
    BY <1>10 DEF Carry
  <2> QED  BY <1>1, <1>2, <1>4, <1>10, <2>1, AnswersChunks
<1>11. CASE r.op = "abort" /\ Carry(r)
  <2>1. received' = received /\ session'.state = "aborted" /\ Reply(r, "ok")
    BY <1>6, <1>11 DEF Carry, SessionRecords
  <2> QED  BY <1>1, <1>2, <1>4, <1>11, <2>1, AnswersChunks
<1> QED  BY <1>1, <1>5, <1>7, <1>8, <1>9, <1>10, <1>11 DEF Carry

LEMMA BreakChunks == ASSUME ChunksInv, Break PROVE ChunksInv'
<1>1. /\ UNCHANGED <<up, session, received>> /\ wire' \subseteq wire /\ ~Answered("part")'
  BY DEF Break, Abandoned, Answered
<1> QED  BY <1>1, AnswersChunks

LEMMA ExpireChunks == ASSUME IInv, ChunksInv, Expire PROVE ChunksInv'
<1>1. /\ UNCHANGED <<up, answer, received, wire>> /\ session'.state = "expired"
  BY DEF Expire, IInv, Typed, SessionRecords
<1>2. Answered("part")' => Answered("part")  BY <1>1 DEF Answered
<1> QED  BY <1>1, <1>2, AnswersChunks

LEMMA NextChunks == IInv /\ ChunksInv /\ [Next]_vars => ChunksInv'
<1> SUFFICES ASSUME IInv, ChunksInv, [Next]_vars PROVE ChunksInv'
  OBVIOUS
<1>1. CASE UNCHANGED vars
  <2>1. UNCHANGED <<up, answer, session, received, wire>>  BY <1>1 DEF vars
  <2>2. Answered("part")' => Answered("part")  BY <2>1 DEF Answered
  <2> QED  BY <2>1, <2>2, AnswersChunks
<1> QED
  BY <1>1, ClientChunks, ServeChunks, BreakChunks, ExpireChunks DEF Next, ClientStep

LEMMA InitChunks == Init => ChunksInv
<1> SUFFICES ASSUME Init PROVE ChunksInv
  OBVIOUS
<1>1. /\ up.pc = "new" /\ up.offset = 0 /\ received = {} /\ wire = {}
      /\ session.state = "none"
  BY DEF Init
<1> QED  BY <1>1 DEF ChunksInv, Sending

(* Whatever fails, is carried out late or gets no answer: a session that is   *)
(* finalized holds the whole file, in parts of any size, each byte once.     *)
THEOREM FinalizesTheWholeFile == Spec => []FinalizedIsWhole
<1>1. IInv /\ ChunksInv => FinalizedIsWhole
  <2> SUFFICES ASSUME IInv, ChunksInv, session.state = "finalized" PROVE FinalizedIsWhole
    BY DEF FinalizedIsWhole
  <2>1. up \in Calls /\ up.n # 0 /\ received = Chunks(up, TotalParts(up.size, up.partSize))
    BY DEF ChunksInv, IInv, Typed
  <2>2. up.size \in Nat /\ up.partSize \in Nat \ {0}
    BY <2>1, CallTyped DEF IInv, Typed
  <2> QED  BY <2>1, <2>2, ChunksAreWhole
<1>2. Init => IInv /\ ChunksInv  BY InitIInv, InitChunks
<1>3. IInv /\ ChunksInv /\ [Next]_vars => (IInv /\ ChunksInv)'
  BY NextIInv, NextChunks
<1> QED  BY <1>1, <1>2, <1>3, PTL DEF Spec

=====
