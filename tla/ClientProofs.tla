---------------------------- MODULE ClientProofs -----------------------------
(***************************************************************************)
(* Proofs about ClientCredentials, GrpcCalls and ClientResources, for any  *)
(* number of coroutines, tokens, retries and ticks: token fetches are      *)
(* shared and tokens last; mutating calls are carried out once and refused *)
(* tokens are not sent again; what the client opened is released, what it  *)
(* was passed is kept, and calls run over open channels.                   *)
(***************************************************************************)
EXTENDS GrpcCalls, ClientResources, SequenceTheorems, FiniteSetTheorems, TLAPS

(* Part 1: ClientCredentials, the token that the calls share. *)

Waiting == {"queued", "fetching", "issued"}
Records == [stage: Stages, since: Nat, tok: Tokens \cup {NoToken}]

\* The lock's queue: those who wait for it are in it once, and only its head
\* fetches.
Queue(q, stage) ==
    /\ \A i, j \in DOMAIN q : q[i] = q[j] => i = j
    /\ \A i \in DOMAIN q : stage[q[i]] \in (IF i = 1 THEN Waiting ELSE {"queued"})
    /\ \A c \in Coroutines : stage[c] \in Waiting => \E i \in DOMAIN q : q[i] = c

StageOf == [c \in Coroutines |-> asking[c].stage]
LockInv == Queue(lock, StageOf)

\* A token on its way is the newest, and nobody has seen it yet.
TokenInv ==
    /\ token # NoToken => token \in 1..Len(expiries)
    /\ \A c \in Coroutines :
          /\ asking[c].stage \in {"issued", "has"} => asking[c].tok \in 1..Len(expiries)
          /\ asking[c].stage = "issued" =>
                /\ asking[c].tok = Len(expiries)
                /\ token # asking[c].tok
                /\ \A d \in Coroutines :
                      asking[d].stage = "has" => asking[d].tok # asking[c].tok

DueInv ==
    \A c \in Coroutines :
        asking[c].stage \in {"fetching", "issued"} =>
            token = NoToken \/ refreshAt <= asking[c].since

IInv == TypeOK /\ LockInv /\ DueInv /\ TokenInv

-----------------------------------------------------------------------------
(* Queues. *)

LEMMA QueueAppend ==
    ASSUME NEW S, NEW q \in Seq(S), NEW x \in S
    PROVE  /\ Append(q, x) \in Seq(S)
           /\ DOMAIN Append(q, x) = 1..Len(q) + 1
           /\ \A i \in 1..Len(q) : Append(q, x)[i] = q[i]
           /\ Append(q, x)[Len(q) + 1] = x
OBVIOUS

LEMMA QueueTail ==
    ASSUME NEW S, NEW q \in Seq(S), q # <<>>
    PROVE  /\ Tail(q) \in Seq(S)
           /\ DOMAIN Tail(q) = 1..Len(q) - 1
           /\ \A i \in 1..Len(q) - 1 : Tail(q)[i] = q[i + 1]
           /\ Head(q) = q[1] /\ Len(q) >= 1
OBVIOUS

LEMMA QueueRemove ==
    ASSUME NEW S, NEW q \in Seq(S), NEW i \in DOMAIN q
    PROVE  /\ RemoveAt(q, i) \in Seq(S)
           /\ DOMAIN RemoveAt(q, i) = 1..Len(q) - 1
           /\ \A j \in 1..Len(q) - 1 : RemoveAt(q, i)[j] = q[IF j < i THEN j ELSE j + 1]
<1> DEFINE a == SubSeq(q, 1, i - 1)
           b == SubSeq(q, i + 1, Len(q))
<1>1. Len(q) \in Nat /\ i \in 1..Len(q)
  OBVIOUS
<1>2. a \in Seq(S) /\ Len(a) = i - 1 /\ \A j \in 1..i - 1 : a[j] = q[j]
  BY <1>1
<1>3. b \in Seq(S) /\ Len(b) = Len(q) - i /\ \A j \in 1..Len(q) - i : b[j] = q[i + j]
  BY <1>1
<1> HIDE DEF a, b
<1>4. /\ a \o b \in Seq(S) /\ Len(a \o b) = Len(q) - 1
      /\ \A j \in 1..Len(q) - 1 : (a \o b)[j] = IF j <= i - 1 THEN a[j] ELSE b[j - (i - 1)]
  <2>1. Len(a) + Len(b) = Len(q) - 1  BY <1>1, <1>2, <1>3
  <2>2. /\ a \o b \in Seq(S) /\ Len(a \o b) = Len(a) + Len(b)
        /\ \A j \in 1..Len(a) + Len(b) :
              (a \o b)[j] = IF j <= Len(a) THEN a[j] ELSE b[j - Len(a)]
    BY <1>2, <1>3, ConcatProperties
  <2>3. Len(a) = i - 1  BY <1>2
  <2> QED  BY <2>1, <2>2, <2>3
<1>5. \A j \in 1..Len(q) - 1 : (a \o b)[j] = q[IF j < i THEN j ELSE j + 1]
  <2> SUFFICES ASSUME NEW j \in 1..Len(q) - 1
               PROVE  (a \o b)[j] = q[IF j < i THEN j ELSE j + 1]
    OBVIOUS
  <2>1. CASE j < i
    <3>1. j \in 1..i - 1 /\ j <= i - 1  BY <1>1, <2>1
    <3>2. (a \o b)[j] = a[j]  BY <1>4, <3>1
    <3> QED  BY <1>2, <2>1, <3>1, <3>2
  <2>2. CASE ~(j < i)
    <3>1. j - (i - 1) \in 1..Len(q) - i /\ ~(j <= i - 1) /\ i + (j - (i - 1)) = j + 1
      BY <1>1, <2>2
    <3>2. (a \o b)[j] = b[j - (i - 1)]  BY <1>4, <3>1
    <3> QED  BY <1>3, <2>2, <3>1, <3>2
  <2> QED  BY <2>1, <2>2
<1>6. RemoveAt(q, i) = a \o b  BY DEF RemoveAt, a, b
<1> QED  BY <1>4, <1>5, <1>6

\* A queue whose stages are f: c joins it, leaves it, or goes on at its head.
LEMMA Joins ==
    ASSUME NEW q \in Seq(Coroutines), NEW f \in [Coroutines -> Stages], Queue(q, f),
           NEW c \in Coroutines, f[c] \notin Waiting
    PROVE  Queue(Append(q, c), [f EXCEPT ![c] = IF q = <<>> THEN "fetching" ELSE "queued"])
<1> DEFINE p == Append(q, c)
           g == [f EXCEPT ![c] = IF q = <<>> THEN "fetching" ELSE "queued"]
<1>1. /\ Len(q) \in Nat /\ DOMAIN q = 1..Len(q) /\ DOMAIN p = 1..Len(q) + 1
      /\ (\A i \in 1..Len(q) : p[i] = q[i] /\ q[i] \in Coroutines) /\ p[Len(q) + 1] = c
  BY QueueAppend
<1>2. \A i \in 1..Len(q) : q[i] # c
  BY <1>1 DEF Queue, Waiting
<1>3. q = <<>> <=> Len(q) = 0
  OBVIOUS
<1>4. /\ g[c] = IF q = <<>> THEN "fetching" ELSE "queued"
      /\ \A d \in Coroutines \ {c} : g[d] = f[d]
  OBVIOUS
<1> HIDE DEF p, g
<1>5. \A i, j \in DOMAIN p : p[i] = p[j] => i = j
  BY <1>1, <1>2 DEF Queue
<1>6. \A i \in DOMAIN p : g[p[i]] \in (IF i = 1 THEN Waiting ELSE {"queued"})
  BY <1>1, <1>2, <1>3, <1>4 DEF Queue, Waiting
<1>7. \A d \in Coroutines : g[d] \in Waiting => \E i \in DOMAIN p : p[i] = d
  <2> SUFFICES ASSUME NEW d \in Coroutines, g[d] \in Waiting PROVE \E i \in DOMAIN p : p[i] = d
    OBVIOUS
  <2>1. CASE d = c  BY <1>1, <2>1
  <2>2. CASE d # c
    <3>1. PICK i \in DOMAIN q : q[i] = d  BY <1>4, <2>2 DEF Queue
    <3> QED  BY <1>1, <3>1
  <2> QED  BY <2>1, <2>2
<1> QED  BY <1>5, <1>6, <1>7 DEF Queue, p, g

LEMMA LeavesHead ==
    ASSUME NEW q \in Seq(Coroutines), NEW f \in [Coroutines -> Stages], Queue(q, f),
           q # <<>>, NEW s \in Stages \ Waiting
    PROVE  Queue(Tail(q), [f EXCEPT ![Head(q)] = s])
<1> DEFINE p == Tail(q)
           c == Head(q)
           g == [f EXCEPT ![c] = s]
<1>1. /\ Len(q) \in Nat /\ Len(q) >= 1 /\ DOMAIN q = 1..Len(q) /\ DOMAIN p = 1..Len(q) - 1
      /\ \A i \in 1..Len(q) : q[i] \in Coroutines
      /\ \A i \in 1..Len(q) - 1 : p[i] = q[i + 1]
      /\ c = q[1] /\ c \in Coroutines
  BY QueueTail
<1>2. g[c] = s /\ \A d \in Coroutines \ {c} : g[d] = f[d]
  BY <1>1
<1> HIDE DEF p, c, g
<1>3. \A i \in 1..Len(q) - 1 : q[i + 1] # c
  BY <1>1 DEF Queue
<1>4. \A i, j \in DOMAIN p : p[i] = p[j] => i = j
  <2> SUFFICES ASSUME NEW i \in DOMAIN p, NEW j \in DOMAIN p, p[i] = p[j] PROVE i = j
    OBVIOUS
  <2>1. i \in Int /\ j \in Int /\ i + 1 \in DOMAIN q /\ j + 1 \in DOMAIN q
    BY <1>1
  <2>2. q[i + 1] = q[j + 1]  BY <1>1
  <2>3. i + 1 = j + 1  BY <2>1, <2>2 DEF Queue
  <2> QED  BY <2>1, <2>3
<1>5. \A i \in DOMAIN p : g[p[i]] \in (IF i = 1 THEN Waiting ELSE {"queued"})
  <2> SUFFICES ASSUME NEW i \in DOMAIN p PROVE g[p[i]] = "queued"
    BY DEF Waiting
  <2>1. i + 1 \in DOMAIN q /\ i + 1 # 1 /\ p[i] = q[i + 1]  BY <1>1
  <2> QED  BY <1>1, <1>2, <1>3, <2>1 DEF Queue
<1>6. \A d \in Coroutines : g[d] \in Waiting => \E i \in DOMAIN p : p[i] = d
  <2> SUFFICES ASSUME NEW d \in Coroutines, g[d] \in Waiting PROVE \E i \in DOMAIN p : p[i] = d
    OBVIOUS
  <2>1. d # c /\ f[d] \in Waiting  BY <1>2
  <2>2. PICK i \in DOMAIN q : q[i] = d  BY <2>1 DEF Queue
  <2>3. i - 1 \in DOMAIN p /\ p[i - 1] = d  BY <1>1, <2>1, <2>2
  <2> QED  BY <2>3
<1> QED  BY <1>4, <1>5, <1>6 DEF Queue, p, c, g

LEMMA LeavesQueue ==
    ASSUME NEW q \in Seq(Coroutines), NEW f \in [Coroutines -> Stages], Queue(q, f),
           NEW k \in DOMAIN q, NEW s \in Stages \ Waiting
    PROVE  Queue(RemoveAt(q, k), [f EXCEPT ![q[k]] = s])
<1> DEFINE p == RemoveAt(q, k)
           c == q[k]
           g == [f EXCEPT ![c] = s]
<1>1. /\ Len(q) \in Nat /\ DOMAIN q = 1..Len(q) /\ DOMAIN p = 1..Len(q) - 1
      /\ \A i \in 1..Len(q) : q[i] \in Coroutines
      /\ \A i \in 1..Len(q) - 1 : p[i] = q[IF i < k THEN i ELSE i + 1]
      /\ c = q[k] /\ c \in Coroutines /\ k \in 1..Len(q)
  BY QueueRemove
<1>2. g[c] = s /\ \A d \in Coroutines \ {c} : g[d] = f[d]
  BY <1>1
<1> HIDE DEF p, c, g
<1>3. \A i \in 1..Len(q) : i # k => q[i] # c
  BY <1>1 DEF Queue
<1>4. \A i, j \in DOMAIN p : p[i] = p[j] => i = j
  <2> SUFFICES ASSUME NEW i \in DOMAIN p, NEW j \in DOMAIN p, p[i] = p[j]
               PROVE  i = j
    OBVIOUS
  <2> DEFINE m(n) == IF n < k THEN n ELSE n + 1
  <2>1. m(i) \in DOMAIN q /\ m(j) \in DOMAIN q /\ q[m(i)] = q[m(j)]  BY <1>1
  <2> HIDE DEF m
  <2>2. m(i) = m(j)  BY <2>1 DEF Queue
  <2> QED  BY <1>1, <2>2 DEF m
<1>5. \A i \in DOMAIN p : g[p[i]] \in (IF i = 1 THEN Waiting ELSE {"queued"})
  <2> SUFFICES ASSUME NEW i \in DOMAIN p
               PROVE  g[p[i]] \in (IF i = 1 THEN Waiting ELSE {"queued"})
    OBVIOUS
  <2> DEFINE j == IF i < k THEN i ELSE i + 1
  <2>1. j \in DOMAIN q /\ j # k /\ p[i] = q[j] /\ (j = 1 => i = 1)  BY <1>1
  <2>2. g[p[i]] = f[q[j]]  BY <1>1, <1>2, <1>3, <2>1
  <2> QED  BY <2>1, <2>2 DEF Queue, Waiting
<1>6. \A d \in Coroutines : g[d] \in Waiting => \E i \in DOMAIN p : p[i] = d
  <2> SUFFICES ASSUME NEW d \in Coroutines, g[d] \in Waiting PROVE \E i \in DOMAIN p : p[i] = d
    OBVIOUS
  <2>1. d # c /\ f[d] \in Waiting  BY <1>2
  <2>2. PICK i \in DOMAIN q : q[i] = d  BY <2>1 DEF Queue
  <2>3. CASE i < k
    <3>1. i \in DOMAIN p /\ p[i] = d  BY <1>1, <2>2, <2>3
    <3> QED  BY <3>1
  <2>4. CASE i > k
    <3>1. i - 1 \in DOMAIN p /\ p[i - 1] = d  BY <1>1, <2>2, <2>4
    <3> QED  BY <3>1
  <2> QED  BY <1>1, <2>1, <2>2, <2>3, <2>4
<1> QED  BY <1>4, <1>5, <1>6 DEF Queue, p, c, g

LEMMA Moves ==
    ASSUME NEW q \in Seq(Coroutines), NEW f \in [Coroutines -> Stages], Queue(q, f),
           NEW c \in Coroutines, NEW s \in Stages,
           \/ f[c] \in Waiting /\ Head(q) = c /\ s \in Waiting
           \/ f[c] \notin Waiting /\ s \notin Waiting
    PROVE  Queue(q, [f EXCEPT ![c] = s])
BY DEF Queue, Waiting

\* Who waits is in the queue, and who fetches is its head.
LEMMA HeadFetches ==
    ASSUME NEW q \in Seq(Coroutines), NEW f \in [Coroutines -> Stages], Queue(q, f),
           NEW c \in Coroutines, f[c] \in Waiting
    PROVE  q # <<>> /\ (f[c] # "queued" => Head(q) = c)
<1>1. PICK i \in DOMAIN q : q[i] = c  BY DEF Queue
<1> QED  BY <1>1 DEF Queue, Waiting

LEMMA ConstantsTyped ==
    /\ NoToken \notin Nat /\ Lifetime \in Nat /\ RefreshMargin \in Nat
    /\ MaxLatency \in Nat /\ MaxTokens \in Nat /\ MaxTime \in Nat
    /\ Margin \in Nat /\ 2 * Margin <= Lifetime
BY CredentialsConstants DEF Margin

LEMMA TypedState ==
    ASSUME TypeOK
    PROVE  /\ StageOf \in [Coroutines -> Stages]
           /\ lock \in Seq(Coroutines)
           /\ asking \in [Coroutines -> Records]
           /\ expiries \in Seq(Nat) /\ Len(expiries) \in Nat
BY DEF TypeOK, StageOf, Records

\* One coroutine holds the lock: the one that fetches.
LEMMA OneFetches ==
    ASSUME TypeOK, LockInv,
           NEW c \in Coroutines, asking[c].stage \in {"fetching", "issued"}
    PROVE  /\ lock # <<>> /\ Head(lock) = c
           /\ \A d \in Coroutines : asking[d].stage \in {"fetching", "issued"} => d = c
BY TypedState, HeadFetches DEF LockInv, StageOf, Waiting

-----------------------------------------------------------------------------
(* The invariant. *)

LEMMA InitIInv == Init => IInv
<1> SUFFICES ASSUME Init PROVE IInv
  OBVIOUS
<1> USE ConstantsTyped DEF Init, NotAsking, AskingAt
<1>1. TypeOK  BY DEF TypeOK, Stages
<1>2. LockInv  BY DEF LockInv, Queue, StageOf, Waiting
<1>3. DueInv  BY DEF DueInv
<1>4. TokenInv  BY DEF TokenInv
<1> QED  BY <1>1, <1>2, <1>3, <1>4 DEF IInv

\* The steps of one coroutine, by what they do to it and to the queue.
LEMMA RecordsTyped ==
    ASSUME TypeOK, NEW c \in Coroutines
    PROVE  /\ NotAsking \in Records /\ AskingAt("has", 0, token) \in Records
           /\ AskingAt("fetching", clock, NoToken) \in Records /\ AskingAt("failed", 0, NoToken) \in Records
           /\ \A s \in Stages :
                 LET r == [asking[c] EXCEPT !.stage = s]
                 IN  /\ r \in Records
                     /\ r.stage = s /\ r.since = asking[c].since /\ r.tok = asking[c].tok
           /\ \A t \in Tokens :
                 LET r == [asking[c] EXCEPT !.stage = "issued", !.tok = t]
                 IN  /\ r \in Records
                     /\ r.stage = "issued" /\ r.since = asking[c].since /\ r.tok = t
BY TypedState, ConstantsTyped DEF Records, NotAsking, AskingAt, Stages, TypeOK

LEMMA TokenKeeps == ASSUME IInv, NEW c \in Coroutines, Token(c) PROVE IInv'
<1> USE ConstantsTyped DEF IInv
<1>1. asking' \in [Coroutines -> Records] /\ \A d \in Coroutines \ {c} : asking'[d] = asking[d]
  <2>1. asking[c] \in Records /\ "queued" \in Stages  BY TypedState DEF Stages
  <2>2. /\ AskingAt("has", 0, token) \in Records /\ AskingAt("fetching", clock, NoToken) \in Records
        /\ [asking[c] EXCEPT !.stage = "queued"] \in Records
    BY <2>1, RecordsTyped
  <2>3. asking' \in {[asking EXCEPT ![c] = AskingAt("has", 0, token)],
                     [asking EXCEPT ![c] = AskingAt("fetching", clock, NoToken)],
                     [asking EXCEPT ![c].stage = "queued"]}
    BY DEF Token, Returns, Fetching
  <2>4. PICK r \in Records : asking' = [asking EXCEPT ![c] = r]
    BY <2>2, <2>3
  <2> QED  BY <2>4, TypedState
<1>2. TypeOK'
  <2>1. lock' \in Seq(Coroutines)
    <3>1. lock' \in {lock, Append(lock, c)}  BY DEF Token
    <3> QED  BY <3>1, QueueAppend, TypedState
  <2>2. UNCHANGED <<token, refreshAt, expiries, clock>>  BY DEF Token
  <2> QED  BY <1>1, <2>1, <2>2 DEF TypeOK, Records
<1>0. StageOf[c] \notin Waiting  BY DEF Token, StageOf, Waiting
<1>3. CASE ~Due
  <2>1. asking'[c].stage = "has" /\ asking'[c].tok = token /\ lock' = lock
    BY <1>3, TypedState DEF Token, Returns, NotAsking, AskingAt
  <2>2. StageOf' = [StageOf EXCEPT ![c] = "has"]
    BY <1>1, <2>1 DEF StageOf
  <2>3. LockInv'
    <3>1. "has" \in Stages /\ "has" \notin Waiting  BY DEF Stages, Waiting
    <3> QED  BY <1>0, <2>1, <2>2, <3>1, Moves, TypedState DEF LockInv
  <2>4. DueInv'  BY <1>1, <2>1 DEF DueInv, Token
  <2>5. TokenInv'  BY <1>1, <1>3, <2>1 DEF TokenInv, Token, Due
  <2> QED  BY <1>2, <2>3, <2>4, <2>5
<1>4. CASE Due
  <2>1. /\ asking'[c].stage = IF lock = <<>> THEN "fetching" ELSE "queued"
        /\ lock = <<>> => asking'[c].since = clock
        /\ lock' = Append(lock, c)
    BY <1>4, TypedState DEF Token, Fetching, NotAsking, AskingAt, Records
  <2>2. StageOf' = [StageOf EXCEPT ![c] = IF lock = <<>> THEN "fetching" ELSE "queued"]
    BY <1>1, <2>1 DEF StageOf
  <2>3. LockInv'
    BY <1>0, <2>1, <2>2, Joins, TypedState DEF LockInv
  <2>4. DueInv'
    <3> SUFFICES ASSUME NEW d \in Coroutines, asking'[d].stage \in {"fetching", "issued"}
                 PROVE  token = NoToken \/ refreshAt <= asking'[d].since
      BY DEF DueInv, Token
    <3>1. CASE d = c
      <4>1. lock = <<>>  BY <2>1, <3>1
      <4>2. asking'[d].since = clock  BY <2>1, <3>1, <4>1
      <4>3. refreshAt \in Int /\ clock \in Int  BY DEF TypeOK
      <4> QED  BY <1>4, <4>2, <4>3 DEF Due
    <3>2. CASE d # c
      <4>1. asking'[d] = asking[d]  BY <1>1, <3>2
      <4> QED  BY <4>1 DEF DueInv
    <3> QED  BY <3>1, <3>2
  <2>5. TokenInv'
    <3>1. UNCHANGED <<token, expiries>>  BY DEF Token
    <3>2. asking'[c].stage \notin {"issued", "has"}  BY <2>1
    <3>3. \A d \in Coroutines : asking'[d].stage \in {"issued", "has"} => asking'[d] = asking[d]
      BY <1>1, <3>2
    <3> QED  BY <3>1, <3>3 DEF TokenInv
  <2> QED  BY <1>2, <2>3, <2>4, <2>5
<1> QED  BY <1>3, <1>4

LEMMA EnterKeeps == ASSUME IInv, NEW c \in Coroutines, Enter(c) PROVE IInv'
<1> USE ConstantsTyped DEF IInv
<1>1. asking' \in [Coroutines -> Records] /\ \A d \in Coroutines \ {c} : asking'[d] = asking[d]
  <2>1. CASE ~Due  BY <2>1, TypedState, RecordsTyped DEF Enter, Returns
  <2>2. CASE Due  BY <2>2, TypedState, RecordsTyped DEF Enter, Fetching
  <2> QED  BY <2>1, <2>2
<1>2. lock # <<>> /\ Head(lock) = c /\ StageOf[c] = "queued"
  BY TypedState, HeadFetches DEF Enter, LockInv, StageOf, Waiting
<1>3. TypeOK'
  <2>1. lock' \in Seq(Coroutines)  BY <1>2, QueueTail, TypedState DEF Enter
  <2>2. UNCHANGED <<token, refreshAt, expiries, clock>>  BY DEF Enter
  <2> QED  BY <1>1, <2>1, <2>2 DEF TypeOK, Records
<1>4. CASE ~Due
  <2>1. asking'[c].stage = "has" /\ asking'[c].tok = token /\ lock' = Tail(lock)
    BY <1>4, TypedState DEF Enter, Returns, NotAsking, AskingAt
  <2>2. StageOf' = [StageOf EXCEPT ![Head(lock)] = "has"]
    BY <1>1, <1>2, <2>1 DEF StageOf
  <2>3. LockInv'
    BY <1>2, <2>1, <2>2, LeavesHead, TypedState DEF LockInv, Waiting, Stages
  <2>4. DueInv'  BY <1>1, <2>1 DEF DueInv, Enter
  <2>5. TokenInv'  BY <1>1, <1>4, <2>1 DEF TokenInv, Enter, Due
  <2> QED  BY <1>3, <2>3, <2>4, <2>5
<1>5. CASE Due
  <2>1. asking'[c].stage = "fetching" /\ asking'[c].since = clock /\ lock' = lock
    BY <1>5, TypedState DEF Enter, Fetching, NotAsking, AskingAt
  <2>2. StageOf' = [StageOf EXCEPT ![c] = "fetching"]
    BY <1>1, <2>1 DEF StageOf
  <2>3. LockInv'
    BY <1>2, <2>1, <2>2, Moves, TypedState DEF LockInv, Waiting, Stages
  <2>4. DueInv'  BY <1>1, <1>5, <2>1 DEF DueInv, Enter, Due
  <2>5. TokenInv'  BY <1>1, <2>1 DEF TokenInv, Enter
  <2> QED  BY <1>3, <2>3, <2>4, <2>5
<1> QED  BY <1>4, <1>5

LEMMA IssueKeeps == ASSUME IInv, NEW c \in Coroutines, Issue(c) PROVE IInv'
<1> USE ConstantsTyped DEF IInv
<1>1. /\ asking' \in [Coroutines -> Records]
      /\ \A d \in Coroutines \ {c} : asking'[d] = asking[d]
      /\ asking'[c].stage = "issued" /\ asking'[c].tok = Len(expiries) + 1
      /\ asking'[c].since = asking[c].since
      /\ lock' = lock
  <2>1. Len(expiries) + 1 \in Tokens  BY TypedState DEF Issue, Tokens
  <2> QED  BY <2>1, TypedState, RecordsTyped DEF Issue
<1>2. /\ expiries' \in Seq(Nat) /\ Len(expiries') = Len(expiries) + 1
      /\ Len(expiries') <= MaxTokens
  BY TypedState DEF Issue, TypeOK
<1>3. TypeOK'
  BY <1>1, <1>2 DEF Issue, TypeOK, Records
<1>4. StageOf' = [StageOf EXCEPT ![c] = "issued"]
  BY <1>1 DEF StageOf
<1>5. lock # <<>> /\ Head(lock) = c /\ StageOf[c] = "fetching"
  BY OneFetches DEF Issue, StageOf
<1>6. LockInv'
  BY <1>1, <1>4, <1>5, Moves, TypedState DEF LockInv, Waiting, Stages
<1>7. DueInv'  BY <1>1 DEF DueInv, Issue
<1>8. \A d \in Coroutines : asking[d].stage = "issued" => FALSE
  BY <1>5, OneFetches DEF Issue
<1>9. \A d \in Coroutines : asking'[d].stage = "issued" => d = c
  BY <1>1, <1>8
<1>10. token' = token /\ (token # NoToken => token \in 1..Len(expiries))
  BY DEF Issue, TokenInv
<1>11. \A d \in Coroutines \ {c} :
           asking'[d].stage = "has" => asking'[d].tok \in 1..Len(expiries)
  BY <1>1 DEF TokenInv
<1>12. TokenInv'
  <2>1. Len(expiries) \in Nat  BY TypedState
  <2>2. token' # NoToken => token' \in 1..Len(expiries')
    BY <1>2, <1>10, <2>1
  <2>3. \A d \in Coroutines :
            asking'[d].stage \in {"issued", "has"} => asking'[d].tok \in 1..Len(expiries')
    BY <1>1, <1>2, <1>9, <1>11, <2>1
  <2>4. asking'[c].tok = Len(expiries') /\ asking'[c].tok = Len(expiries) + 1
    BY <1>1, <1>2
  <2>5. token' # asking'[c].tok
    BY <1>10, <2>1, <2>4, CredentialsConstants
  <2>6. ASSUME NEW d \in Coroutines, asking'[d].stage = "has"
        PROVE  asking'[d].tok # asking'[c].tok
    <3>1. d # c  BY <1>1, <2>6
    <3>2. asking'[d].tok \in 1..Len(expiries)  BY <1>1, <1>11, <2>6, <3>1
    <3> QED  BY <2>1, <2>4, <3>2
  <2> QED  BY <1>9, <2>2, <2>3, <2>4, <2>5, <2>6 DEF TokenInv
<1> QED  BY <1>3, <1>6, <1>7, <1>12

LEMMA FetchedKeeps == ASSUME IInv, NEW c \in Coroutines, Fetched(c) PROVE IInv'
<1> USE ConstantsTyped DEF IInv
<1>1. /\ asking' \in [Coroutines -> Records]
      /\ \A d \in Coroutines \ {c} : asking'[d] = asking[d]
      /\ asking'[c].stage = "has" /\ asking'[c].tok = asking[c].tok
  <2>1. "has" \in Stages  BY DEF Stages
  <2> QED  BY <2>1, TypedState, RecordsTyped DEF Fetched
<1>2. lock # <<>> /\ Head(lock) = c /\ asking[c].stage = "issued"
  BY OneFetches DEF Fetched
<1>3. lock' = Tail(lock) /\ lock' \in Seq(Coroutines)
  BY <1>2, QueueTail, TypedState DEF Fetched
<1>4. token' = asking[c].tok /\ token' \in 1..Len(expiries) /\ expiries' = expiries
  BY <1>2 DEF Fetched, TokenInv
<1>5. TypeOK'
  <2>1. Len(expiries) \in Nat /\ Len(expiries) <= MaxTokens  BY DEF TypeOK
  <2>2. token' \in Tokens  BY <1>4, <2>1 DEF Tokens
  <2>3. refreshAt' \in Int  BY TypedState DEF Fetched, Records
  <2> QED  BY <1>1, <1>3, <1>4, <2>2, <2>3 DEF Fetched, TypeOK, Records
<1>6. StageOf' = [StageOf EXCEPT ![Head(lock)] = "has"]
  BY <1>1, <1>2 DEF StageOf
<1>7. LockInv'
  BY <1>2, <1>3, <1>6, LeavesHead, TypedState DEF LockInv, Waiting, Stages
<1>8. \A d \in Coroutines : asking'[d].stage \notin {"fetching", "issued"}
  BY <1>1, <1>2, OneFetches
<1>9. DueInv'  BY <1>8 DEF DueInv
<1>10. TokenInv'  BY <1>1, <1>2, <1>4, <1>8 DEF TokenInv
<1> QED  BY <1>5, <1>7, <1>9, <1>10

LEMMA FetchFailsKeeps == ASSUME IInv, NEW c \in Coroutines, FetchFails(c) PROVE IInv'
<1> USE ConstantsTyped DEF IInv
<1>1. /\ asking' \in [Coroutines -> Records]
      /\ \A d \in Coroutines \ {c} : asking'[d] = asking[d]
      /\ asking'[c].stage = "failed"
  BY TypedState, RecordsTyped DEF FetchFails, NotAsking, AskingAt
<1>2. lock # <<>> /\ Head(lock) = c
  BY OneFetches DEF FetchFails
<1>3. lock' = Tail(lock) /\ lock' \in Seq(Coroutines)
  BY <1>2, QueueTail, TypedState DEF FetchFails
<1>4. TypeOK'
  BY <1>1, <1>3 DEF FetchFails, TypeOK, Records
<1>5. StageOf' = [StageOf EXCEPT ![Head(lock)] = "failed"]
  BY <1>1, <1>2 DEF StageOf
<1>6. LockInv'
  BY <1>2, <1>3, <1>5, LeavesHead, TypedState DEF LockInv, Waiting, Stages
<1>7. DueInv'  BY <1>1 DEF DueInv, FetchFails
<1>8. TokenInv'  BY <1>1 DEF TokenInv, FetchFails
<1> QED  BY <1>4, <1>6, <1>7, <1>8

LEMMA CancelledKeeps == ASSUME IInv, NEW c \in Coroutines, Cancelled(c) PROVE IInv'
<1> USE ConstantsTyped DEF IInv
<1>1. /\ asking' \in [Coroutines -> Records]
      /\ \A d \in Coroutines \ {c} : asking'[d] = asking[d]
      /\ asking'[c].stage = "failed"
  <2>1. "failed" \in Stages  BY DEF Stages
  <2> QED  BY <2>1, TypedState, RecordsTyped DEF Cancelled
<1>2. PICK i \in DOMAIN lock : lock[i] = c /\ lock' = RemoveAt(lock, i)
  BY DEF Cancelled
<1>3. lock' \in Seq(Coroutines)
  BY <1>2, QueueRemove, TypedState
<1>4. TypeOK'
  BY <1>1, <1>3 DEF Cancelled, TypeOK, Records
<1>5. StageOf' = [StageOf EXCEPT ![lock[i]] = "failed"]
  BY <1>1, <1>2 DEF StageOf
<1>6. LockInv'
  BY <1>2, <1>5, LeavesQueue, TypedState DEF LockInv, Waiting, Stages
<1>7. DueInv'  BY <1>1 DEF DueInv, Cancelled
<1>8. TokenInv'  BY <1>1 DEF TokenInv, Cancelled
<1> QED  BY <1>4, <1>6, <1>7, <1>8

LEMMA LeaveKeeps == ASSUME IInv, NEW c \in Coroutines, Leave(c) PROVE IInv'
<1> USE ConstantsTyped DEF IInv
<1>1. /\ asking' \in [Coroutines -> Records]
      /\ \A d \in Coroutines \ {c} : asking'[d] = asking[d]
      /\ asking'[c].stage = "no"
      /\ StageOf[c] \notin Waiting
  BY TypedState, RecordsTyped DEF Leave, NotAsking, AskingAt, StageOf, Waiting
<1>2. TypeOK'
  BY <1>1 DEF Leave, TypeOK, Records
<1>3. StageOf' = [StageOf EXCEPT ![c] = "no"]
  BY <1>1 DEF StageOf
<1>4. LockInv'
  BY <1>1, <1>3, Moves, TypedState DEF LockInv, Waiting, Stages, Leave
<1>5. DueInv'  BY <1>1 DEF DueInv, Leave
<1>6. TokenInv'  BY <1>1 DEF TokenInv, Leave
<1> QED  BY <1>2, <1>4, <1>5, <1>6

LEMMA RenewKeeps == ASSUME IInv, NEW c \in Coroutines, Renew(c) PROVE IInv'
<1> USE ConstantsTyped DEF IInv
<1>1. /\ asking' \in [Coroutines -> Records]
      /\ \A d \in Coroutines \ {c} : asking'[d] = asking[d]
      /\ asking'[c].stage = IF lock = <<>> THEN "fetching" ELSE "queued"
      /\ StageOf[c] \notin Waiting
      /\ token' = NoToken /\ expiries' = expiries /\ lock' = Append(lock, c)
  <2>1. "queued" \in Stages  BY DEF Stages
  <2>2. /\ AskingAt("fetching", clock, NoToken).stage = "fetching"
        /\ [asking[c] EXCEPT !.stage = "queued"].stage = "queued"
    BY <2>1, RecordsTyped DEF NotAsking, AskingAt
  <2>3. StageOf[c] \notin Waiting  BY DEF Renew, StageOf, Waiting
  <2>4. UNCHANGED expiries /\ token' = NoToken /\ lock' = Append(lock, c)
    BY DEF Renew, Invalidated
  <2> QED  BY <2>1, <2>2, <2>3, <2>4, TypedState, RecordsTyped DEF Renew, Fetching
<1>2. TypeOK'
  BY <1>1, QueueAppend DEF Renew, Invalidated, TypeOK, Records
<1>3. StageOf' = [StageOf EXCEPT ![c] = IF lock = <<>> THEN "fetching" ELSE "queued"]
  BY <1>1 DEF StageOf
<1>4. LockInv'
  BY <1>1, <1>3, Joins, TypedState DEF LockInv
<1>5. DueInv'  BY <1>1 DEF DueInv
<1>6. TokenInv'
  BY <1>1, TypedState DEF TokenInv, Records, Tokens, TypeOK
<1> QED  BY <1>2, <1>4, <1>5, <1>6

LEMMA NextIInv == IInv /\ [Next]_vars => IInv'
<1> SUFFICES ASSUME IInv, [Next]_vars PROVE IInv'
  OBVIOUS
<1>1. CASE Invalidate
  <2>1. token' = NoToken /\ UNCHANGED <<lock, asking, expiries, clock>> /\ refreshAt' = 0
    BY <1>1 DEF Invalidate, Invalidated
  <2>2. TypeOK' /\ LockInv' /\ DueInv'
    BY <2>1 DEF IInv, TypeOK, LockInv, StageOf, DueInv
  <2>3. TokenInv'
    BY <2>1, TypedState, ConstantsTyped DEF IInv, TokenInv, Records, Tokens, TypeOK
  <2> QED  BY <2>2, <2>3 DEF IInv
<1>2. CASE Tick
  BY <1>2, ConstantsTyped DEF Tick, credentialVars, IInv, TypeOK, LockInv, StageOf, DueInv, TokenInv
<1>3. CASE UNCHANGED vars
  BY <1>3 DEF vars, IInv, TypeOK, LockInv, StageOf, DueInv, TokenInv
<1> QED
  BY <1>1, <1>2, <1>3, TokenKeeps, EnterKeeps, IssueKeeps, FetchedKeeps, FetchFailsKeeps,
     CancelledKeeps, LeaveKeeps, RenewKeeps DEF Next

(* For any number of coroutines, whatever fails, is cancelled or invalidated, *)
(* the cached token, the lock and the requests on their way keep IInv.       *)
THEOREM Invariance == Spec => []IInv
<1>1. Init => IInv  BY InitIInv
<1>2. IInv /\ [Next]_vars => IInv'  BY NextIInv
<1> QED  BY <1>1, <1>2, PTL DEF Spec

LEMMA SharedByIInv == IInv => FetchOnlyWhenDue
BY OneFetches DEF IInv, FetchOnlyWhenDue, DueInv

(* ClientCredentials.token shares fetches: however many coroutines ask, only *)
(* the holder of the lock fetches, and only when no usable token is cached.  *)
THEOREM FetchesShared == Spec => []FetchOnlyWhenDue
BY Invariance, SharedByIInv, PTL

-----------------------------------------------------------------------------
(* Tokens last. *)

LastInv ==
    /\ token # NoToken => expiries[token] >= refreshAt + Margin
    /\ \A c \in Coroutines :
          /\ asking[c].stage \in {"fetching", "issued"} =>
                asking[c].since <= clock /\ clock - asking[c].since <= MaxLatency
          /\ asking[c].stage = "issued" =>
                expiries[asking[c].tok] >= asking[c].since + Lifetime
          /\ asking[c].stage = "has" => expiries[asking[c].tok] - clock >= Margin

\* What a step that moves one coroutine and issues no token must show.
LEMMA OneMoves ==
    ASSUME IInv, LastInv, NEW c \in Coroutines, NEW r \in Records,
           asking' = [asking EXCEPT ![c] = r], UNCHANGED <<expiries, clock>>,
           token' # NoToken => expiries[token'] >= refreshAt' + Margin,
           r.stage \in {"fetching", "issued"} => r.since <= clock /\ clock - r.since <= MaxLatency,
           r.stage = "issued" => expiries[r.tok] >= r.since + Lifetime,
           r.stage = "has" => expiries[r.tok] - clock >= Margin
    PROVE  LastInv'
<1>1. asking'[c] = r /\ \A d \in Coroutines \ {c} : asking'[d] = asking[d]
  BY TypedState DEF IInv
<1>2. Margin' = Margin  BY DEF Margin
<1> QED  BY <1>1, <1>2 DEF LastInv

LEMMA NextLasts ==
    ASSUME 2 * MaxLatency <= Lifetime, IInv, LastInv, [Next]_vars
    PROVE  LastInv'
<1> USE ConstantsTyped DEF IInv
<1>0. /\ clock \in Nat /\ refreshAt \in Int
      /\ token # NoToken => token \in 1..Len(expiries) /\ expiries[token] \in Nat
  BY DEF TypeOK, TokenInv
<1>1. ASSUME NEW c \in Coroutines, asking' = Returns(c), ~Due,
             UNCHANGED <<token, refreshAt, expiries, clock>>
      PROVE  LastInv'
  <2> DEFINE r == AskingAt("has", 0, token)
  <2>1. r \in Records  BY RecordsTyped
  <2>2. r.stage = "has" /\ r.tok = token  BY DEF AskingAt
  <2>3. expiries[token] - clock >= Margin  BY <1>0, <1>1 DEF Due, LastInv
  <2>4. asking' = [asking EXCEPT ![c] = r]  BY <1>1 DEF Returns
  <2>5. token' # NoToken => expiries[token'] >= refreshAt' + Margin  BY <1>1 DEF LastInv
  <2> HIDE DEF r
  <2> QED  BY <1>1, <2>1, <2>2, <2>3, <2>4, <2>5, OneMoves
<1>2. ASSUME NEW c \in Coroutines, asking' = Fetching(c), UNCHANGED <<expiries, clock>>,
             token' # NoToken => token' = token /\ refreshAt' = refreshAt
      PROVE  LastInv'
  <2> DEFINE r == AskingAt("fetching", clock, NoToken)
  <2>1. r \in Records  BY RecordsTyped
  <2>2. r.stage = "fetching" /\ r.since = clock  BY DEF AskingAt
  <2>3. asking' = [asking EXCEPT ![c] = r]  BY <1>2 DEF Fetching
  <2>4. token' # NoToken => expiries[token'] >= refreshAt' + Margin  BY <1>2 DEF LastInv
  <2> HIDE DEF r
  <2>5. r.since <= clock /\ clock - r.since <= MaxLatency  BY <1>0, <2>2
  <2>6. r.stage # "issued" /\ r.stage # "has"  BY <2>2
  <2> QED  BY <1>2, <2>1, <2>3, <2>4, <2>5, <2>6, OneMoves
<1>3. ASSUME NEW c \in Coroutines, NEW s \in {"queued", "failed"},
             asking' = [asking EXCEPT ![c].stage = s], UNCHANGED <<expiries, clock>>,
             token' # NoToken => token' = token /\ refreshAt' = refreshAt
      PROVE  LastInv'
  <2>1. s \in Stages  BY DEF Stages
  <2>2. PICK r \in Records : asking' = [asking EXCEPT ![c] = r] /\ r.stage = s
    <3>1. TypeOK  OBVIOUS
    <3>2. [asking[c] EXCEPT !.stage = s] \in Records /\ [asking[c] EXCEPT !.stage = s].stage = s
      BY <2>1, <3>1, RecordsTyped
    <3> QED  BY <1>3, <3>2
  <2>3. token' # NoToken => expiries[token'] >= refreshAt' + Margin  BY <1>3 DEF LastInv
  <2> QED  BY <1>3, <2>2, <2>3, OneMoves
<1>4. ASSUME NEW c \in Coroutines, NEW r \in {NotAsking, AskingAt("failed", 0, NoToken)},
             asking' = [asking EXCEPT ![c] = r], UNCHANGED <<token, refreshAt, expiries, clock>>
      PROVE  LastInv'
  <2>1. r \in Records  BY RecordsTyped
  <2>2. r.stage \in {"no", "failed"}  BY DEF NotAsking, AskingAt
  <2>3. token' # NoToken => expiries[token'] >= refreshAt' + Margin  BY <1>4 DEF LastInv
  <2> QED  BY <1>4, <2>1, <2>2, <2>3, OneMoves
<1>5. ASSUME NEW c \in Coroutines, Token(c) PROVE LastInv'
  <2>1. UNCHANGED <<token, refreshAt, expiries, clock>>  BY <1>5 DEF Token
  <2> QED  BY <1>1, <1>2, <1>3, <1>5, <2>1 DEF Token
<1>6. ASSUME NEW c \in Coroutines, Enter(c) PROVE LastInv'
  <2>1. UNCHANGED <<token, refreshAt, expiries, clock>>  BY <1>6 DEF Enter
  <2> QED  BY <1>1, <1>2, <1>6, <2>1 DEF Enter
<1>7. ASSUME NEW c \in Coroutines, Renew(c) PROVE LastInv'
  <2>1. UNCHANGED <<expiries, clock>> /\ token' = NoToken  BY <1>7 DEF Renew, Invalidated
  <2> QED  BY <1>2, <1>3, <1>7, <2>1 DEF Renew
<1>8. ASSUME NEW c \in Coroutines, Cancelled(c) PROVE LastInv'
  BY <1>3, <1>8 DEF Cancelled
<1>9. ASSUME NEW c \in Coroutines, FetchFails(c) \/ Leave(c) PROVE LastInv'
  BY <1>4, <1>9 DEF FetchFails, Leave
<1>10. ASSUME NEW c \in Coroutines, Issue(c) PROVE LastInv'
  <2>1. Len(expiries) \in Nat /\ Len(expiries) + 1 \in Tokens
    BY <1>10, TypedState DEF Issue, Tokens
  <2>2. /\ asking'[c].stage = "issued" /\ asking'[c].tok = Len(expiries) + 1
        /\ asking'[c].since = asking[c].since
        /\ \A d \in Coroutines \ {c} : asking'[d] = asking[d]
    BY <1>10, <2>1, TypedState, RecordsTyped DEF Issue
  <2>3. /\ expiries'[Len(expiries) + 1] = clock + Lifetime
        /\ \A t \in 1..Len(expiries) : expiries'[t] = expiries[t]
        /\ UNCHANGED <<token, refreshAt, clock>>
    BY <1>0, <1>10, <2>1, TypedState DEF Issue
  <2>4. /\ asking[c].since \in Nat /\ asking[c].since <= clock
        /\ clock - asking[c].since <= MaxLatency
    BY <1>10, TypedState DEF Issue, LastInv, Records
  <2>5. Margin' = Margin  BY DEF Margin
  <2>6. \A d \in Coroutines : asking[d].stage \in {"issued", "has"} => asking[d].tok \in 1..Len(expiries)
    BY DEF TokenInv
  <2>7. token' # NoToken => expiries'[token'] >= refreshAt' + Margin
    BY <1>0, <2>3 DEF LastInv
  <2>8. ASSUME NEW d \in Coroutines \ {c}
        PROVE  /\ asking'[d].stage \in {"fetching", "issued"} =>
                      asking'[d].since <= clock' /\ clock' - asking'[d].since <= MaxLatency
               /\ asking'[d].stage = "issued" => expiries'[asking'[d].tok] >= asking'[d].since + Lifetime
               /\ asking'[d].stage = "has" => expiries'[asking'[d].tok] - clock' >= Margin
    <3>1. asking'[d] = asking[d] /\ clock' = clock  BY <2>2, <2>3
    <3>2. asking[d].stage \in {"issued", "has"} => expiries'[asking[d].tok] = expiries[asking[d].tok]
      BY <2>3, <2>6
    <3> QED  BY <3>1, <3>2 DEF LastInv
  <2>9. expiries'[asking'[c].tok] >= asking'[c].since + Lifetime
    BY <1>0, <2>2, <2>3, <2>4
  <2>10. asking'[c].since <= clock' /\ clock' - asking'[c].since <= MaxLatency
    BY <2>2, <2>3, <2>4
  <2> QED  BY <2>2, <2>5, <2>7, <2>8, <2>9, <2>10 DEF LastInv
<1>11. ASSUME NEW c \in Coroutines, Fetched(c) PROVE LastInv'
  <2>1. "has" \in Stages  BY DEF Stages
  <2>2. PICK r \in Records : /\ asking' = [asking EXCEPT ![c] = r] /\ r.stage = "has"
                             /\ r.tok = asking[c].tok
    <3>1. TypeOK  OBVIOUS
    <3>2. LET r == [asking[c] EXCEPT !.stage = "has"]
          IN  r \in Records /\ r.stage = "has" /\ r.tok = asking[c].tok
      BY <2>1, <3>1, RecordsTyped
    <3>3. asking' = [asking EXCEPT ![c].stage = "has"]  BY <1>11 DEF Fetched
    <3> QED  BY <3>2, <3>3
  <2>3. /\ asking[c].since \in Nat /\ asking[c].since <= clock
        /\ clock - asking[c].since <= MaxLatency
        /\ expiries[asking[c].tok] >= asking[c].since + Lifetime
        /\ expiries[asking[c].tok] \in Nat
    <3>1. asking[c].stage = "issued" /\ asking[c] \in Records  BY <1>11, TypedState DEF Fetched
    <3>2. asking[c].tok \in 1..Len(expiries)  BY <3>1 DEF TokenInv
    <3>3. expiries[asking[c].tok] \in Nat  BY <3>2, TypedState
    <3>4. asking[c].since \in Nat  BY <3>1 DEF Records
    <3> QED  BY <3>1, <3>3, <3>4 DEF LastInv
  <2>4. token' # NoToken => expiries[token'] >= refreshAt' + Margin
    BY <1>11, <2>3 DEF Fetched
  <2>5. expiries[r.tok] - clock >= Margin
    <3>1. Lifetime - MaxLatency >= Margin  BY 2 * MaxLatency <= Lifetime
    <3> QED  BY <1>0, <2>2, <2>3, <3>1
  <2> QED  BY <1>11, <2>2, <2>4, <2>5, OneMoves DEF Fetched
<1>12. CASE Invalidate
  BY <1>12 DEF Invalidate, Invalidated, LastInv, Margin
<1>13. CASE Tick
  <2>1. \A c \in Coroutines : asking[c].since \in Nat /\ asking[c].stage # "has"
    BY <1>13, TypedState DEF Tick, Records
  <2>2. /\ clock' = clock + 1 /\ UNCHANGED <<token, refreshAt, asking, expiries>>
        /\ \A c \in Coroutines : asking[c].stage \in {"fetching", "issued"} =>
              clock - asking[c].since < MaxLatency
    BY <1>13 DEF Tick, credentialVars
  <2> QED  BY <1>0, <2>1, <2>2 DEF LastInv, Margin
<1>14. CASE UNCHANGED vars
  BY <1>14 DEF vars, LastInv, Margin
<1> QED
  BY <1>5, <1>6, <1>7, <1>8, <1>9, <1>10, <1>11, <1>12, <1>13, <1>14 DEF Next

(* When a fetch takes at most half of a token's lifetime, every token that    *)
(* ClientCredentials.token returns has the margin left, whoever fetched it:   *)
(* its deadline counts from before the request, its expiry from the answer.  *)
THEOREM TokensLast ==
    ASSUME 2 * MaxLatency <= Lifetime
    PROVE  Spec => []TokenLasts
<1>1. Init => LastInv
  BY ConstantsTyped DEF Init, LastInv, NotAsking, AskingAt
<1>2. IInv /\ LastInv /\ [Next]_vars => LastInv'  BY NextLasts
<1>3. LastInv => TokenLasts  BY DEF LastInv, TokenLasts
<1> QED  BY <1>1, <1>2, <1>3, Invariance, PTL DEF Spec

-----------------------------------------------------------------------------
(* Part 2: GrpcCalls, the attempts of the calls. *)

CallRecords == [pc: {"new", "token", "sent", "backoff"} \cup Outcomes,
                attempt: 0..Retries, renewed: BOOLEAN, sent: Nat,
                tok: 1..MaxTokens \cup {NoToken}, answer: Answers,
                rejected: SUBSET (1..MaxTokens)]

CallsTyped ==
    /\ call \in [Coroutines -> CallRecords]
    /\ \A m \in requests : m.call \in Coroutines /\ m.tok \in 1..MaxTokens
    /\ revoked \subseteq 1..MaxTokens
    /\ effects \in [Coroutines -> Nat]

\* What the server has a record of, it has carried out, once.
EffectInv ==
    /\ \A m \in requests : m.key = Key(m.call, 0)
    /\ \A c \in Mutating : effects[c] = IF Key(c, 0) \in records THEN 1 ELSE 0
    /\ \A c \in Coroutines :
          call[c].pc = "ok" \/ call[c].answer = "OK" => Key(c, 0) \in records

\* The tokens a call has sent or was refused: none of them is on its way
\* to the cache.
Seen(c) == call[c].rejected \cup ({call[c].tok} \ {NoToken})
SeenInv ==
    \A c \in Coroutines : \A t \in Seen(c) :
        /\ t \in 1..Len(expiries)
        /\ \A d \in Coroutines : asking[d].stage = "issued" => asking[d].tok # t

\* Nor is a token cached, or returned to a call, that was refused to it.
Refused(c) ==
    /\ call[c].pc \notin Outcomes =>
          /\ call[c].renewed => \E t \in Tokens : call[c].rejected = {t}
          /\ ~call[c].renewed => call[c].rejected = {}
          /\ \A t \in call[c].rejected :
                token # t /\ (asking[c].stage = "has" => asking[c].tok # t)
    /\ call[c].pc = "sent" => call[c].tok \notin call[c].rejected \cup {NoToken}
    /\ call[c].pc = "unauthenticated" => Cardinality(call[c].rejected) = 2
RefusedInv == \A c \in Coroutines : Refused(c)

CallsIInv == IInv /\ CallsTyped /\ EffectInv /\ SeenInv /\ RefusedInv

-----------------------------------------------------------------------------
(* How tokens move between Keycloak, the cache and the coroutines. *)

Flows ==
    /\ Len(expiries) <= Len(expiries')
    /\ token' \notin {token, NoToken} =>
          \E d \in Coroutines : asking[d].stage = "issued" /\ token' = asking[d].tok
    /\ \A d \in Coroutines : asking'[d].stage = "has" =>
          \/ asking[d].stage \in {"has", "issued"} /\ asking'[d].tok = asking[d].tok
          \/ asking'[d].tok = token /\ token # NoToken
    /\ \A d \in Coroutines : asking'[d].stage = "issued" =>
          \/ asking[d].stage = "issued" /\ asking'[d].tok = asking[d].tok
          \/ asking'[d].tok = Len(expiries) + 1

LEMMA TokensFlow == ASSUME IInv, [Next]_vars PROVE Flows
<1> USE DEF IInv
<1>0. Len(expiries) \in Nat /\ TypeOK  BY TypedState
<1>1. ASSUME NEW c \in Coroutines, NEW r \in Records, asking' = [asking EXCEPT ![c] = r],
             UNCHANGED expiries, r.stage # "issued",
             \/ token' \in {token, NoToken}
             \/ asking[c].stage = "issued" /\ token' = asking[c].tok,
             r.stage = "has" => \/ asking[c].stage = "issued" /\ r.tok = asking[c].tok
                                \/ r.tok = token /\ token # NoToken
      PROVE  Flows
  <2>1. asking'[c] = r /\ \A d \in Coroutines \ {c} : asking'[d] = asking[d]
    BY <1>1, TypedState
  <2> QED  BY <1>0, <1>1, <2>1 DEF Flows
<1>2. ASSUME NEW c \in Coroutines, NEW s \in {"queued", "failed", "has"},
             asking' = [asking EXCEPT ![c].stage = s], UNCHANGED expiries,
             \/ token' \in {token, NoToken}
             \/ asking[c].stage = "issued" /\ token' = asking[c].tok,
             s = "has" => asking[c].stage = "issued"
      PROVE  Flows
  <2>1. s \in Stages  BY DEF Stages
  <2>2. PICK r \in Records : asking' = [asking EXCEPT ![c] = r] /\ r.stage = s /\ r.tok = asking[c].tok
    <3>1. LET r == [asking[c] EXCEPT !.stage = s]
          IN  r \in Records /\ r.stage = s /\ r.tok = asking[c].tok
      BY <1>0, <2>1, RecordsTyped
    <3> QED  BY <1>2, <3>1
  <2> QED  BY <1>1, <1>2, <2>2
<1>3. ASSUME NEW c \in Coroutines, asking' = Returns(c), ~Due, UNCHANGED <<token, expiries>>
      PROVE  Flows
  <2> DEFINE r == AskingAt("has", 0, token)
  <2>1. r \in Records  BY <1>0, RecordsTyped
  <2>2. r.stage = "has" /\ r.tok = token /\ token # NoToken  BY <1>3 DEF AskingAt, Due
  <2>3. asking' = [asking EXCEPT ![c] = r]  BY <1>3 DEF Returns
  <2> HIDE DEF r
  <2> QED  BY <1>1, <1>3, <2>1, <2>2, <2>3
<1>4. ASSUME NEW c \in Coroutines, asking' = Fetching(c), token' \in {token, NoToken},
             UNCHANGED expiries
      PROVE  Flows
  <2> DEFINE r == AskingAt("fetching", clock, NoToken)
  <2>1. r \in Records  BY <1>0, RecordsTyped
  <2>2. r.stage = "fetching"  BY DEF AskingAt
  <2>3. asking' = [asking EXCEPT ![c] = r]  BY <1>4 DEF Fetching
  <2> HIDE DEF r
  <2> QED  BY <1>1, <1>4, <2>1, <2>2, <2>3
<1>5. ASSUME NEW c \in Coroutines, NEW r \in {NotAsking, AskingAt("failed", 0, NoToken)},
             asking' = [asking EXCEPT ![c] = r], UNCHANGED <<token, expiries>>
      PROVE  Flows
  <2>1. r \in Records  BY <1>0, RecordsTyped
  <2>2. r.stage \in {"no", "failed"}  BY DEF NotAsking, AskingAt
  <2> QED  BY <1>1, <1>5, <2>1, <2>2
<1>6. ASSUME NEW c \in Coroutines, Token(c) PROVE Flows
  <2>1. UNCHANGED <<token, expiries>>  BY <1>6 DEF Token
  <2> QED  BY <1>2, <1>3, <1>4, <1>6, <2>1 DEF Token
<1>7. ASSUME NEW c \in Coroutines, Enter(c) PROVE Flows
  <2>1. UNCHANGED <<token, expiries>>  BY <1>7 DEF Enter
  <2> QED  BY <1>3, <1>4, <1>7, <2>1 DEF Enter
<1>8. ASSUME NEW c \in Coroutines, Issue(c) PROVE Flows
  <2>1. Len(expiries) + 1 \in Tokens /\ Len(expiries') = Len(expiries) + 1 /\ token' = token
    <3>1. /\ Len(expiries) < MaxTokens /\ token' = token
          /\ expiries' = Append(expiries, clock + Lifetime)
      BY <1>8 DEF Issue
    <3>2. Len(expiries') = Len(expiries) + 1
      BY <1>0, <3>1, TypedState, ConstantsTyped DEF TypeOK
    <3> QED  BY <1>0, <3>1, <3>2, ConstantsTyped DEF Tokens
  <2>2. /\ asking'[c].stage = "issued" /\ asking'[c].tok = Len(expiries) + 1
        /\ \A d \in Coroutines \ {c} : asking'[d] = asking[d]
    BY <1>0, <1>8, <2>1, TypedState, RecordsTyped DEF Issue
  <2> QED  BY <1>0, <2>1, <2>2 DEF Flows
<1>9. ASSUME NEW c \in Coroutines, Fetched(c) \/ Cancelled(c) PROVE Flows
  BY <1>2, <1>9 DEF Fetched, Cancelled
<1>10. ASSUME NEW c \in Coroutines, FetchFails(c) \/ Leave(c) PROVE Flows
  BY <1>5, <1>10 DEF FetchFails, Leave
<1>11. ASSUME NEW c \in Coroutines, Renew(c) PROVE Flows
  <2>1. UNCHANGED expiries /\ token' = NoToken  BY <1>11 DEF Renew, Invalidated
  <2> QED  BY <1>2, <1>4, <1>11, <2>1 DEF Renew
<1>12. CASE Invalidate \/ Tick \/ UNCHANGED vars
  BY <1>0, <1>12 DEF Invalidate, Invalidated, Tick, credentialVars, vars, Flows
<1> QED
  BY <1>6, <1>7, <1>8, <1>9, <1>10, <1>11, <1>12 DEF Next

-----------------------------------------------------------------------------
(* The steps of a call that leave the credentials alone, and their steps.    *)

LEMMA SeenTyped ==
    ASSUME CallsIInv, NEW c \in Coroutines, NEW t \in Seen(c)
    PROVE  /\ t \in 1..Len(expiries) /\ t # NoToken /\ t \in Tokens
           /\ \A d \in Coroutines : asking[d].stage = "issued" => asking[d].tok # t
<1>1. Len(expiries) \in Nat /\ Len(expiries) <= MaxTokens /\ MaxTokens \in Nat
  BY TypedState, ConstantsTyped DEF CallsIInv, IInv, TypeOK
<1>2. t \in 1..Len(expiries) /\ \A d \in Coroutines : asking[d].stage = "issued" => asking[d].tok # t
  BY DEF CallsIInv, SeenInv
<1> QED  BY <1>1, <1>2, ConstantsTyped DEF Tokens

\* A step of the credentials brings no token back that is not on its way.
LEMMA SeenStays ==
    ASSUME CallsIInv, [Next]_vars, NEW t \in 1..Len(expiries),
           \A d \in Coroutines : asking[d].stage = "issued" => asking[d].tok # t
    PROVE  /\ t \in 1..Len(expiries')
           /\ \A d \in Coroutines : asking'[d].stage = "issued" => asking'[d].tok # t
           /\ token # t => token' # t
           /\ \A d \in Coroutines :
                 token # t /\ (asking[d].stage = "has" => asking[d].tok # t)
                 => (asking'[d].stage = "has" => asking'[d].tok # t)
<1>1. IInv'  BY NextIInv DEF CallsIInv
<1>2. Flows /\ Len(expiries) \in Nat /\ Len(expiries') \in Nat
  BY <1>1, TokensFlow, TypedState DEF CallsIInv, IInv, TypeOK
<1>3. t # NoToken  BY <1>2, ConstantsTyped
<1> QED  BY <1>2, <1>3 DEF Flows

LEMMA OthersKeep ==
    ASSUME CallsIInv, [Next]_vars, NEW c \in Coroutines, call'[c] = call[c]
    PROVE  /\ \A t \in Seen(c)' :
                 /\ t \in 1..Len(expiries')
                 /\ \A d \in Coroutines : asking'[d].stage = "issued" => asking'[d].tok # t
           /\ Refused(c)'
<1>1. Seen(c)' = Seen(c)  BY DEF Seen
<1>2. \A t \in Seen(c) :
          /\ t \in 1..Len(expiries')
          /\ \A d \in Coroutines : asking'[d].stage = "issued" => asking'[d].tok # t
          /\ token # t => token' # t
          /\ token # t /\ (asking[c].stage = "has" => asking[c].tok # t)
             => (asking'[c].stage = "has" => asking'[c].tok # t)
  BY SeenTyped, SeenStays
<1>3. \A t \in call[c].rejected : t \in Seen(c)  BY DEF Seen
<1>4. Refused(c)'  BY <1>2, <1>3 DEF CallsIInv, RefusedInv, Refused
<1> QED  BY <1>1, <1>2, <1>4

\* What a step must show that moves one call, and has the server do nothing.
LEMMA OneCallMoves ==
    ASSUME CallsIInv, [Next]_vars, NEW c \in Coroutines,
           call' \in [Coroutines -> CallRecords],
           \A d \in Coroutines \ {c} : call'[d] = call[d],
           \A m \in requests' :
              m.call \in Coroutines /\ m.tok \in 1..MaxTokens /\ m.key = Key(m.call, 0),
           UNCHANGED <<revoked, records, effects>>,
           call'[c].pc = "ok" \/ call'[c].answer = "OK" => Key(c, 0) \in records,
           \A t \in Seen(c)' : t \in Seen(c) \/ (asking[c].stage = "has" /\ t = asking[c].tok),
           Refused(c)'
    PROVE  CallsIInv'
<1>1. IInv'  BY NextIInv DEF CallsIInv
<1>2. CallsTyped'  BY DEF CallsIInv, CallsTyped
<1>3. EffectInv'  BY DEF CallsIInv, EffectInv, Key
<1>4. SeenInv'
  <2> SUFFICES ASSUME NEW d \in Coroutines, NEW t \in Seen(d)'
               PROVE  /\ t \in 1..Len(expiries')
                      /\ \A e \in Coroutines : asking'[e].stage = "issued" => asking'[e].tok # t
    BY DEF SeenInv
  <2>1. CASE d # c  BY <2>1, OthersKeep
  <2>2. CASE d = c
    <3>1. /\ t \in 1..Len(expiries)
          /\ \A e \in Coroutines : asking[e].stage = "issued" => asking[e].tok # t
      <4>1. CASE t \in Seen(c)  BY <4>1, SeenTyped
      <4>2. CASE asking[c].stage = "has" /\ t = asking[c].tok
        BY <4>2 DEF CallsIInv, IInv, TokenInv
      <4> QED  BY <2>2, <4>1, <4>2
    <3> QED  BY <3>1, SeenStays
  <2> QED  BY <2>1, <2>2
<1>5. RefusedInv'  BY OthersKeep DEF RefusedInv
<1> QED  BY <1>1, <1>2, <1>3, <1>4, <1>5 DEF CallsIInv

\* What the server does changes no call but for its answer.
LEMMA CallTyped ==
    ASSUME CallsIInv, NEW c \in Coroutines
    PROVE  /\ call \in [Coroutines -> CallRecords] /\ call[c] \in CallRecords
           /\ \A m \in requests :
                 m.call \in Coroutines /\ m.tok \in 1..MaxTokens /\ m.key = Key(m.call, 0)
           /\ Refused(c) /\ IInv /\ TypeOK
           /\ call[c].pc = "ok" \/ call[c].answer = "OK" => Key(c, 0) \in records
BY DEF CallsIInv, CallsTyped, EffectInv, RefusedInv, IInv

\* The records a step of _call makes of one.
LEMMA PcSet ==
    ASSUME NEW k \in CallRecords, NEW p \in {"token", "sent", "backoff"} \cup Outcomes
    PROVE  LET r == [k EXCEPT !.pc = p]
           IN  /\ r \in CallRecords /\ r.pc = p /\ r.answer = k.answer
               /\ r.tok = k.tok /\ r.rejected = k.rejected /\ r.renewed = k.renewed
BY DEF CallRecords, Answers, Outcomes

LEMMA AnswerSet ==
    ASSUME NEW k \in CallRecords, NEW a \in Answers
    PROVE  LET r == [k EXCEPT !.answer = a]
           IN  /\ r \in CallRecords /\ r.pc = k.pc /\ r.answer = a
               /\ r.tok = k.tok /\ r.rejected = k.rejected /\ r.renewed = k.renewed
BY DEF CallRecords, Answers, Outcomes

LEMMA RenewedSet ==
    ASSUME NEW k \in CallRecords, NEW p \in {"token", "sent", "backoff"} \cup Outcomes, NEW q \in SUBSET (1..MaxTokens)
    PROVE  LET r == [k EXCEPT !.pc = p, !.renewed = TRUE, !.rejected = q]
           IN  /\ r \in CallRecords /\ r.pc = p /\ r.answer = k.answer
               /\ r.tok = k.tok /\ r.rejected = q /\ r.renewed
BY DEF CallRecords, Answers, Outcomes

\* A call goes on, with its token and refusals, and may ask the credentials.
LEMMA GoesOn ==
    ASSUME CallsIInv, [Next]_vars, NEW c \in Coroutines, NEW r \in CallRecords,
           call' = [call EXCEPT ![c] = r], UNCHANGED <<requests, revoked, records, effects>>,
           r.tok = call[c].tok, r.rejected = call[c].rejected, r.renewed = call[c].renewed,
           call[c].pc \notin Outcomes,
           r.pc \in {"token", "backoff", "error", "ok"} \/ r.pc = call[c].pc,
           r.answer \notin {"OK", call[c].answer} \/ r.answer = call[c].answer,
           r.pc = "ok" => r.answer = "OK"
    PROVE  CallsIInv'
<1>1. /\ call' \in [Coroutines -> CallRecords] /\ call'[c] = r
      /\ \A d \in Coroutines \ {c} : call'[d] = call[d]
  BY CallTyped
<1>2. Seen(c)' = Seen(c)  BY <1>1 DEF Seen
<1>3. \A t \in call[c].rejected :
          token # t /\ (asking[c].stage = "has" => asking[c].tok # t)
          => token' # t /\ (asking'[c].stage = "has" => asking'[c].tok # t)
  BY SeenTyped, SeenStays DEF Seen
<1>4. Refused(c)'  BY <1>1, <1>3, CallTyped DEF Refused, Outcomes
<1>5. call'[c].pc = "ok" \/ call'[c].answer = "OK" => Key(c, 0) \in records
  BY <1>1, CallTyped DEF Outcomes
<1> QED  BY <1>1, <1>2, <1>4, <1>5, CallTyped, OneCallMoves

LEMMA AskTokenKeeps == ASSUME CallsIInv, NEW c \in Coroutines, AskToken(c) PROVE CallsIInv'
<1>1. [Next]_vars /\ call[c] \in CallRecords /\ call[c].pc \notin Outcomes
  BY CallTyped DEF AskToken, Next, Outcomes
<1>2. LET r == [call[c] EXCEPT !.pc = "token"]
      IN  /\ r \in CallRecords /\ r.pc = "token" /\ r.answer = call[c].answer
          /\ r.tok = call[c].tok /\ r.rejected = call[c].rejected /\ r.renewed = call[c].renewed
  BY <1>1, PcSet
<1>3. call' = [call EXCEPT ![c].pc = "token"] /\ UNCHANGED <<requests, revoked, records, effects>>
  BY DEF AskToken
<1> QED  BY <1>1, <1>2, <1>3, GoesOn

LEMMA EndsKeep ==
    ASSUME CallsIInv, NEW c \in Coroutines,
           TokenFailed(c) \/ Succeed(c) \/ Abandon(c)
    PROVE  CallsIInv'
<1>1. PICK p \in {"error", "ok"} :
          /\ call' = [call EXCEPT ![c].pc = p]
          /\ p = "ok" => call[c].answer = "OK"
  BY DEF TokenFailed, Succeed, Abandon
<1>2. [Next]_vars  BY DEF TokenFailed, Succeed, Abandon, Next
<1>3. call[c] \in CallRecords /\ call[c].pc \notin Outcomes /\ p \in Outcomes
  BY CallTyped DEF TokenFailed, Succeed, Abandon, Outcomes
<1>4. LET r == [call[c] EXCEPT !.pc = p]
      IN  /\ r \in CallRecords /\ r.pc = p /\ r.answer = call[c].answer
          /\ r.tok = call[c].tok /\ r.rejected = call[c].rejected /\ r.renewed = call[c].renewed
  BY <1>3, PcSet
<1>5. UNCHANGED <<requests, revoked, records, effects>>
  BY DEF TokenFailed, Succeed, Abandon
<1> QED  BY <1>1, <1>2, <1>3, <1>4, <1>5, GoesOn

LEMMA RetryKeeps == ASSUME CallsIInv, NEW c \in Coroutines, Retry(c) PROVE CallsIInv'
<1>1. [Next]_vars /\ call[c] \in CallRecords /\ call[c].pc \notin Outcomes
  BY CallTyped DEF Retry, Outcomes
<1>2. PICK n \in 0..Retries : n = call[c].attempt + 1
  BY <1>1, CallConstants DEF Retry, CallRecords
<1>3. LET r == [call[c] EXCEPT !.pc = "backoff", !.attempt = n]
      IN  /\ r \in CallRecords /\ r.pc = "backoff" /\ r.answer = call[c].answer
          /\ r.tok = call[c].tok /\ r.rejected = call[c].rejected /\ r.renewed = call[c].renewed
  BY <1>1 DEF CallRecords, Answers, Outcomes
<1>4. /\ call' = [call EXCEPT ![c] = [call[c] EXCEPT !.pc = "backoff", !.attempt = n]]
      /\ UNCHANGED <<requests, revoked, records, effects>>
  BY <1>2, CallTyped DEF Retry
<1> QED  BY <1>1, <1>3, <1>4, GoesOn

LEMMA BreakKeeps == ASSUME CallsIInv, NEW c \in Coroutines, Break(c) PROVE CallsIInv'
<1>1. [Next]_vars /\ call[c] \in CallRecords /\ call[c].pc = "sent" /\ call[c].pc \notin Outcomes
  BY CallTyped DEF Break, Outcomes
<1>2. PICK a \in {"UNAVAILABLE", "DEADLINE_EXCEEDED"} :
          /\ call' = [call EXCEPT ![c].answer = a]
          /\ UNCHANGED <<requests, revoked, records, effects>>
  BY DEF Break
<1>3. LET r == [call[c] EXCEPT !.answer = a]
      IN  /\ r \in CallRecords /\ r.pc = "sent" /\ r.answer = a /\ a # "OK"
          /\ r.tok = call[c].tok /\ r.rejected = call[c].rejected /\ r.renewed = call[c].renewed
  <2>1. a \in Answers  BY DEF Answers
  <2> QED  BY <1>1, <2>1, AnswerSet
<1> QED  BY <1>1, <1>2, <1>3, GoesOn

LEMMA SendKeeps == ASSUME CallsIInv, NEW c \in Coroutines, Send(c) PROVE CallsIInv'
<1>1. [Next]_vars /\ call[c] \in CallRecords /\ call[c].pc = "token" /\ asking[c].stage = "has"
  BY CallTyped DEF Send, Next
<1>2. PICK t \in 1..MaxTokens : t = asking[c].tok /\ t # NoToken
  <2>1. asking[c].tok \in 1..Len(expiries) /\ Len(expiries) \in Nat /\ Len(expiries) <= MaxTokens
    BY <1>1, CallTyped, TypedState DEF IInv, TokenInv, TypeOK
  <2> QED  BY <2>1, ConstantsTyped
<1>3. PICK n \in Nat : n = call[c].sent + 1  BY <1>1 DEF CallRecords
<1> DEFINE r == [call[c] EXCEPT !.pc = "sent", !.tok = t, !.sent = n, !.answer = "none"]
<1>4. /\ r \in CallRecords /\ r.pc = "sent" /\ r.answer = "none"
      /\ r.tok = t /\ r.rejected = call[c].rejected /\ r.renewed = call[c].renewed
  BY <1>1 DEF CallRecords, Answers, Outcomes
<1>5. call' = [call EXCEPT ![c] = r]
  BY <1>2, <1>3, CallTyped DEF Send
<1>6. /\ UNCHANGED <<revoked, records, effects, token>>
      /\ requests' = requests \cup
           {[call |-> c, n |-> call[c].sent + 1, key |-> Key(c, call[c].sent + 1), tok |-> t]}
      /\ asking'[c].stage = "no"
  <2>1. asking'[c] = NotAsking  BY CallTyped, TypedState DEF Send, Leave
  <2> QED  BY <1>2, <2>1 DEF Send, Leave, NotAsking, AskingAt
<1> HIDE DEF r
<1>7. /\ call' \in [Coroutines -> CallRecords] /\ call'[c] = r
      /\ \A d \in Coroutines \ {c} : call'[d] = call[d]
  BY <1>4, <1>5, CallTyped
<1>8. \A m \in requests' :
          m.call \in Coroutines /\ m.tok \in 1..MaxTokens /\ m.key = Key(m.call, 0)
  <2> SUFFICES ASSUME NEW m \in requests'
               PROVE  m.call \in Coroutines /\ m.tok \in 1..MaxTokens /\ m.key = Key(m.call, 0)
    OBVIOUS
  <2>1. CASE m \in requests  BY <2>1, CallTyped
  <2>2. CASE m \notin requests
    <3>1. m = [call |-> c, n |-> call[c].sent + 1, key |-> Key(c, call[c].sent + 1), tok |-> t]
      BY <1>6, <2>2
    <3>2. m.call = c /\ m.tok = t /\ m.key = Key(c, call[c].sent + 1)  BY <3>1
    <3> QED  BY <3>2 DEF Key
  <2> QED  BY <2>1, <2>2
<1>9. \A u \in Seen(c)' : u \in Seen(c) \/ u = t
  BY <1>4, <1>7 DEF Seen
<1>10. Refused(c)'
  BY <1>1, <1>2, <1>4, <1>6, <1>7, CallTyped DEF Refused, Outcomes
<1>11. ~(call'[c].pc = "ok" \/ call'[c].answer = "OK")  BY <1>4, <1>7
<1> QED  BY <1>1, <1>2, <1>6, <1>7, <1>8, <1>9, <1>10, <1>11, OneCallMoves

LEMMA RenewOnceKeeps == ASSUME CallsIInv, NEW c \in Coroutines, RenewOnce(c) PROVE CallsIInv'
<1>1. /\ [Next]_vars /\ call[c] \in CallRecords /\ call[c].pc = "sent" /\ call[c].answer # "OK"
      /\ ~call[c].renewed /\ Refused(c)
  BY CallTyped DEF RenewOnce, Next
<1>2. call[c].rejected = {} /\ call[c].tok \in Seen(c) /\ call[c].tok \in 1..MaxTokens
  <2>1. call[c].tok # NoToken /\ call[c].tok \in 1..MaxTokens \cup {NoToken}
    BY <1>1 DEF Refused, CallRecords
  <2> QED  BY <1>1, <2>1 DEF Refused, Outcomes, Seen
<1>3. PICK q \in SUBSET (1..MaxTokens) : q = {call[c].tok} /\ q = call[c].rejected \cup {call[c].tok}
  BY <1>2
<1> DEFINE r == [call[c] EXCEPT !.pc = "token", !.renewed = TRUE, !.rejected = q]
<1>4. /\ r \in CallRecords /\ r.pc = "token" /\ r.answer = call[c].answer
      /\ r.tok = call[c].tok /\ r.rejected = q /\ r.renewed
  BY <1>1, RenewedSet
<1>5. call' = [call EXCEPT ![c] = r]
  BY <1>3, CallTyped DEF RenewOnce, Renewing
<1> HIDE DEF r
<1>6. /\ call' \in [Coroutines -> CallRecords] /\ call'[c] = r
      /\ \A d \in Coroutines \ {c} : call'[d] = call[d]
  BY <1>4, <1>5, CallTyped
<1>7. UNCHANGED <<requests, revoked, records, effects>> /\ token' = NoToken /\ Flows
      /\ asking[c].stage = "no"
  BY <1>1, TokensFlow, CallTyped DEF RenewOnce, Renew, Invalidated
<1>8. asking'[c].stage # "has" \/ asking'[c].tok # call[c].tok
  <2>1. asking \in [Coroutines -> Records]  BY CallTyped, TypedState
  <2>2. CASE asking' = Fetching(c)  BY <2>1, <2>2 DEF Fetching, AskingAt
  <2>3. CASE asking' = [asking EXCEPT ![c].stage = "queued"]  BY <2>1, <2>3 DEF Records
  <2> QED  BY <2>2, <2>3 DEF RenewOnce, Renew
<1>9. Refused(c)'
  <2>1. call[c].tok \in Tokens /\ call[c].tok # NoToken  BY <1>2, SeenTyped
  <2> QED  BY <1>3, <1>4, <1>6, <1>7, <1>8, <2>1 DEF Refused, Outcomes
<1>10. Seen(c)' \subseteq Seen(c)  BY <1>2, <1>3, <1>4, <1>6 DEF Seen
<1>11. ~(call'[c].pc = "ok" \/ call'[c].answer = "OK")  BY <1>1, <1>4, <1>6
<1> QED  BY <1>1, <1>6, <1>7, <1>9, <1>10, <1>11, CallTyped, OneCallMoves

LEMMA RaiseKeeps == ASSUME CallsIInv, NEW c \in Coroutines, Raise(c) PROVE CallsIInv'
<1>1. /\ [Next]_vars /\ call[c] \in CallRecords /\ call[c].pc = "sent" /\ call[c].answer # "OK"
      /\ Refused(c)
  BY CallTyped DEF Raise
<1>2. call[c].tok \notin call[c].rejected /\ call[c].tok \in Seen(c) /\ call[c].tok \in 1..MaxTokens
  <2>1. call[c].tok # NoToken /\ call[c].tok \in 1..MaxTokens \cup {NoToken}
    BY <1>1 DEF Refused, CallRecords
  <2> QED  BY <1>1, <2>1 DEF Refused, Seen
<1> DEFINE q == IF call[c].answer = "UNAUTHENTICATED" THEN call[c].rejected \cup {call[c].tok}
                                                   ELSE call[c].rejected
           p == IF call[c].answer = "UNAUTHENTICATED" THEN "unauthenticated" ELSE "error"
<1>3. q \in SUBSET (1..MaxTokens) /\ p \in {"error", "unauthenticated"}
  BY <1>1, <1>2 DEF CallRecords
<1> DEFINE r == [call[c] EXCEPT !.pc = p, !.rejected = q]
<1>4. /\ r \in CallRecords /\ r.pc = p /\ r.answer = call[c].answer
      /\ r.tok = call[c].tok /\ r.rejected = q
  <2> HIDE DEF p, q
  <2> QED  BY <1>1, <1>3 DEF CallRecords, Answers, Outcomes
<1>5. call' = [call EXCEPT ![c] = r]
  BY CallTyped DEF Raise
<1> HIDE DEF r
<1>6. /\ call' \in [Coroutines -> CallRecords] /\ call'[c] = r
      /\ \A d \in Coroutines \ {c} : call'[d] = call[d]
  BY <1>4, <1>5, CallTyped
<1>7. UNCHANGED <<requests, revoked, records, effects>>  BY DEF Raise
<1>8. p = "unauthenticated" => Cardinality(q) = 2
  <2> SUFFICES ASSUME p = "unauthenticated" PROVE Cardinality(q) = 2
    OBVIOUS
  <2>1. call[c].answer = "UNAUTHENTICATED" /\ call[c].renewed  BY DEF Raise
  <2>2. PICK t \in Tokens : call[c].rejected = {t}  BY <1>1, <2>1 DEF Refused, Outcomes
  <2>3. q = {t} \cup {call[c].tok} /\ call[c].tok \notin {t}  BY <1>2, <1>3, <2>1, <2>2
  <2>4. IsFiniteSet({t}) /\ Cardinality({t}) = 1  BY FS_Singleton
  <2>5. Cardinality({t} \cup {call[c].tok}) = 1 + 1  BY <2>3, <2>4, FS_AddElement
  <2> QED  BY <2>3, <2>5
<1>10. Seen(c)' \subseteq Seen(c)  BY <1>2, <1>4, <1>6 DEF Seen
<1> HIDE DEF p, q
<1>9. Refused(c)'  BY <1>3, <1>4, <1>6, <1>8 DEF Refused, Outcomes
<1>11. ~(call'[c].pc = "ok" \/ call'[c].answer = "OK")  BY <1>1, <1>3, <1>4, <1>6
<1> QED  BY <1>1, <1>6, <1>7, <1>9, <1>10, <1>11, CallTyped, OneCallMoves

LEMMA ProcessKeeps == ASSUME CallsIInv, NEW m \in requests, Process(m) PROVE CallsIInv'
<1> DEFINE c == m.call
<1>1. c \in Coroutines /\ m.key = Key(c, 0) /\ requests' \subseteq requests
  BY DEF Process, CallsIInv, CallsTyped, EffectInv
<1>2. UNCHANGED <<vars, revoked>>  BY DEF Process
<1>3. PICK a \in {"UNAUTHENTICATED", "INTERNAL", "OK"} :
          /\ Answer(m, a)
          /\ \/ a # "OK" /\ UNCHANGED <<records, effects>>
             \/ /\ records' = records \cup {m.key}
                /\ effects' = IF c \in Mutating /\ m.key \notin records
                                THEN [effects EXCEPT ![c] = @ + 1] ELSE effects
  BY DEF Process
<1>4. /\ call' \in [Coroutines -> CallRecords]
      /\ \A d \in Coroutines :
            /\ call'[d].pc = call[d].pc /\ call'[d].tok = call[d].tok
            /\ call'[d].rejected = call[d].rejected /\ call'[d].renewed = call[d].renewed
            /\ call'[d].answer = call[d].answer \/ (d = c /\ call'[d].answer = a)
  <2>1. CASE Awaited(m)
    <3> DEFINE r == [call[c] EXCEPT !.answer = a]
    <3>1. call[c] \in CallRecords /\ a \in Answers  BY <1>1, CallTyped DEF Answers
    <3>2. /\ r \in CallRecords /\ r.pc = call[c].pc /\ r.answer = a
          /\ r.tok = call[c].tok /\ r.rejected = call[c].rejected /\ r.renewed = call[c].renewed
      BY <3>1, AnswerSet
    <3>3. call' = [call EXCEPT ![c] = r]  BY <1>3, <2>1 DEF Answer
    <3> HIDE DEF r, c
    <3>4. call'[c] = r /\ \A d \in Coroutines \ {c} : call'[d] = call[d]
      BY <1>1, <3>3, CallTyped
    <3> QED  BY <1>1, <3>2, <3>3, <3>4, CallTyped
  <2>2. CASE ~Awaited(m)
    <3>1. call' = call  BY <1>3, <2>2 DEF Answer
    <3> QED  BY <1>1, <3>1, CallTyped
  <2> QED  BY <2>1, <2>2
<1> HIDE DEF c
<1>5. effects' \in [Coroutines -> Nat] /\ records \subseteq records'
  BY <1>1, <1>3 DEF CallsIInv, CallsTyped
<1>6. IInv'
  BY <1>2, NextIInv DEF CallsIInv
<1>7. CallsTyped'
  BY <1>1, <1>2, <1>4, <1>5 DEF CallsIInv, CallsTyped
<1>8. EffectInv'
  <2>1. \A n \in requests' : n.key = Key(n.call, 0)  BY <1>1 DEF CallsIInv, EffectInv, Key
  <2>2. ASSUME NEW d \in Mutating PROVE effects'[d] = IF Key(d, 0) \in records' THEN 1 ELSE 0
    <3>1. effects[d] = (IF Key(d, 0) \in records THEN 1 ELSE 0) /\ d \in Coroutines
      BY CallConstants DEF CallsIInv, EffectInv
    <3>2. CASE UNCHANGED <<records, effects>>  BY <3>1, <3>2 DEF Key
    <3>3. CASE d = c /\ records' = records \cup {m.key}
               /\ effects' = IF c \in Mutating /\ m.key \notin records
                               THEN [effects EXCEPT ![c] = @ + 1] ELSE effects
      BY <1>1, <3>1, <3>3 DEF CallsIInv, CallsTyped, Key
    <3>4. CASE d # c /\ records' = records \cup {m.key}
               /\ effects' = IF c \in Mutating /\ m.key \notin records
                               THEN [effects EXCEPT ![c] = @ + 1] ELSE effects
      <4>1. Key(d, 0) # m.key  BY <1>1, <3>4 DEF Key
      <4>2. effects'[d] = effects[d]  BY <3>1, <3>4 DEF CallsIInv, CallsTyped
      <4> QED  BY <3>1, <3>4, <4>1, <4>2 DEF Key
    <3> QED  BY <1>3, <3>2, <3>3, <3>4
  <2>3. ASSUME NEW d \in Coroutines, call'[d].pc = "ok" \/ call'[d].answer = "OK"
        PROVE  Key(d, 0) \in records'
    <3>1. CASE call[d].pc = "ok" \/ call[d].answer = "OK"
      BY <1>5, <3>1, CallTyped
    <3>2. CASE d = c /\ a = "OK"  BY <1>1, <1>3, <3>2
    <3> QED  BY <1>4, <2>3, <3>1, <3>2
  <2> QED  BY <2>1, <2>2, <2>3 DEF EffectInv, Key
<1>9. SeenInv'
  <2>1. \A d \in Coroutines : Seen(d)' = Seen(d)  BY <1>4 DEF Seen
  <2> QED  BY <1>2, <2>1 DEF CallsIInv, SeenInv, vars
<1>10. RefusedInv'
  BY <1>2, <1>4 DEF CallsIInv, RefusedInv, Refused, vars
<1> QED  BY <1>6, <1>7, <1>8, <1>9, <1>10 DEF CallsIInv

\* The steps of the credentials alone, and of the tokens' owner.
LEMMA CallsStay ==
    ASSUME CallsIInv, [Next]_vars, UNCHANGED <<call, requests, records, effects>>,
           revoked' \subseteq 1..MaxTokens
    PROVE  CallsIInv'
<1>1. IInv'  BY NextIInv DEF CallsIInv
<1>2. CallsTyped'  BY DEF CallsIInv, CallsTyped
<1>3. EffectInv'  BY DEF CallsIInv, EffectInv, Key
<1>4. SeenInv' /\ RefusedInv'  BY OthersKeep DEF SeenInv, RefusedInv
<1> QED  BY <1>1, <1>2, <1>3, <1>4 DEF CallsIInv

LEMMA RestKeeps ==
    ASSUME CallsIInv,
           \/ \E c \in Coroutines : TokenStep(c)
           \/ \E tok \in 1..MaxTokens : Revoke(tok)
           \/ Passes
           \/ UNCHANGED allVars
    PROVE  CallsIInv'
<1>1. revoked \subseteq 1..MaxTokens  BY DEF CallsIInv, CallsTyped
<1>2. CASE \E c \in Coroutines : TokenStep(c)
  BY <1>1, <1>2, CallsStay DEF TokenStep, Next
<1>3. CASE \E tok \in 1..MaxTokens : Revoke(tok)
  BY <1>1, <1>3, CallsStay DEF Revoke
<1>4. CASE Passes
  BY <1>1, <1>4, CallsStay DEF Passes, Next
<1>5. CASE UNCHANGED allVars
  BY <1>1, <1>5, CallsStay DEF allVars, callVars
<1> QED  BY <1>2, <1>3, <1>4, <1>5

LEMMA CallsInitIInv == CallsInit => CallsIInv
<1> SUFFICES ASSUME CallsInit PROVE CallsIInv
  OBVIOUS
<1>1. IInv  BY InitIInv DEF CallsInit
<1>2. \A c \in Coroutines :
          /\ call[c] = NewCall /\ NewCall \in CallRecords /\ NewCall.rejected = {}
          /\ NewCall.tok = NoToken /\ NewCall.pc = "new" /\ NewCall.answer = "none"
          /\ NewCall.renewed = FALSE
  BY CallConstants DEF CallsInit, NewCall, CallRecords, Answers
<1>3. CallsTyped  BY <1>2 DEF CallsInit, CallsTyped
<1>4. EffectInv  BY <1>2, CallConstants DEF CallsInit, EffectInv
<1>5. SeenInv /\ RefusedInv  BY <1>2 DEF SeenInv, Seen, RefusedInv, Refused, Outcomes
<1> QED  BY <1>1, <1>3, <1>4, <1>5 DEF CallsIInv

LEMMA CallsNextIInv == CallsIInv /\ [CallsNext]_allVars => CallsIInv'
BY AskTokenKeeps, EndsKeep, RetryKeeps, BreakKeeps, SendKeeps, RenewOnceKeeps, RaiseKeeps,
   ProcessKeeps, RestKeeps DEF CallsNext

(* For any number of calls, retries and tokens, the calls of one transport,   *)
(* the credentials they share, the network and the server keep CallsIInv.    *)
THEOREM CallsInvariance == CallsSpec => []CallsIInv
<1>1. CallsInit => CallsIInv  BY CallsInitIInv
<1>2. CallsIInv /\ [CallsNext]_allVars => CallsIInv'  BY CallsNextIInv
<1> QED  BY <1>1, <1>2, PTL DEF CallsSpec

(* GrpcTransport._call sends one idempotency key with all attempts of a call: *)
(* however they are retried, lost or processed late, the server carries the  *)
(* call out at most once, and exactly once when it has returned.             *)
THEOREM CallsCarriedOutOnce == CallsSpec => []CarriedOutOnce
<1>1. CallsIInv => CarriedOutOnce
  BY CallConstants DEF CallsIInv, EffectInv, CarriedOutOnce
<1> QED  BY <1>1, CallsInvariance, PTL

(* _call never repeats a request with a token that the server refused it,     *)
(* whatever the other calls do to the shared token; it fails as              *)
(* unauthenticated only after two different tokens were refused.             *)
THEOREM RejectedNotReused == CallsSpec => []RejectedTokenNotReused
<1>1. CallsIInv => RejectedTokenNotReused
  BY DEF CallsIInv, RefusedInv, Refused, RejectedTokenNotReused
<1> QED  BY <1>1, CallsInvariance, PTL

(* The credentials keep their promise to the calls of a transport: they share *)
(* its fetches.                                                              *)
THEOREM CallsShareFetches == CallsSpec => []FetchOnlyWhenDue
<1>1. CallsIInv => FetchOnlyWhenDue  BY SharedByIInv DEF CallsIInv
<1> QED  BY <1>1, CallsInvariance, PTL

-----------------------------------------------------------------------------
(* Part 3: ClientResources, the channel and the httpx clients. *)

Typed ==
    /\ client \in Clients
    /\ refs \in [What -> Nat] /\ opened \in [What -> Nat]
    /\ owns \in BOOLEAN
    /\ open \subseteq What \X (Nat \ {0})
    /\ calls \in [Coroutines -> [pc: {"no", "token", "sent", "backoff"}, via: Nat]]
    /\ closes \in [Closers -> {"no"} \cup What]
    /\ past \subseteq {"overlap", "cancel", "used"}

\* The transport owns what it opened, and nothing that was passed.
OwnsInv ==
    /\ "media" \in client.passed => <<"media", 1>> \in open
    /\ owns => refs["media"] # 1
    /\ refs["media"] \notin {0, 1} => owns

\* Acloses that do not overlap: nothing that the client opened and forgot is
\* open, and an aclose() leaves open what was opened after it began only.
Released ==
    "overlap" \notin past =>
        /\ \A a, b \in Closers : closes[a] # "no" /\ closes[b] # "no" => a = b
        /\ \A h \in Own : refs[h[1]] = h[2]
        /\ \A a \in Closers :
              closes[a] # "no" => refs[closes[a]] # 0 /\ \A h \in Own : h[1] # closes[a]
        /\ past \cap {"used", "cancel"} = {} /\ (\A a \in Closers : closes[a] # "media") =>
              Own = {}

\* The stub is the channel's, and the channel is open but while it is closed.
ChannelInv ==
    /\ stub # 0 => stub = refs["media"]
    /\ client.transport = "grpc" /\ refs["media"] # 0 /\ <<"media", refs["media"]>> \notin open
       => "cancel" \in past \/ \E a \in Closers : closes[a] = "media"

ResourcesIInv == Typed /\ OwnsInv /\ Released /\ ChannelInv

-----------------------------------------------------------------------------
(* The client's steps are steps of its credentials. *)

LEMMA ResourcesStep == [ResourcesNext]_clientVars => [Next]_vars
<1> SUFFICES ASSUME [ResourcesNext]_clientVars PROVE [Next]_vars
  OBVIOUS
<1>1. ASSUME NEW c \in Coroutines,
             \/ Call(c) \/ Turn(c) \/ Answered(c) \/ TokenEnds(c) \/ GivesUp(c)
             \/ TokenRaised(c) \/ Attempt(c) \/ Ends(c) \/ BacksOff(c) \/ Rejected(c)
      PROVE  [Next]_vars
  BY <1>1 DEF Call, Turn, Answered, TokenEnds, GivesUp, TokenRaised, Attempt, Ends, BacksOff,
              Rejected, Next
<1>2. ASSUME NEW a \in Closers,
             Aclose(a) \/ MediaClosed(a) \/ KeycloakClosed(a) \/ CloseCancelled(a)
      PROVE  [Next]_vars
  BY <1>2 DEF Aclose, MediaClosed, KeycloakClosed, CloseCancelled
<1>3. CASE Drops \/ TimePasses  BY <1>3 DEF Drops, TimePasses, Next
<1>4. CASE UNCHANGED clientVars  BY <1>4 DEF clientVars
<1> QED  BY <1>1, <1>2, <1>3, <1>4 DEF ResourcesNext

(* Whatever the client does with its connections, ClientCredentials goes      *)
(* through its own steps only, as its specification describes them alone.    *)
THEOREM KeepsCredentials == ResourcesSpec => Spec
<1>1. ResourcesInit => Init  BY DEF ResourcesInit
<1> QED  BY <1>1, ResourcesStep, PTL DEF ResourcesSpec, Spec

(* The coroutines of a client share the fetches of its token, while it is     *)
(* used, closed and used again.                                              *)
THEOREM ResourcesShareFetches == ResourcesSpec => []FetchOnlyWhenDue
BY KeepsCredentials, FetchesShared, PTL

-----------------------------------------------------------------------------
(* What a step opens. *)

LEMMA OpensOne ==
    ASSUME Typed, NEW w \in What, OpenIfNone(w)
    PROVE  /\ refs' \in [What -> Nat] /\ opened' \in [What -> Nat] /\ open' \subseteq What \X (Nat \ {0})
           /\ refs'[w] = Ref(w) /\ Ref(w) # 0 /\ \A v \in What \ {w} : refs'[v] = refs[v]
           /\ refs[w] # 0 => refs' = refs /\ open' = open
           /\ refs[w] = 0 => Ref(w) > 1 /\ open' = open \cup {<<w, Ref(w)>>}
BY DEF Typed, OpenIfNone, Ref

\* A step that opens what w needs, if it is not there, and uses the client.
LEMMA OpensKeeps ==
    ASSUME ResourcesIInv, NEW w \in What, OpenIfNone(w), past' = past \cup {"used"},
           UNCHANGED <<client, closes>>,
           calls' \in [Coroutines -> [pc: {"no", "token", "sent", "backoff"}, via: Nat]],
           owns' = IF w = "media" THEN owns \/ refs["media"] = 0 ELSE owns,
           stub' \in {stub, refs'["media"]}, stub # 0 => stub' = stub
    PROVE  ResourcesIInv'
<1> USE DEF ResourcesIInv
<1>1. /\ refs' \in [What -> Nat] /\ opened' \in [What -> Nat] /\ open' \subseteq What \X (Nat \ {0})
      /\ refs'[w] = Ref(w) /\ Ref(w) # 0 /\ \A v \in What \ {w} : refs'[v] = refs[v]
      /\ refs[w] # 0 => refs' = refs /\ open' = open
      /\ refs[w] = 0 => Ref(w) > 1 /\ open' = open \cup {<<w, Ref(w)>>}
  BY OpensOne
<1>2. Typed'  BY <1>1 DEF Typed
<1>3. OwnsInv'
  <2>1. open \subseteq open'  BY <1>1
  <2>2. CASE w = "media" /\ refs["media"] = 0
    <3>1. refs'["media"] > 1 /\ refs'["media"] \in Nat  BY <1>1, <2>2
    <3>2. owns' = (owns \/ refs["media"] = 0)  BY <2>2
    <3>3. owns'  BY <2>2, <3>2, Zenon
    <3>4. refs'["media"] # 1  BY <3>1
    <3>5. "media" \in client'.passed => <<"media", 1>> \in open'  BY <2>1 DEF OwnsInv
    <3> QED  BY <3>3, <3>4, <3>5, Zenon DEF OwnsInv
  <2>3. CASE ~(w = "media" /\ refs["media"] = 0)
    <3>1. refs'["media"] = refs["media"] /\ owns' = owns
      BY <1>1, <2>3 DEF What, Typed
    <3> QED  BY <2>1, <3>1 DEF OwnsInv
  <2> QED  BY <2>2, <2>3
<1>4. Released'
  <2> SUFFICES ASSUME "overlap" \notin past PROVE Released'
    BY DEF Released
  <2>1. CASE refs[w] # 0
    <3>1. Own' = Own /\ refs' = refs  BY <1>1, <2>1 DEF Own
    <3>2. \A h \in Own : refs[h[1]] = h[2]  BY DEF Released
    <3>3. /\ \A a, b \in Closers : closes[a] # "no" /\ closes[b] # "no" => a = b
          /\ \A a \in Closers :
                closes[a] # "no" => refs[closes[a]] # 0 /\ \A h \in Own : h[1] # closes[a]
      BY DEF Released
    <3> QED  BY <3>1, <3>2, <3>3 DEF Released
  <2>2. CASE refs[w] = 0
    <3>1. \A h \in Own : h[1] # w  BY <2>2, <1>1 DEF Released, Own, Typed
    <3>2. \A h \in Own' : h \in Own \/ h = <<w, Ref(w)>>  BY <1>1, <2>2 DEF Own
    <3>3. \A h \in Own' : refs'[h[1]] = h[2]
      <4> SUFFICES ASSUME NEW h \in Own' PROVE refs'[h[1]] = h[2]
        OBVIOUS
      <4>1. CASE h = <<w, Ref(w)>>  BY <1>1, <4>1
      <4>2. CASE h \in Own
        <5>1. h[1] \in What \ {w} /\ refs[h[1]] = h[2]  BY <3>1, <4>2 DEF Own, Typed, Released
        <5> QED  BY <1>1, <5>1
      <4> QED  BY <3>2, <4>1, <4>2
    <3>4. \A a \in Closers : closes[a] # "no" => closes[a] # w
      BY <2>2 DEF Released
    <3>5. \A a \in Closers : closes[a] # "no" =>
              refs'[closes[a]] # 0 /\ \A h \in Own' : h[1] # closes[a]
      <4> SUFFICES ASSUME NEW a \in Closers, closes[a] # "no"
                   PROVE  refs'[closes[a]] # 0 /\ \A h \in Own' : h[1] # closes[a]
        OBVIOUS
      <4>1. closes[a] \in What \ {w}  BY <3>4 DEF Typed
      <4>2. refs[closes[a]] # 0 /\ \A h \in Own : h[1] # closes[a]  BY DEF Released
      <4> QED  BY <1>1, <3>2, <4>1, <4>2
    <3> QED  BY <3>3, <3>5 DEF Released
  <2> QED  BY <2>1, <2>2
<1>5. ChannelInv'
  <2>1. stub' # 0 => stub' = refs'["media"]  BY <1>1 DEF ChannelInv, What, Typed
  <2>2. client'.transport = "grpc" /\ refs'["media"] # 0 /\ <<"media", refs'["media"]>> \notin open'
        => "cancel" \in past' \/ \E a \in Closers : closes'[a] = "media"
    BY <1>1 DEF ChannelInv, What
  <2> QED  BY <2>1, <2>2 DEF ChannelInv
<1> QED  BY <1>2, <1>3, <1>4, <1>5

\* A step that opens nothing and closes nothing.
LEMMA QuietKeeps ==
    ASSUME ResourcesIInv, UNCHANGED <<client, handleVars, owns, stub, closes>>,
           past' \in {past, past \cup {"used"}},
           calls' \in [Coroutines -> [pc: {"no", "token", "sent", "backoff"}, via: Nat]]
    PROVE  ResourcesIInv'
BY DEF ResourcesIInv, handleVars, Typed, OwnsInv, Released, Own, ChannelInv

LEMMA AtTyped ==
    ASSUME Typed, NEW c \in Coroutines, NEW pc \in {"no", "token", "sent", "backoff"},
           NEW via \in Nat, At(c, pc, via)
    PROVE  calls' \in [Coroutines -> [pc: {"no", "token", "sent", "backoff"}, via: Nat]]
BY DEF Typed, At

LEMMA FetchOverKeeps ==
    ASSUME ResourcesIInv, NEW c \in Coroutines, FetchOver(c), UNCHANGED stub PROVE ResourcesIInv'
<1>0. Typed  BY DEF ResourcesIInv
<1>1. CASE asking'[c].stage = "fetching"
  <2>1. OpenIfNone("keycloak") /\ At(c, "token", Ref("keycloak")) /\ past' = past \cup {"used"}
        /\ UNCHANGED <<client, closes, owns, stub>>
    BY <1>1 DEF FetchOver
  <2>2. "keycloak" \in What /\ Ref("keycloak") \in Nat  BY <1>0 DEF Typed, What, Ref
  <2>3. calls' \in [Coroutines -> [pc: {"no", "token", "sent", "backoff"}, via: Nat]]
    BY <1>0, <2>1, <2>2, AtTyped
  <2> QED  BY <2>1, <2>2, <2>3, OpensKeeps
<1>2. CASE asking'[c].stage # "fetching"
  <2>1. At(c, "token", 0) /\ UNCHANGED <<handleVars, past, client, closes, owns, stub>>
    BY <1>2 DEF FetchOver
  <2>2. calls' \in [Coroutines -> [pc: {"no", "token", "sent", "backoff"}, via: Nat]]
    BY <1>0, <2>1, AtTyped
  <2> QED  BY <2>1, <2>2, QuietKeeps
<1> QED  BY <1>1, <1>2

LEMMA AttemptKeeps == ASSUME ResourcesIInv, NEW c \in Coroutines, Attempt(c) PROVE ResourcesIInv'
<1>0. Typed /\ "media" \in What  BY DEF ResourcesIInv, What
<1>1. past' = past \cup {"used"} /\ UNCHANGED <<client, closes>>  BY DEF Attempt
<1>2. CASE stub = 0 /\ client.transport = "grpc"
  <2>1. /\ OpenIfNone("media") /\ owns' = (owns \/ refs["media"] = 0)
        /\ stub' = Ref("media") /\ At(c, "sent", Ref("media"))
    BY <1>2 DEF Attempt, ChannelOrOpen
  <2>2. refs'["media"] = Ref("media") /\ Ref("media") \in Nat
    BY <1>0, <2>1, OpensOne
  <2>3. calls' \in [Coroutines -> [pc: {"no", "token", "sent", "backoff"}, via: Nat]]
    BY <1>0, <2>1, <2>2, AtTyped
  <2>4. owns' = IF "media" = "media" THEN owns \/ refs["media"] = 0 ELSE owns  BY <2>1
  <2> QED  BY <1>0, <1>1, <1>2, <2>1, <2>2, <2>3, <2>4, OpensKeeps
<1>3. CASE ~(stub = 0 /\ client.transport = "grpc")
  <2>1. UNCHANGED <<handleVars, owns, stub>>
        /\ At(c, "sent", IF stub = 0 THEN refs["media"] ELSE stub)
    BY <1>3 DEF Attempt
  <2>2. (IF stub = 0 THEN refs["media"] ELSE stub) \in Nat
    BY <1>0 DEF ResourcesIInv, ChannelInv, Typed
  <2>3. calls' \in [Coroutines -> [pc: {"no", "token", "sent", "backoff"}, via: Nat]]
    BY <1>0, <2>1, <2>2, AtTyped
  <2> QED  BY <1>1, <2>1, <2>3, QuietKeeps
<1> QED  BY <1>2, <1>3

LEMMA CallsKeep ==
    ASSUME ResourcesIInv, NEW c \in Coroutines,
           \/ Call(c) \/ Turn(c) \/ Answered(c) \/ TokenEnds(c) \/ GivesUp(c)
           \/ TokenRaised(c) \/ Attempt(c) \/ Ends(c) \/ BacksOff(c) \/ Rejected(c)
    PROVE  ResourcesIInv'
<1>0. Typed  BY DEF ResourcesIInv
<1>1. CASE Call(c) \/ Turn(c) \/ Rejected(c)
  <2>1. FetchOver(c)  BY <1>1 DEF Call, Turn, Rejected
  <2>2. UNCHANGED stub  BY <2>1 DEF FetchOver
  <2> QED  BY <2>1, <2>2, FetchOverKeeps
<1>2. CASE Answered(c) \/ TokenEnds(c) \/ GivesUp(c)
  <2>1. UNCHANGED resourceVars  BY <1>2 DEF Answered, TokenEnds, GivesUp
  <2>2. UNCHANGED <<client, handleVars, owns, stub, closes, past, calls>>
    BY <2>1 DEF resourceVars, handleVars
  <2> QED  BY <1>0, <2>2, QuietKeeps DEF Typed
<1>3. CASE TokenRaised(c) \/ Ends(c) \/ BacksOff(c)
  <2>1. PICK pc \in {"no", "backoff"} : At(c, pc, 0)  BY <1>3 DEF TokenRaised, Ends, BacksOff
  <2>2. UNCHANGED <<client, handleVars, owns, stub, closes, past>>
    BY <1>3 DEF TokenRaised, Ends, BacksOff
  <2>3. calls' \in [Coroutines -> [pc: {"no", "token", "sent", "backoff"}, via: Nat]]
    BY <1>0, <2>1, AtTyped
  <2> QED  BY <2>2, <2>3, QuietKeeps
<1> QED  BY <1>1, <1>2, <1>3, AttemptKeeps

-----------------------------------------------------------------------------
(* What an aclose() closes. *)

\* Once it forgets the channel, the client has no open handle to media of its own.
LEMMA CloseCredentialsKeeps ==
    ASSUME ResourcesIInv, NEW a \in Closers, DropChannel, CloseCredentials(a, open),
           UNCHANGED <<client, owns, opened, calls>>, past' \subseteq {"overlap", "cancel", "used"},
           "overlap" \notin past' => /\ "overlap" \notin past
                                     /\ \A b \in Closers \ {a} : closes[b] = "no"
                                     /\ \A h \in Own : h[1] # "media",
           "cancel" \in past => "cancel" \in past'
    PROVE  ResourcesIInv'
<1> USE DEF ResourcesIInv
<1>1. /\ refs' \in [What -> Nat] /\ refs'["keycloak"] = refs["keycloak"]
      /\ refs'["media"] = IF client.transport = "grpc" THEN 0 ELSE refs["media"]
      /\ stub' = 0
  BY DEF DropChannel, Typed, What
<1>2. /\ open' \subseteq open /\ \A h \in open : h[1] # "keycloak" => h \in open'
      /\ closes' \in [Closers -> {"no"} \cup What] /\ closes'[a] \in {"no", "keycloak"}
      /\ \A b \in Closers \ {a} : closes'[b] = closes[b]
      /\ refs["keycloak"] = 0 => closes'[a] = "no" /\ open' = open
      /\ refs["keycloak"] # 0 => closes'[a] = "keycloak"
                                /\ open' = open \ {<<"keycloak", refs["keycloak"]>>}
  BY DEF CloseCredentials, Typed, What
<1>3. Typed'  BY <1>1, <1>2 DEF Typed
<1>4. OwnsInv'  BY <1>1, <1>2 DEF OwnsInv
<1>5. Released'
  <2> SUFFICES ASSUME "overlap" \notin past' PROVE Released'
    BY DEF Released
  <2>1. /\ "overlap" \notin past /\ \A b \in Closers \ {a} : closes'[b] = "no"
        /\ \A h \in Own : h[1] = "keycloak" /\ refs["keycloak"] = h[2]
    BY <1>2 DEF Released, Typed, What, Own
  <2>2. Own' = {}
    <3> SUFFICES ASSUME NEW h \in Own' PROVE FALSE
      OBVIOUS
    <3>1. h \in Own /\ h \in open' /\ h[1] = "keycloak" /\ h[2] = refs["keycloak"]
      BY <1>2, <2>1 DEF Own
    <3>2. h = <<"keycloak", refs["keycloak"]>> /\ h[2] # 0  BY <3>1 DEF Own, Typed
    <3> QED  BY <1>2, <3>1, <3>2
  <2> QED  BY <1>1, <1>2, <2>1, <2>2 DEF Released
<1>6. ChannelInv'
  <2>1. client'.transport = "grpc" => refs'["media"] = 0  BY <1>1
  <2> QED  BY <1>1, <2>1 DEF ChannelInv
<1> QED  BY <1>3, <1>4, <1>5, <1>6

LEMMA AcloseKeeps == ASSUME ResourcesIInv, NEW a \in Closers, Aclose(a) PROVE ResourcesIInv'
<1> USE DEF ResourcesIInv
<1>1. /\ past' = (past \ {"used"}) \cup (IF AtRest THEN {} ELSE {"overlap"})
      /\ UNCHANGED <<client, owns, opened, calls>>
  BY DEF Aclose
<1>2. /\ past' \subseteq {"overlap", "cancel", "used"} /\ ("cancel" \in past => "cancel" \in past')
      /\ "overlap" \notin past' => "overlap" \notin past /\ \A b \in Closers : closes[b] = "no"
  BY <1>1 DEF Typed, AtRest
<1>3. CASE Closes
  <2>1. /\ open' = open \ {<<"media", refs["media"]>>} /\ UNCHANGED <<refs, stub>>
        /\ refs["media"] \notin {0, 1}
        /\ closes' = [closes EXCEPT ![a] = "media"]
    BY <1>3 DEF Aclose, Closes, OwnsInv
  <2>2. /\ closes' \in [Closers -> {"no"} \cup What] /\ closes'[a] = "media"
        /\ \A b \in Closers \ {a} : closes'[b] = closes[b]
    BY <2>1 DEF Typed, What
  <2>3. Typed'  BY <1>1, <1>2, <2>1, <2>2 DEF Typed
  <2>4. OwnsInv'  BY <1>1, <2>1 DEF OwnsInv
  <2>5. Released'
    <3> SUFFICES ASSUME "overlap" \notin past' PROVE Released'
      BY DEF Released
    <3>1. \A h \in Own : refs[h[1]] = h[2]  BY <1>2 DEF Released
    <3>2. \A h \in Own' : h \in Own /\ h # <<"media", refs["media"]>>  BY <2>1 DEF Own
    <3>3. \A h \in Own' : h[1] # "media"
      <4> SUFFICES ASSUME NEW h \in Own', h[1] = "media" PROVE FALSE
        OBVIOUS
      <4>1. h \in What \X (Nat \ {0}) /\ h[2] = refs["media"]  BY <3>1, <3>2 DEF Own, Typed
      <4> QED  BY <3>2, <4>1
    <3> QED  BY <1>2, <2>1, <2>2, <3>1, <3>2, <3>3 DEF Released
  <2>6. ChannelInv'  BY <1>1, <2>1, <2>2 DEF ChannelInv
  <2> QED  BY <2>3, <2>4, <2>5, <2>6
<1>4. CASE ~Closes
  <2>1. DropChannel /\ CloseCredentials(a, open)  BY <1>4 DEF Aclose
  <2>2. refs["media"] \in {0, 1}  BY <1>4 DEF Closes, OwnsInv
  <2>3. "overlap" \notin past => \A h \in Own : h[1] # "media"
    <3> SUFFICES ASSUME "overlap" \notin past, NEW h \in Own, h[1] = "media" PROVE FALSE
      OBVIOUS
    <3>1. h[2] = refs["media"] /\ h[2] \notin {0, 1}  BY DEF Released, Own, Typed
    <3> QED  BY <2>2, <3>1
  <2>4. \A b \in Closers \ {a} : b \in Closers  OBVIOUS
  <2> QED  BY <1>1, <1>2, <2>1, <2>3, <2>4, CloseCredentialsKeeps
<1> QED  BY <1>3, <1>4

LEMMA MediaClosedKeeps == ASSUME ResourcesIInv, NEW a \in Closers, MediaClosed(a) PROVE ResourcesIInv'
<1>1. /\ DropChannel /\ CloseCredentials(a, open) /\ UNCHANGED <<client, owns, opened, calls, past>>
      /\ closes[a] = "media"
  BY DEF MediaClosed
<1>2. past' \subseteq {"overlap", "cancel", "used"}  BY <1>1 DEF ResourcesIInv, Typed
<1>3. "overlap" \notin past =>
          (\A b \in Closers \ {a} : closes[b] = "no") /\ \A h \in Own : h[1] # "media"
  BY <1>1 DEF ResourcesIInv, Released
<1> QED  BY <1>1, <1>2, <1>3, CloseCredentialsKeeps

LEMMA EndsAcloseKeeps ==
    ASSUME ResourcesIInv, NEW a \in Closers, KeycloakClosed(a) \/ CloseCancelled(a)
    PROVE  ResourcesIInv'
<1> USE DEF ResourcesIInv
<1>1. /\ closes' \in [Closers -> {"no"} \cup What] /\ closes'[a] = "no"
      /\ \A b \in Closers \ {a} : closes'[b] = closes[b]
  BY DEF KeycloakClosed, CloseCancelled, Typed
<1>2. UNCHANGED <<client, owns, stub, open, opened, calls>> /\ Own' = Own
  BY DEF KeycloakClosed, CloseCancelled, handleVars, Own
<1>3. CASE KeycloakClosed(a)
  <2>1. /\ closes[a] = "keycloak" /\ past' = past
        /\ refs' \in [What -> Nat] /\ refs'["media"] = refs["media"]
    BY <1>3 DEF KeycloakClosed, Typed, What
  <2>2. Typed' /\ OwnsInv'  BY <1>1, <1>2, <2>1 DEF Typed, OwnsInv
  <2>3. Released'
    <3> SUFFICES ASSUME "overlap" \notin past PROVE Released'
      BY <2>1 DEF Released
    <3>1. /\ \A b \in Closers \ {a} : closes[b] = "no"
          /\ \A h \in Own : h[1] # "keycloak" /\ refs[h[1]] = h[2]
          /\ past \cap {"used", "cancel"} = {} => Own = {}
      BY <2>1 DEF Released
    <3>2. \A h \in Own : h[1] = "media"  BY <3>1 DEF Own, Typed, What
    <3>3. \A h \in Own' : refs'[h[1]] = h[2]  BY <1>2, <2>1, <3>1, <3>2
    <3>4. \A b \in Closers : closes'[b] = "no"  BY <1>1, <3>1
    <3> QED  BY <1>2, <2>1, <3>1, <3>3, <3>4 DEF Released
  <2>4. ChannelInv'
    <3>1. \A b \in Closers : closes[b] = "media" => closes'[b] = "media"  BY <1>1, <2>1
    <3> QED  BY <1>2, <2>1, <3>1 DEF ChannelInv
  <2> QED  BY <2>2, <2>3, <2>4
<1>4. CASE CloseCancelled(a)
  <2>1. refs' = refs /\ past' = past \cup {"cancel"}  BY <1>4 DEF CloseCancelled, handleVars
  <2>2. Typed' /\ OwnsInv'  BY <1>1, <1>2, <2>1 DEF Typed, OwnsInv
  <2>3. Released'
    <3> SUFFICES ASSUME "overlap" \notin past PROVE Released'
      BY <2>1 DEF Released
    <3>1. \A b \in Closers : closes'[b] # "no" => closes'[b] = closes[b]  BY <1>1
    <3>2. \A b, c \in Closers : closes[b] # "no" /\ closes[c] # "no" => b = c  BY DEF Released
    <3>3. \A b \in Closers :
              closes[b] # "no" => refs[closes[b]] # 0 /\ \A h \in Own : h[1] # closes[b]
      BY DEF Released
    <3> QED  BY <1>2, <2>1, <3>1, <3>2, <3>3 DEF Released
  <2>4. ChannelInv'  BY <1>2, <2>1 DEF ChannelInv
  <2> QED  BY <2>2, <2>3, <2>4
<1> QED  BY <1>3, <1>4

-----------------------------------------------------------------------------

LEMMA InitResourcesIInv == ResourcesInit => ResourcesIInv
<1> SUFFICES ASSUME ResourcesInit PROVE ResourcesIInv
  OBVIOUS
<1>1. /\ client \in Clients /\ client.transport \in {"http", "grpc"}
      /\ past = {"used"} /\ stub = 0 /\ owns = ("media" \notin client.passed)
      /\ closes = [a \in Closers |-> "no"] /\ calls = [c \in Coroutines |-> [pc |-> "no", via |-> 0]]
  BY ResourceConstants DEF ResourcesInit
<1>2. /\ refs \in [What -> {0, 1, 2}] /\ opened \in [What -> Nat]
      /\ open = {<<what, refs[what]>> : what \in {w \in What : refs[w] # 0}}
      /\ "media" \in client.passed <=> refs["media"] = 1
  BY DEF ResourcesInit, What
<1>3. open \subseteq What \X (Nat \ {0}) /\ \A h \in open : refs[h[1]] = h[2]
  BY <1>2
<1>4. \A w \in What : refs[w] # 0 => <<w, refs[w]>> \in open
  BY <1>2
<1>5. Typed  BY <1>1, <1>2, <1>3 DEF Typed
<1>6. OwnsInv
  <2>1. "media" \in client.passed => <<"media", 1>> \in open  BY <1>2, <1>4 DEF What
  <2>2. owns <=> refs["media"] # 1  BY <1>1, <1>2
  <2> QED  BY <2>1, <2>2 DEF OwnsInv
<1>7. Released  BY <1>1, <1>3 DEF Released, Own
<1>8. ChannelInv  BY <1>1, <1>4 DEF ChannelInv, What
<1> QED  BY <1>5, <1>6, <1>7, <1>8 DEF ResourcesIInv

LEMMA ResourcesNextIInv == ResourcesIInv /\ [ResourcesNext]_clientVars => ResourcesIInv'
<1> SUFFICES ASSUME ResourcesIInv, [ResourcesNext]_clientVars PROVE ResourcesIInv'
  OBVIOUS
<1>1. CASE Drops \/ TimePasses \/ UNCHANGED clientVars
  <2>1. UNCHANGED resourceVars  BY <1>1 DEF Drops, TimePasses, clientVars
  <2>2. UNCHANGED <<client, handleVars, owns, stub, closes, past, calls>>
    BY <2>1 DEF resourceVars, handleVars
  <2>3. calls \in [Coroutines -> [pc: {"no", "token", "sent", "backoff"}, via: Nat]]
    BY DEF ResourcesIInv, Typed
  <2> QED  BY <2>2, <2>3, QuietKeeps
<1> QED
  BY <1>1, CallsKeep, AcloseKeeps, MediaClosedKeeps, EndsAcloseKeeps DEF ResourcesNext

(* For any number of calls and acloses, what an AsyncMediaClient refers to,   *)
(* owns and has open keeps ResourcesIInv.                                    *)
THEOREM ResourcesInvariance == ResourcesSpec => []ResourcesIInv
<1>1. ResourcesInit => ResourcesIInv  BY InitResourcesIInv
<1>2. ResourcesIInv /\ [ResourcesNext]_clientVars => ResourcesIInv'  BY ResourcesNextIInv
<1> QED  BY <1>1, <1>2, PTL DEF ResourcesSpec

(* aclose() never closes the channel or the httpx client to media that was    *)
(* passed in; and unless two acloses overlap, nothing that the client opened *)
(* is lost, and all of it is closed when an aclose() has ended.              *)
THEOREM Releases == ResourcesSpec => []HandlesReleased
<1>1. ResourcesIInv => HandlesReleased
  BY DEF ResourcesIInv, OwnsInv, Released, HandlesReleased, AtRest
<1> QED  BY <1>1, ResourcesInvariance, PTL

(* A request never goes out over a channel that an aclose() has closed, for   *)
(* the stubs go with their channel.                                          *)
THEOREM AttemptsOpen == ResourcesSpec => AttemptsOverOpenChannel
<1> DEFINE Step ==
             \A c \in Coroutines :
                /\ calls[c].pc # "sent" /\ calls'[c].pc = "sent"
                /\ client.transport = "grpc" /\ AtRest /\ "cancel" \notin past
                => <<"media", calls'[c].via>> \in open'
<1>1. ASSUME ResourcesIInv, ResourcesNext PROVE Step
  <2> SUFFICES ASSUME NEW c \in Coroutines, calls[c].pc # "sent", calls'[c].pc = "sent",
                      client.transport = "grpc", AtRest, "cancel" \notin past
               PROVE  <<"media", calls'[c].via>> \in open'
    OBVIOUS
  <2>1. calls \in [Coroutines -> [pc: {"no", "token", "sent", "backoff"}, via: Nat]] /\ Typed
        /\ "media" \in What
    BY <1>1 DEF ResourcesIInv, Typed, What
  <2>2. \A d \in Coroutines, pc \in {"no", "token", "backoff"}, via \in Nat : ~At(d, pc, via)
    BY <2>1 DEF At
  <2>3. Attempt(c)
    <3>1. ASSUME NEW d \in Coroutines PROVE ~FetchOver(d)
      <4>1. Ref("keycloak") \in Nat  BY <2>1 DEF Typed, Ref, What
      <4> QED  BY <2>2, <4>1 DEF FetchOver
    <3>2. ASSUME NEW d \in Coroutines
          PROVE  ~(\/ Call(d) \/ Turn(d) \/ Answered(d) \/ TokenEnds(d) \/ GivesUp(d)
                   \/ TokenRaised(d) \/ Ends(d) \/ BacksOff(d) \/ Rejected(d))
      BY <2>2, <3>1 DEF Call, Turn, Answered, TokenEnds, GivesUp, TokenRaised, Ends, BacksOff,
                        Rejected, resourceVars
    <3>3. ASSUME NEW d \in Coroutines \ {c} PROVE ~Attempt(d)
      <4>1. \A via : At(d, "sent", via) => calls'[c] = calls[c]  BY <2>1 DEF At
      <4> QED  BY <4>1 DEF Attempt
    <3>4. ASSUME NEW a \in Closers
          PROVE  ~(Aclose(a) \/ MediaClosed(a) \/ KeycloakClosed(a) \/ CloseCancelled(a))
      BY DEF Aclose, MediaClosed, KeycloakClosed, CloseCancelled
    <3>5. ~Drops /\ ~TimePasses  BY DEF Drops, TimePasses, resourceVars
    <3> QED  BY <1>1, <3>2, <3>3, <3>4, <3>5 DEF ResourcesNext
  <2>4. refs["media"] # 0 => <<"media", refs["media"]>> \in open
    BY <1>1 DEF ResourcesIInv, ChannelInv, AtRest
  <2>5. CASE stub = 0
    <3>1. OpenIfNone("media") /\ At(c, "sent", Ref("media"))
      BY <2>3, <2>5 DEF Attempt, ChannelOrOpen
    <3>2. calls'[c].via = Ref("media")  BY <2>1, <3>1 DEF At
    <3>3. <<"media", Ref("media")>> \in open'  BY <2>4, <3>1 DEF OpenIfNone, Ref
    <3> QED  BY <3>2, <3>3
  <2>6. CASE stub # 0
    <3>1. At(c, "sent", stub) /\ UNCHANGED open /\ stub = refs["media"]
      BY <1>1, <2>3, <2>6 DEF Attempt, handleVars, ResourcesIInv, ChannelInv
    <3>2. calls'[c].via = stub  BY <2>1, <3>1 DEF At
    <3> QED  BY <2>4, <2>6, <3>1, <3>2
  <2> QED  BY <2>5, <2>6
<1> HIDE DEF Step
<1>2. ResourcesIInv /\ [ResourcesNext]_clientVars => [Step]_clientVars
  BY <1>1
<1>3. [][Step]_clientVars <=> AttemptsOverOpenChannel
  BY PTL DEF Step, AttemptsOverOpenChannel
<1> QED  BY <1>2, <1>3, ResourcesInvariance, PTL DEF ResourcesSpec
=============================================================================
