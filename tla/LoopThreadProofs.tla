--------------------------- MODULE LoopThreadProofs ---------------------------
(***************************************************************************)
(* Proofs about LoopThread, for any number of threads that call and close  *)
(* a sync client: its loop is closed at rest.                              *)
(***************************************************************************)
EXTENDS LoopThread, SequenceTheorems, TLAPS

\* What the loop still has to run, in order.
Pending == batch \o ready

States == {"none", "submitted", "running", "done"}

SeqInv ==
    /\ at \in [Threads -> Places]
    /\ ready \in Seq(Callbacks) /\ batch \in Seq(Callbacks)
    /\ loop \in {"running", "stopping", "stopped", "closed"}
    /\ coroutine \in [Threads -> States]
    /\ \A t \in Threads : at[t] = "waiting" => coroutine[t] # "none"
    /\ \A t \in Threads : at[t] \in {"new", "checked"} => coroutine[t] = "none"

\* A coroutine waits for its start once, and finishes after it.
StartInv(q) ==
    \A i \in DOMAIN q : \A t \in Threads :
        /\ q[i] = <<"start", t>> =>
              /\ coroutine[t] = "submitted"
              /\ \A j \in DOMAIN q : q[j] = q[i] => j = i
        /\ q[i] = <<"finish", t>> => coroutine[t] \in {"running", "done"}

SomeAcloseDone == \E t \in Closers : coroutine[t] = "done"

\* The loop is only stopped by a thread whose aclose() is over.
StopInv(q) ==
    \/ SomeAcloseDone
    \/ /\ loop = "running"
       /\ \A t \in Threads : at[t] \notin {"stopping", "joining"}
       /\ \A i \in DOMAIN q : q[i] # <<"stop">>

RestInv == loop \in {"stopped", "closed"} => batch = <<>>

IInv == SeqInv /\ StartInv(Pending) /\ StopInv(Pending) /\ RestInv

-----------------------------------------------------------------------------

LEMMA PendingAppend ==
    ASSUME NEW S, NEW b \in Seq(S), NEW r \in Seq(S), NEW x \in S
    PROVE  b \o Append(r, x) = Append(b \o r, x)
BY AppendIsConcat, ConcatAssociative, ConcatProperties

LEMMA PendingTail ==
    ASSUME NEW S, NEW b \in Seq(S), NEW r \in Seq(S), b # <<>>
    PROVE  Tail(b) \o r = Tail(b \o r) /\ Head(b) = Head(b \o r) /\ b \o r # <<>>
OBVIOUS

LEMMA PendingTyped ==
    ASSUME SeqInv
    PROVE  /\ Pending \in Seq(Callbacks) /\ DOMAIN Pending = 1..Len(Pending)
           /\ Len(Pending) \in Nat
BY ConcatProperties DEF SeqInv, Pending

\* Adding a callback keeps the queue's invariants.
LEMMA Adds ==
    ASSUME SeqInv, StartInv(Pending),
           NEW x \in Callbacks, ready' = Append(ready, x), batch' = batch
    PROVE  /\ ready' \in Seq(Callbacks)
           /\ DOMAIN Pending' = 1..Len(Pending) + 1
           /\ \A i \in 1..Len(Pending) : Pending'[i] = Pending[i]
           /\ Pending'[Len(Pending) + 1] = x
<1>1. Pending' = Append(Pending, x)
  BY PendingAppend DEF SeqInv, Pending
<1> QED  BY <1>1, PendingTyped, AppendProperties DEF SeqInv

\* A thread moves, and its coroutine and the loop's queue stay.
LEMMA ThreadMoves ==
    ASSUME IInv, NEW t \in Threads, NEW p \in Places,
           Goto(t, p), UNCHANGED <<ready, batch, loop, coroutine>>,
           p = "waiting" => coroutine[t] # "none",
           p \in {"new", "checked"} => coroutine[t] = "none",
           p \in {"stopping", "joining"} => SomeAcloseDone
    PROVE  IInv'
<1>1. /\ at' \in [Threads -> Places] /\ at'[t] = p
      /\ \A u \in Threads \ {t} : at'[u] = at[u]
  BY DEF Goto, IInv, SeqInv
<1>2. SeqInv'  BY <1>1 DEF IInv, SeqInv
<1>3. Pending' = Pending /\ (SomeAcloseDone => SomeAcloseDone')
  BY DEF Pending, SomeAcloseDone
<1>4. StartInv(Pending)'  BY <1>3 DEF IInv, StartInv
<1>5. StopInv(Pending)'  BY <1>1, <1>3 DEF IInv, StopInv
<1>6. RestInv'  BY DEF IInv, RestInv
<1> QED  BY <1>2, <1>4, <1>5, <1>6 DEF IInv

LEMMA CallKeeps == ASSUME IInv, NEW t \in Threads, Call(t) PROVE IInv'
<1>1. PICK p \in {"done", "refused", "checked"} : Goto(t, p)
  BY DEF Call
<1>2. coroutine[t] = "none"
  BY DEF Call, IInv, SeqInv
<1>3. p \in Places  BY DEF Places
<1> QED  BY <1>1, <1>2, <1>3, ThreadMoves DEF Call

LEMMA ReturnKeeps == ASSUME IInv, NEW t \in Threads, Return(t) PROVE IInv'
<1>1. CASE t \in Closers
  <2>1. SomeAcloseDone  BY <1>1 DEF Return, SomeAcloseDone
  <2>2. "stopping" \in Places /\ Goto(t, "stopping")  BY <1>1 DEF Return, Ran, Places
  <2> QED  BY <2>1, <2>2, ThreadMoves DEF Return
<1>2. CASE t \notin Closers
  <2>1. "done" \in Places /\ Goto(t, "done")  BY <1>2 DEF Return, Ran, Places
  <2> QED  BY <2>1, ThreadMoves DEF Return
<1> QED  BY <1>1, <1>2

\* A thread adds a callback to the loop's queue.
LEMMA ThreadAdds ==
    ASSUME IInv, NEW t \in Threads, NEW p \in {"waiting", "joining"}, NEW x \in Callbacks,
           Goto(t, p), ready' = Append(ready, x), UNCHANGED <<batch, loop>>,
           loop # "closed",
           \/ p = "joining" /\ x = <<"stop">> /\ SomeAcloseDone /\ coroutine' = coroutine
           \/ /\ p = "waiting" /\ x = <<"start", t>> /\ coroutine[t] = "none"
              /\ coroutine' = [coroutine EXCEPT ![t] = "submitted"]
    PROVE  IInv'
<1> USE DEF IInv
<1>1. /\ at' \in [Threads -> Places] /\ at'[t] = p
      /\ \A u \in Threads \ {t} : at'[u] = at[u]
  <2>1. p \in Places  BY DEF Places
  <2> QED  BY <2>1 DEF Goto, SeqInv
<1>2. /\ coroutine' \in [Threads -> States]
      /\ \A u \in Threads \ {t} : coroutine'[u] = coroutine[u]
      /\ coroutine'[t] = IF p = "waiting" THEN "submitted" ELSE coroutine[t]
  BY DEF SeqInv, States
<1>3. /\ ready' \in Seq(Callbacks)
      /\ DOMAIN Pending' = 1..Len(Pending) + 1
      /\ \A i \in 1..Len(Pending) : Pending'[i] = Pending[i]
      /\ Pending'[Len(Pending) + 1] = x
  BY Adds
<1>4. DOMAIN Pending = 1..Len(Pending) /\ Len(Pending) \in Nat
  BY PendingTyped
<1>5. SomeAcloseDone => SomeAcloseDone'
  BY <1>2, LoopConstants DEF SomeAcloseDone
<1>6. SeqInv'
  BY <1>1, <1>2, <1>3 DEF SeqInv
<1>7. \A i \in DOMAIN Pending : Pending[i] # <<"start", t>> \/ p # "waiting"
  BY DEF StartInv
<1>8. StartInv(Pending)'
  <2>0. ASSUME NEW i \in DOMAIN Pending', NEW u \in Threads, Pending'[i] = <<"finish", u>>
        PROVE  coroutine'[u] \in {"running", "done"}
    <3>1. i \in DOMAIN Pending /\ Pending[i] = <<"finish", u>>  BY <1>3, <1>4, <2>0
    <3>2. coroutine[u] \in {"running", "done"}  BY <3>1 DEF StartInv
    <3> QED  BY <1>2, <3>2
  <2> SUFFICES ASSUME NEW i \in DOMAIN Pending', NEW u \in Threads, Pending'[i] = <<"start", u>>
               PROVE  /\ coroutine'[u] = "submitted"
                      /\ \A j \in DOMAIN Pending' : Pending'[j] = Pending'[i] => j = i
    BY <2>0 DEF StartInv
  <2>1. CASE i = Len(Pending) + 1
    <3>1. x = <<"start", u>> /\ p = "waiting" /\ u = t  BY <1>3, <2>1
    <3>2. \A j \in 1..Len(Pending) : Pending'[j] # <<"start", t>>  BY <1>3, <1>4, <1>7, <3>1
    <3>3. \A j \in DOMAIN Pending' : Pending'[j] = <<"start", t>> => j = i
      BY <1>3, <1>4, <2>1, <3>2
    <3> QED  BY <1>2, <3>1, <3>3
  <2>2. CASE i # Len(Pending) + 1
    <3>1. i \in DOMAIN Pending /\ Pending[i] = <<"start", u>>  BY <1>3, <1>4, <2>2
    <3>2. u # t \/ p # "waiting"  BY <1>7, <3>1
    <3>3. coroutine'[u] = "submitted"  BY <1>2, <3>1, <3>2 DEF StartInv
    <3>4. x # <<"start", u>>  BY <3>2
    <3>5. \A j \in DOMAIN Pending : Pending[j] = Pending[i] => j = i  BY <3>1 DEF StartInv
    <3> QED  BY <1>3, <1>4, <2>2, <3>1, <3>3, <3>4, <3>5
  <2> QED  BY <2>1, <2>2
<1>9. StopInv(Pending)'
  <2>1. CASE SomeAcloseDone  BY <1>5, <2>1 DEF StopInv
  <2>2. CASE ~SomeAcloseDone
    <3>1. p = "waiting" /\ x = <<"start", t>> /\ x # <<"stop">>  BY <2>2
    <3>2. /\ loop = "running" /\ \A u \in Threads : at[u] \notin {"stopping", "joining"}
          /\ \A i \in DOMAIN Pending : Pending[i] # <<"stop">>
      BY <2>2 DEF StopInv
    <3>3. \A i \in DOMAIN Pending' : Pending'[i] # <<"stop">>
      BY <1>3, <1>4, <3>1, <3>2
    <3>4. \A u \in Threads : at'[u] \notin {"stopping", "joining"}
      BY <1>1, <3>1, <3>2
    <3> QED  BY <3>2, <3>3, <3>4 DEF StopInv
  <2> QED  BY <2>1, <2>2
<1>10. RestInv'  BY DEF RestInv
<1> QED  BY <1>6, <1>8, <1>9, <1>10

LEMMA SubmitKeeps == ASSUME IInv, NEW t \in Threads, Submit(t) PROVE IInv'
<1>1. coroutine[t] = "none"  BY DEF Submit, IInv, SeqInv
<1>2. CASE loop = "closed"
  <2>1. SomeAcloseDone  BY <1>2 DEF IInv, StopInv
  <2>2. PICK p \in {"stopping", "refused"} : Goto(t, p)
    BY <1>2 DEF Submit, Ran
  <2>3. p \in Places  BY DEF Places
  <2> QED  BY <1>2, <2>1, <2>2, <2>3, ThreadMoves DEF Submit
<1>3. CASE loop # "closed"
  <2>1. <<"start", t>> \in Callbacks  BY DEF Callbacks
  <2> QED  BY <1>1, <1>3, <2>1, ThreadAdds DEF Submit
<1> QED  BY <1>2, <1>3

LEMMA StopKeeps == ASSUME IInv, NEW t \in Threads, Stop(t) PROVE IInv'
<1>1. SomeAcloseDone  BY DEF Stop, IInv, StopInv
<1>2. CASE loop = "closed"
  <2>1. "done" \in Places  BY DEF Places
  <2> QED  BY <1>2, <2>1, ThreadMoves DEF Stop
<1>3. CASE loop # "closed"
  <2>1. <<"stop">> \in Callbacks  BY DEF Callbacks
  <2> QED  BY <1>1, <1>3, <2>1, ThreadAdds DEF Stop
<1> QED  BY <1>2, <1>3

LEMMA CloseKeeps == ASSUME IInv, NEW t \in Threads, Close(t) PROVE IInv'
<1> USE DEF IInv
<1>1. SomeAcloseDone /\ batch = <<>>  BY DEF Close, StopInv, RestInv
<1>2. Pending' = <<>>
  <2>1. <<>> \o <<>> = <<>>  OBVIOUS
  <2> QED  BY <1>1, <2>1 DEF Close, Pending
<1>3. SeqInv'
  <2>1. "done" \in Places /\ at' = [at EXCEPT ![t] = "done"]  BY DEF Close, Goto, Places
  <2> QED  BY <2>1 DEF Close, SeqInv
<1>4. StartInv(Pending)'  BY <1>2 DEF StartInv
<1>5. StopInv(Pending)'  BY <1>1 DEF Close, StopInv, SomeAcloseDone
<1>6. RestInv'  BY <1>1 DEF Close, RestInv
<1> QED  BY <1>3, <1>4, <1>5, <1>6

LEMMA IterateKeeps == ASSUME IInv, Iterate PROVE IInv'
<1> USE DEF IInv
<1>1. Pending' = Pending
  BY ConcatEmptySeq DEF Iterate, Pending, SeqInv
<1>2. SeqInv'  BY DEF Iterate, SeqInv
<1>3. StartInv(Pending)'  BY <1>1 DEF Iterate, StartInv
<1>4. StopInv(Pending)'  BY <1>1 DEF Iterate, StopInv, SomeAcloseDone
<1>5. RestInv'  BY DEF Iterate, RestInv
<1> QED  BY <1>2, <1>3, <1>4, <1>5

LEMMA RunCallbackKeeps == ASSUME IInv, RunCallback PROVE IInv'
<1> USE DEF IInv
<1>0. UNCHANGED <<at, ready>> /\ batch # <<>> /\ batch' = Tail(batch)
  BY DEF RunCallback
<1>1. /\ Pending # <<>> /\ Pending' = Tail(Pending) /\ Head(batch) = Head(Pending)
      /\ batch' \in Seq(Callbacks)
  BY <1>0, PendingTail, HeadTailProperties DEF Pending, SeqInv
<1>2. /\ Len(Pending) \in Nat /\ Len(Pending) >= 1 /\ DOMAIN Pending = 1..Len(Pending)
      /\ DOMAIN Pending' = 1..Len(Pending) - 1
      /\ \A i \in 1..Len(Pending) - 1 : Pending'[i] = Pending[i + 1]
      /\ Head(batch) = Pending[1]
  BY <1>1, PendingTyped, HeadTailProperties
<1>3. ASSUME NEW i \in DOMAIN Pending', NEW t \in Threads
      PROVE  /\ Pending'[i] = <<"start", t>> =>
                   /\ coroutine[t] = "submitted" /\ Head(batch) # <<"start", t>>
                   /\ \A j \in DOMAIN Pending' : Pending'[j] = Pending'[i] => j = i
             /\ Pending'[i] = <<"finish", t>> => coroutine[t] \in {"running", "done"}
  <2>1. i + 1 \in DOMAIN Pending /\ i + 1 # 1 /\ Pending'[i] = Pending[i + 1]  BY <1>2
  <2>2. Pending[i + 1] = <<"finish", t>> => coroutine[t] \in {"running", "done"}
    BY <2>1 DEF StartInv
  <2>3. ASSUME Pending[i + 1] = <<"start", t>>
        PROVE  /\ coroutine[t] = "submitted"
               /\ \A j \in DOMAIN Pending : Pending[j] = Pending[i + 1] => j = i + 1
    BY <2>1, <2>3 DEF StartInv
  <2>4. ASSUME Pending[i + 1] = <<"start", t>>
        PROVE  /\ Head(batch) # <<"start", t>>
               /\ \A j \in DOMAIN Pending' : Pending'[j] = Pending'[i] => j = i
    <3>1. Pending[1] # Pending[i + 1]  BY <1>2, <2>1, <2>3, <2>4
    <3>2. ASSUME NEW j \in DOMAIN Pending', Pending'[j] = Pending'[i] PROVE j = i
      <4>1. j + 1 \in DOMAIN Pending /\ Pending[j + 1] = Pending[i + 1]  BY <1>2, <2>1, <3>2
      <4>2. j + 1 = i + 1  BY <2>3, <2>4, <4>1
      <4> QED  BY <1>2, <4>2
    <3> QED  BY <1>2, <2>4, <3>1, <3>2
  <2> QED  BY <2>1, <2>2, <2>3, <2>4
<1>4. SomeAcloseDone \/ (loop = "running" /\ (\A t \in Threads : at[t] \notin {"stopping", "joining"})
                           /\ Head(batch) # <<"stop">>
                           /\ \A i \in DOMAIN Pending' : Pending'[i] # <<"stop">>)
  BY <1>2 DEF StopInv
<1>5. CASE \E t \in Threads : \/ Head(batch) = <<"start", t>> /\ FirstStep(t)
                              \/ /\ Head(batch) = <<"finish", t>>
                                 /\ coroutine' = [coroutine EXCEPT ![t] = "done"]
                                 /\ UNCHANGED loop
  <2>1. PICK t \in Threads : \/ Head(batch) = <<"start", t>> /\ FirstStep(t)
                            \/ /\ Head(batch) = <<"finish", t>>
                               /\ coroutine' = [coroutine EXCEPT ![t] = "done"]
                               /\ UNCHANGED loop
    BY <1>5
  <2>2. /\ 1 \in DOMAIN Pending
        /\ Pending[1] = <<"start", t>> => coroutine[t] = "submitted"
        /\ Pending[1] = <<"finish", t>> => coroutine[t] \in {"running", "done"}
    BY <1>2 DEF StartInv
  <2>3. /\ coroutine[t] # "none" /\ (coroutine[t] = "done" => coroutine'[t] = "done")
        /\ coroutine[t] = "submitted" => Head(batch) = <<"start", t>>
        /\ coroutine'[t] \in {"running", "done"} /\ UNCHANGED loop
        /\ \A u \in Threads \ {t} : coroutine'[u] = coroutine[u]
        /\ coroutine' \in [Threads -> States]
    BY <1>2, <2>1, <2>2 DEF FirstStep, SeqInv, States
  <2>4. SeqInv'  BY <1>0, <1>1, <2>3 DEF SeqInv
  <2>5. StartInv(Pending)'
    <3> SUFFICES ASSUME NEW i \in DOMAIN Pending', NEW u \in Threads
                 PROVE  /\ Pending'[i] = <<"start", u>> =>
                              /\ coroutine'[u] = "submitted"
                              /\ \A j \in DOMAIN Pending' : Pending'[j] = Pending'[i] => j = i
                        /\ Pending'[i] = <<"finish", u>> => coroutine'[u] \in {"running", "done"}
      BY DEF StartInv
    <3>1. CASE u = t  BY <1>3, <2>3, <3>1
    <3>2. CASE u # t  BY <1>3, <2>3, <3>2
    <3> QED  BY <3>1, <3>2
  <2>6. SomeAcloseDone => SomeAcloseDone'
    BY <2>3, LoopConstants DEF SomeAcloseDone
  <2>7. StopInv(Pending)'  BY <1>0, <1>4, <2>3, <2>6 DEF StopInv
  <2>8. RestInv'
    BY <1>0, <2>3 DEF RunCallback, RestInv
  <2> QED  BY <2>4, <2>5, <2>7, <2>8
<1>6. CASE Head(batch) = <<"stop">> /\ loop' = "stopping" /\ UNCHANGED coroutine
  <2>1. SomeAcloseDone /\ SomeAcloseDone'  BY <1>4, <1>6 DEF SomeAcloseDone
  <2>2. SeqInv'  BY <1>0, <1>1, <1>6 DEF SeqInv
  <2>3. StartInv(Pending)'  BY <1>3, <1>6 DEF StartInv
  <2>4. StopInv(Pending)' /\ RestInv'  BY <1>6, <2>1 DEF StopInv, RestInv
  <2> QED  BY <2>2, <2>3, <2>4
<1> QED  BY <1>5, <1>6 DEF RunCallback

LEMMA LeaveKeeps == ASSUME IInv, LeaveRunForever PROVE IInv'
<1> USE DEF IInv
<1>1. Pending' = Pending /\ SomeAcloseDone /\ SomeAcloseDone'
  BY DEF LeaveRunForever, Pending, StopInv, SomeAcloseDone
<1>2. SeqInv' /\ RestInv'  BY DEF LeaveRunForever, SeqInv, RestInv
<1>3. StartInv(Pending)'  BY <1>1 DEF LeaveRunForever, StartInv
<1> QED  BY <1>1, <1>2, <1>3 DEF StopInv

LEMMA IoDoneKeeps == ASSUME IInv, NEW t \in Threads, IoDone(t) PROVE IInv'
<1> USE DEF IInv
<1>1. /\ UNCHANGED <<at, batch, loop, coroutine>> /\ coroutine[t] = "running"
      /\ <<"finish", t>> \in Callbacks /\ loop = "running"
  BY DEF IoDone, Callbacks
<1>2. /\ ready' \in Seq(Callbacks)
      /\ DOMAIN Pending' = 1..Len(Pending) + 1
      /\ \A i \in 1..Len(Pending) : Pending'[i] = Pending[i]
      /\ Pending'[Len(Pending) + 1] = <<"finish", t>>
  BY <1>1, Adds DEF IoDone
<1>3. DOMAIN Pending = 1..Len(Pending) /\ Len(Pending) \in Nat  BY PendingTyped
<1>4. SeqInv' /\ RestInv'  BY <1>1, <1>2 DEF SeqInv, RestInv
<1>5. StartInv(Pending)'
  <2> SUFFICES ASSUME NEW i \in DOMAIN Pending', NEW u \in Threads
               PROVE  /\ Pending'[i] = <<"start", u>> =>
                            /\ coroutine[u] = "submitted"
                            /\ \A j \in DOMAIN Pending' : Pending'[j] = Pending'[i] => j = i
                      /\ Pending'[i] = <<"finish", u>> => coroutine[u] \in {"running", "done"}
    BY <1>1 DEF StartInv
  <2>1. CASE i = Len(Pending) + 1
    <3>1. Pending'[i] = <<"finish", t>>  BY <1>2, <2>1
    <3>2. Pending'[i] # <<"start", u>> /\ (Pending'[i] = <<"finish", u>> => u = t)  BY <3>1
    <3> QED  BY <1>1, <3>2
  <2>2. CASE i # Len(Pending) + 1
    <3>1. i \in DOMAIN Pending /\ Pending'[i] = Pending[i]  BY <1>2, <1>3, <2>2
    <3>2. Pending[i] = <<"finish", u>> => coroutine[u] \in {"running", "done"}
      BY <3>1 DEF StartInv
    <3>3. ASSUME Pending[i] = <<"start", u>>
          PROVE  /\ coroutine[u] = "submitted"
                 /\ \A j \in DOMAIN Pending' : Pending'[j] = Pending'[i] => j = i
      <4>1. /\ coroutine[u] = "submitted"
            /\ \A j \in DOMAIN Pending : Pending[j] = Pending[i] => j = i
        BY <3>1, <3>3 DEF StartInv
      <4>2. Pending'[Len(Pending) + 1] # <<"start", u>>  BY <1>2
      <4> QED  BY <1>2, <1>3, <3>1, <3>3, <4>1, <4>2
    <3> QED  BY <3>1, <3>2, <3>3
  <2> QED  BY <2>1, <2>2
<1>6. StopInv(Pending)'
  <2>1. SomeAcloseDone' <=> SomeAcloseDone  BY <1>1 DEF SomeAcloseDone
  <2>2. <<"finish", t>> # <<"stop">>  OBVIOUS
  <2> QED  BY <1>1, <1>2, <1>3, <2>1, <2>2 DEF StopInv
<1> QED  BY <1>4, <1>5, <1>6

LEMMA InitIInv == Init => IInv
<1> SUFFICES ASSUME Init PROVE IInv
  OBVIOUS
<1>1. Pending = <<>>
  <2>1. <<>> \o <<>> = <<>>  OBVIOUS
  <2> QED  BY <2>1 DEF Init, Pending
<1>2. SeqInv  BY DEF Init, SeqInv, Places, States
<1>3. StartInv(Pending) /\ StopInv(Pending) /\ RestInv
  BY <1>1 DEF Init, StartInv, StopInv, RestInv
<1> QED  BY <1>2, <1>3 DEF IInv

LEMMA NextIInv == IInv /\ [Next]_vars => IInv'
<1> SUFFICES ASSUME IInv, [Next]_vars PROVE IInv'
  OBVIOUS
<1>1. CASE UNCHANGED vars
  BY <1>1 DEF vars, IInv, SeqInv, Pending, StartInv, StopInv, SomeAcloseDone, RestInv
<1> QED
  BY <1>1, CallKeeps, SubmitKeeps, ReturnKeeps, StopKeeps, CloseKeeps, IoDoneKeeps,
     IterateKeeps, RunCallbackKeeps, LeaveKeeps DEF Next

(* For any number of threads, however they call and close one sync client,    *)
(* the callbacks of its loop and the places of its threads keep IInv; its     *)
(* thread never waits for itself.                                             *)
THEOREM Invariance == Spec => []IInv
<1>1. Init => IInv  BY InitIInv
<1>2. IInv /\ [Next]_vars => IInv'  BY NextIInv
<1> QED  BY <1>1, <1>2, PTL DEF Spec

LEMMA TypedByIInv == IInv => TypeOK
<1> SUFFICES ASSUME IInv PROVE TypeOK
  OBVIOUS
<1>1. Range(ready) \cup Range(batch) \subseteq Callbacks
  BY DEF IInv, SeqInv, Range
<1> QED  BY <1>1 DEF IInv, SeqInv, TypeOK, States

(* The places, queues and coroutines of LoopThread are what they should be.   *)
THEOREM Typed == Spec => []TypeOK
BY Invariance, TypedByIInv, PTL

(* LoopThread.stop closes the loop only after its thread has left run_forever *)
(* and after the aclose() of a closing thread has run to its end.             *)
THEOREM AtRestWhenClosed == Spec => []ClosedAtRest
<1>1. IInv => ClosedAtRest
  BY DEF IInv, StopInv, SomeAcloseDone, RestInv, ClosedAtRest
<1> QED  BY <1>1, Invariance, PTL
=============================================================================
