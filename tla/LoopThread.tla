----------------------------- MODULE LoopThread ------------------------------
(***************************************************************************)
(* pkg_media._sync.LoopThread and MediaClient.close: threads that share a  *)
(* sync client submit coroutines to one event loop on a thread of its own  *)
(* and wait for them; any of them may close the client.                    *)
(*                                                                         *)
(* Each thread makes one call, or closes the client.  The event loop is    *)
(* asyncio's: an iteration runs the callbacks that are ready when it       *)
(* starts, loop.stop ends run_forever after the iteration, and a closed    *)
(* loop takes no callbacks.                                                *)
(***************************************************************************)
EXTENDS Integers, FiniteSets, Sequences, SequencesExt

CONSTANTS
    Threads,         \* the threads that call the client
    Closers,         \* the threads that close it
    Reentrant        \* calls whose coroutine calls the sync client again

ASSUME LoopConstants ==
    /\ Closers \subseteq Threads
    /\ Reentrant \subseteq Threads \ Closers

VARIABLES
    at,         \* Threads -> where the thread is
    ready,      \* callbacks added for the next iteration
    batch,      \* callbacks the current iteration still has to run
    loop,       \* "running", "stopping" (stop was called), "stopped", "closed",
                \* or "stuck": its thread waits for itself
    coroutine   \* Threads -> the coroutine the thread submitted

vars == <<at, ready, batch, loop, coroutine>>

Callbacks == {"start", "finish"} \X Threads \cup {<<"stop">>}

Places == {"new", "checked", "waiting", "stopping", "joining", "done", "refused"}

TypeOK ==
    /\ at \in [Threads -> Places]
    /\ Range(ready) \cup Range(batch) \subseteq Callbacks
    /\ loop \in {"running", "stopping", "stopped", "closed", "stuck"}
    /\ coroutine \in [Threads -> {"none", "submitted", "running", "done"}]
    /\ \A t \in Threads : at[t] = "waiting" => coroutine[t] # "none"

Init ==
    /\ at = [t \in Threads |-> "new"]
    /\ ready = <<>>
    /\ batch = <<>>
    /\ loop = "running"
    /\ coroutine = [t \in Threads |-> "none"]

Goto(t, p) == at' = [at EXCEPT ![t] = p]

-----------------------------------------------------------------------------
(* The calling threads. *)

InUse(t) == at[t] \notin {"new", "done", "refused"}

\* run(), and close() before it: the loop must not be closed.  Closing a
\* closed client does nothing.
Call(t) ==
    /\ at[t] = "new"
    /\ IF loop = "closed"
         THEN Goto(t, IF t \in Closers THEN "done" ELSE "refused")
         ELSE Goto(t, "checked")
    /\ UNCHANGED <<ready, batch, loop, coroutine>>

\* After run(): a call is done, close() goes on to stop(), with the error or
\* without.
Ran(t, p) == Goto(t, IF t \in Closers THEN "stopping" ELSE p)

\* run_coroutine_threadsafe: call_soon_threadsafe raises on a closed loop;
\* otherwise the thread waits for the future.
Submit(t) ==
    /\ at[t] = "checked"
    /\ IF loop = "closed"
         THEN Ran(t, "refused") /\ UNCHANGED <<ready, coroutine>>
         ELSE /\ ready' = Append(ready, <<"start", t>>)
              /\ coroutine' = [coroutine EXCEPT ![t] = "submitted"]
              /\ Goto(t, "waiting")
    /\ UNCHANGED <<batch, loop>>

\* future.result() returns or raises.
Return(t) ==
    /\ at[t] = "waiting" /\ coroutine[t] = "done"
    /\ Ran(t, "done")
    /\ UNCHANGED <<ready, batch, loop, coroutine>>

\* stop(): nothing to do on a closed loop (closed in between, the call_soon
\* raises and close() with it); otherwise loop.stop is submitted.
Stop(t) ==
    /\ at[t] = "stopping"
    /\ IF loop = "closed"
         THEN Goto(t, "done") /\ UNCHANGED ready
         ELSE Goto(t, "joining") /\ ready' = Append(ready, <<"stop">>)
    /\ UNCHANGED <<batch, loop, coroutine>>

\* Faulty variant: the loop is closed without waiting for its thread.
CloseUnjoined(t) ==
    /\ at[t] = "joining"
    /\ loop' = "closed"
    /\ Goto(t, "done")
    /\ ready' = <<>>
    /\ UNCHANGED <<batch, coroutine>>

\* The loop's thread has ended: join() returns and the loop is closed, which
\* forgets the callbacks that never ran.
Close(t) ==
    /\ at[t] = "joining" /\ loop \in {"stopped", "closed"}
    /\ loop' = "closed"
    /\ Goto(t, "done")
    /\ ready' = <<>>
    /\ UNCHANGED <<batch, coroutine>>

-----------------------------------------------------------------------------
(* The loop's thread. *)

\* An iteration begins.
Iterate ==
    /\ loop = "running" /\ batch = <<>> /\ ready # <<>>
    /\ batch' = ready
    /\ ready' = <<>>
    /\ UNCHANGED <<at, loop, coroutine>>

\* Faulty variant: the loop's own thread is not recognised and waits for a
\* coroutine that only it could run.
FirstStepUnguarded(t) ==
    IF t \in Reentrant
      THEN loop' = "stuck" /\ UNCHANGED coroutine
      ELSE coroutine' = [coroutine EXCEPT ![t] = "running"] /\ UNCHANGED loop

\* The coroutine runs up to its first await; run() on the loop's own thread
\* raises, and the coroutine ends with that error.
FirstStep(t) ==
    /\ coroutine' = [coroutine EXCEPT ![t] = IF t \in Reentrant THEN "done" ELSE "running"]
    /\ UNCHANGED loop

\* The next callback of the iteration.
RunCallback ==
    /\ loop \in {"running", "stopping"} /\ batch # <<>>
    /\ batch' = Tail(batch)
    /\ \/ \E t \in Threads : Head(batch) = <<"start", t>> /\ FirstStep(t)
       \/ \E t \in Threads :
             /\ Head(batch) = <<"finish", t>>
             /\ coroutine' = [coroutine EXCEPT ![t] = "done"]
             /\ UNCHANGED loop
       \/ Head(batch) = <<"stop">> /\ loop' = "stopping" /\ UNCHANGED coroutine
    /\ UNCHANGED <<at, ready>>

\* run_forever returns after the iteration in which stop ran.
LeaveRunForever ==
    /\ loop = "stopping" /\ batch = <<>>
    /\ loop' = "stopped"
    /\ UNCHANGED <<at, ready, batch, coroutine>>

\* External: what the coroutine awaited is there (an answer, a timeout).
IoDone(t) ==
    /\ coroutine[t] = "running" /\ loop = "running"
    /\ <<"finish", t>> \notin Range(ready) \cup Range(batch)
    /\ ready' = Append(ready, <<"finish", t>>)
    /\ UNCHANGED <<at, batch, loop, coroutine>>

ThreadStep(t) == Submit(t) \/ Return(t) \/ Stop(t) \/ Close(t)
LoopStep == Iterate \/ RunCallback \/ LeaveRunForever

Next ==
    \/ \E t \in Threads :
         Call(t) \/ Submit(t) \/ Return(t) \/ Stop(t) \/ Close(t) \/ IoDone(t)
    \/ Iterate \/ RunCallback \/ LeaveRunForever

Spec == Init /\ [][Next]_vars

\* Threads that have called are scheduled, and what coroutines await has a timeout.
FairSpec ==
    /\ Spec
    /\ \A t \in Threads : WF_vars(ThreadStep(t)) /\ WF_vars(IoDone(t))
    /\ WF_vars(LoopStep)

-----------------------------------------------------------------------------
(* Correctness. *)

(* The loop is never closed under its own thread, nor while the only         *)
(* aclose() is still running: its iterations are over, and an aclose() has    *)
(* run to its end.                                                           *)
ClosedAtRest ==
    loop = "closed" =>
        /\ batch = <<>>
        /\ \E t \in Closers : coroutine[t] = "done"

(* No other thread is closing the client: none has begun to, or the client   *)
(* was closed before t submitted anything.                                   *)
Undisturbed(t) ==
    \A u \in Closers \ {t} :
        at[u] = "new" \/ (loop = "closed" /\ at[t] # "waiting")

(* Every call and every close() returns or raises that no other thread's     *)
(* close() overlaps, a call made from the loop's own thread included, and    *)
(* so does a call made after the client was closed.                          *)
CallsReturnUnlessClosing ==
    \A t \in Threads : InUse(t) /\ Undisturbed(t) ~> ~InUse(t) \/ ~Undisturbed(t)

(* What client.py says of sharing a client: every call of every thread       *)
(* returns or raises, and so does every close().                             *)
CallsReturn == \A t \in Threads : InUse(t) ~> ~InUse(t)
=============================================================================
