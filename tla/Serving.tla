------------------------------ MODULE Serving ------------------------------
(***************************************************************************)
(* A chat completion from its arrival to its end: create_chat_completion,  *)
(* stream_chat_completion, close_stream and CancellableStreamingResponse   *)
(* of 03-production-serving/src/production_serving/api.py, composed with   *)
(* the admission controller of module Admission.                           *)
(*                                                                         *)
(* A request suspends in acquire(), while a backend call runs in a worker  *)
(* thread, and while an event is being sent.  Worker threads cannot be     *)
(* cancelled: anyio waits for the thread before it raises a pending        *)
(* cancellation.  The server watches for a disconnect once the response    *)
(* has started; the disconnect cancels the sending task, which ends either *)
(* in the send or at the generator's next checkpoint, and in both cases    *)
(* the generator's finally clause runs.                                    *)
(*                                                                         *)
(* Not modelled: a forced shutdown, which cancels a request while its      *)
(* worker thread runs on, and the limit on worker threads.                 *)
(***************************************************************************)
EXTENDS Integers, FiniteSets

CONSTANTS Requests, MaxConcurrent, MaxQueued, RenotifyOnCancel   \* see Admission

ASSUME ServingAssumption ==
  /\ IsFiniteSet(Requests)
  /\ MaxConcurrent \in Nat \ {0} /\ MaxQueued \in Nat
  /\ RenotifyOnCancel \in BOOLEAN

VARIABLES active, waiting, waiters, fut, status,   \* see Admission
          stage,     \* where a request is in its handler
          open,      \* its backend stream has begun and has not ended
          gone,      \* its client has disconnected and the server noticed
          unclosed   \* history: requests the stream of which failed to close
admission == <<active, waiting, waiters, fut, status>>
vars      == <<admission, stage, open, gone, unclosed>>

A == INSTANCE Admission

\* Stages in which a worker thread runs a backend call for the request.
Threads == {"generating", "first", "abandoning", "fetching", "closing"}
\* Stages of stream_chat_completion.
Streaming == {"sending", "fetching", "finishing", "closing"}
Stages == {"idle", "validating", "queued", "done"} \cup Threads \cup Streaming

Init ==
  /\ A!Init
  /\ stage = [r \in Requests |-> "idle"]
  /\ open = [r \in Requests |-> FALSE]
  /\ gone = [r \in Requests |-> FALSE]
  /\ unclosed = {}

Goto(r, s) == stage' = [stage EXCEPT ![r] = s]


-----------------------------------------------------------------------------
(* Before admission                                                        *)

\* The request arrives for the served model; validate_context goes to a
\* worker thread.
Arrive(r) ==
  /\ stage[r] = "idle"
  /\ Goto(r, "validating")
  /\ UNCHANGED <<admission, open, gone, unclosed>>

\* It ends before it asks for a slot: the body is not valid (400) or another
\* model was asked for (404), the prompt does not fit (400), the tokenizer
\* fails (500), or the rate limiter refuses (429).
TurnAway(r) ==
  /\ stage[r] \in {"idle", "validating"}
  /\ Goto(r, "done")
  /\ UNCHANGED <<admission, open, gone, unclosed>>

\* The first backend call of a request that has just been given a lease, which
\* depends on payload.stream.
Begin(r) == Goto(r, "first") \/ Goto(r, "generating")

\* validate_context returns and the limiter agrees; in the same step of the
\* event loop acquire() gives a slot, raises QueueFullError, or waits.
Enter(r) ==
  /\ stage[r] = "validating"
  /\ \/ A!Acquire(r) /\ Begin(r)
     \/ A!Reject(r)  /\ Goto(r, "done")
     \/ A!Enqueue(r) /\ Goto(r, "queued")
  /\ UNCHANGED <<open, gone, unclosed>>

\* acquire() runs again after a notification.
Wake(r) ==
  /\ \/ A!WakeAndTake(r) /\ Begin(r)
     \/ A!WakeAndWait(r) /\ UNCHANGED stage
  /\ UNCHANGED <<open, gone, unclosed>>

-----------------------------------------------------------------------------
(* Answering                                                               *)

\* The handler ends with an answer, its lease released on the way out.
EndReleased(r) ==
  /\ A!Release(r)
  /\ Goto(r, "done")

\* generate_chat returns a result in time (200) or late (504), or raises a
\* RuntimeError (503) or something else (500); the lease is released by the
\* finally clause before the answer leaves the handler.
GenerateReturns(r) ==
  /\ stage[r] = "generating"
  /\ EndReleased(r)
  /\ UNCHANGED <<open, gone, unclosed>>

\* The first next() of the stream returns a chunk in time: the response
\* starts, with the role event.
FirstChunk(r) ==
  /\ stage[r] = "first"
  /\ open' = [open EXCEPT ![r] = TRUE]
  /\ Goto(r, "sending")
  /\ UNCHANGED <<admission, gone, unclosed>>

\* Mutant of FirstIsUseless: the lease is released before the stream is closed.
FirstReleasedEarly(r) ==
  /\ stage[r] = "first"
  /\ \E b \in BOOLEAN : open' = [open EXCEPT ![r] = b]
  /\ A!Release(r)
  /\ Goto(r, "abandoning")
  /\ UNCHANGED <<gone, unclosed>>

\* It returns late (504), with a chunk or at the stream's end, or in time but
\* at the end (503): the stream is closed first, in a worker thread.
FirstIsUseless(r) ==
  /\ stage[r] = "first"
  /\ \E b \in BOOLEAN : open' = [open EXCEPT ![r] = b]
  /\ Goto(r, "abandoning")
  /\ UNCHANGED <<admission, gone, unclosed>>

\* Mutant of FirstRaises: only a RuntimeError releases the lease.
FirstLeaks(r) ==
  /\ stage[r] = "first"
  /\ \/ EndReleased(r)
     \/ Goto(r, "done") /\ UNCHANGED admission
  /\ UNCHANGED <<open, gone, unclosed>>

\* It raises a RuntimeError (503) or something else (500).
FirstRaises(r) ==
  /\ stage[r] = "first"
  /\ EndReleased(r)
  /\ UNCHANGED <<open, gone, unclosed>>

\* The stream given up is closed, and the error raised meets the except
\* clause that releases the lease.  If close() raises, its error does.
Abandoned(r) ==
  /\ stage[r] = "abandoning"
  /\ EndReleased(r)
  /\ open' = [open EXCEPT ![r] = FALSE]
  /\ UNCHANGED <<gone, unclosed>>

-----------------------------------------------------------------------------
(* Streaming                                                               *)

\* The client took the event: the generator asks for the next chunk.
Sent(r) ==
  /\ stage[r] = "sending"
  /\ ~gone[r]
  /\ Goto(r, "fetching")
  /\ UNCHANGED <<admission, open, gone, unclosed>>

\* next() returns a chunk, whose events are sent.
NextChunk(r) ==
  /\ stage[r] = "fetching"
  /\ Goto(r, "sending")
  /\ UNCHANGED <<admission, open, gone, unclosed>>

\* next() finds the stream at its end ([DONE] is sent), or raises, which takes
\* the generator to its finally clause; either way the backend has finished.
StreamEnds(r) ==
  /\ stage[r] = "fetching"
  /\ \E s \in {"finishing", "closing"} : Goto(r, s)
  /\ open' = [open EXCEPT ![r] = FALSE]
  /\ UNCHANGED <<admission, gone, unclosed>>

\* The client took [DONE], and the generator runs into its finally clause.
Finished(r) ==
  /\ stage[r] = "finishing"
  /\ ~gone[r]
  /\ Goto(r, "closing")
  /\ UNCHANGED <<admission, open, gone, unclosed>>

\* The client disconnects, or has disconnected earlier: the server watches for
\* it from the start of the response on.
Disconnect(r) ==
  /\ stage[r] \in Streaming
  /\ gone' = [gone EXCEPT ![r] = TRUE]
  /\ UNCHANGED <<admission, stage, open, unclosed>>

\* Mutant of Cut: the response does not close its generator.
CutUnclosed(r) ==
  /\ stage[r] \in {"sending", "finishing"}
  /\ gone[r]
  /\ Goto(r, "done")
  /\ gone' = [gone EXCEPT ![r] = FALSE]
  /\ UNCHANGED <<admission, open, unclosed>>

\* The cancellation reaches the sending task: at the generator's checkpoint,
\* or in the send, whereupon CancellableStreamingResponse closes the generator.
Cut(r) ==
  /\ stage[r] \in {"sending", "finishing"}
  /\ gone[r]
  /\ Goto(r, "closing")
  /\ UNCHANGED <<admission, open, gone, unclosed>>

\* The finally clause of stream_chat_completion: close_stream, shielded from
\* the cancellation, and then the release of the lease, which an error of
\* close() skips.
Closed(r) ==
  /\ stage[r] = "closing"
  /\ \/ A!Release(r) /\ UNCHANGED unclosed
     \/ open[r] /\ unclosed' = unclosed \cup {r} /\ UNCHANGED admission
  /\ open' = [open EXCEPT ![r] = FALSE]
  /\ gone' = [gone EXCEPT ![r] = FALSE]
  /\ Goto(r, "done")

-----------------------------------------------------------------------------
Server(r) ==
  \/ Enter(r) \/ Wake(r)
  \/ GenerateReturns(r)
  \/ FirstChunk(r) \/ FirstIsUseless(r) \/ FirstRaises(r) \/ Abandoned(r)
  \/ NextChunk(r) \/ StreamEnds(r) \/ Cut(r) \/ Closed(r)

Next == \E r \in Requests :
  Arrive(r) \/ TurnAway(r) \/ Server(r) \/ Sent(r) \/ Finished(r) \/ Disconnect(r)

Spec == Init /\ [][Next]_vars

\* The event loop runs what is ready and every backend call returns.  A stream
\* does not go on for ever: the backend stops after max_tokens chunks.
ServerFairness == \A r \in Requests :
  /\ WF_vars(Server(r))
  /\ SF_vars(StreamEnds(r))

\* Every client reads what it is sent or disconnects.
ClientFairness == \A r \in Requests : WF_vars(Sent(r) \/ Finished(r))

FairSpec == Spec /\ ServerFairness

-----------------------------------------------------------------------------
\* The requests the backend works for: a generation call runs, or a stream
\* has begun and has neither ended nor been closed.
InBackend == {r \in Requests : open[r] \/ stage[r] \in Threads}

\* Each variable has the type the code gives it.
TypeOK ==
  /\ A!TypeOK
  /\ stage \in [Requests -> Stages]
  /\ open \in [Requests -> BOOLEAN]
  /\ gone \in [Requests -> BOOLEAN]
  /\ unclosed \subseteq Requests

\* The backend never works for more than max_concurrent requests, counting
\* the streams that a timeout, an error or a disconnect has yet to close.
BackendLoadBounded == Cardinality(InBackend) <= MaxConcurrent

\* A request that is over, however it ended, has given its slot and its place
\* in the queue back and has closed its stream.
GaveBack(r) == stage[r] = "done" => status[r] \notin {"holding", "waiting"} /\ ~open[r]

\* That is so for every request (README.md:85-86 of 03-production-serving).
NothingLeftBehind == \A r \in Requests : GaveBack(r)

\* It is so for every request but those the stream of which failed to close.
OnlyFailedCloseLeaves == \A r \in Requests \ unclosed : GaveBack(r)

\* A client that disconnects while its request has a slot frees the slot,
\* whatever the other clients do, unless its stream fails to close.
DisconnectFreesSlot == \A r \in Requests :
  gone[r] /\ status[r] = "holding" ~> status[r] # "holding" \/ r \in unclosed

\* Every request that arrives ends, when every client reads or disconnects and
\* no slot was lost.
EveryRequestEnds == ClientFairness => \A r \in Requests :
  stage[r] # "idle" ~> stage[r] = "done" \/ unclosed # {}

=============================================================================
