------------------------- MODULE LlamaBackendProofs -------------------------
(***************************************************************************)
(* What holds of LlamaCppBackend for every number of Python processes and  *)
(* of llama-server processes on one port.                                  *)
(***************************************************************************)
EXTENDS LlamaBackend, TLAPS

\* What the calls under way may rely on: load() has a process from Popen on
\* and its monitor while it waits, close() waits for a server it signalled.
Calls == \A b \in Backends :
  /\ pc[b] \in {"spawned", "polling", "checking"} => process[b] # None
  /\ pc[b] \in {"polling", "checking"} => monitored[b] = process[b]
  /\ pc[b] \in {"terminating", "killing"} => victim[b] \in signalled

\* Every backend with a process knows of a server that is ready now.
ReadyIsKnown == PortIsReady => \A b \in Backends : process[b] # None => b \in ready

IInv == TypeOK /\ Calls /\ NothingForgotten /\ LoadedIsWhole /\ ReadyIsKnown

LEMMA InitHolds == Init => IInv
BY LlamaAssumption DEF Init, IInv, TypeOK, Calls, NothingForgotten, LoadedIsWhole,
                      ReadyIsKnown, PortIsReady, Alive, Parts

USE LlamaAssumption

-----------------------------------------------------------------------------
(* load                                                                    *)

\* A call that only moves on: the places it comes from and goes to are such
\* that the invariant asks nothing new.
LEMMA MoveKeeps ==
  ASSUME NEW b \in Backends, IInv, NEW from, NEW to,
         Move(b, from, to),
         \/ from \subseteq {"polling", "checking"} /\ to \in {"failed", "out"}
         \/ from = {"polling"} /\ to = "checking"
  PROVE  IInv'
<1>. USE DEF IInv, Move, Goto, object, system, told, reply
<1>1. TypeOK'
  BY DEF TypeOK, Calls
<1>2. Calls'
  BY DEF TypeOK, Calls
<1>3. NothingForgotten'
  BY DEF NothingForgotten, Alive
<1>4. LoadedIsWhole'
  BY DEF TypeOK, LoadedIsWhole
<1>5. ReadyIsKnown'
  BY DEF ReadyIsKnown, PortIsReady
<1>. QED BY <1>1, <1>2, <1>3, <1>4, <1>5

\* The new server has an identity nothing refers to, and its backend had none.
LEMMA SpawnKeeps ==
  ASSUME NEW b \in Backends, IInv, Spawn(b)
  PROVE  IInv'
<1>. USE DEF IInv, Goto, reply
<1>1. PICK s \in Servers :
        /\ ~Alive(s) /\ Unreferenced(s)
        /\ state' = [state EXCEPT ![s] = "starting"]
        /\ process' = [process EXCEPT ![b] = s]
        /\ signalled' = signalled \ {s} /\ killed' = killed \ {s}
        /\ abandoned' = abandoned \ {s}
        /\ ready' = IF PortIsReady THEN ready \cup {b} ELSE ready
  BY DEF Spawn, Start
<1>2. /\ process[b] = None /\ pc[b] = "out" /\ pc' = [pc EXCEPT ![b] = "spawned"]
      /\ UNCHANGED <<monitored, loaded, victim, source, heard, foreign, port>>
  BY DEF Spawn, Start
<1>3. TypeOK'
  BY <1>1, <1>2 DEF TypeOK
<1>4. Calls'
  BY <1>1, <1>2 DEF TypeOK, Calls, Unreferenced
<1>5. NothingForgotten'
  BY <1>1, <1>2 DEF TypeOK, NothingForgotten, Alive
<1>6. LoadedIsWhole'
  BY <1>1, <1>2 DEF TypeOK, LoadedIsWhole
<1>7. ReadyIsKnown'
  BY <1>1, <1>2 DEF TypeOK, ReadyIsKnown, PortIsReady, Alive
<1>. QED BY <1>3, <1>4, <1>5, <1>6, <1>7

LEMMA LoadingKeeps ==
  ASSUME NEW b \in Backends, IInv, Loading(b) \/ InterruptLoad(b)
  PROVE  IInv'
<1>1. CASE Spawn(b)
  BY <1>1, SpawnKeeps
<1>2. CASE Attach(b)
  <2>. USE <1>2 DEF IInv, Attach, Goto, system, told, reply
  <2>1. TypeOK'
    BY DEF TypeOK
  <2>2. Calls'
    BY DEF TypeOK, Calls
  <2>3. NothingForgotten'
    BY DEF NothingForgotten, Alive
  <2>4. LoadedIsWhole'
    BY DEF TypeOK, LoadedIsWhole
  <2>5. ReadyIsKnown'
    BY DEF ReadyIsKnown, PortIsReady
  <2>. QED BY <2>1, <2>2, <2>3, <2>4, <2>5
<1>3. CASE Poll(b)
  BY <1>3, MoveKeeps DEF Poll
<1>4. CASE Check(b)
  <2>. USE <1>4 DEF IInv, Check, Goto, system, told, reply
  <2>1. TypeOK'
    BY DEF TypeOK
  <2>2. Calls'
    BY DEF TypeOK, Calls
  <2>3. NothingForgotten'
    BY DEF NothingForgotten, Alive
  <2>4. LoadedIsWhole'
    BY DEF TypeOK, LoadedIsWhole, Calls, ReadyIsKnown
  <2>5. ReadyIsKnown'
    BY DEF ReadyIsKnown, PortIsReady
  <2>. QED BY <2>1, <2>2, <2>3, <2>4, <2>5
<1>5. CASE DeadlinePasses(b)
  BY <1>5, MoveKeeps DEF DeadlinePasses
<1>6. CASE InterruptLoad(b)
  BY <1>6, MoveKeeps DEF InterruptLoad
<1>. QED BY <1>1, <1>2, <1>3, <1>4, <1>5, <1>6 DEF Loading

-----------------------------------------------------------------------------
(* close                                                                   *)

\* The server the object forgets is dead or signalled.
LEMMA CloseKeeps ==
  ASSUME NEW b \in Backends, IInv, Close(b)
  PROVE  IInv'
<1>. USE DEF IInv, Close, Goto, system, reply
<1>1. TypeOK'
  BY DEF TypeOK
<1>2. Calls'
  BY DEF TypeOK, Calls
<1>3. NothingForgotten'
  BY DEF TypeOK, NothingForgotten, Alive
<1>4. LoadedIsWhole'
  BY DEF TypeOK, LoadedIsWhole
<1>5. ReadyIsKnown'
  BY DEF TypeOK, ReadyIsKnown, PortIsReady
<1>. QED BY <1>1, <1>2, <1>3, <1>4, <1>5

LEMMA LeaveKeeps ==
  ASSUME NEW b \in Backends, IInv, pc[b] \in {"terminating", "killing"}, Leave(b),
         abandoned' \in {abandoned, abandoned \cup {victim[b]}}
  PROVE  IInv'
<1>. USE DEF IInv, Leave, Goto, object, system, reply
<1>1. TypeOK'
  BY DEF TypeOK, Calls
<1>2. Calls'
  BY DEF TypeOK, Calls
<1>3. NothingForgotten'
  BY DEF NothingForgotten, Alive
<1>4. LoadedIsWhole'
  BY DEF TypeOK, LoadedIsWhole
<1>5. ReadyIsKnown'
  BY DEF ReadyIsKnown, PortIsReady
<1>. QED BY <1>1, <1>2, <1>3, <1>4, <1>5

LEMMA ClosingKeeps ==
  ASSUME NEW b \in Backends, IInv, Closing(b) \/ InterruptClose(b)
  PROVE  IInv'
<1>1. CASE Close(b)
  BY <1>1, CloseKeeps
<1>2. CASE Waited(b)
  BY <1>2, LeaveKeeps DEF Waited
<1>3. CASE TerminateTimesOut(b)
  <2>. USE <1>3 DEF IInv, TerminateTimesOut, Goto, object, system, reply
  <2>1. TypeOK'
    BY DEF TypeOK, Calls
  <2>2. Calls'
    BY DEF TypeOK, Calls
  <2>3. NothingForgotten'
    BY DEF NothingForgotten, Alive
  <2>4. LoadedIsWhole'
    BY DEF TypeOK, LoadedIsWhole
  <2>5. ReadyIsKnown'
    BY DEF ReadyIsKnown, PortIsReady
  <2>. QED BY <2>1, <2>2, <2>3, <2>4, <2>5
<1>4. CASE KillTimesOut(b)
  BY <1>4, LeaveKeeps DEF KillTimesOut
<1>5. CASE InterruptClose(b)
  BY <1>5, LeaveKeeps DEF InterruptClose
<1>. QED BY <1>1, <1>2, <1>3, <1>4, <1>5 DEF Closing

-----------------------------------------------------------------------------
(* generate_chat                                                           *)

\* Generation moves between "out" and "reading" and leaves the object alone.
LEMMA GeneratingKeeps ==
  ASSUME NEW b \in Backends, IInv, Generating(b)
  PROVE  IInv'
<1>. USE DEF IInv, Request, Hear, Generate, GenerateRaises, Answer, Goto, object,
             system, told
<1>1. /\ UNCHANGED <<object, victim, system, told>>
      /\ \/ pc' = pc
         \/ pc[b] = "out" /\ pc' = [pc EXCEPT ![b] = "reading"]
         \/ pc[b] = "reading" /\ pc' = [pc EXCEPT ![b] = "out"]
  BY DEF Generating
<1>2. TypeOK'
  <2>1. CASE Request(b)
    BY <2>1 DEF TypeOK
  <2>2. CASE Hear(b)
    BY <2>2 DEF TypeOK
  <2>3. CASE Generate(b)
    BY <2>3 DEF TypeOK
  <2>4. CASE GenerateRaises(b)
    BY <2>4 DEF TypeOK
  <2>. QED BY <2>1, <2>2, <2>3, <2>4 DEF Generating
<1>3. Calls'
  BY <1>1 DEF TypeOK, Calls
<1>4. NothingForgotten'
  BY <1>1 DEF NothingForgotten, Alive
<1>5. LoadedIsWhole'
  BY <1>1 DEF TypeOK, LoadedIsWhole
<1>6. ReadyIsKnown'
  BY <1>1 DEF ReadyIsKnown, PortIsReady
<1>. QED BY <1>2, <1>3, <1>4, <1>5, <1>6

-----------------------------------------------------------------------------
(* The llama-server processes                                              *)

LEMMA ServerKeeps ==
  ASSUME NEW s \in Servers, IInv, Serve(s) \/ Hang(s) \/ Exit(s)
  PROVE  IInv'
<1>. USE DEF IInv, Serve, Hang, Exit, Alive, object, told, reply
<1>1. TypeOK'
  BY DEF TypeOK
<1>2. Calls'
  BY DEF Calls
<1>3. NothingForgotten'
  BY DEF TypeOK, NothingForgotten
<1>4. LoadedIsWhole'
  BY DEF LoadedIsWhole
<1>5. ReadyIsKnown'
  BY DEF TypeOK, ReadyIsKnown, PortIsReady
<1>. QED BY <1>1, <1>2, <1>3, <1>4, <1>5

-----------------------------------------------------------------------------
(* The theorems                                                            *)

LEMMA StepKeeps == IInv /\ [Next]_vars => IInv'
<1>. SUFFICES ASSUME IInv, [Next]_vars PROVE IInv'
  OBVIOUS
<1>1. CASE UNCHANGED vars
  BY <1>1 DEF vars, object, system, told, reply, IInv, TypeOK, Calls, NothingForgotten,
              LoadedIsWhole, ReadyIsKnown, PortIsReady, Alive
<1>2. CASE Next
  BY <1>2, LoadingKeeps, ClosingKeeps, GeneratingKeeps, ServerKeeps DEF Next
<1>. QED BY <1>1, <1>2

LEMMA Inductive == Spec => []IInv
BY InitHolds, StepKeeps, PTL DEF Spec

\* The types hold for every number of backends and servers.
THEOREM TypeCorrect == Spec => []TypeOK
<1>1. IInv => TypeOK
  BY DEF IInv
<1>. QED BY <1>1, Inductive, PTL

\* No order of loads, failures, closes, hangs and exits of any number of backends,
\* and of interrupts of the calls that take seconds, leaves a server that runs,
\* is nobody's to close and was never told to stop (llama_backend.py, load and
\* close).
THEOREM NoServerIsForgotten == Spec => []NothingForgotten
<1>1. IInv => NothingForgotten
  BY DEF IInv
<1>. QED BY <1>1, Inductive, PTL

\* load() answers with a load time only for the process it started and attached
\* to, and only when a server on the port was ready at some time since that start
\* (llama_backend.py:139-142 and 170-198).  It may be another backend's server.
THEOREM LoadTimeIsTrue == Spec => []LoadedIsWhole
<1>1. IInv => LoadedIsWhole
  BY DEF IInv
<1>. QED BY <1>1, Inductive, PTL

=============================================================================
