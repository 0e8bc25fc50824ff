---------------------------- MODULE LlamaBackend ----------------------------
(***************************************************************************)
(* LlamaCppBackend of 02-local-inference/.../llama_backend.py: load(),     *)
(* generate_chat() and close() around a child process that starts, serves  *)
(* a port, hangs and exits on its own.                                     *)
(*                                                                         *)
(* Each member of Backends is the backend of one Python process with one   *)
(* thread that calls it.  All use the same port, which is the default.  An *)
(* action is the code between two calls that take time; the user may       *)
(* interrupt (Ctrl-C) the calls that take seconds.                         *)
(***************************************************************************)
EXTENDS FiniteSets

CONSTANTS Backends,
          Servers,   \* identities for llama-server processes, used again
          None

ASSUME LlamaAssumption ==
  /\ IsFiniteSet(Backends) /\ IsFiniteSet(Servers)
  /\ None \notin Servers

VARIABLES process,     \* _process
          monitored,   \* _monitored_process
          loaded,      \* _load_seconds is not None
          pc,          \* where the calling thread is
          victim,      \* the local variable of close()
          source,      \* the server generate_chat() reads a reply from
          heard,       \* what parse_stream has of it
          foreign,     \* history: backends that got a result from another's server
          state,       \* environment: what each llama-server does
          port,        \* environment: the process that holds the port
          ready,       \* history: backends with a process since the start of which
                       \* a server on the port was ready at some time
          signalled,   \* servers that were told to terminate, or killed
          killed,      \* of these, those that were killed
          abandoned    \* history: servers whose close() was interrupted
object == <<process, monitored, loaded>>
system == <<state, port, ready>>
told   == <<signalled, killed, abandoned>>
reply  == <<source, heard>>
vars   == <<object, pc, victim, reply, foreign, system, told>>

Alive(s) == state[s] # "dead"

\* Whoever holds the port answers the health endpoint with "ok".
PortIsReady == port # None /\ state[port] = "serving"

\* No object refers to the process s any more.
Unreferenced(s) == \A b \in Backends : s \notin {process[b], monitored[b], victim[b], source[b]}

Init ==
  /\ process = [b \in Backends |-> None]
  /\ monitored = [b \in Backends |-> None]
  /\ loaded = [b \in Backends |-> FALSE]
  /\ pc = [b \in Backends |-> "out"]
  /\ victim = [b \in Backends |-> None]
  /\ source = [b \in Backends |-> None]
  /\ heard = [b \in Backends |-> {}]
  /\ foreign = {}
  /\ state = [s \in Servers |-> "dead"]
  /\ port = None /\ ready = {}
  /\ signalled = {} /\ killed = {} /\ abandoned = {}

Goto(b, p) == pc' = [pc EXCEPT ![b] = p]

\* The caller of b goes from one of the places in from to the place to.
Move(b, from, to) ==
  /\ pc[b] \in from
  /\ Goto(b, to)
  /\ UNCHANGED <<object, victim, reply, foreign, system, told>>

-----------------------------------------------------------------------------
(* load                                                                    *)

\* Popen starts a new process.  (Mutant of Spawn: whether there is one is not
\* asked.)
Start(b) ==
  /\ pc[b] = "out"
  /\ \E s \in Servers :
       /\ ~Alive(s) /\ Unreferenced(s)
       /\ state' = [state EXCEPT ![s] = "starting"]
       /\ process' = [process EXCEPT ![b] = s]
       /\ signalled' = signalled \ {s} /\ killed' = killed \ {s}
       /\ abandoned' = abandoned \ {s}
  /\ ready' = IF PortIsReady THEN ready \cup {b} ELSE ready
  /\ Goto(b, "spawned")
  /\ UNCHANGED <<monitored, loaded, victim, reply, foreign, port>>

\* load() without a process starts one.  With a process, or if Popen raises,
\* load() returns or raises and changes nothing.
Spawn(b) == process[b] = None /\ Start(b)

\* psutil attaches to the process, or raises outside the try block: load()
\* ends and leaves a process without a load time.
Attach(b) ==
  /\ pc[b] = "spawned"
  /\ \/ monitored' = [monitored EXCEPT ![b] = process[b]] /\ Goto(b, "polling")
     \/ Goto(b, "out") /\ UNCHANGED monitored
  /\ UNCHANGED <<process, loaded, victim, reply, foreign, system, told>>

\* One round of _wait_until_ready: the process has exited, which raises, or
\* the health endpoint is asked.
Poll(b) == Move(b, {"polling"}, IF Alive(process[b]) THEN "checking" ELSE "failed")

\* The deadline passes between two rounds.
DeadlinePasses(b) == Move(b, {"polling"}, "failed")

\* Mutant of Check: what the answer says is not asked.
CheckAnyAnswer(b) ==
  /\ pc[b] = "checking"
  /\ IF port # None
       THEN loaded' = [loaded EXCEPT ![b] = TRUE] /\ Goto(b, "out")
       ELSE Goto(b, "polling") /\ UNCHANGED loaded
  /\ UNCHANGED <<process, monitored, victim, reply, foreign, system, told>>

\* Whoever holds the port answers: "ok" ends the wait; an answer that breaks
\* off raises an error the loop does not expect; otherwise it goes round.
Check(b) ==
  /\ pc[b] = "checking"
  /\ \/ /\ PortIsReady
        /\ loaded' = [loaded EXCEPT ![b] = TRUE] /\ Goto(b, "out")
     \/ /\ port # None
        /\ Goto(b, "failed") /\ UNCHANGED loaded
     \/ /\ ~PortIsReady
        /\ Goto(b, "polling") /\ UNCHANGED loaded
  /\ UNCHANGED <<process, monitored, victim, reply, foreign, system, told>>

\* Ctrl-C while load() waits: not an Exception, so nothing is closed.
InterruptLoad(b) == Move(b, {"polling", "checking"}, "out")

-----------------------------------------------------------------------------
(* close                                                                   *)

\* Mutant of Close: the process is not signalled, as if waiting were enough.
CloseQuietly(b) ==
  /\ pc[b] \in {"out", "failed"}
  /\ process' = [process EXCEPT ![b] = None]
  /\ monitored' = [monitored EXCEPT ![b] = None]
  /\ loaded' = [loaded EXCEPT ![b] = FALSE]
  /\ IF process[b] # None /\ Alive(process[b])
       THEN Goto(b, "terminating") /\ victim' = [victim EXCEPT ![b] = process[b]]
       ELSE Goto(b, "out") /\ UNCHANGED victim
  /\ ready' = ready \ {b}
  /\ UNCHANGED <<reply, foreign, state, port, told>>

\* close(), called by the user or by load() that failed: the object forgets
\* the process, and terminates it if it is alive.
Close(b) ==
  /\ pc[b] \in {"out", "failed"}
  /\ process' = [process EXCEPT ![b] = None]
  /\ monitored' = [monitored EXCEPT ![b] = None]
  /\ loaded' = [loaded EXCEPT ![b] = FALSE]
  /\ IF process[b] # None /\ Alive(process[b])
       THEN /\ Goto(b, "terminating")
            /\ victim' = [victim EXCEPT ![b] = process[b]]
            /\ signalled' = signalled \cup {process[b]}
       ELSE Goto(b, "out") /\ UNCHANGED <<victim, signalled>>
  /\ ready' = ready \ {b}
  /\ UNCHANGED <<reply, foreign, state, port, killed, abandoned>>

\* close() is left.
Leave(b) ==
  /\ Goto(b, "out")
  /\ victim' = [victim EXCEPT ![b] = None]
  /\ UNCHANGED <<object, reply, foreign, system, signalled, killed>>

\* wait() returns once the process has exited.
Waited(b) ==
  /\ pc[b] \in {"terminating", "killing"} /\ ~Alive(victim[b])
  /\ Leave(b) /\ UNCHANGED abandoned

\* Mutant of TerminateTimesOut: close() gives up.
TerminateGivesUp(b) ==
  /\ pc[b] = "terminating" /\ Alive(victim[b])
  /\ Leave(b) /\ UNCHANGED abandoned

\* The process has not exited in time: it is killed.
TerminateTimesOut(b) ==
  /\ pc[b] = "terminating" /\ Alive(victim[b])
  /\ killed' = killed \cup {victim[b]}
  /\ Goto(b, "killing")
  /\ UNCHANGED <<object, victim, reply, foreign, system, signalled, abandoned>>

\* It has not exited in time again, and close() raises.
KillTimesOut(b) ==
  /\ pc[b] = "killing" /\ Alive(victim[b])
  /\ Leave(b) /\ UNCHANGED abandoned

\* Ctrl-C while close() waits for a process that was told to terminate.
InterruptClose(b) ==
  /\ pc[b] = "terminating"
  /\ abandoned' = abandoned \cup {victim[b]}
  /\ Leave(b)

-----------------------------------------------------------------------------
(* generate_chat                                                           *)

\* What a result is made of: response text, usage and timings.
Parts == {"text", "usage", "timings"}

\* Generation needs a process and its monitor; the reply comes from whoever
\* holds the port.  Without one of these generate_chat() raises.
Request(b) ==
  /\ pc[b] = "out"
  /\ process[b] # None /\ monitored[b] # None
  /\ port # None
  /\ source' = [source EXCEPT ![b] = port]
  /\ Goto(b, "reading")
  /\ UNCHANGED <<object, victim, heard, foreign, system, told>>

\* parse_stream takes a part of the reply from one line.
Hear(b) ==
  /\ pc[b] = "reading" /\ state[source[b]] = "serving"
  /\ \E part \in Parts : heard' = [heard EXCEPT ![b] = @ \cup {part}]
  /\ UNCHANGED <<object, pc, victim, source, foreign, system, told>>

\* generate_chat() is left.
Answer(b) ==
  /\ Goto(b, "out")
  /\ source' = [source EXCEPT ![b] = None]
  /\ heard' = [heard EXCEPT ![b] = {}]
  /\ UNCHANGED <<object, victim, system, told>>

\* The end mark, or the end of the stream, and there is a result.
Generate(b) ==
  /\ pc[b] = "reading" /\ heard[b] = Parts
  /\ Answer(b)
  /\ foreign' = IF source[b] = process[b] THEN foreign ELSE foreign \cup {b}

\* Mutant of GenerateRaises: the request has no timeout, so that it takes the
\* end of the server, or Ctrl-C, to end it.
GenerateHangs(b) ==
  /\ pc[b] = "reading" /\ state[source[b]] # "stuck"
  /\ Answer(b)
  /\ UNCHANGED foreign

\* A part is missing at the end, a line is broken, the connection is, the
\* server is silent for too long, its process is not there to be measured; or
\* Ctrl-C.
GenerateRaises(b) ==
  /\ pc[b] = "reading"
  /\ Answer(b)
  /\ UNCHANGED foreign

-----------------------------------------------------------------------------
(* The llama-server processes                                              *)

\* The model is loaded and the port is taken, unless somebody has it.
Serve(s) ==
  /\ state[s] = "starting"
  /\ IF port = None
       THEN /\ port' = s /\ state' = [state EXCEPT ![s] = "serving"]
            /\ ready' = {b \in Backends : process[b] # None}
       ELSE state' = [state EXCEPT ![s] = "dead"] /\ UNCHANGED <<port, ready>>
  /\ UNCHANGED <<object, pc, victim, reply, foreign, told>>

\* It stops answering, and does not react to SIGTERM.
Hang(s) ==
  /\ state[s] \in {"starting", "serving"}
  /\ state' = [state EXCEPT ![s] = "stuck"]
  /\ UNCHANGED <<object, pc, victim, reply, foreign, port, ready, told>>

Exit(s) ==
  /\ Alive(s)
  /\ state' = [state EXCEPT ![s] = "dead"]
  /\ port' = IF port = s THEN None ELSE port
  /\ UNCHANGED <<object, pc, victim, reply, foreign, ready, told>>

-----------------------------------------------------------------------------
Loading(b) == Spawn(b) \/ Attach(b) \/ Poll(b) \/ Check(b) \/ DeadlinePasses(b)
Closing(b) == Close(b) \/ Waited(b) \/ TerminateTimesOut(b) \/ KillTimesOut(b)
Generating(b) == Request(b) \/ Hear(b) \/ Generate(b) \/ GenerateRaises(b)

Next ==
  \/ \E b \in Backends : \/ Loading(b) \/ Closing(b) \/ Generating(b)
                         \/ InterruptLoad(b) \/ InterruptClose(b)
  \/ \E s \in Servers : Serve(s) \/ Hang(s) \/ Exit(s)

Spec == Init /\ [][Next]_vars

\* A call that is under way goes on; the clock reaches the deadline; a killed
\* process exits.  The timeouts of urlopen hold for each read from the socket, so
\* that a call ends only because the reply is finite or stalls: a server that
\* trickles without end, in its health answer or in a reply, is not modelled.
FairSpec ==
  /\ Spec
  /\ \A b \in Backends :
       /\ WF_vars(pc[b] # "out" /\ (Loading(b) \/ Closing(b) \/ Generating(b)))
       /\ SF_vars(DeadlinePasses(b))
  /\ \A s \in Servers : WF_vars(s \in killed /\ Exit(s))

-----------------------------------------------------------------------------
\* Each variable has the type the code gives it.
TypeOK ==
  /\ process \in [Backends -> Servers \cup {None}]
  /\ monitored \in [Backends -> Servers \cup {None}]
  /\ loaded \in [Backends -> BOOLEAN]
  /\ pc \in [Backends -> {"out", "spawned", "polling", "checking", "failed",
                          "terminating", "killing", "reading"}]
  /\ victim \in [Backends -> Servers \cup {None}]
  /\ source \in [Backends -> Servers \cup {None}]
  /\ \A b \in Backends : /\ heard[b] \subseteq Parts
                         /\ (pc[b] = "reading") <=> (source[b] # None)
  /\ foreign \subseteq Backends
  /\ state \in [Servers -> {"starting", "serving", "stuck", "dead"}]
  /\ port \in Servers \cup {None} /\ ready \subseteq Backends
  /\ signalled \subseteq Servers /\ killed \subseteq signalled
  /\ abandoned \subseteq signalled

\* A server that runs is the one its backend can still close, or was told to
\* stop: no order of loads, failures and closes loses one, nor do interrupts of
\* the calls that take seconds.  (One that falls between the first line of close()
\* and terminate() would: there is no call between them, and no action here.)
NothingForgotten == \A s \in Servers :
  Alive(s) => s \in signalled \/ \E b \in Backends : process[b] = s

\* A load time is only there with the process it was measured for, with its
\* monitor, and when after the start of that process a server on the port was
\* ready: load() never answers with the time of an earlier process, nor with that
\* of a wait that a server ended which hung or had not come up.  Whose the ready
\* server was is not said: it may be that of another backend.
LoadedIsWhole == \A b \in Backends :
  loaded[b] => /\ process[b] # None /\ monitored[b] = process[b]
               /\ pc[b] \in {"out", "reading"}
               /\ b \in ready

\* load(), generate_chat() and close() return, whatever becomes of the servers:
\* they may exit, hang or be somebody else's, but what they send is finite.
CallsReturn == \A b \in Backends : pc[b] # "out" ~> pc[b] = "out"

\* A server that close() waits for ends, also when it ignores SIGTERM, unless
\* the user interrupts close().
ClosedServersEnd == \A b \in Backends, s \in Servers :
  victim[b] = s ~> ~Alive(s) \/ s \in abandoned

\* README.md:38-42 of 02-local-inference: the backend "manages one
\* long-running llama-server process" and the peak memory of a result is that
\* "of the server process during generation".  Then that process generated it.
ResultsAreOwn == foreign = {}

=============================================================================
