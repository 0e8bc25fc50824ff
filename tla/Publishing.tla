----------------------------- MODULE Publishing -----------------------------
(***************************************************************************)
(* The benchmark files of 02-local-inference: run_benchmark() measures,    *)
(* write_jsonl() publishes the records, read_jsonl() and                   *)
(* summarize_benchmark() take them back and write_markdown() publishes the *)
(* report.                                                                 *)
(*                                                                         *)
(* Writers are runs of mlx-benchmark with one experiment id, Reporters are *)
(* runs of mlx-benchmark-report on its file: they compete for the path of  *)
(* the data and for the path of the report.  A process may be killed and   *)
(* the power may fail at any moment.                                       *)
(***************************************************************************)
EXTENDS Integers, FiniteSets, SequencesExt, FiniteSetsExt

CONSTANTS Writers, Reporters, None,
          NumPrompts, MeasuredRuns,
          Tokens,           \* the token counts a generation may have
          MaxPowerLosses    \* bounds the environment

ASSUME PublishingAssumption ==
  /\ IsFiniteSet(Writers) /\ IsFiniteSet(Reporters)
  /\ Writers \cap Reporters = {} /\ None \notin Writers \cup Reporters
  /\ NumPrompts \in Nat \ {0} /\ MeasuredRuns \in Nat \ {0}
  /\ MaxPowerLosses \in Nat

Processes == Writers \cup Reporters
Paths     == {"data", "report"}
Target(p) == IF p \in Writers THEN "data" ELSE "report"

VARIABLES pc,        \* where each process is
          payload,   \* the lines it wants to write
          outcome,   \* what it tells its user: the path, or the call that raised
          file,      \* the lines in the file it made
          synced,    \* the processes whose file is on the disk
          temp,      \* the processes whose temporary name exists
          path,      \* the maker of the file each path is linked to
          losses     \* power losses so far
vars == <<pc, payload, outcome, file, synced, temp, path, losses>>

Init ==
  /\ pc = [p \in Processes |-> "idle"]
  /\ payload = [p \in Processes |-> <<>>]
  /\ outcome = [p \in Processes |-> "none"]
  /\ file = [p \in Processes |-> <<>>]
  /\ synced = {} /\ temp = {}
  /\ path = [t \in Paths |-> None]
  /\ losses = 0

-----------------------------------------------------------------------------
(* Records and their summary                                               *)

\* The k-th record of a run.  "experiment" stands for the metadata and the
\* load time of the run, "prompt" for the whole definition of the prompt.
Record(w, k, t) == [experiment |-> w,
                    prompt |-> ((k - 1) \div MeasuredRuns) + 1,
                    run_index |-> ((k - 1) % MeasuredRuns) + 1,
                    tokens |-> t]

Size == NumPrompts * MeasuredRuns

Of(records, q) == SelectSeq(records, LAMBDA r : r.prompt = q)
PromptsOf(records) == {r.prompt : r \in ToSet(records)}

\* summarize_benchmark raises no error.
Summarizable(records) ==
  /\ records # <<>>
  /\ \A r \in ToSet(records) : r.experiment = Head(records).experiment
  /\ \A q \in PromptsOf(records) :
       /\ Len(Of(records, q)) = MeasuredRuns
       /\ Cardinality({r.tokens : r \in ToSet(Of(records, q))}) = 1

\* Its result: the rows of the report.
Summary(records) ==
  [experiment |-> Head(records).experiment,
   rows |-> [q \in PromptsOf(records) |->
              [run_count |-> Len(Of(records, q)), tokens |-> Head(Of(records, q)).tokens]]]

-----------------------------------------------------------------------------
(* What is to be written                                                   *)

Goto(p, l) == pc' = [pc EXCEPT ![p] = l]

\* What a process has in memory ends with it.
Drop(p) == payload' = [payload EXCEPT ![p] = <<>>]

\* So does what it has written, unless the file is linked: nobody looks into a
\* file under a temporary name.
DropFile(p) ==
  IF path[Target(p)] = p
    THEN UNCHANGED <<file, synced>>
    ELSE file' = [file EXCEPT ![p] = <<>>] /\ synced' = synced \ {p}

\* An exception leaves p where it is: what p tells its user, unless another one
\* takes its place.
Fails(p) == outcome' = [outcome EXCEPT ![p] = pc[p]]

Disk == <<file, synced, temp, path, losses>>

\* run_benchmark: a generation gives one record; or something raises, and the
\* run ends with nothing written.
Measure(w) ==
  /\ pc[w] \in {"idle", "measuring"}
  /\ \/ /\ \E t \in Tokens :
             payload' = [payload EXCEPT ![w] = Append(@, Record(w, Len(@) + 1, t))]
        /\ Goto(w, IF Len(payload'[w]) = Size THEN "ready" ELSE "measuring")
        /\ UNCHANGED outcome
     \/ Goto(w, "done") /\ Fails(w) /\ Drop(w)
  /\ UNCHANGED Disk

\* generate_report up to the rendered text: there is no file, or it is not a
\* benchmark that can be summarised, or there is a report to write.
Summarize(r) ==
  /\ pc[r] = "idle"
  /\ LET w == path["data"] IN
       IF w # None /\ Summarizable(file[w])
         THEN /\ payload' = [payload EXCEPT ![r] = <<Summary(file[w])>>]
              /\ Goto(r, "ready") /\ UNCHANGED outcome
         ELSE Goto(r, "done") /\ Fails(r) /\ UNCHANGED payload
  /\ UNCHANGED Disk

-----------------------------------------------------------------------------
(* write_jsonl and write_markdown                                          *)

\* NamedTemporaryFile makes a file with a name of its own, or raises; Ctrl-C may
\* also come before that name is known to the finally block.
Create(p) ==
  /\ pc[p] = "ready"
  /\ \/ temp' = temp \cup {p} /\ Goto(p, "writing") /\ UNCHANGED <<payload, outcome>>
     \/ temp' \in {temp, temp \cup {p}} /\ Goto(p, "done") /\ Fails(p) /\ Drop(p)
  /\ UNCHANGED <<file, synced, path, losses>>

\* Mutant of Write: the first record is written again and again.
WriteFirst(p) ==
  /\ pc[p] = "writing"
  /\ file' = [file EXCEPT ![p] = Append(@, payload[p][1])]
  /\ Goto(p, IF Len(file'[p]) = Len(payload[p]) THEN "flushing" ELSE "writing")
  /\ UNCHANGED <<payload, outcome, synced, temp, path, losses>>

\* The next record, or the report.
Write(p) ==
  /\ pc[p] = "writing"
  /\ file' = [file EXCEPT ![p] = Append(@, payload[p][Len(@) + 1])]
  /\ Goto(p, IF Len(file'[p]) = Len(payload[p]) THEN "flushing" ELSE "writing")
  /\ UNCHANGED <<payload, outcome, synced, temp, path, losses>>

\* Mutant of Sync: fsync() is left out.
SyncNothing(p) ==
  /\ pc[p] = "flushing"
  /\ Goto(p, "linking")
  /\ UNCHANGED <<payload, outcome, Disk>>

\* flush() and fsync().
Sync(p) ==
  /\ pc[p] = "flushing"
  /\ synced' = synced \cup {p}
  /\ Goto(p, "linking")
  /\ UNCHANGED <<payload, outcome, file, temp, path, losses>>

\* Mutant of Link: the temporary file is renamed to the path.
LinkReplaces(p) ==
  /\ pc[p] = "linking"
  /\ path' = [path EXCEPT ![Target(p)] = p]
  /\ Goto(p, "unlinking")
  /\ UNCHANGED <<payload, outcome, file, synced, temp, losses>>

\* link() makes the path a name of the file, and raises if there is one; Ctrl-C
\* may come when the link is made.
Link(p) ==
  /\ pc[p] = "linking"
  /\ IF path[Target(p)] = None
       THEN /\ path' = [path EXCEPT ![Target(p)] = p]
            /\ UNCHANGED outcome \/ Fails(p)
       ELSE Fails(p) /\ UNCHANGED path
  /\ Goto(p, "unlinking")
  /\ UNCHANGED <<payload, file, synced, temp, losses>>

\* Mutant of Raises: the temporary file is only removed after a link.
RaisesAtOnce(p) ==
  /\ pc[p] \in {"writing", "flushing", "linking"}
  /\ Goto(p, "done") /\ Fails(p) /\ Drop(p)
  /\ UNCHANGED Disk

\* A call that writes, flushes or links raises with nothing done (a full disk,
\* Ctrl-C), and the finally block follows.
Raises(p) ==
  /\ pc[p] \in {"writing", "flushing", "linking"}
  /\ Goto(p, "unlinking") /\ Fails(p)
  /\ UNCHANGED <<payload, Disk>>

\* Mutant of Unlink: the path is told whatever was raised before.
UnlinkTells(p) ==
  /\ pc[p] = "unlinking"
  /\ temp' = temp \ {p} /\ outcome' = [outcome EXCEPT ![p] = "published"]
  /\ Goto(p, "done") /\ Drop(p) /\ DropFile(p)
  /\ UNCHANGED <<path, losses>>

\* The finally block and what follows it: the temporary name goes, and the path
\* is told unless something has raised.  unlink() itself may raise, and Ctrl-C
\* may come before or after it: then the user is told of an error, even if the
\* file is published, and the temporary name may stay.
Unlink(p) ==
  /\ pc[p] = "unlinking"
  /\ \/ /\ temp' = temp \ {p}
        /\ outcome' = [outcome EXCEPT ![p] = IF @ = "none" THEN "published" ELSE @]
     \/ temp' \in {temp, temp \ {p}} /\ Fails(p)
  /\ Goto(p, "done") /\ Drop(p) /\ DropFile(p)
  /\ UNCHANGED <<path, losses>>

-----------------------------------------------------------------------------
(* The environment                                                         *)

AtWork(p) == pc[p] \notin {"idle", "done", "dead"}

\* A process is killed.
Kill(p) ==
  /\ AtWork(p)
  /\ Goto(p, "dead") /\ Drop(p) /\ DropFile(p)
  /\ UNCHANGED <<outcome, temp, path, losses>>

\* The power fails: the processes end, a link that its directory has not
\* synced may be gone, and a file that is still linked keeps what was synced
\* and any first part of the rest.  Temporary files, which nobody looks for,
\* are dropped.
PowerLoss ==
  /\ losses < MaxPowerLosses
  /\ losses' = losses + 1
  /\ pc' = [p \in Processes |-> IF AtWork(p) THEN "dead" ELSE pc[p]]
  /\ payload' = [p \in Processes |-> <<>>]
  /\ temp' = {}
  /\ \E gone \in SUBSET {t \in Paths : path[t] # None} :
       path' = [t \in Paths |-> IF t \in gone THEN None ELSE path[t]]
  /\ \E kept \in 0..Size :
       file' = [p \in Processes |->
                 IF path'[Target(p)] # p THEN <<>>
                 ELSE IF p \in synced THEN file[p]
                 ELSE SubSeq(file[p], 1, Min({kept, Len(file[p])}))]
  /\ synced' = {p \in synced : path'[Target(p)] = p}
  /\ UNCHANGED outcome

Publish(p) == Create(p) \/ Write(p) \/ Sync(p) \/ Link(p) \/ Unlink(p)

Next ==
  \/ \E w \in Writers : Measure(w)
  \/ \E r \in Reporters : Summarize(r)
  \/ \E p \in Processes : Publish(p) \/ Raises(p) \/ Kill(p)
  \/ PowerLoss

Spec == Init /\ [][Next]_vars

-----------------------------------------------------------------------------
Places == {"idle", "measuring", "ready", "writing", "flushing", "linking",
           "unlinking", "done", "dead"}

\* Each variable has the type the code gives it, and a file is a first part of
\* what its writer has in memory.
TypeOK ==
  /\ pc \in [Processes -> Places]
  /\ outcome \in [Processes -> {"none", "published"} \cup (Places \ {"done", "dead"})]
  /\ \A p \in Processes : AtWork(p) => IsPrefix(file[p], payload[p])
  /\ synced \subseteq Processes /\ temp \subseteq Processes
  /\ path \in [Paths -> Processes \cup {None}]
  /\ \A t \in Paths : path[t] # None => Target(path[t]) = t
  /\ losses \in 0..MaxPowerLosses

\* What can be read under a path is a whole file, at any moment and also after
\* a power loss: all the records of one run in their order, or a report whose
\* rows each stand for all the runs of a prompt.
VisibleIsComplete ==
  /\ LET w == path["data"] IN w # None =>
       /\ Len(file[w]) = Size
       /\ \A k \in 1..Size : \E t \in Tokens : file[w][k] = Record(w, k, t)
  /\ LET r == path["report"] IN r # None =>
       /\ Len(file[r]) = 1
       /\ DOMAIN file[r][1].rows = 1..NumPrompts
       /\ \A q \in 1..NumPrompts : file[r][1].rows[q].run_count = MeasuredRuns

\* A process that tells its user a path has its own file under it: of those
\* that compete one wins, and nobody replaces its file later.
PublishedIsOwn == losses = 0 =>
  \A p \in Processes : outcome[p] = "published" => path[Target(p)] = p

\* Each power loss lets at most one more process of a path be told that it
\* published: while the power holds, of those that compete at most one is.
OneWinnerPerLoss == \A t \in Paths :
  Cardinality({p \in Processes : Target(p) = t /\ outcome[p] = "published"}) <= losses + 1

\* As long as the power holds, a report tells of the file that lies beside it,
\* and of no other.  (A power loss may take the data and leave the report, and
\* another run may then publish other data.)
ReportTellsTheFile == losses = 0 /\ path["report"] # None =>
  /\ path["data"] # None
  /\ file[path["report"]] = <<Summary(file[path["data"]])>>

\* A process that ends by itself takes its temporary file with it, whichever of
\* write, flush, fsync and link has raised and also when it lost the race for
\* the path.  What it leaves behind is a file whose creation or removal was
\* itself the last call to raise.
ErrorsLeaveNoLitter == \A p \in temp :
  AtWork(p) \/ pc[p] = "dead" \/ outcome[p] \in {"ready", "unlinking"}

-----------------------------------------------------------------------------
(* What publishing promises                                                *)

\* Of the lines shown under the paths: all the records of one's own run in
\* their order, or the report of the data.
Complete(p, lines) ==
  IF p \in Writers
    THEN /\ Len(lines["data"]) = Size
         /\ \A k \in 1..Size : \E t \in Tokens : lines["data"][k] = Record(p, k, t)
    ELSE /\ Summarizable(lines["data"])
         /\ lines["report"] = <<Summary(lines["data"])>>

Visible == [t \in Paths |-> IF path[t] = None THEN <<>> ELSE file[path[t]]]

\* Readers see files that appear whole and that nobody changes later: links and
\* writes of competing processes, calls that raise and kills included, and a
\* power loss takes a file or leaves it.  Nobody is told that it published but
\* the process whose file is then under the path.  (The converse does not hold:
\* a process that published may be told of an error, or be killed untold.)
Abstract == INSTANCE WriteOnce WITH
  maker <- path, shown <- Visible,
  told <- {p \in Processes : outcome[p] = "published"}
ImplementsWriteOnce == Abstract!Spec

=============================================================================
