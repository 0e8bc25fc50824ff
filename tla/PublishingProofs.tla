-------------------------- MODULE PublishingProofs --------------------------
(***************************************************************************)
(* What holds of the benchmark files for every number of competing runs,   *)
(* prompts, measured runs, token counts and power losses.                  *)
(***************************************************************************)
EXTENDS Publishing, TLAPS, SequenceTheorems, FiniteSetTheorems

\* What a file may have in its lines.
Entries == {Record(w, k, t) : w \in Writers, k \in 1..Size, t \in Tokens}
Lines   == Entries \cup {Summary(f) : f \in Seq(Entries)}

\* The first lines of a run, all of them, and a report of a whole run.
Records(w, s) ==
  /\ s \in Seq(Entries) /\ Len(s) <= Size
  /\ \A k \in 1..Len(s) : \E t \in Tokens : s[k] = Record(w, k, t)
Whole(w, s) == Records(w, s) /\ Len(s) = Size
Tells(s) ==
  /\ Len(s) = 1
  /\ DOMAIN s[1].rows = 1..NumPrompts
  /\ \A q \in 1..NumPrompts : s[1].rows[q].run_count = MeasuredRuns
Good(p, s) == IF p \in Writers THEN Whole(p, s) ELSE Tells(s)

\* s has the first lines of t.
Begins(s, t) == Len(s) <= Len(t) /\ \A i \in 1..Len(s) : s[i] = t[i]

USE PublishingAssumption

-----------------------------------------------------------------------------
(* Records and reports                                                     *)

LEMMA SizeType == Size \in Nat \ {0}
BY Z3 DEF Size

LEMMA PrefixOfBegins ==
  ASSUME NEW S, NEW s \in Seq(S), NEW t \in Seq(S), Begins(s, t)
  PROVE  IsPrefix(s, t)
<1>1. SubSeq(s, 1, Len(s)) = SubSeq(t, 1, Len(s))
  BY DEF Begins
<1>. QED BY <1>1 DEF Begins, IsPrefix

LEMMA OneLine ==
  ASSUME NEW S, NEW s \in Seq(S), NEW x \in S, Len(s) = 1, s[1] = x
  PROVE  s = <<x>>
OBVIOUS

\* The prompts of a whole run are numbered from the first to the last: the
\* place of a record gives the prompt, and each prompt has its first place.
LEMMA PromptOfPlace ==
  ASSUME NEW k \in 1..Size
  PROVE  ((k - 1) \div MeasuredRuns) + 1 \in 1..NumPrompts
<1>1. PICK d \in Int : d = (k - 1) \div MeasuredRuns
  OBVIOUS
<1>2. PICK m \in Int : m = (k - 1) % MeasuredRuns
  OBVIOUS
<1>3. k - 1 = MeasuredRuns * d + m /\ 0 <= m /\ m < MeasuredRuns
  BY <1>1, <1>2, Z3
<1>4. 0 <= k - 1 /\ k - 1 < NumPrompts * MeasuredRuns
  BY DEF Size
<1>5. 0 <= d /\ d < NumPrompts
  BY <1>3, <1>4, Z3
<1>. QED BY <1>1, <1>5

LEMMA PlaceOfPrompt ==
  ASSUME NEW q \in 1..NumPrompts
  PROVE  \E k \in 1..Size : ((k - 1) \div MeasuredRuns) + 1 = q
<1>1. PICK k \in Int : k = (q - 1) * MeasuredRuns + 1
  OBVIOUS
<1>2. k \in 1..Size
  BY <1>1, Z3 DEF Size
<1>3. (k - 1) \div MeasuredRuns = q - 1
  BY <1>1, Z3
<1>. QED BY <1>2, <1>3

LEMMA PromptsOfWhole ==
  ASSUME NEW w \in Writers, NEW s, Whole(w, s)
  PROVE  PromptsOf(s) = 1..NumPrompts
<1>0. DOMAIN s = 1..Size
  BY LenProperties DEF Whole, Records
<1>1. \A k \in 1..Size : s[k].prompt = ((k - 1) \div MeasuredRuns) + 1
  BY DEF Whole, Records, Record
<1>2. PromptsOf(s) = {s[k].prompt : k \in 1..Size}
  BY <1>0 DEF PromptsOf, ToSet
<1>. QED BY <1>1, <1>2, PromptOfPlace, PlaceOfPrompt

LEMMA SummaryTells ==
  ASSUME NEW w \in Writers, NEW s, Whole(w, s), Summarizable(s)
  PROVE  Tells(<<Summary(s)>>) /\ Summary(s) \in Lines
<1>1. PromptsOf(s) = 1..NumPrompts
  BY PromptsOfWhole
<1>2. \A q \in 1..NumPrompts : Len(Of(s, q)) = MeasuredRuns
  BY <1>1 DEF Summarizable
<1>3. /\ DOMAIN Summary(s).rows = 1..NumPrompts
      /\ \A q \in 1..NumPrompts : Summary(s).rows[q].run_count = Len(Of(s, q))
  BY <1>1 DEF Summary
<1>4. Summary(s) \in Lines
  BY DEF Lines, Whole, Records
<1>. QED BY <1>2, <1>3, <1>4 DEF Tells

-----------------------------------------------------------------------------
(* The invariant                                                           *)

Outcomes == {"none", "published"} \cup (Places \ {"done", "dead"})

Typed ==
  /\ pc \in [Processes -> Places]
  /\ outcome \in [Processes -> Outcomes]
  /\ payload \in [Processes -> Seq(Lines)] /\ file \in [Processes -> Seq(Lines)]
  /\ synced \subseteq Processes /\ temp \subseteq Processes
  /\ path \in [Paths -> Processes \cup {None}]
  /\ losses \in 0..MaxPowerLosses

Linked(p) == path[Target(p)] = p

\* What a process has in memory, and what of it is in its file.
Memory(p) ==
  /\ pc[p] = "idle" => payload[p] = <<>>
  /\ pc[p] = "measuring" =>
       p \in Writers /\ Records(p, payload[p]) /\ Len(payload[p]) < Size
  /\ pc[p] \in {"ready", "writing", "flushing", "linking", "unlinking"} => Good(p, payload[p])
InFile(p) ==
  /\ pc[p] \in {"idle", "measuring", "ready"} => file[p] = <<>>
  /\ pc[p] \in {"writing", "flushing", "linking", "unlinking"} => Begins(file[p], payload[p])
  /\ pc[p] = "writing" => Len(file[p]) < Len(payload[p])
  /\ pc[p] \in {"flushing", "linking"} => Len(file[p]) = Len(payload[p])
  /\ pc[p] = "linking" => p \in synced

\* A linked file is whole, on the disk, and not written any more.
Shown(p) == Linked(p) =>
  /\ pc[p] \in {"unlinking", "done", "dead"}
  /\ p \in synced /\ Good(p, file[p])

\* Where unlink() follows and nothing has raised, the file is linked.  While the
\* power holds, who tells that it published is linked, and a report is of the
\* file that is linked.  Until it is linked, a report is of the file linked now,
\* whatever happened to the power: a reporter does not outlive a power loss.
Told(p) ==
  /\ outcome[p] = "published" => pc[p] = "done"
  /\ pc[p] = "unlinking" /\ outcome[p] = "none" => Linked(p)
  /\ losses = 0 /\ outcome[p] = "published" => Linked(p)
Reports(p) == p \in Reporters =>
  /\ pc[p] \in {"ready", "writing", "flushing", "linking"} =>
       /\ path["data"] # None /\ Summarizable(file[path["data"]])
       /\ payload[p] = <<Summary(file[path["data"]])>>
  /\ losses = 0 /\ Linked(p) =>
       path["data"] # None /\ file[p] = <<Summary(file[path["data"]])>>

Names(p) == p \in temp =>
  \/ pc[p] \in {"writing", "flushing", "linking", "unlinking", "dead"}
  \/ pc[p] = "done" /\ outcome[p] \in {"ready", "unlinking"}

Ours == \A t \in Paths : path[t] # None => Target(path[t]) = t

IInv ==
  /\ Typed /\ Ours
  /\ \A p \in Processes : /\ Memory(p) /\ InFile(p) /\ Shown(p)
                          /\ Told(p) /\ Reports(p) /\ Names(p)

LEMMA InitHolds == Init => IInv
<1>. SUFFICES ASSUME Init PROVE IInv
  OBVIOUS
<1>1. Typed
  BY EmptySeq DEF Init, Typed, Places, Outcomes
<1>. QED BY <1>1 DEF Init, IInv, Ours, Memory, InFile, Shown, Told, Reports, Names, Linked,
                     Target, Paths, Processes

\* What the invariant is for.
LEMMA InvariantGives ==
  IInv => /\ TypeOK /\ VisibleIsComplete /\ PublishedIsOwn /\ ReportTellsTheFile
          /\ ErrorsLeaveNoLitter
<1>. SUFFICES ASSUME IInv
              PROVE  /\ TypeOK /\ VisibleIsComplete /\ PublishedIsOwn /\ ReportTellsTheFile
                     /\ ErrorsLeaveNoLitter
  OBVIOUS
<1>. USE DEF IInv
<1>1. TypeOK
  <2>1. ASSUME NEW p \in Processes, AtWork(p)
        PROVE  IsPrefix(file[p], payload[p])
    <3>1. Begins(file[p], payload[p])
      <4>1. CASE pc[p] \in {"writing", "flushing", "linking", "unlinking"}
        BY <4>1 DEF InFile
      <4>2. CASE pc[p] \in {"measuring", "ready"}
        BY <4>2 DEF InFile, Begins, Typed
      <4>. QED BY <2>1, <4>1, <4>2 DEF AtWork, Typed, Places
    <3>. QED BY <3>1, PrefixOfBegins DEF Typed
  <2>. QED BY <2>1 DEF Typed, Outcomes, TypeOK, Ours
<1>2. VisibleIsComplete
  <2>1. ASSUME path["data"] # None
        PROVE  Whole(path["data"], file[path["data"]])
    BY <2>1 DEF Typed, Ours, Paths, Target, Processes, Shown, Linked, Good
  <2>2. ASSUME path["report"] # None
        PROVE  Tells(file[path["report"]])
    BY <2>2 DEF Typed, Ours, Paths, Target, Processes, Shown, Linked, Good
  <2>. QED BY <2>1, <2>2 DEF VisibleIsComplete, Whole, Records, Tells
<1>3. PublishedIsOwn
  BY DEF PublishedIsOwn, Told, Linked
<1>4. ReportTellsTheFile
  BY DEF ReportTellsTheFile, Reports, Linked, Typed, Ours, Paths, Target, Processes
<1>5. ErrorsLeaveNoLitter
  BY DEF ErrorsLeaveNoLitter, Names, AtWork, Typed
<1>. QED BY <1>1, <1>2, <1>3, <1>4, <1>5

-----------------------------------------------------------------------------
(* The steps of one process                                                *)

Holds(p) == Memory(p) /\ InFile(p) /\ Shown(p) /\ Told(p) /\ Reports(p) /\ Names(p)

\* p has moved, and has at most linked its path: of others nothing changed, and
\* no linked file did.
Apart(p) ==
  /\ \A q \in Processes \ {p} :
       /\ pc'[q] = pc[q] /\ payload'[q] = payload[q] /\ outcome'[q] = outcome[q]
       /\ file'[q] = file[q]
       /\ (q \in temp' <=> q \in temp) /\ (q \in synced' <=> q \in synced)
  /\ losses' = losses
  /\ \/ path' = path
     \/ path[Target(p)] = None /\ path' = [path EXCEPT ![Target(p)] = p]
  /\ Linked(p) => file'[p] = file[p]

LEMMA OthersKeep ==
  ASSUME IInv, NEW p \in Processes, Apart(p), Typed', Holds(p)'
  PROVE  IInv'
<1>. USE DEF IInv
<1>1. Ours'
  BY DEF Apart, Ours, Typed, Target, Paths, Processes
<1>2. ASSUME NEW q \in Processes \ {p}
      PROVE  Holds(q)'
  <2>1. Memory(q)' /\ InFile(q)' /\ Names(q)'
    BY DEF Memory, InFile, Names, Apart
  <2>2. Linked(q)' <=> Linked(q)
    <3>1. q # None /\ q # p /\ Target(q) \in Paths /\ Target(p) \in Paths
      BY DEF Processes, Target, Paths
    <3>. QED BY <3>1 DEF Apart, Linked, Typed
  <2>3. Shown(q)' /\ Told(q)'
    BY <2>2 DEF Shown, Told, Apart
  <2>4. ASSUME path["data"] # None
        PROVE  path'["data"] = path["data"] /\ file'[path["data"]] = file[path["data"]]
    <3>1. path'["data"] = path["data"]
      BY <2>4 DEF Apart, Typed, Target, Paths
    <3>2. path["data"] = p => Linked(p)
      BY <2>4 DEF Ours, Linked, Paths
    <3>3. path["data"] \in Processes
      BY <2>4 DEF Typed, Paths
    <3>. QED BY <3>1, <3>2, <3>3 DEF Apart
  <2>5. Reports(q)'
    BY <2>2, <2>4 DEF Reports, Apart
  <2>. QED BY <2>1, <2>3, <2>5 DEF Holds
<1>. QED BY <1>1, <1>2 DEF Holds

\* Before the link the data a report is of stays where it is.
LEMMA DataStays ==
  ASSUME IInv, NEW p \in Processes, Apart(p), path["data"] # None
  PROVE  path'["data"] = path["data"] /\ file'[path["data"]] = file[path["data"]]
<1>1. path'["data"] = path["data"] /\ path["data"] \in Processes
  BY DEF IInv, Apart, Typed, Target, Paths
<1>2. path["data"] = p => Linked(p)
  BY DEF IInv, Ours, Linked, Paths
<1>. QED BY <1>1, <1>2 DEF Apart

\* A process that ends drops what it has in memory, and its file unless linked;
\* it tells that it published only when linked, and leaves a temporary name only
\* when killed or when unlink() has raised.
LEMMA EndKeeps ==
  ASSUME IInv, NEW p \in Processes, NEW l \in {"done", "dead"},
         pc[p] \notin {"idle", "done", "dead"},
         Goto(p, l), Drop(p), DropFile(p), path' = path, losses' = losses,
         outcome' \in [Processes -> Outcomes],
         \A q \in Processes \ {p} : outcome'[q] = outcome[q],
         outcome'[p] = "published" => l = "done" /\ Linked(p),
         temp' \subseteq Processes, p \in temp' => l = "dead" \/ outcome'[p] = "unlinking",
         \A q \in Processes \ {p} : q \in temp' <=> q \in temp
  PROVE  IInv'
<1>. USE DEF IInv, Goto, Drop, DropFile
<1>1. Typed'
  <2>0. <<>> \in Seq(Lines)
    BY EmptySeq
  <2>1. payload' \in [Processes -> Seq(Lines)] /\ file' \in [Processes -> Seq(Lines)]
    <3>1. payload' = [payload EXCEPT ![p] = <<>>]
      OBVIOUS
    <3>2. file' = file \/ file' = [file EXCEPT ![p] = <<>>]
      OBVIOUS
    <3>. QED BY <2>0, <3>1, <3>2 DEF Typed
  <2>2. pc' \in [Processes -> Places]
    BY DEF Typed, Places
  <2>. QED BY <2>1, <2>2 DEF Typed
<1>2. Apart(p)
  BY DEF Apart, Typed, Linked
<1>3. Linked(p)' <=> Linked(p)
  BY DEF Linked
<1>4. Memory(p)' /\ InFile(p)' /\ Names(p)'
  BY DEF Memory, InFile, Names, Typed
<1>5. Shown(p)'
  BY <1>3 DEF Shown, Typed, Linked
<1>6. Told(p)'
  BY <1>3 DEF Told, Typed
<1>7. Reports(p)'
  BY <1>2, <1>3, DataStays DEF Reports, Typed, Linked
<1>. QED BY <1>1, <1>2, <1>4, <1>5, <1>6, <1>7, OthersKeep DEF Holds

LEMMA MeasureKeeps ==
  ASSUME IInv, NEW w \in Writers, Measure(w)
  PROVE  IInv'
<1>. USE DEF IInv, Goto, Drop, Fails, Disk
<1>0. /\ w \in Processes /\ pc[w] \in {"idle", "measuring"} /\ ~Linked(w)
      /\ UNCHANGED <<file, synced, temp, path, losses>>
  BY DEF Measure, Processes, Shown
<1>1. CASE \E t \in Tokens : payload' = [payload EXCEPT ![w] = Append(@, Record(w, Len(@) + 1, t))]
  <2>. PICK t \in Tokens : payload' = [payload EXCEPT ![w] = Append(@, Record(w, Len(@) + 1, t))]
    BY <1>1
  <2>0. Records(w, payload[w]) /\ Len(payload[w]) \in 0..Size - 1
    <3>1. CASE pc[w] = "idle"
      <4>1. payload[w] = <<>>
        BY <1>0, <3>1 DEF Memory
      <4>. QED BY <4>1, SizeType, EmptySeq DEF Records
    <3>2. CASE pc[w] = "measuring"
      <4>1. Records(w, payload[w]) /\ Len(payload[w]) < Size
        BY <1>0, <3>2 DEF Memory
      <4>. QED BY <4>1, SizeType, LenProperties DEF Records
    <3>. QED BY <1>0, <3>1, <3>2
  <2>. PICK n \in 1..Size : n = Len(payload[w]) + 1
    BY <2>0, SizeType
  <2>1. /\ payload[w] \in Seq(Entries)
        /\ \A k \in 1..Len(payload[w]) : \E u \in Tokens : payload[w][k] = Record(w, k, u)
    BY <2>0 DEF Records
  <2>2. Record(w, n, t) \in Entries
    BY DEF Entries
  <2>3. payload'[w] = Append(payload[w], Record(w, n, t))
    BY <1>0 DEF Typed
  <2>4. Records(w, payload'[w]) /\ Len(payload'[w]) = n
    BY <2>1, <2>2, <2>3, AppendProperties DEF Records
  <2>5. pc' = [pc EXCEPT ![w] = IF n = Size THEN "ready" ELSE "measuring"] /\ outcome' = outcome
    <3>1. CASE Goto(w, "done") /\ Fails(w) /\ Drop(w)
      <4>1. payload'[w] = <<>>
        BY <3>1, <1>0 DEF Typed
      <4>. QED BY <4>1, <2>4, <2>1, EmptySeq
    <3>. QED BY <2>4, <3>1 DEF Measure
  <2>6. Typed'
    <3>1. Append(payload[w], Record(w, n, t)) \in Seq(Lines)
      BY <1>0, <2>2, AppendProperties DEF Typed, Lines
    <3>2. payload' \in [Processes -> Seq(Lines)]
      BY <1>0, <2>3, <3>1 DEF Typed
    <3>. QED BY <1>0, <2>5, <3>2 DEF Typed, Places
  <2>7. Apart(w)
    BY <1>0, <2>5 DEF Apart, Typed
  <2>8. Memory(w)'
    <3>1. CASE n = Size
      <4>1. pc'[w] = "ready" /\ Whole(w, payload'[w])
        BY <1>0, <2>4, <2>5, <3>1 DEF Typed, Whole
      <4>. QED BY <4>1 DEF Memory, Good
    <3>2. CASE n # Size
      <4>1. pc'[w] = "measuring" /\ Len(payload'[w]) < Size
        BY <1>0, <2>4, <2>5, <3>2, SizeType DEF Typed
      <4>. QED BY <4>1, <2>4 DEF Memory
    <3>. QED BY <3>1, <3>2
  <2>9. InFile(w)' /\ Names(w)' /\ Shown(w)' /\ Told(w)' /\ Reports(w)'
    BY <1>0, <2>5 DEF InFile, Names, Shown, Told, Reports, Linked, Typed
  <2>. QED BY <1>0, <2>6, <2>7, <2>8, <2>9, OthersKeep DEF Holds
<1>2. CASE Goto(w, "done") /\ Fails(w) /\ Drop(w)
  <2>1. Typed'
    BY <1>0, <1>2, EmptySeq DEF Typed, Places, Outcomes
  <2>2. Apart(w)
    BY <1>0, <1>2 DEF Apart, Typed
  <2>3. Holds(w)'
    BY <1>0, <1>2 DEF Holds, Memory, InFile, Names, Shown, Told, Reports, Linked, Typed
  <2>. QED BY <1>0, <2>1, <2>2, <2>3, OthersKeep
<1>. QED BY <1>1, <1>2 DEF Measure

LEMMA SummarizeKeeps ==
  ASSUME IInv, NEW r \in Reporters, Summarize(r)
  PROVE  IInv'
<1>. USE DEF IInv, Goto, Fails, Disk
<1>0. /\ r \in Processes /\ r \notin Writers /\ pc[r] = "idle" /\ ~Linked(r)
      /\ UNCHANGED <<file, synced, temp, path, losses>>
  BY DEF Summarize, Processes, Shown
<1>1. CASE path["data"] # None /\ Summarizable(file[path["data"]])
  <2>. DEFINE w == path["data"]
  <2>1. w \in Writers /\ Whole(w, file[w])
    BY <1>1 DEF Typed, Ours, Paths, Target, Processes, Shown, Linked, Good
  <2>2. Tells(<<Summary(file[w])>>) /\ Summary(file[w]) \in Lines
    BY <1>1, <2>1, SummaryTells
  <2>3. /\ payload' = [payload EXCEPT ![r] = <<Summary(file[w])>>]
        /\ pc' = [pc EXCEPT ![r] = "ready"] /\ outcome' = outcome
    BY <1>1 DEF Summarize
  <2>4. Typed'
    <3>1. <<Summary(file[w])>> \in Seq(Lines)
      BY <2>2
    <3>. QED BY <1>0, <2>3, <3>1 DEF Typed, Places
  <2>5. Apart(r)
    BY <1>0, <2>3 DEF Apart, Typed
  <2>6. Memory(r)' /\ Reports(r)'
    BY <1>0, <1>1, <2>2, <2>3 DEF Memory, Reports, Good, Typed, Linked
  <2>7. InFile(r)' /\ Names(r)' /\ Shown(r)' /\ Told(r)'
    BY <1>0, <2>3 DEF InFile, Names, Shown, Told, Linked, Typed
  <2>. QED BY <1>0, <2>4, <2>5, <2>6, <2>7, OthersKeep DEF Holds
<1>2. CASE ~(path["data"] # None /\ Summarizable(file[path["data"]]))
  <2>1. /\ pc' = [pc EXCEPT ![r] = "done"] /\ outcome' = [outcome EXCEPT ![r] = "idle"]
        /\ payload' = payload
    BY <1>0, <1>2 DEF Summarize
  <2>2. Typed' /\ Apart(r)
    BY <1>0, <2>1 DEF Typed, Places, Outcomes, Apart
  <2>3. Holds(r)'
    BY <1>0, <2>1 DEF Holds, Memory, InFile, Names, Shown, Told, Reports, Linked, Typed
  <2>. QED BY <1>0, <2>2, <2>3, OthersKeep
<1>. QED BY <1>1, <1>2

\* A process that writes its file has not linked it.
LEMMA Unlinked ==
  ASSUME IInv, NEW p \in Processes, pc[p] \in {"ready", "writing", "flushing", "linking"}
  PROVE  ~Linked(p)
BY DEF IInv, Shown

LEMMA CreateKeeps ==
  ASSUME IInv, NEW p \in Processes, Create(p)
  PROVE  IInv'
<1>. USE DEF IInv, Goto, Drop, Fails
<1>0. pc[p] = "ready" /\ ~Linked(p) /\ UNCHANGED <<file, synced, path, losses>>
  BY Unlinked DEF Create
<1>1. CASE temp' = temp \cup {p} /\ Goto(p, "writing") /\ UNCHANGED <<payload, outcome>>
  <2>1. Typed' /\ Apart(p)
    BY <1>0, <1>1 DEF Typed, Places, Apart
  <2>2. Good(p, payload[p]) /\ file[p] = <<>>
    BY <1>0 DEF Memory, InFile
  <2>3. Len(payload[p]) \in Nat \ {0}
    BY <2>2, SizeType DEF Good, Whole, Tells
  <2>4. InFile(p)'
    BY <1>0, <1>1, <2>2, <2>3 DEF InFile, Begins, Typed
  <2>5. Memory(p)' /\ Names(p)' /\ Shown(p)' /\ Told(p)' /\ Reports(p)'
    BY <1>0, <1>1 DEF Memory, Names, Shown, Told, Reports, Linked, Typed
  <2>. QED BY <2>1, <2>4, <2>5, OthersKeep DEF Holds
<1>2. CASE temp' \in {temp, temp \cup {p}} /\ Goto(p, "done") /\ Fails(p) /\ Drop(p)
  <2>1. Apart(p)
    BY <1>0, <1>2 DEF Apart, Typed
  <2>2. Typed'
    <3>1. payload' \in [Processes -> Seq(Lines)]
      BY <1>2, EmptySeq DEF Typed
    <3>. QED BY <1>0, <1>2, <3>1 DEF Typed, Places, Outcomes
  <2>3. Holds(p)'
    BY <1>0, <1>2 DEF Holds, Memory, InFile, Names, Shown, Told, Reports, Linked, Typed
  <2>. QED BY <2>1, <2>2, <2>3, OthersKeep
<1>. QED BY <1>1, <1>2 DEF Create

LEMMA WriteKeeps ==
  ASSUME IInv, NEW p \in Processes, Write(p)
  PROVE  IInv'
<1>. USE DEF IInv, Goto
<1>0. /\ pc[p] = "writing" /\ ~Linked(p)
      /\ UNCHANGED <<payload, outcome, synced, temp, path, losses>>
  BY Unlinked DEF Write
<1>1. /\ payload[p] \in Seq(Lines) /\ file[p] \in Seq(Lines)
      /\ Begins(file[p], payload[p]) /\ Len(file[p]) < Len(payload[p])
  BY <1>0 DEF Typed, InFile
<1>2. PICK n \in 1..Len(payload[p]) : n = Len(file[p]) + 1
  BY <1>1
<1>3. file' = [file EXCEPT ![p] = Append(file[p], payload[p][n])]
  BY <1>2 DEF Write
<1>4. file'[p] = Append(file[p], payload[p][n]) /\ payload[p][n] \in Lines
  BY <1>1, <1>3 DEF Typed
<1>5. /\ file'[p] \in Seq(Lines) /\ Len(file'[p]) = n /\ file'[p][n] = payload[p][n]
      /\ \A i \in 1..Len(file[p]) : file'[p][i] = file[p][i]
  BY <1>1, <1>2, <1>4, AppendProperties
<1>6. Begins(file'[p], payload[p])
  <2>1. ASSUME NEW i \in 1..n
        PROVE  file'[p][i] = payload[p][i]
    <3>1. CASE i = n
      BY <1>5, <3>1
    <3>2. CASE i # n
      <4>1. i \in 1..Len(file[p])
        BY <1>1, <1>2, <3>2
      <4>. QED BY <1>1, <1>5, <4>1 DEF Begins
    <3>. QED BY <3>1, <3>2
  <2>. QED BY <1>1, <1>2, <1>5, <2>1 DEF Begins
<1>7. pc' = [pc EXCEPT ![p] = IF n = Len(payload[p]) THEN "flushing" ELSE "writing"]
  BY <1>5 DEF Write
<1>8. Typed' /\ Apart(p)
  BY <1>0, <1>3, <1>5, <1>7 DEF Typed, Places, Apart
<1>9. InFile(p)'
  BY <1>0, <1>1, <1>5, <1>6, <1>7 DEF InFile, Typed
<1>10. Memory(p)' /\ Names(p)' /\ Shown(p)' /\ Told(p)'
  BY <1>0, <1>7 DEF Memory, Names, Shown, Told, Linked, Typed
<1>11. Reports(p)'
  BY <1>0, <1>7, <1>8, DataStays DEF Reports, Linked, Typed
<1>. QED BY <1>8, <1>9, <1>10, <1>11, OthersKeep DEF Holds

LEMMA SyncKeeps ==
  ASSUME IInv, NEW p \in Processes, Sync(p)
  PROVE  IInv'
<1>. USE DEF IInv, Goto
<1>0. /\ pc[p] = "flushing" /\ ~Linked(p) /\ synced' = synced \cup {p}
      /\ pc' = [pc EXCEPT ![p] = "linking"]
      /\ UNCHANGED <<payload, outcome, file, temp, path, losses>>
  BY Unlinked DEF Sync
<1>1. Typed' /\ Apart(p)
  BY <1>0 DEF Typed, Places, Apart
<1>2. Holds(p)'
  BY <1>0 DEF Holds, Memory, InFile, Names, Shown, Told, Reports, Linked, Typed
<1>. QED BY <1>1, <1>2, OthersKeep

LEMMA LinkKeeps ==
  ASSUME IInv, NEW p \in Processes, Link(p)
  PROVE  IInv'
<1>. USE DEF IInv, Goto, Fails
<1>0. /\ pc[p] = "linking" /\ ~Linked(p) /\ pc' = [pc EXCEPT ![p] = "unlinking"]
      /\ outcome' = outcome \/ outcome' = [outcome EXCEPT ![p] = "linking"]
      /\ UNCHANGED <<payload, file, synced, temp, losses>>
  BY Unlinked DEF Link
<1>1. /\ payload[p] \in Seq(Lines) /\ file[p] \in Seq(Lines) /\ Good(p, payload[p])
      /\ Begins(file[p], payload[p]) /\ Len(file[p]) = Len(payload[p]) /\ p \in synced
  BY <1>0 DEF Typed, Memory, InFile
<1>2. file[p] = payload[p]
  BY <1>1, SeqEqual DEF Begins
<1>3. CASE path[Target(p)] = None
  <2>1. path' = [path EXCEPT ![Target(p)] = p]
    BY <1>3 DEF Link
  <2>2. Target(p) \in Paths
    BY DEF Target, Paths
  <2>3. Typed' /\ Apart(p) /\ Linked(p)'
    BY <1>0, <1>3, <2>1, <2>2 DEF Typed, Places, Outcomes, Apart, Linked
  <2>4. Memory(p)' /\ InFile(p)' /\ Names(p)' /\ Told(p)' /\ Shown(p)'
    BY <1>0, <1>1, <1>2, <2>1, <2>3 DEF Memory, InFile, Names, Told, Shown, Typed
  <2>5. Reports(p)'
    BY <1>0, <1>2, <2>3, DataStays DEF Reports, Typed
  <2>. QED BY <2>3, <2>4, <2>5, OthersKeep DEF Holds
<1>4. CASE path[Target(p)] # None
  <2>1. path' = path /\ outcome' = [outcome EXCEPT ![p] = "linking"]
    BY <1>0, <1>4 DEF Link
  <2>2. Typed' /\ Apart(p)
    BY <1>0, <2>1 DEF Typed, Places, Outcomes, Apart
  <2>3. Holds(p)'
    BY <1>0, <2>1 DEF Holds, Memory, InFile, Names, Told, Shown, Reports, Linked, Typed
  <2>. QED BY <2>2, <2>3, OthersKeep
<1>. QED BY <1>3, <1>4

LEMMA RaisesKeeps ==
  ASSUME IInv, NEW p \in Processes, Raises(p)
  PROVE  IInv'
<1>. USE DEF IInv, Goto, Fails, Disk
<1>0. /\ pc[p] \in {"writing", "flushing", "linking"} /\ ~Linked(p)
      /\ pc' = [pc EXCEPT ![p] = "unlinking"] /\ outcome' = [outcome EXCEPT ![p] = pc[p]]
      /\ UNCHANGED <<payload, file, synced, temp, path, losses>>
  BY Unlinked DEF Raises
<1>1. Typed' /\ Apart(p)
  BY <1>0 DEF Typed, Places, Outcomes, Apart
<1>2. Holds(p)'
  BY <1>0 DEF Holds, Memory, InFile, Names, Told, Shown, Reports, Linked, Typed
<1>. QED BY <1>1, <1>2, OthersKeep

\* A file that is still linked was synced before it was linked.
LEMMA PowerLossKeeps ==
  ASSUME IInv, PowerLoss
  PROVE  IInv'
<1>. USE DEF IInv
<1>0. /\ losses \in 0..MaxPowerLosses /\ losses' = losses + 1 /\ losses' \in 0..MaxPowerLosses
      /\ temp' = {} /\ outcome' = outcome
      /\ pc' = [p \in Processes |-> IF AtWork(p) THEN "dead" ELSE pc[p]]
      /\ payload' = [p \in Processes |-> <<>>]
      /\ synced' = {p \in synced : path'[Target(p)] = p}
  BY DEF PowerLoss, Typed
<1>1. PICK gone \in SUBSET {t \in Paths : path[t] # None} :
        path' = [t \in Paths |-> IF t \in gone THEN None ELSE path[t]]
  BY DEF PowerLoss
<1>2. \A p \in Processes : Target(p) \in Paths /\ p # None
  BY DEF Target, Paths, Processes
<1>3. \A p \in Processes : Linked(p)' => Linked(p)
  BY <1>1, <1>2 DEF Linked
<1>4. PICK kept \in 0..Size :
        file' = [p \in Processes |->
                  IF path'[Target(p)] # p THEN <<>>
                  ELSE IF p \in synced THEN file[p]
                  ELSE SubSeq(file[p], 1, Min({kept, Len(file[p])}))]
  BY DEF PowerLoss
<1>5. \A p \in Processes : file'[p] = IF Linked(p)' THEN file[p] ELSE <<>>
  BY <1>3, <1>4 DEF Linked, Shown
<1>6. Typed'
  <2>1. <<>> \in Seq(Lines)
    BY EmptySeq
  <2>2. payload' \in [Processes -> Seq(Lines)] /\ file' \in [Processes -> Seq(Lines)]
    <3>1. file' = [p \in Processes |-> file'[p]]
      BY <1>4
    <3>. QED BY <1>0, <1>5, <2>1, <3>1 DEF Typed
  <2>3. path' \in [Paths -> Processes \cup {None}]
    BY <1>1 DEF Typed
  <2>4. pc' \in [Processes -> Places]
    BY <1>0 DEF Typed, Places
  <2>. QED BY <1>0, <2>2, <2>3, <2>4 DEF Typed
<1>7. Ours'
  BY <1>1 DEF Ours, Typed
<1>8. ASSUME NEW p \in Processes
      PROVE  Holds(p)'
  <2>1. pc'[p] \in {"idle", "done", "dead"} /\ payload'[p] = <<>> /\ losses' # 0
    BY <1>0 DEF AtWork
  <2>2. Memory(p)' /\ Names(p)' /\ Reports(p)'
    BY <1>0, <2>1 DEF Memory, Names, Reports
  <2>3. Shown(p)'
    <3>1. SUFFICES ASSUME Linked(p)'
                   PROVE  pc'[p] \in {"done", "dead"} /\ p \in synced' /\ Good(p, file'[p])
      BY DEF Shown, Good
    <3>2. Linked(p)
      BY <1>3, <3>1
    <3>3. pc[p] \in {"unlinking", "done", "dead"} /\ p \in synced /\ Good(p, file[p])
      BY <3>2 DEF Shown
    <3>. QED BY <1>0, <1>5, <3>1, <3>3 DEF AtWork, Linked
  <2>4. InFile(p)'
    <3>1. pc'[p] = "idle" => ~Linked(p)'
      BY <1>0, <1>3 DEF AtWork, Shown
    <3>. QED BY <1>5, <2>1, <3>1 DEF InFile
  <2>5. Told(p)'
    BY <1>0, <2>1 DEF Told, AtWork
  <2>. QED BY <2>2, <2>3, <2>4, <2>5 DEF Holds
<1>. QED BY <1>6, <1>7, <1>8 DEF Holds

LEMMA StepKeeps == IInv /\ [Next]_vars => IInv'
<1>. SUFFICES ASSUME IInv, [Next]_vars PROVE IInv'
  OBVIOUS
<1>1. CASE UNCHANGED vars
  BY <1>1 DEF vars, IInv, Typed, Ours, Memory, InFile, Shown, Told, Reports, Names, Linked
<1>2. ASSUME NEW p \in Processes, Unlink(p)
      PROVE  IInv'
  <2>1. "done" \in {"done", "dead"}
    OBVIOUS
  <2>2. /\ pc[p] = "unlinking" /\ Goto(p, "done") /\ Drop(p) /\ DropFile(p)
        /\ path' = path /\ losses' = losses /\ temp' \in {temp, temp \ {p}}
    BY <1>2 DEF Unlink
  <2>3. /\ temp' \subseteq Processes
        /\ \A q \in Processes \ {p} : q \in temp' <=> q \in temp
    BY <2>2 DEF IInv, Typed
  <2>4. /\ outcome' \in [Processes -> Outcomes]
        /\ \A q \in Processes \ {p} : outcome'[q] = outcome[q]
    BY <1>2, <2>2 DEF Unlink, Fails, IInv, Typed, Outcomes, Places
  <2>5. /\ p \in temp' => outcome'[p] = "unlinking"
        /\ outcome'[p] = "published" => Linked(p)
    BY <1>2, <2>2 DEF Unlink, Fails, IInv, Typed, Told
  <2>6. pc[p] \notin {"idle", "done", "dead"}
    BY <2>2
  <2>. QED BY <2>1, <2>2, <2>3, <2>4, <2>5, <2>6, EndKeeps
<1>3. ASSUME NEW p \in Processes, Kill(p)
      PROVE  IInv'
  <2>1. "dead" \in {"done", "dead"}
    OBVIOUS
  <2>2. /\ pc[p] \notin {"idle", "done", "dead"} /\ Goto(p, "dead") /\ Drop(p) /\ DropFile(p)
        /\ path' = path /\ losses' = losses /\ outcome' = outcome /\ temp' = temp
        /\ temp \subseteq Processes /\ outcome \in [Processes -> Outcomes]
        /\ outcome[p] # "published"
    BY <1>3 DEF Kill, AtWork, IInv, Typed, Told
  <2>. QED BY <2>1, <2>2, EndKeeps
<1>. QED BY <1>1, <1>2, <1>3, MeasureKeeps, SummarizeKeeps, CreateKeeps, WriteKeeps, SyncKeeps,
            LinkKeeps, RaisesKeeps, PowerLossKeeps DEF Next, Publish

LEMMA Inductive == Spec => []IInv
BY InitHolds, StepKeeps, PTL DEF Spec

-----------------------------------------------------------------------------
(* The benchmark files are written once                                    *)

Seen == <<path, Visible, {p \in Processes : outcome[p] = "published"}, losses>>

\* Who is linked is a process, under its own path.
LEMMA LinkedAt ==
  ASSUME IInv, NEW t \in Paths, path[t] # None
  PROVE  path[t] \in Processes /\ Target(path[t]) = t /\ Linked(path[t])
BY DEF IInv, Typed, Ours, Linked

\* What readers see changes only where a link does, a linked file, or what a
\* process tells its user.
LEMMA NothingSeen ==
  ASSUME IInv, path' = path, losses' = losses,
         \A p \in Processes : Linked(p) => file'[p] = file[p],
         \A p \in Processes : outcome'[p] = "published" <=> outcome[p] = "published"
  PROVE  UNCHANGED Seen
<1>1. \A t \in Paths : path[t] # None => file'[path[t]] = file[path[t]]
  BY LinkedAt
<1>2. Visible' = Visible
  BY <1>1 DEF Visible
<1>. QED BY <1>2 DEF Seen

LEMMA LinkIsSeen ==
  ASSUME IInv, NEW p \in Processes, Link(p), path[Target(p)] = None
  PROVE  Abstract!Publish(p)
<1>. USE DEF IInv
<1>0. /\ pc[p] = "linking" /\ p # None /\ Target(p) \in Paths
      /\ path' = [path EXCEPT ![Target(p)] = p]
      /\ outcome' = outcome \/ outcome' = [outcome EXCEPT ![p] = "linking"]
      /\ file' = file /\ losses' = losses
  BY DEF Link, Fails, Processes, Target, Paths
<1>1. /\ payload[p] \in Seq(Lines) /\ file[p] \in Seq(Lines) /\ Good(p, payload[p])
      /\ Begins(file[p], payload[p]) /\ Len(file[p]) = Len(payload[p])
  BY <1>0 DEF Typed, Memory, InFile
<1>2. file[p] = payload[p]
  BY <1>1, SeqEqual DEF Begins
<1>3. Visible' = [Visible EXCEPT ![Target(p)] = file[p]]
  BY <1>0 DEF Visible, Typed
<1>4. Visible'[Target(p)] = file[p]
  BY <1>0, <1>3 DEF Visible
<1>5. Complete(p, Visible')
  <2>1. CASE p \in Writers
    <3>1. Visible'["data"] = payload[p] /\ Whole(p, payload[p])
      BY <1>1, <1>2, <1>4, <2>1 DEF Target, Good
    <3>. QED BY <2>1, <3>1 DEF Complete, Whole, Records
  <2>2. CASE p \notin Writers
    <3>1. /\ path["data"] # None /\ Summarizable(file[path["data"]])
          /\ payload[p] = <<Summary(file[path["data"]])>>
      BY <1>0, <2>2 DEF Reports, Processes
    <3>2. Visible'["data"] = file[path["data"]] /\ Visible'["report"] = payload[p]
      BY <1>2, <1>3, <2>2, <3>1 DEF Visible, Paths, Target
    <3>. QED BY <2>2, <3>1, <3>2 DEF Complete
  <2>. QED BY <2>1, <2>2
<1>6. /\ outcome[p] # "published"
      /\ \A q \in Processes : outcome'[q] = "published" <=> outcome[q] = "published"
  BY <1>0 DEF Told, Typed
<1>. QED BY <1>0, <1>3, <1>4, <1>5, <1>6 DEF Abstract!Publish, Typed

\* The path is told by the process whose file is under it: nobody else is in the
\* finally block without an exception.
LEMMA UnlinkIsSeen ==
  ASSUME IInv, NEW p \in Processes, Unlink(p)
  PROVE  Abstract!Tell(p) \/ UNCHANGED Seen
<1>. USE DEF IInv
<1>1. /\ pc[p] = "unlinking" /\ path' = path /\ losses' = losses
      /\ \A q \in Processes : Linked(q) => file'[q] = file[q]
  BY DEF Unlink, DropFile, Linked, Typed
<1>2. CASE outcome[p] = "none" /\ outcome' = [outcome EXCEPT ![p] = "published"]
  <2>1. Linked(p)
    BY <1>1, <1>2 DEF Told
  <2>2. \A q \in Processes : outcome'[q] = "published" <=> q = p \/ outcome[q] = "published"
    BY <1>2 DEF Typed
  <2>3. Visible' = Visible
    BY <1>1, LinkedAt DEF Visible
  <2>. QED BY <1>1, <1>2, <2>1, <2>2, <2>3 DEF Abstract!Tell, Linked
<1>3. CASE ~(outcome[p] = "none" /\ outcome' = [outcome EXCEPT ![p] = "published"])
  <2>1. \/ outcome[p] # "none" /\ outcome' = outcome
        \/ outcome' = [outcome EXCEPT ![p] = "unlinking"]
    BY <1>1, <1>3 DEF Unlink, Fails, Typed
  <2>2. \A q \in Processes : outcome'[q] = "published" <=> outcome[q] = "published"
    BY <1>1, <2>1 DEF Typed, Told
  <2>. QED BY <1>1, <2>2, NothingSeen
<1>. QED BY <1>2, <1>3

LEMMA PowerLossIsSeen ==
  ASSUME IInv, PowerLoss
  PROVE  Abstract!PowerLoss
<1>. USE DEF IInv
<1>1. PICK gone \in SUBSET {t \in Paths : path[t] # None} :
        path' = [t \in Paths |-> IF t \in gone THEN None ELSE path[t]]
  BY DEF PowerLoss
<1>2. \A p \in Processes : Linked(p)' => Linked(p) /\ file'[p] = file[p]
  <2>1. ASSUME NEW p \in Processes, Linked(p)'
        PROVE  Linked(p)
    BY <1>1, <2>1 DEF Linked, Processes, Target, Paths
  <2>2. ASSUME NEW p \in Processes, Linked(p)'
        PROVE  file'[p] = file[p]
    BY <2>1, <2>2 DEF PowerLoss, Linked, Shown
  <2>. QED BY <2>1, <2>2
<1>3. \A t \in Paths : path'[t] # None => file'[path'[t]] = file[path[t]]
  BY <1>1, <1>2, LinkedAt DEF Linked
<1>4. Visible' = [t \in Paths |-> IF t \in gone THEN <<>> ELSE Visible[t]]
  BY <1>1, <1>3 DEF Visible
<1>. QED BY <1>1, <1>4 DEF Abstract!PowerLoss, PowerLoss

\* Every step publishes a file, tells its maker, is a power loss, or shows a
\* reader and a user nothing.
LEMMA StepIsSeen ==
  ASSUME IInv, [Next]_vars
  PROVE  [Abstract!Next]_(Abstract!vars)
<1>. USE DEF IInv, Goto, Fails, Disk
<1>1. ASSUME UNCHANGED vars PROVE UNCHANGED Seen
  BY <1>1 DEF vars, Seen, Visible
<1>2. ASSUME NEW w \in Writers, Measure(w) PROVE UNCHANGED Seen
  BY <1>2, NothingSeen DEF Measure, Processes, Typed, Told
<1>3. ASSUME NEW r \in Reporters, Summarize(r) PROVE UNCHANGED Seen
  BY <1>3, NothingSeen DEF Summarize, Processes, Typed, Told
<1>4. ASSUME NEW p \in Processes, Create(p) PROVE UNCHANGED Seen
  BY <1>4, NothingSeen DEF Create, Typed, Told
<1>5. ASSUME NEW p \in Processes, Write(p) PROVE UNCHANGED Seen
  BY <1>5, NothingSeen, Unlinked DEF Write, Typed
<1>6. ASSUME NEW p \in Processes, Sync(p) PROVE UNCHANGED Seen
  BY <1>6, NothingSeen DEF Sync
<1>7. ASSUME NEW p \in Processes, Link(p) PROVE Abstract!Publish(p) \/ UNCHANGED Seen
  <2>1. CASE path[Target(p)] = None
    BY <1>7, <2>1, LinkIsSeen
  <2>2. CASE path[Target(p)] # None
    BY <1>7, <2>2, NothingSeen DEF Link, Typed, Told
  <2>. QED BY <2>1, <2>2
<1>8. ASSUME NEW p \in Processes, Raises(p) PROVE UNCHANGED Seen
  BY <1>8, NothingSeen DEF Raises, Typed, Told
<1>9. ASSUME NEW p \in Processes, Kill(p) PROVE UNCHANGED Seen
  BY <1>9, NothingSeen DEF Kill, DropFile, Linked, Typed
<1>10. \/ \E p \in Processes : Abstract!Publish(p) \/ Abstract!Tell(p)
       \/ Abstract!PowerLoss \/ UNCHANGED Seen
  BY <1>1, <1>2, <1>3, <1>4, <1>5, <1>6, <1>7, <1>8, <1>9, UnlinkIsSeen, PowerLossIsSeen
     DEF Next, Publish
<1>. QED BY <1>10 DEF Abstract!Next, Abstract!vars, Seen

-----------------------------------------------------------------------------
(* Who is told, in the words of the abstract specification                 *)

Winners(t) == {p \in Processes : Target(p) = t /\ outcome[p] = "published"}

\* Of those that told that they published a path, at most as many have no file
\* there any more as there were power losses.
Gone(t) == Winners(t) \ {path[t]}
Counted == \A t \in Paths : Cardinality(Gone(t)) <= losses

LEMMA FewWinners ==
  ASSUME NEW t \in Paths
  PROVE  /\ IsFiniteSet(Winners(t)) /\ IsFiniteSet(Gone(t))
         /\ Cardinality(Winners(t)) \in Nat /\ Cardinality(Gone(t)) \in Nat
         /\ Cardinality(Winners(t)) <= Cardinality(Gone(t)) + 1
<1>1. Winners(t) \subseteq Processes /\ Gone(t) \subseteq Winners(t)
  BY DEF Winners, Gone
<1>2. IsFiniteSet(Processes)
  BY FS_Union DEF Processes
<1>3. IsFiniteSet(Winners(t)) /\ IsFiniteSet(Gone(t))
  BY <1>1, <1>2, FS_Subset
<1>4. Cardinality(Winners(t)) \in Nat /\ Cardinality(Gone(t)) \in Nat
  BY <1>3, FS_CardinalityType
<1>5. CASE path[t] \in Winners(t)
  <2>1. Cardinality(Winners(t) \ {path[t]}) = Cardinality(Winners(t)) - 1
    BY <1>3, <1>5, FS_RemoveElement
  <2>. QED BY <1>3, <1>4, <2>1 DEF Gone
<1>6. CASE path[t] \notin Winners(t)
  <2>1. Gone(t) = Winners(t)
    BY <1>6 DEF Gone
  <2>. QED BY <1>3, <1>4, <2>1
<1>. QED BY <1>5, <1>6

LEMMA CountedAtFirst == Init => Counted
<1>. SUFFICES ASSUME Init PROVE Counted
  OBVIOUS
<1>1. \A t \in Paths : Gone(t) = {}
  BY DEF Init, Winners, Gone
<1>2. Cardinality({}) = 0 /\ losses = 0
  BY FS_EmptySet DEF Init
<1>. QED BY <1>1, <1>2 DEF Counted

LEMMA CountedStays ==
  ASSUME IInv, Counted, [Abstract!Next]_(Abstract!vars)
  PROVE  Counted'
<1>. USE DEF IInv
<1>0. losses \in Nat /\ \A p \in Processes : p # None /\ Target(p) \in Paths
  BY DEF Typed, Processes, Target, Paths
<1>1. SUFFICES ASSUME NEW t \in Paths
               PROVE  Cardinality(Gone(t)') <= losses'
  BY DEF Counted, Gone, Winners
<1>2. Cardinality(Gone(t)) <= losses
  BY DEF Counted
<1>3. ASSUME NEW p \in Processes, Abstract!Publish(p)
      PROVE  Gone(t)' = Gone(t) /\ losses' = losses
  <2>1. /\ path[Target(p)] = None /\ outcome[p] # "published"
        /\ path' = [path EXCEPT ![Target(p)] = p] /\ losses' = losses
        /\ \A q \in Processes : outcome'[q] = "published" <=> outcome[q] = "published"
    BY <1>3 DEF Abstract!Publish
  <2>2. Winners(t)' = Winners(t) /\ p \notin Winners(t) /\ None \notin Winners(t)
    BY <1>0, <2>1 DEF Winners
  <2>. QED BY <2>1, <2>2 DEF Gone, Typed
<1>4. ASSUME NEW p \in Processes, Abstract!Tell(p)
      PROVE  Gone(t)' = Gone(t) /\ losses' = losses
  <2>1. /\ path[Target(p)] = p /\ path' = path /\ losses' = losses
        /\ \A q \in Processes : outcome'[q] = "published" <=> q = p \/ outcome[q] = "published"
    BY <1>4 DEF Abstract!Tell
  <2>2. Winners(t)' = IF t = Target(p) THEN Winners(t) \cup {p} ELSE Winners(t)
    BY <2>1 DEF Winners
  <2>. QED BY <2>1, <2>2 DEF Gone
<1>5. CASE Abstract!PowerLoss
  <2>1. /\ losses' = losses + 1
        /\ \A q \in Processes : outcome'[q] = "published" <=> outcome[q] = "published"
    BY <1>5 DEF Abstract!PowerLoss
  <2>2. Winners(t)' = Winners(t)
    BY <2>1 DEF Winners
  <2>3. Gone(t)' \subseteq Winners(t)
    BY <2>2 DEF Gone
  <2>4. Cardinality(Gone(t)') \in Nat /\ Cardinality(Gone(t)') <= Cardinality(Winners(t))
    BY <2>3, FewWinners, FS_Subset, FS_CardinalityType
  <2>. QED BY <1>0, <1>2, <2>1, <2>4, FewWinners
<1>6. CASE UNCHANGED Abstract!vars
  <2>1. /\ path' = path /\ losses' = losses
        /\ \A q \in Processes : outcome'[q] = "published" <=> outcome[q] = "published"
    BY <1>6 DEF Abstract!vars
  <2>2. Winners(t)' = Winners(t)
    BY <2>1 DEF Winners
  <2>. QED BY <1>2, <2>1, <2>2 DEF Gone
<1>. QED BY <1>2, <1>3, <1>4, <1>5, <1>6 DEF Abstract!Next

-----------------------------------------------------------------------------
(* The results                                                             *)

\* Every variable keeps its type, and a file has the first lines of what its
\* writer has in memory.
THEOREM TypeCorrect == Spec => []TypeOK
BY Inductive, InvariantGives, PTL

\* Under a path a reader finds all the records of one run or a report of all
\* prompts, at any moment, also after a kill or a power loss.
THEOREM VisibleFilesAreComplete == Spec => []VisibleIsComplete
BY Inductive, InvariantGives, PTL

\* As long as the power holds, a writer that was told its file is published
\* finds it at the path: competing writers do not replace it.
THEOREM PublishedFilesStay == Spec => []PublishedIsOwn
BY Inductive, InvariantGives, PTL

\* As long as the power holds, a published report is computed from the data file
\* beside it.
THEOREM ReportsAreOfTheFile == Spec => []ReportTellsTheFile
BY Inductive, InvariantGives, PTL

\* A process that ends by itself, also because write, flush, fsync or link has
\* raised, takes its temporary file with it, unless Ctrl-C came while that file
\* was made or its removal raised.
THEOREM TemporaryFilesAreRemoved == Spec => []ErrorsLeaveNoLitter
BY Inductive, InvariantGives, PTL

\* What readers of the two paths see, and what the programs tell, is what
\* WriteOnce allows: a file appears whole in one step, nothing but a power loss
\* ever changes it, and a process that tells of a path has made what is there.
\* It may also tell of an error, or nothing, though its file is published.
THEOREM FilesAreWrittenOnce == Spec => ImplementsWriteOnce
<1>1. Init => Abstract!Init
  BY DEF Init, Abstract!Init, Visible
<1>2. IInv /\ [Next]_vars => [Abstract!Next]_(Abstract!vars)
  BY StepIsSeen
<1>. QED BY <1>1, <1>2, Inductive, PTL DEF Spec, ImplementsWriteOnce, Abstract!Spec

\* At most one process for each path, and one more for each power loss, tells
\* that its file is published: with an experiment id that is used twice, one of
\* the two runs does not.
THEOREM WinnersAreFew == Spec => []OneWinnerPerLoss
<1>1. IInv /\ Counted /\ [Abstract!Next]_(Abstract!vars) => Counted'
  BY CountedStays
<1>2. IInv /\ Counted => OneWinnerPerLoss
  <2>1. ASSUME IInv, Counted, NEW t \in Paths
        PROVE  Cardinality(Winners(t)) <= losses + 1
    <3>1. losses \in Nat /\ Cardinality(Gone(t)) <= losses
      BY <2>1 DEF IInv, Typed, Counted
    <3>. QED BY <3>1, FewWinners
  <2>. QED BY <2>1 DEF OneWinnerPerLoss, Winners
<1>. QED BY <1>1, <1>2, CountedAtFirst, Inductive, FilesAreWrittenOnce, PTL
         DEF Spec, ImplementsWriteOnce, Abstract!Spec

=============================================================================
