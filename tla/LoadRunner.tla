----------------------------- MODULE LoadRunner -----------------------------
(***************************************************************************)
(* The programs that put load on a server and report what came of it:      *)
(* load_runner.py and failure_runner.py of 03-production-serving and       *)
(* benchmark.py of 04-nvidia-inference.                                    *)
(*                                                                         *)
(* A thread pool sends the requests, the main thread collects the results  *)
(* in order, leaves the pool, builds the report and writes it.  The        *)
(* failure runner sends one request and hangs up at the first content.     *)
(***************************************************************************)
EXTENDS Integers, FiniteSets, SequencesExt, FiniteSetsExt

CONSTANTS NumRequests, Concurrency,
          MaxChunks,     \* bounds the content of a reply
          MaxLatency     \* bounds the measured latencies

ASSUME LoadAssumption ==
  /\ NumRequests \in Nat \ {0} /\ Concurrency \in Nat \ {0}
  /\ MaxChunks \in Nat /\ MaxLatency \in Nat

Runners == {"load", "nvidia", "failure"}

VARIABLES runner,      \* which program runs
          main,        \* where its main thread is
          queue,       \* requests submitted and not taken by a thread
          submitted,   \* number of requests submitted
          collected,   \* number of results collected
          at,          \* where each request is
          result,      \* what it has to tell so far
          met,         \* environment: what became of each request
          report       \* what was written
vars == <<runner, main, queue, submitted, collected, at, result, met, report>>

Requests == 1..NumRequests
Count    == IF runner = "failure" THEN 1 ELSE NumRequests
Running  == {r \in Requests : at[r] \in {"opening", "refused", "reading"}}
Ended(r) == at[r] \in {"returned", "raised"}
None     == [requests |-> <<>>]

Init ==
  /\ runner \in Runners
  /\ main = "submitting"
  /\ queue = <<>> /\ submitted = 0 /\ collected = 0
  /\ at = [r \in Requests |-> "unsent"]
  /\ result = [r \in Requests |-> [status |-> 200, error |-> "none", chunks |-> 0, usage |-> 0]]
  /\ met = [r \in Requests |-> "nothing"]
  /\ report = None

-----------------------------------------------------------------------------
(* run_request and run_disconnect                                          *)

Goto(r, l) == at' = [at EXCEPT ![r] = l]

\* Mutant of Take: the size of the pool is not given.
TakeAtOnce ==
  /\ queue # <<>>
  /\ Goto(Head(queue), "opening")
  /\ queue' = Tail(queue)
  /\ UNCHANGED <<runner, main, submitted, collected, result, met, report>>

\* A thread of the pool takes the next request.
Take == Cardinality(Running) < Concurrency /\ TakeAtOnce

Meets(r, fate) ==
  /\ met' = [met EXCEPT ![r] = fate]
  /\ UNCHANGED <<runner, main, queue, submitted, collected, report>>

\* An error that nobody catches: the future keeps it.
Raises(r, fate) == Goto(r, "raised") /\ Meets(r, fate) /\ UNCHANGED result

\* An error that run_request catches becomes a result; run_disconnect catches
\* none.
Fails(r, status, error, fate) ==
  IF runner = "failure" THEN Raises(r, fate)
  ELSE /\ Goto(r, "returned") /\ Meets(r, fate)
       /\ result' = [result EXCEPT ![r] = [@ EXCEPT !.status = status, !.error = error]]

TimedOut == IF runner = "load" THEN "request_timeout" ELSE "connection_error"

\* The head of the reply, or that of an HTTP error, the body of which is read
\* by the except clause, or there is no connection.
Open(r) ==
  /\ at[r] = "opening"
  /\ \/ /\ \/ Goto(r, "reading")
           \/ runner # "failure" /\ Goto(r, "refused")
        /\ UNCHANGED <<runner, main, queue, submitted, collected, result, met, report>>
     \/ runner = "failure" /\ Raises(r, "refusal")
     \/ Fails(r, 0, "connection_error", "no connection")

\* read_error_code: the body of the HTTP error tells a code, or it does not.
ReadErrorCode(r) ==
  /\ at[r] = "refused"
  /\ \E error \in {"server_busy", "http_429"} : Fails(r, 429, error, "refusal")

\* One event of the stream: some content, or the usage with or without a count.
Event(r) ==
  /\ at[r] = "reading"
  /\ \/ /\ result[r].chunks < MaxChunks
        /\ result' = [result EXCEPT ![r].chunks = @ + 1]
        /\ IF runner = "failure" THEN Goto(r, "returned") ELSE UNCHANGED at
     \/ /\ result[r].usage = 0
        /\ result' = [result EXCEPT ![r].usage = MaxChunks]
        /\ UNCHANGED at
  /\ UNCHANGED <<runner, main, queue, submitted, collected, met, report>>

\* The stream ends, with the end mark [DONE] or cut off without one between two
\* events: parse_sse stops at either, and the request is a success.
Finish(r) ==
  /\ at[r] = "reading"
  /\ Goto(r, "returned")
  /\ Meets(r, "end of stream")
  /\ UNCHANGED result

\* Mutant of TimesOut: the events so far are taken for the whole reply.
TimesOutQuietly(r) ==
  /\ at[r] = "reading"
  /\ Fails(r, 200, "none", "silence")

\* Mutant of TimesOut: the error is not caught.
TimesOutLoudly(r) == r \in Running /\ Raises(r, "silence")

\* Mutant of TimesOut: no time limit is set.
TimesOutNever(r) == FALSE

\* The server is silent for too long, before or in its reply.  In the body of an
\* HTTP error that is an exception inside an except clause, which the other
\* clauses do not catch.
TimesOut(r) ==
  /\ r \in Running
  /\ IF at[r] = "refused"
       THEN Raises(r, "silence in a refusal")
       ELSE Fails(r, 0, TimedOut, "silence")

\* An error no clause names: the connection is reset, the reply ends inside a
\* chunk, an event is not JSON.
Break(r) == r \in Running /\ Raises(r, "fault")

Request(r) ==
  Open(r) \/ ReadErrorCode(r) \/ Event(r) \/ Finish(r) \/ TimesOut(r) \/ Break(r)

-----------------------------------------------------------------------------
(* percentile, distribution and build_report                               *)

\* sorted(): the values in ascending order.
Ascending(values) ==
  LET order == CHOOSE p \in Bijection(DOMAIN values, DOMAIN values) :
                 \A i, j \in DOMAIN values : i <= j => values[p[i]] <= values[p[j]]
  IN  [i \in DOMAIN values |-> values[order[i]]]

\* Mutant of Percentile: the position is counted from one.
PercentileShifted(values, q) ==
  LET ordered == Ascending(values)
      position == Len(ordered) * q
      lower == Min({position \div 100, Len(ordered) - 1})
      upper == Min({lower + 1, Len(ordered) - 1})
  IN  100 * ordered[lower + 1]
        + (ordered[upper + 1] - ordered[lower + 1]) * (position % 100)

\* percentile for a quantile in hundredths; the result is in hundredths, too.
Percentile(values, q) ==
  LET ordered == Ascending(values)
      position == (Len(ordered) - 1) * q
      lower == position \div 100
      upper == Min({lower + 1, Len(ordered) - 1})
  IN  100 * ordered[lower + 1]
        + (ordered[upper + 1] - ordered[lower + 1]) * (position % 100)

\* What a request tells.  The benchmark counts the content if there is no
\* usage, and has a time per token if there are two of both.
Row(r) ==
  LET x == result[r]
      tokens == IF runner = "nvidia" /\ x.usage = 0 THEN x.chunks ELSE x.usage
  IN  [request_id |-> r, status |-> x.status, error |-> x.error,
       tokens |-> tokens, ttft |-> x.chunks > 0,
       tpot |-> runner = "nvidia" /\ x.chunks >= 2 /\ tokens >= 2]

Successful(rows) == {r \in DOMAIN rows : rows[r].status = 200}

TotalTokens(rows) ==
  SumFunctionOnSet([r \in DOMAIN rows |-> rows[r].tokens], Successful(rows))

Distribution(values) ==
  IF values = <<>> THEN <<>> ELSE [q \in {50, 95, 99} |-> Percentile(values, q)]

\* The report; the distributions of the first token and of the time per token
\* are described by their sizes.
BuildReport(rows, latencies) ==
  LET successful == Successful(rows)
  IN  [requests |-> rows,
       latencies |-> latencies,
       latency |-> Distribution(latencies),
       successful |-> Cardinality(successful),
       errors |-> Len(rows) - Cardinality(successful),
       status_counts |-> [s \in {rows[r].status : r \in DOMAIN rows} |->
                            Cardinality({r \in DOMAIN rows : rows[r].status = s})],
       total_tokens |-> TotalTokens(rows),
       ttfts |-> Cardinality({r \in successful : rows[r].ttft}),
       tpots |-> Cardinality({r \in successful : rows[r].tpot})]

-----------------------------------------------------------------------------
(* main                                                                    *)

Submit ==
  /\ main = "submitting"
  /\ submitted' = submitted + 1
  /\ queue' = Append(queue, submitted')
  /\ main' = IF submitted' = Count THEN "collecting" ELSE "submitting"
  /\ UNCHANGED <<runner, collected, at, result, met, report>>

\* The result of the next request, once it is there: it may be an error.
Collect ==
  /\ main = "collecting"
  /\ Ended(collected + 1)
  /\ IF at[collected + 1] = "returned"
       THEN /\ collected' = collected + 1
            /\ main' = IF collected' = Count THEN "leaving" ELSE main
       ELSE main' = "leaving" /\ UNCHANGED collected
  /\ UNCHANGED <<runner, queue, submitted, at, result, met, report>>

\* Leaving the pool waits for every request.
Leave ==
  /\ main = "leaving"
  /\ \A r \in 1..Count : Ended(r)
  /\ main' = IF collected = Count THEN "reporting" ELSE "failed"
  /\ UNCHANGED <<runner, queue, submitted, collected, at, result, met, report>>

Results == [r \in 1..Count |-> Row(r)]

\* The report is built and written, which may fail; the failure runner prints
\* whether it saw content before it hung up.  The latencies of the successful
\* requests are any: nothing before the report depends on them.
Write ==
  /\ main = "reporting"
  /\ \/ /\ runner = "failure"
        /\ main' = "written"
        /\ report' = [first_token_received |-> Row(1).ttft]
     \/ /\ runner # "failure"
        /\ main' = "written"
        /\ \E latencies \in [1..Cardinality(Successful(Results)) -> 0..MaxLatency] :
             report' = BuildReport(Results, latencies)
     \/ /\ runner # "failure"
        /\ main' = "unwritten" /\ UNCHANGED report
  /\ UNCHANGED <<runner, queue, submitted, collected, at, result, met>>

Main == Submit \/ Collect \/ Leave \/ Write

Over == main \in {"written", "unwritten", "failed"}

Next == Main \/ Take \/ \E r \in Requests : Request(r)

Spec == Init /\ [][Next]_vars

\* Threads run, and a request that is under way is given up in the end if the
\* server stays silent.  The time limit holds for each read from the socket, not
\* for the whole reply: a server that trickles without end is never given up, and
\* fairness of TimesOut is justified only for the finite replies of this model.
FairSpec ==
  /\ Spec
  /\ WF_vars(Main) /\ WF_vars(Take)
  /\ \A r \in Requests : WF_vars(TimesOut(r))

-----------------------------------------------------------------------------
\* What may become of a request.
Fates == {"nothing", "end of stream", "refusal", "no connection", "silence",
          "silence in a refusal", "fault"}

\* The requests whose stream came to an end, be it whole or cut off.
EndedStreams == {r \in Requests : met[r] = "end of stream"}

\* What no except clause takes.  run_request has clauses for HTTP errors, failed
\* connections and timeouts, and none for an exception raised inside of them;
\* run_disconnect has none at all.
Uncaught(r) ==
  met[r] \in {"fault", "silence in a refusal"} \cup
             (IF runner = "failure" THEN {"refusal", "no connection", "silence"} ELSE {})

\* Each variable has the type the code gives it; the pool keeps to its size.
TypeOK ==
  /\ runner \in Runners
  /\ main \in {"submitting", "collecting", "leaving", "reporting", "written",
               "unwritten", "failed"}
  /\ submitted \in 0..Count /\ collected \in 0..submitted
  /\ \A i \in DOMAIN queue : queue[i] = submitted - Len(queue) + i
  /\ at \in [Requests -> {"unsent", "opening", "refused", "reading", "returned", "raised"}]
  /\ \A r \in Requests : result[r].chunks \in 0..MaxChunks /\ result[r].usage \in {0, MaxChunks}
  /\ Cardinality(Running) <= Concurrency
  /\ met \in [Requests -> Fates]

\* A report has a row for each request, and the replies whose stream came to an
\* end, with the end mark or cut off between two events, are what counts as
\* successes and enters the distributions and the throughput: one that falls
\* silent after its first token adds nothing to them, although its row tells of
\* that token.
OnlyEndedStreamsCount == main = "written" /\ runner # "failure" =>
  /\ Len(report.requests) = Count
  /\ report.successful = Cardinality(EndedStreams)
  /\ report.errors = Count - report.successful
  /\ SumFunction(report.status_counts) = Count
  /\ report.total_tokens <= MaxChunks * Cardinality(EndedStreams)
  /\ report.tpots <= report.ttfts /\ report.ttfts <= Cardinality(EndedStreams)

\* A run that fails before its report has met an exception that no clause takes,
\* and a run that comes to its report has not: servers that refuse, HTTP errors and
\* silence do not cost the report of a measurement, with the one exception of
\* the server that falls silent in the body of an HTTP error.
OnlyUncaughtErrorsCostTheReport ==
  /\ main = "failed" => \E r \in 1..Count : Uncaught(r)
  /\ main \in {"reporting", "written", "unwritten"} => \A r \in 1..Count : ~ Uncaught(r)

\* A reported percentile divides the latencies of the successful requests as
\* its name says, and a higher one is not smaller.
PercentilesAreRanks == main = "written" /\ runner # "failure" =>
  /\ Len(report.latencies) = report.successful
  /\ \A q \in DOMAIN report.latency :
       LET p == report.latency[q]
           values == report.latencies
           below == Cardinality({i \in DOMAIN values : 100 * values[i] <= p})
           above == Cardinality({i \in DOMAIN values : 100 * values[i] >= p})
       IN  /\ 100 * below > (Len(values) - 1) * q
           /\ 100 * above > (Len(values) - 1) * (100 - q)
           /\ report.latency[50] <= p /\ p <= report.latency[99]

\* The program ends, also when the server refuses, falls silent at any point of
\* a reply or sends what is no reply, as long as its replies are finite.
RunEnds == <>Over

=============================================================================
