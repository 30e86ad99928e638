--------------------------- MODULE CycleDiscovery ---------------------------
(***************************************************************************)
(* One process discovering the newest cycle, probe by probe:               *)
(*   backend/app/api/endpoints/runs.py  discover_latest_run and what it    *)
(*                                      calls                              *)
(*   backend/app/core/s3_client.py      object_exists, the retry loop of   *)
(*                                      _request, the throttle cooldown    *)
(*                                                                         *)
(* A discovery is a walk over the candidates, newest first; each candidate *)
(* takes up to three batches of probes: the f001 gate, the same probe      *)
(* again in _available_hours, and one probe for every forecast hour, at    *)
(* most Concurrency of them in flight.  A probe is one object_exists call: *)
(* a series of HEAD requests, ended by an answer or by the last attempt.   *)
(* The feed moves between any two requests.                                *)
(***************************************************************************)
EXTENDS NbmFeed

CONSTANTS
    MaxAttempts,   \* S3_RETRY_MAX_ATTEMPTS
    Concurrency    \* probes of one batch in flight at once

ASSUME DiscoveryAssumption ==
    /\ MaxAttempts \in Nat \ {0}
    /\ Concurrency \in Nat \ {0}
    /\ IsFiniteSet(Cycles) /\ Cycles # {}

VARIABLES
    before,    \* the feed when the discovery began
    stage,     \* the batch under way
    left,      \* candidates not yet passed over; the newest is being probed
    todo,      \* hours of the batch whose probe has not started
    tries,     \* tries[h]: requests already failed, for a probe in flight
    flight,    \* hours whose probe is in flight
    seen,      \* hours of the batch answered True
    cooling,   \* S3Client.throttled: the cooldown is active
    glitches,  \* how probes of this discovery failed to learn the truth
    result     \* what the last discovery returned

batch == <<todo, tries, flight, seen>>
vars  == <<posted, before, stage, left, batch, cooling, glitches, result>>

Stages == {"idle", "gate", "regate", "hours", "done"}

TypeOK ==
    /\ posted \in Feed /\ before \in Feed
    /\ stage \in Stages
    /\ left \subseteq Cycles
    /\ todo \subseteq Hours /\ flight \subseteq Hours /\ seen \subseteq Hours
    /\ tries \in [Hours -> 0..MaxAttempts - 1]
    /\ cooling \in BOOLEAN
    /\ glitches \subseteq {"throttled", "refused"}
    /\ result \in Run \cup {NoRun}

Init ==
    /\ FeedInit
    /\ before = posted
    /\ stage = "idle"
    /\ left = {}
    /\ todo = {} /\ flight = {} /\ seen = {}
    /\ tries = [h \in Hours |-> 0]
    /\ cooling = FALSE
    /\ glitches = {}
    /\ result = NoRun

-----------------------------------------------------------------------------
(***************************************************************************)
(* The walk over the candidates.                                           *)
(***************************************************************************)

Running == stage \in {"gate", "regate", "hours"}

\* Mutant: the walk starts at the other end.
Oldest(candidates) == CHOOSE c \in candidates : \A d \in candidates : d >= c

Newest(candidates) == CHOOSE c \in candidates : \A d \in candidates : d <= c

Candidate == Newest(left)

BeginBatch(name, hours) ==
    /\ stage' = name
    /\ todo' = hours
    /\ seen' = {}

\* A tick of the poller, or a request, calls discover_latest_run.
Start ==
    /\ ~Running
    /\ before' = posted
    /\ left' = Cycles
    /\ BeginBatch("gate", {1})
    /\ glitches' = {}
    /\ UNCHANGED <<posted, tries, flight, cooling, result>>

BatchOver(name) ==
    /\ stage = name
    /\ todo = {}
    /\ flight = {}
    /\ UNCHANGED <<posted, before, tries, flight, cooling, glitches>>

\* The f001 gate is there; _available_hours asks for it once more.
GateOpen ==
    /\ BatchOver("gate")
    /\ 1 \in seen
    /\ BeginBatch("regate", {1})
    /\ UNCHANGED <<left, result>>

\* ... and then for every hour.
ProbeHours ==
    /\ BatchOver("regate")
    /\ 1 \in seen
    /\ BeginBatch("hours", Hours)
    /\ UNCHANGED <<left, result>>

\* Some hour of the candidate is available: it is the run.
ReportRun ==
    /\ BatchOver("hours")
    /\ seen # {}
    /\ result' = [cycle |-> Candidate, hours |-> seen]
    /\ stage' = "done"
    /\ UNCHANGED <<left, todo, seen>>

\* Mutant: the candidate is not crossed off.
TryOlderAgain ==
    /\ \/ BatchOver("gate") /\ 1 \notin seen
       \/ BatchOver("regate") /\ 1 \notin seen
       \/ BatchOver("hours") /\ seen = {}
    /\ left # {Candidate}
    /\ BeginBatch("gate", {1})
    /\ UNCHANGED <<left, result>>

\* The gate is closed, or no hour was found: on to the next older candidate.
TryOlder ==
    /\ \/ BatchOver("gate") /\ 1 \notin seen
       \/ BatchOver("regate") /\ 1 \notin seen
       \/ BatchOver("hours") /\ seen = {}
    /\ left # {Candidate}
    /\ left' = left \ {Candidate}
    /\ BeginBatch("gate", {1})
    /\ UNCHANGED result

ReportNothing ==
    /\ \/ BatchOver("gate") /\ 1 \notin seen
       \/ BatchOver("regate") /\ 1 \notin seen
       \/ BatchOver("hours") /\ seen = {}
    /\ left = {Candidate}
    /\ result' = NoRun
    /\ stage' = "done"
    /\ UNCHANGED <<left, todo, seen>>

-----------------------------------------------------------------------------
(***************************************************************************)
(* One probe.                                                              *)
(***************************************************************************)

Answer(h, available) ==
    /\ flight' = flight \ {h}
    /\ seen' = IF available THEN seen \cup {h} ELSE seen
    /\ tries' = [tries EXCEPT ![h] = 0]

\* During the cooldown object_exists says False without a request.
ProbeCooling(h) ==
    /\ h \in todo
    /\ Cardinality(flight) < Concurrency
    /\ cooling
    /\ todo' = todo \ {h}
    /\ glitches' = glitches \cup {"throttled"}
    /\ UNCHANGED <<posted, before, stage, left, tries, flight, seen, cooling, result>>

ProbeStarts(h) ==
    /\ h \in todo
    /\ Cardinality(flight) < Concurrency
    /\ ~cooling
    /\ todo' = todo \ {h}
    /\ flight' = flight \cup {h}
    /\ UNCHANGED <<posted, before, stage, left, tries, seen, cooling, glitches, result>>

\* The bucket answers the HEAD: 2xx or 404.
ProbeAnswered(h) ==
    /\ h \in flight
    /\ Answer(h, h \in posted[Candidate])
    /\ UNCHANGED <<posted, before, stage, left, todo, cooling, glitches, result>>

\* A status that is neither retryable nor 404 (403 for instance) reads as absent.
ProbeRefused(h) ==
    /\ h \in flight
    /\ Answer(h, FALSE)
    /\ glitches' = glitches \cup {"refused"}
    /\ UNCHANGED <<posted, before, stage, left, todo, cooling, result>>

\* Mutant: off by one.
ProbeRetriesOnceMore(h) ==
    /\ h \in flight
    /\ tries[h] + 1 <= MaxAttempts
    /\ tries' = [tries EXCEPT ![h] = @ + 1]
    /\ UNCHANGED <<posted, before, stage, left, todo, flight, seen, cooling, glitches, result>>

\* 429, 5xx, a timeout: the loop of _request sleeps and tries again.
ProbeRetries(h) ==
    /\ h \in flight
    /\ tries[h] + 1 < MaxAttempts
    /\ tries' = [tries EXCEPT ![h] = @ + 1]
    /\ UNCHANGED <<posted, before, stage, left, todo, flight, seen, cooling, glitches, result>>

\* The last attempt failed: the cooldown opens and S3Throttled is raised, which
\* _index_exists turns into False.
ProbeThrottled(h) ==
    /\ h \in flight
    /\ tries[h] + 1 >= MaxAttempts
    /\ Answer(h, FALSE)
    /\ cooling' = TRUE
    /\ glitches' = glitches \cup {"throttled"}
    /\ UNCHANGED <<posted, before, stage, left, todo, result>>

CooldownEnds ==
    /\ cooling
    /\ cooling' = FALSE
    /\ UNCHANGED <<posted, before, stage, left, batch, glitches, result>>

NoaaPosts(c, h) ==
    /\ PostHour(c, h)
    /\ UNCHANGED <<before, stage, left, batch, cooling, glitches, result>>

-----------------------------------------------------------------------------
Walk == GateOpen \/ ProbeHours \/ ReportRun \/ TryOlder \/ ReportNothing

Probe(h) ==
    ProbeCooling(h) \/ ProbeStarts(h) \/ ProbeAnswered(h) \/ ProbeRefused(h)
        \/ ProbeRetries(h) \/ ProbeThrottled(h)

Next ==
    \/ Start
    \/ Walk
    \/ \E h \in Hours : Probe(h)
    \/ CooldownEnds
    \/ \E c \in Cycles, h \in Hours : NoaaPosts(c, h)

\* Every request ends (it has a total timeout), so every probe makes steps;
\* nothing is assumed of the ticks, the cooldown or NOAA.
Fairness ==
    /\ WF_vars(Walk)
    /\ \A h \in Hours : WF_vars(Probe(h))

Spec == Init /\ [][Next]_vars /\ Fairness

-----------------------------------------------------------------------------
(***************************************************************************)
(* Properties.                                                             *)
(***************************************************************************)

\* What a discovery returns is one of the results NbmFeed allows for the time it
\* took, so the poller model rests on the probes as they are: a run without
\* glitches has every hour posted when it began and none unposted when it ends,
\* and no newer cycle with a gate was passed over.
ResultsAreDiscoveries ==
    [][ stage # "done" /\ stage' = "done" =>
          result' \in Discoveries(before, posted, glitches # {}) ]_vars

\* Bounded retries and the cooldown end every discovery, however the bucket behaves.
DiscoveryEnds == Running ~> ~Running
=============================================================================
