------------------------ MODULE CycleDiscoveryProofs ------------------------
(***************************************************************************)
(* What a discovery returns, probe by probe, is a result NbmFeed allows,   *)
(* for any cycles and hours, any number of attempts and any concurrency:   *)
(* the result that the models of the poller take as one step.              *)
(*                                                                         *)
(* The walk crosses off the candidates from the newest to the oldest, so   *)
(* what is argued about one candidate (its batch has probed every hour,    *)
(* and without a glitch has lost none that was there at the start) becomes *)
(* a fact about all the newer ones once they are crossed off.              *)
(***************************************************************************)
EXTENDS CycleDiscovery, FiniteSetTheorems, WellFoundedInduction, TLAPS

-----------------------------------------------------------------------------
(***************************************************************************)
(* The newest candidate.                                                   *)
(***************************************************************************)

Above(x, S) == {y \in S : y > x}

\* A finite set of cycles has a newest one: the sets Above of its elements are ordered
\* by inclusion, which is well founded, and a minimal one is that of the newest.
LEMMA NewestExists ==
    ASSUME NEW S, S \subseteq Nat, IsFiniteSet(S), S # {}
    PROVE  \E x \in S : \A y \in S : y <= x
<1> DEFINE T == {Above(x, S) : x \in S}
<1>1. IsWellFoundedOn(StrictSubsetOrdering(S), FiniteSubsetsOf(S))
  BY FS_StrictSubsetOrderingWellFounded
<1>2. \A x : Above(x, S) \in SUBSET S
  BY DEF Above
<1>3. T \subseteq FiniteSubsetsOf(S) /\ T # {}
  <2>1. \A x : Above(x, S) \in FiniteSubsetsOf(S)
    BY <1>2, FS_FiniteSubsetsOfFinite
  <2> QED
    BY <2>1
<1>4. PICK B \in T : \A A \in T : <<A, B>> \notin StrictSubsetOrdering(S)
  <2> HIDE DEF T
  <2> QED
    BY <1>1, <1>3, WFMin
<1>5. PICK x \in S : B = Above(x, S)
  BY <1>4
<1>6. ASSUME NEW y \in S, y > x
      PROVE  FALSE
  <2>1. y \in Nat /\ x \in Nat
    OBVIOUS
  <2>2. Above(y, S) \subseteq Above(x, S) /\ y \in Above(x, S) /\ y \notin Above(y, S)
    <3>1. \A z \in S : z \in Nat
      OBVIOUS
    <3>2. y \in Above(x, S) /\ y \notin Above(y, S)
      BY <1>6, <2>1 DEF Above
    <3>3. ASSUME NEW z \in Above(y, S)
          PROVE  z \in Above(x, S)
      BY <1>6, <2>1, <3>1 DEF Above
    <3> QED
      BY <3>2, <3>3
  <2>3. <<Above(y, S), B>> \in StrictSubsetOrdering(S)
    BY <1>2, <1>5, <2>2 DEF StrictSubsetOrdering
  <2> QED
    BY <1>4, <2>3
<1> QED
  BY <1>6

\* So Newest returns one of the candidates, and none is newer.
LEMMA NewestIsNewest ==
    ASSUME NEW S \in SUBSET Cycles, S # {}
    PROVE  Newest(S) \in S /\ Newest(S) \in Cycles /\ \A d \in S : d <= Newest(S)
<1>1. S \subseteq Nat /\ IsFiniteSet(S)
  BY FeedAssumption, DiscoveryAssumption, FS_Subset DEF FeedAssumption, DiscoveryAssumption
<1>2. \E c \in S : \A d \in S : d <= c
  BY <1>1, NewestExists
<1> QED
  BY <1>2 DEF Newest

-----------------------------------------------------------------------------
(***************************************************************************)
(* The inductive invariant.                                                *)
(***************************************************************************)

\* Nothing is withdrawn while a discovery runs.
FeedGrows == \A c \in Cycles : before[c] \subseteq posted[c]

\* Between two discoveries no probe is under way.
ProbesAreOfDiscovery == ~Running => todo = {} /\ flight = {}

\* The candidates left are the oldest ones, and each of the others was passed over
\* for a reason that NbmFeed allows.
WalkIsInOrder ==
    Running =>
        /\ left # {}
        /\ \A c \in left, d \in Cycles : d <= c => d \in left
        /\ \A d \in Cycles \ left : PassedOver(before, d, glitches # {})

BatchHours == IF stage = "hours" THEN Hours ELSE {1}

\* What a batch has found is in the bucket.
FoundIsPosted ==
    Running =>
        /\ todo \cup flight \cup seen \subseteq BatchHours
        /\ seen \subseteq posted[Candidate]
        /\ stage = "hours" => 1 \in posted[Candidate]

\* The hours of the batch that it cannot miss but by a glitch: those posted before the
\* discovery, and the one that the gate has found.
Sure ==
    BatchHours \cap (before[Candidate] \cup (IF stage = "hours" THEN {1} ELSE {}))

\* Each of them is still to be probed, is being probed, or was found.
NoneIsLost == Running /\ glitches = {} => Sure \subseteq todo \cup flight \cup seen

WalkInv ==
    /\ TypeOK
    /\ FeedGrows
    /\ ProbesAreOfDiscovery
    /\ WalkIsInOrder
    /\ FoundIsPosted
    /\ NoneIsLost

\* The invariant holds before the first discovery.
LEMMA WalkInit == Init => WalkInv
<1> SUFFICES ASSUME Init
             PROVE  WalkInv
  OBVIOUS
<1>1. TypeOK
  <2>1. [h \in Hours |-> 0] \in [Hours -> 0..MaxAttempts - 1]
    BY DiscoveryAssumption DEF DiscoveryAssumption
  <2> QED
    BY <2>1, FeedAssumption DEF FeedAssumption, Init, FeedInit, TypeOK, Stages
<1>2. ~Running
  BY DEF Init, Running
<1> QED
  BY <1>1, <1>2 DEF Init, WalkInv, FeedGrows, ProbesAreOfDiscovery, WalkIsInOrder,
                    FoundIsPosted, NoneIsLost

-----------------------------------------------------------------------------
(***************************************************************************)
(* The steps.                                                              *)
(***************************************************************************)

\* A discovery under way has a candidate.
LEMMA CandidateType ==
    ASSUME TypeOK, WalkIsInOrder, Running
    PROVE  /\ Candidate \in left /\ Candidate \in Cycles
           /\ \A d \in left : d <= Candidate
BY NewestIsNewest DEF TypeOK, WalkIsInOrder, Candidate

\* Without glitches, a batch that is over has found every hour it cannot miss.
LEMMA BatchFindsSure ==
    ASSUME WalkInv, Running, todo = {}, flight = {}, glitches = {}
    PROVE  Sure \subseteq seen
BY DEF WalkInv, NoneIsLost

\* A candidate whose gate is closed, or of which nothing was found, is passed over.
LEMMA ClosedIsPassedOver ==
    ASSUME WalkInv,
           \/ BatchOver("gate") /\ 1 \notin seen
           \/ BatchOver("regate") /\ 1 \notin seen
           \/ BatchOver("hours") /\ seen = {}
    PROVE  PassedOver(before, Candidate, glitches # {})
<1>1. Running /\ todo = {} /\ flight = {} /\ 1 \notin seen
  BY DEF BatchOver, Running
<1>2. ASSUME glitches = {}
      PROVE  1 \notin before[Candidate]
  <2>1. Sure \subseteq seen
    BY <1>1, <1>2, BatchFindsSure
  <2>2. 1 \in BatchHours
    BY FeedAssumption DEF FeedAssumption, BatchHours
  <2> QED
    BY <1>1, <2>1, <2>2 DEF Sure
<1> QED
  BY <1>2 DEF PassedOver

\* A new discovery starts with all candidates and an empty record of glitches.
LEMMA StartStep == WalkInv /\ Start => WalkInv'
<1> SUFFICES ASSUME WalkInv, Start
             PROVE  WalkInv'
  OBVIOUS
<1>1. TypeOK'
  BY FeedAssumption DEF FeedAssumption, WalkInv, TypeOK, Start, BeginBatch, Stages
<1>2. Running' /\ stage' = "gate" /\ before' = posted' /\ left' = Cycles /\ todo' = {1}
      /\ seen' = {} /\ flight' = {}
  BY DEF Start, BeginBatch, Running, WalkInv, ProbesAreOfDiscovery
<1>3. FeedGrows' /\ ProbesAreOfDiscovery'
  BY <1>2 DEF FeedGrows, ProbesAreOfDiscovery
<1>4. WalkIsInOrder'
  BY <1>2, DiscoveryAssumption DEF DiscoveryAssumption, WalkIsInOrder
<1>5. FoundIsPosted' /\ NoneIsLost'
  BY <1>2 DEF FoundIsPosted, NoneIsLost, BatchHours, Sure
<1> QED
  BY <1>1, <1>3, <1>4, <1>5 DEF WalkInv

\* The gate is open, or was open twice: the next batch is about the same candidate.
LEMMA NextBatchStep == WalkInv /\ (GateOpen \/ ProbeHours) => WalkInv'
<1> SUFFICES ASSUME WalkInv, GateOpen \/ ProbeHours
             PROVE  WalkInv'
  OBVIOUS
<1>1. TypeOK'
  BY FeedAssumption
     DEF FeedAssumption, WalkInv, TypeOK, GateOpen, ProbeHours, BatchOver, BeginBatch, Stages
<1>2. /\ Running /\ Running' /\ 1 \in seen /\ Candidate' = Candidate
      /\ UNCHANGED <<posted, before, left, glitches>>
      /\ flight' = {} /\ seen' = {}
      /\ \/ stage' = "regate" /\ todo' = {1}
         \/ stage' = "hours" /\ todo' = Hours
  BY DEF GateOpen, ProbeHours, BatchOver, BeginBatch, Running, Candidate
<1>3. 1 \in posted[Candidate]
  BY <1>2 DEF WalkInv, FoundIsPosted
<1>4. FeedGrows' /\ ProbesAreOfDiscovery' /\ WalkIsInOrder'
  BY <1>2 DEF WalkInv, FeedGrows, ProbesAreOfDiscovery, WalkIsInOrder
<1>5. FoundIsPosted' /\ NoneIsLost'
  BY <1>2, <1>3 DEF FoundIsPosted, NoneIsLost, BatchHours, Sure
<1> QED
  BY <1>1, <1>4, <1>5 DEF WalkInv

\* The candidate is crossed off; the next one is older.
LEMMA TryOlderStep == WalkInv /\ TryOlder => WalkInv'
<1> SUFFICES ASSUME WalkInv, TryOlder
             PROVE  WalkInv'
  OBVIOUS
<1>1. TypeOK'
  BY FeedAssumption
     DEF FeedAssumption, WalkInv, TypeOK, TryOlder, BatchOver, BeginBatch, Stages
<1>2. /\ Running /\ Running' /\ left' = left \ {Candidate} /\ left # {Candidate}
      /\ UNCHANGED <<posted, before, glitches>>
      /\ flight' = {} /\ seen' = {} /\ todo' = {1} /\ stage' = "gate"
  BY DEF TryOlder, BatchOver, BeginBatch, Running
<1>3. FeedGrows' /\ ProbesAreOfDiscovery'
  BY <1>2 DEF WalkInv, FeedGrows, ProbesAreOfDiscovery
<1>4. Candidate \in left /\ Candidate \in Cycles /\ \A d \in left : d <= Candidate
  BY <1>2, CandidateType DEF WalkInv
<1>5. PassedOver(before, Candidate, glitches # {})
  BY ClosedIsPassedOver DEF TryOlder
<1>6. WalkIsInOrder'
  <2>1. left' # {}
    BY <1>2, <1>4
  <2>2. ASSUME NEW c \in left', NEW d \in Cycles, d <= c
        PROVE  d \in left'
    <3>1. c \in left /\ d \in left /\ c # Candidate /\ c <= Candidate
      BY <1>2, <1>4, <2>2 DEF WalkInv, WalkIsInOrder
    <3>2. c \in Nat /\ d \in Nat /\ Candidate \in Nat
      BY <1>4, <3>1, FeedAssumption DEF FeedAssumption, WalkInv, TypeOK
    <3> QED
      BY <1>2, <2>2, <3>1, <3>2
  <2>3. \A d \in Cycles \ left' : PassedOver(before, d, glitches # {})'
    BY <1>2, <1>5 DEF WalkInv, WalkIsInOrder, PassedOver
  <2> QED
    BY <2>1, <2>2, <2>3 DEF WalkIsInOrder
<1>7. FoundIsPosted' /\ NoneIsLost'
  BY <1>2 DEF FoundIsPosted, NoneIsLost, BatchHours, Sure
<1> QED
  BY <1>1, <1>3, <1>6, <1>7 DEF WalkInv

\* The discovery ends.
LEMMA ReportStep == WalkInv /\ (ReportRun \/ ReportNothing) => WalkInv'
<1> SUFFICES ASSUME WalkInv, ReportRun \/ ReportNothing
             PROVE  WalkInv'
  OBVIOUS
<1>1. ~Running' /\ todo' = {} /\ flight' = {} /\ UNCHANGED <<posted, before>>
  BY DEF ReportRun, ReportNothing, BatchOver, Running
<1>2. Candidate \in Cycles
  BY CandidateType DEF WalkInv, ReportRun, ReportNothing, BatchOver, Running
<1>3. result' \in Run \cup {NoRun}
  BY <1>2 DEF WalkInv, TypeOK, ReportRun, ReportNothing, Run
<1>4. TypeOK'
  BY <1>3 DEF WalkInv, TypeOK, ReportRun, ReportNothing, BatchOver, Stages
<1> QED
  BY <1>1, <1>4 DEF WalkInv, FeedGrows, ProbesAreOfDiscovery, WalkIsInOrder,
                    FoundIsPosted, NoneIsLost

\* A probe of the batch moves: it loses no hour that is there without a glitch.
LEMMA ProbeStep == WalkInv /\ (\E h \in Hours : Probe(h)) => WalkInv'
<1> SUFFICES ASSUME WalkInv, NEW h \in Hours, Probe(h)
             PROVE  WalkInv'
  OBVIOUS
<1>1. TypeOK'
  <2> DEFINE Tries == [Hours -> 0..MaxAttempts - 1]
  <2>1. tries \in Tries /\ MaxAttempts \in Nat \ {0}
    BY DiscoveryAssumption DEF DiscoveryAssumption, WalkInv, TypeOK
  <2>2. tries' \in Tries
    <3>1. CASE UNCHANGED tries
      BY <2>1, <3>1
    <3>2. CASE tries' = [tries EXCEPT ![h] = 0]
      BY <2>1, <3>2
    <3>3. CASE ProbeRetries(h)
      BY <2>1, <3>3 DEF ProbeRetries
    <3> QED
      BY <3>1, <3>2, <3>3
         DEF Probe, ProbeCooling, ProbeStarts, ProbeAnswered, ProbeRefused, ProbeThrottled, Answer
  <2>3. /\ posted' \in Feed /\ before' \in Feed /\ stage' \in Stages /\ left' \subseteq Cycles
        /\ result' \in Run \cup {NoRun}
    BY DEF WalkInv, TypeOK, Probe, ProbeCooling, ProbeStarts, ProbeAnswered, ProbeRefused,
           ProbeRetries, ProbeThrottled
  <2>4. todo' \subseteq Hours /\ flight' \subseteq Hours /\ seen' \subseteq Hours
    BY DEF WalkInv, TypeOK, Probe, ProbeCooling, ProbeStarts, ProbeAnswered, ProbeRefused,
           ProbeRetries, ProbeThrottled, Answer
  <2>5. cooling' \in BOOLEAN /\ glitches' \subseteq {"throttled", "refused"}
    BY DEF WalkInv, TypeOK, Probe, ProbeCooling, ProbeStarts, ProbeAnswered, ProbeRefused,
           ProbeRetries, ProbeThrottled
  <2> QED
    BY <2>2, <2>3, <2>4, <2>5 DEF TypeOK
<1>2. Running
  BY DEF WalkInv, ProbesAreOfDiscovery, Probe, ProbeCooling, ProbeStarts, ProbeAnswered,
         ProbeRefused, ProbeRetries, ProbeThrottled
<1>3. UNCHANGED <<posted, before, stage, left>>
  BY DEF Probe, ProbeCooling, ProbeStarts, ProbeAnswered, ProbeRefused, ProbeRetries,
         ProbeThrottled
<1>4. Running' /\ Candidate' = Candidate /\ BatchHours' = BatchHours /\ Sure' = Sure
  BY <1>2, <1>3 DEF Running, Candidate, BatchHours, Sure
<1>5. /\ glitches' = {} => glitches = {}
      /\ todo' \cup flight' \cup seen' \subseteq todo \cup flight \cup seen
      /\ seen' \subseteq seen \cup posted[Candidate]
  BY DEF Probe, ProbeCooling, ProbeStarts, ProbeAnswered, ProbeRefused, ProbeRetries,
         ProbeThrottled, Answer
<1>6. glitches' = {} =>
          \/ todo \cup flight \cup seen \subseteq todo' \cup flight' \cup seen'
          \/ /\ h \notin posted[Candidate]
             /\ todo \cup flight \cup seen \subseteq todo' \cup flight' \cup seen' \cup {h}
  <2>1. CASE ProbeAnswered(h)
    BY <2>1 DEF ProbeAnswered, Answer
  <2> QED
    BY <2>1 DEF Probe, ProbeCooling, ProbeStarts, ProbeAnswered, ProbeRefused, ProbeRetries,
         ProbeThrottled, Answer
<1>7. FeedGrows' /\ ProbesAreOfDiscovery' /\ WalkIsInOrder'
  BY <1>2, <1>3, <1>4, <1>5
     DEF WalkInv, FeedGrows, ProbesAreOfDiscovery, WalkIsInOrder, PassedOver
<1>8. FoundIsPosted'
  BY <1>2, <1>3, <1>4, <1>5 DEF WalkInv, FoundIsPosted
<1>9. NoneIsLost'
  <2> SUFFICES ASSUME glitches' = {}
               PROVE  Sure \subseteq todo' \cup flight' \cup seen'
    BY <1>4 DEF NoneIsLost
  <2>1. Sure \subseteq todo \cup flight \cup seen
    BY <1>2, <1>5 DEF WalkInv, NoneIsLost
  <2>2. Sure \subseteq posted[Candidate]
    BY <1>2, CandidateType DEF WalkInv, FeedGrows, FoundIsPosted, Sure
  <2> QED
    BY <1>6, <2>1, <2>2
<1> QED
  BY <1>1, <1>7, <1>8, <1>9 DEF WalkInv

\* The feed moves, or the cooldown ends.
LEMMA SurroundingsStep ==
    WalkInv /\ (CooldownEnds \/ \E c \in Cycles, h \in Hours : NoaaPosts(c, h)) => WalkInv'
<1> SUFFICES ASSUME WalkInv, CooldownEnds \/ \E c \in Cycles, h \in Hours : NoaaPosts(c, h)
             PROVE  WalkInv'
  OBVIOUS
<1>1. TypeOK'
  <2>1. posted' \in Feed
    BY DEF WalkInv, TypeOK, CooldownEnds, NoaaPosts, PostHour, Feed
  <2> QED
    BY <2>1 DEF WalkInv, TypeOK, CooldownEnds, NoaaPosts, batch
<1>2. UNCHANGED <<before, stage, left, todo, flight, seen, glitches>>
  BY DEF CooldownEnds, NoaaPosts, batch
<1>3. \A d \in Cycles : posted[d] \subseteq posted'[d]
  BY DEF WalkInv, TypeOK, CooldownEnds, NoaaPosts, PostHour, Feed
<1>4. /\ Running' <=> Running
      /\ Candidate' = Candidate /\ BatchHours' = BatchHours /\ Sure' = Sure
  BY <1>2 DEF Running, Candidate, BatchHours, Sure
<1>5. FeedGrows' /\ ProbesAreOfDiscovery' /\ WalkIsInOrder' /\ NoneIsLost'
  BY <1>2, <1>3, <1>4
     DEF WalkInv, FeedGrows, ProbesAreOfDiscovery, WalkIsInOrder, NoneIsLost, PassedOver
<1>6. FoundIsPosted'
  BY <1>2, <1>3, <1>4, CandidateType DEF WalkInv, FoundIsPosted
<1> QED
  BY <1>1, <1>5, <1>6 DEF WalkInv

\* Every step keeps the invariant.
LEMMA WalkStep == WalkInv /\ [Next]_vars => WalkInv'
<1> SUFFICES ASSUME WalkInv, [Next]_vars
             PROVE  WalkInv'
  OBVIOUS
<1>1. CASE Start
  BY <1>1, StartStep
<1>2. CASE GateOpen \/ ProbeHours
  BY <1>2, NextBatchStep
<1>3. CASE TryOlder
  BY <1>3, TryOlderStep
<1>4. CASE ReportRun \/ ReportNothing
  BY <1>4, ReportStep
<1>5. CASE \E h \in Hours : Probe(h)
  BY <1>5, ProbeStep
<1>6. CASE CooldownEnds \/ \E c \in Cycles, h \in Hours : NoaaPosts(c, h)
  BY <1>6, SurroundingsStep
<1>7. CASE UNCHANGED vars
  BY <1>7 DEF vars, batch, WalkInv, TypeOK, FeedGrows, ProbesAreOfDiscovery, WalkIsInOrder,
              FoundIsPosted, NoneIsLost, Running, Candidate, BatchHours, Sure, PassedOver
<1> QED
  BY <1>1, <1>2, <1>3, <1>4, <1>5, <1>6, <1>7 DEF Next, Walk

-----------------------------------------------------------------------------
(***************************************************************************)
(* The theorems.                                                           *)
(***************************************************************************)

\* The invariant holds in every state of every behaviour.
THEOREM DiscoveryInvariant == Spec => []WalkInv
BY WalkInit, WalkStep, PTL DEF Spec

\* The state of a discovery has its type.
THEOREM DiscoveryTypeCorrect == Spec => []TypeOK
<1>1. WalkInv => TypeOK
  BY DEF WalkInv
<1> QED
  BY <1>1, DiscoveryInvariant, PTL

\* The run that is reported has every hour the batch cannot have missed.
LEMMA ReportedRunIsDiscovery ==
    ASSUME WalkInv, ReportRun
    PROVE  result' \in Discoveries(before, posted, glitches # {})
<1> DEFINE r == [cycle |-> Candidate, hours |-> seen]
<1>1. Running /\ stage = "hours" /\ todo = {} /\ flight = {} /\ seen # {} /\ result' = r
  BY DEF ReportRun, BatchOver, Running
<1>2. Candidate \in left /\ Candidate \in Cycles /\ \A d \in left : d <= Candidate
  BY <1>1, CandidateType DEF WalkInv
<1>3. r \in Run
  BY <1>2 DEF Run, WalkInv, TypeOK
<1>4. 1 \in posted[Candidate] /\ seen \subseteq posted[Candidate]
  BY <1>1 DEF WalkInv, FoundIsPosted
<1>5. ASSUME glitches = {}
      PROVE  before[Candidate] \cup {1} \subseteq seen
  <2>1. Sure \subseteq seen
    BY <1>1, <1>5, BatchFindsSure
  <2>2. Sure = before[Candidate] \cup {1}
    BY <1>1, <1>2, FeedAssumption DEF FeedAssumption, Sure, BatchHours, WalkInv, TypeOK, Feed
  <2> QED
    BY <2>1, <2>2
<1>6. ASSUME NEW d \in Cycles, d > Candidate
      PROVE  PassedOver(before, d, glitches # {})
  <2>1. d \in Nat /\ Candidate \in Nat
    BY <1>2, FeedAssumption DEF FeedAssumption
  <2>2. d \notin left
    BY <1>2, <1>6, <2>1
  <2> QED
    BY <1>1, <2>2 DEF WalkInv, WalkIsInOrder
<1> QED
  BY <1>1, <1>3, <1>4, <1>5, <1>6 DEF Discoveries

\* "Nothing" is reported when every candidate was passed over.
LEMMA ReportedNothingIsDiscovery ==
    ASSUME WalkInv, ReportNothing
    PROVE  result' \in Discoveries(before, posted, glitches # {})
<1>1. Running /\ result' = NoRun /\ left = {Candidate}
  BY DEF ReportNothing, BatchOver, Running
<1>2. PassedOver(before, Candidate, glitches # {})
  BY ClosedIsPassedOver DEF ReportNothing
<1>3. \A c \in Cycles : PassedOver(before, c, glitches # {})
  BY <1>1, <1>2 DEF WalkInv, WalkIsInOrder
<1> QED
  BY <1>1, <1>3 DEF Discoveries

\* What discover_latest_run returns is one of the results NbmFeed allows for the time it
\* took, whatever the feed, the throttling and the retries do between the probes.
THEOREM DiscoveriesAreSound == Spec => ResultsAreDiscoveries
<1>1. ASSUME WalkInv, [Next]_vars, stage # "done", stage' = "done"
      PROVE  result' \in Discoveries(before, posted, glitches # {})
  <2>1. ReportRun \/ ReportNothing
    BY <1>1 DEF Next, Walk, vars, Start, GateOpen, ProbeHours, TryOlder, BeginBatch, Probe,
                ProbeCooling, ProbeStarts, ProbeAnswered, ProbeRefused, ProbeRetries,
                ProbeThrottled, CooldownEnds, NoaaPosts
  <2> QED
    BY <1>1, <2>1, ReportedRunIsDiscovery, ReportedNothingIsDiscovery
<1>2. WalkInv /\ [Next]_vars =>
          [stage # "done" /\ stage' = "done" =>
               result' \in Discoveries(before, posted, glitches # {})]_vars
  BY <1>1
<1> QED
  BY <1>2, DiscoveryInvariant, PTL DEF Spec, ResultsAreDiscoveries
=============================================================================
