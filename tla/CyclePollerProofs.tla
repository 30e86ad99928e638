-------------------------- MODULE CyclePollerProofs --------------------------
(***************************************************************************)
(* Safety of the poller and its pointer, for any number of workers, cycles *)
(* and forecast hours, any core window, any overlap of the callers of a    *)
(* discovery, and every failure; and what a single process gives on top.   *)
(***************************************************************************)
EXTENDS CyclePoller, TLAPS

USE DEF local

-----------------------------------------------------------------------------
(***************************************************************************)
(* Lemmas about the operators.                                             *)
(***************************************************************************)

\* What a discovery may report is well formed and covered by the later feed.
LEMMA DiscoveriesCovered ==
    ASSUME NEW start \in Feed, NEW end \in Feed, NEW glitch \in BOOLEAN,
           NEW r \in Discoveries(start, end, glitch)
    PROVE  /\ r \in Run \cup {NoRun}
           /\ r # NoRun => /\ r \in Run
                           /\ r.hours # {}
                           /\ r.hours \subseteq end[r.cycle]
BY FeedAssumption DEF Discoveries

\* The pointer made of a run is a pointer.
LEMMA PointerToType ==
    ASSUME NEW run \in Run, NEW progress \in Warmup \cup {NoWarmup}
    PROVE  PointerTo(run, progress) \in Pointer
BY DEF PointerTo, Run, Pointer, IsComplete

\* What fetch_pointer returns is a pointer or nothing.
LEMMA FetchType ==
    ASSUME TypeOK, NEW w \in Workers, NEW p \in FetchResults(w)
    PROVE  p \in Pointer \cup {NoPointer}
BY DEF TypeOK, FetchResults

\* Carried progress is progress.
LEMMA CarriedType ==
    ASSUME NEW run \in Run, NEW previous \in Pointer \cup {NoPointer}
    PROVE  CarriedProgress(run, previous) \in Warmup \cup {NoWarmup}
BY DEF CarriedProgress, SameCycle, Pointer

\* The end of a discovery touches the snapshots and nothing else of the fleet.
LEMMA OverType ==
    ASSUME TypeOK, NEW w \in Workers, NEW caller \in Callers, DiscoveryOver(w, caller)
    PROVE  /\ discovery' \in [Workers -> [Callers -> Feed \cup {NoSnapshot}]]
           /\ UNCHANGED <<posted, shared, rendered, owner, up, due, calm>>
           /\ discovery[w][caller] \in Feed
<1>1. discovery[w] \in [Callers -> Feed \cup {NoSnapshot}]
  BY DEF TypeOK
<1>2. [discovery[w] EXCEPT ![caller] = NoSnapshot] \in [Callers -> Feed \cup {NoSnapshot}]
  BY <1>1
<1>3. discovery' = [discovery EXCEPT ![w] = [discovery[w] EXCEPT ![caller] = NoSnapshot]]
  BY DEF DiscoveryOver
<1> QED
  BY <1>1, <1>2, <1>3 DEF DiscoveryOver, TypeOK

\* What a discovery found is a run to a posted cycle.
LEMMA FoundCovered ==
    ASSUME TypeOK, NEW w \in Workers, NEW caller \in Callers, DiscoveryOver(w, caller),
           NEW run \in Found(w, caller) \ {NoRun}
    PROVE  /\ run \in Run
           /\ run.hours # {}
           /\ run.hours \subseteq posted[run.cycle]
<1>1. discovery[w][caller] \in Feed
  BY OverType
<1>2. Possible("probe") \in BOOLEAN /\ posted \in Feed
  BY DEF Possible, TypeOK
<1> QED
  BY <1>1, <1>2, DiscoveriesCovered DEF Found

\* Progress attached to a pointer makes a pointer.
LEMMA UpdateType ==
    ASSUME TypeOK, NEW w \in Workers, warmup[w] \in Task,
           NEW status \in {"running", "done", "failed"}, UpdateWarmup(w, status)
    PROVE  /\ memo' \in [Workers -> Pointer \cup {NoPointer, NoMemo}]
           /\ pending' \in [Workers -> Pointer \cup {NoPointer}]
<1>1. PICK current \in FetchResults(w) :
        /\ Remember(w, current)
        /\ pending' = IF current = NoPointer THEN pending
                      ELSE [pending EXCEPT ![w] =
                              [current EXCEPT !.warmup =
                                 [status |-> status, of |-> warmup[w].cycle]]]
  BY DEF UpdateWarmup
<1>2. current \in Pointer \cup {NoPointer}
  BY FetchType
<1>3. current # NoPointer =>
        [current EXCEPT !.warmup = [status |-> status, of |-> warmup[w].cycle]] \in Pointer
  BY <1>2 DEF Pointer, Warmup, Task
<1> QED
  BY <1>1, <1>2, <1>3 DEF TypeOK, Remember

-----------------------------------------------------------------------------
(***************************************************************************)
(* Type correctness.                                                       *)
(***************************************************************************)

LEMMA InitTypeOK == Init => TypeOK
<1> SUFFICES ASSUME Init PROVE TypeOK
  OBVIOUS
<1>1. discovery \in [Workers -> [Callers -> Feed \cup {NoSnapshot}]]
  BY DEF Init, NoDiscovery
<1>2. posted \in Feed
  BY FeedAssumption DEF Init, FeedInit
<1> QED
  BY <1>1, <1>2 DEF Init, TypeOK

LEMMA WorkerTypeOK ==
    ASSUME TypeOK, NEW w \in Workers, WorkerStep(w)
    PROVE  TypeOK'
<1> USE PollerAssumption
<1>1. CASE ExpireMemo(w)
  BY <1>1 DEF TypeOK, ExpireMemo, Remember
<1>2. CASE ReadPointer(w)
  BY <1>2, FetchType DEF TypeOK, ReadPointer, Remember
<1>3. CASE Publish(w)
  <2>1. pending[w] \in Pointer
    BY <1>3 DEF TypeOK, Publish
  <2> QED
    BY <1>3, <2>1 DEF TypeOK, Publish, Remember
<1>4. ASSUME NEW caller \in Callers, StartDiscovery(w, caller)
      PROVE  TypeOK'
  <2>1. [discovery[w] EXCEPT ![caller] = posted] \in [Callers -> Feed \cup {NoSnapshot}]
    BY DEF TypeOK
  <2>2. discovery' = [discovery EXCEPT ![w] = [discovery[w] EXCEPT ![caller] = posted]]
    BY <1>4 DEF StartDiscovery
  <2> QED
    BY <1>4, <2>1, <2>2 DEF TypeOK, StartDiscovery
<1>5. ASSUME NEW caller \in Callers, FindNothing(w, caller)
      PROVE  TypeOK'
  <2>1. PICK pointer \in FetchResults(w) : Remember(w, pointer)
    BY <1>5 DEF FindNothing
  <2>2. pointer \in Pointer \cup {NoPointer}
    BY FetchType
  <2>3. memo' \in [Workers -> Pointer \cup {NoPointer, NoMemo}]
    BY <2>1, <2>2 DEF Remember, TypeOK
  <2>4. DiscoveryOver(w, caller) /\ UNCHANGED <<pending, warmup>>
    BY <1>5 DEF FindNothing
  <2> QED
    BY <2>3, <2>4, OverType DEF TypeOK
<1>6. ASSUME NEW caller \in Callers, PollPublishes(w, caller)
      PROVE  TypeOK'
  <2>1. PICK run \in Found(w, caller) \ {NoRun}, previous \in FetchResults(w),
             asked \in {FALSE, (caller \in Manual)} :
          /\ Remember(w, previous)
          /\ pending' = [pending EXCEPT ![w] =
                           PointerTo(run, CarriedProgress(run, previous))]
          /\ IF WarmupDue(run, previous, asked)
             THEN ScheduleWarmup(w, run.cycle)
             ELSE UNCHANGED warmup
    BY <1>6 DEF PollPublishes
  <2>2. run \in Run
    BY <1>6, FoundCovered DEF PollPublishes
  <2>3. previous \in Pointer \cup {NoPointer}
    BY FetchType
  <2>4. PointerTo(run, CarriedProgress(run, previous)) \in Pointer
    BY <2>2, <2>3, PointerToType, CarriedType
  <2>5. NewTask(run.cycle) \in Task
    BY <2>2 DEF NewTask, Task, Run
  <2>6. warmup' \in [Workers -> Task \cup {NoTask}]
    BY <2>1, <2>5 DEF ScheduleWarmup, TypeOK
  <2>7. memo' \in [Workers -> Pointer \cup {NoPointer, NoMemo}]
    BY <2>1, <2>3 DEF Remember, TypeOK
  <2>8. pending' \in [Workers -> Pointer \cup {NoPointer}]
    BY <2>1, <2>4 DEF TypeOK
  <2>9. DiscoveryOver(w, caller)
    BY <1>6 DEF PollPublishes
  <2> QED
    BY <2>6, <2>7, <2>8, <2>9, OverType DEF TypeOK
<1>7. ASSUME NEW caller \in Callers, LivePublishes(w, caller)
      PROVE  TypeOK'
  <2>1. PICK run \in Found(w, caller) \ {NoRun} :
          pending' = [pending EXCEPT ![w] = PointerTo(run, NoWarmup)]
    BY <1>7 DEF LivePublishes
  <2>2. run \in Run
    BY <1>7, FoundCovered DEF LivePublishes
  <2>3. PointerTo(run, NoWarmup) \in Pointer
    BY <2>2, PointerToType
  <2> QED
    BY <1>7, <2>1, <2>3, OverType DEF LivePublishes, TypeOK
<1>8. CASE WarmupBegins(w)
  <2>1. warmup[w] \in Task
    BY <1>8 DEF WarmupBegins, InStage, TypeOK
  <2>2. /\ memo' \in [Workers -> Pointer \cup {NoPointer, NoMemo}]
        /\ pending' \in [Workers -> Pointer \cup {NoPointer}]
    BY <1>8, <2>1, UpdateType DEF WarmupBegins
  <2>3. PICK stage \in {"rendering", "unbounded"} :
          warmup' = [warmup EXCEPT ![w].stage = stage]
    BY <1>8 DEF WarmupBegins
  <2>4. [warmup[w] EXCEPT !.stage = stage] \in Task
    BY <2>1 DEF Task
  <2> QED
    BY <1>8, <2>2, <2>3, <2>4 DEF WarmupBegins, TypeOK
<1>9. CASE WarmupUnbounded(w)
  <2>1. warmup[w] \in Task
    BY <1>9 DEF WarmupUnbounded, InStage, TypeOK
  <2>2. /\ memo' \in [Workers -> Pointer \cup {NoPointer, NoMemo}]
        /\ pending' \in [Workers -> Pointer \cup {NoPointer}]
    BY <1>9, <2>1, UpdateType DEF WarmupUnbounded
  <2> QED
    BY <1>9, <2>2 DEF WarmupUnbounded, TypeOK
<1>10. CASE TileRendered(w)
  <2>1. warmup[w] \in Task
    BY <1>10 DEF TileRendered, InStage, TypeOK
  <2>2. /\ memo' \in [Workers -> Pointer \cup {NoPointer, NoMemo}]
        /\ pending' \in [Workers -> Pointer \cup {NoPointer}]
    <3>1. \/ \E status \in {"running", "done"} : UpdateWarmup(w, status)
          \/ UNCHANGED <<memo, pending>>
      BY <1>10 DEF TileRendered
    <3>2. CASE \E status \in {"running", "done"} : UpdateWarmup(w, status)
      BY <3>2, <2>1, UpdateType
    <3>3. CASE UNCHANGED <<memo, pending>>
      BY <3>3 DEF TypeOK
    <3> QED
      BY <3>1, <3>2, <3>3
  <2>3. [warmup[w] EXCEPT !.good = @ + 1] \in Task
    BY <1>10, <2>1 DEF TileRendered, Task, Finished
  <2>4. warmup[w].cycle \in Cycles
    BY <2>1 DEF Task
  <2> QED
    BY <1>10, <2>2, <2>3, <2>4 DEF TileRendered, TypeOK
<1>11. CASE TileFailed(w)
  <2>1. warmup[w] \in Task
    BY <1>11 DEF TileFailed, InStage, TypeOK
  <2>2. [warmup[w] EXCEPT !.bad = @ + 1] \in Task
    BY <1>11, <2>1 DEF TileFailed, Task, Finished
  <2> QED
    BY <1>11, <2>2 DEF TileFailed, TypeOK
<1>12. CASE WarmupEnds(w)
  <2>1. warmup[w] \in Task
    BY <1>12 DEF WarmupEnds, InStage, TypeOK
  <2>2. FinalStatus(warmup[w]) \in {"running", "done", "failed"}
    BY DEF FinalStatus
  <2>3. /\ memo' \in [Workers -> Pointer \cup {NoPointer, NoMemo}]
        /\ pending' \in [Workers -> Pointer \cup {NoPointer}]
    BY <1>12, <2>1, <2>2, UpdateType DEF WarmupEnds
  <2> QED
    BY <1>12, <2>3 DEF WarmupEnds, TypeOK
<1>13. CASE Boot(w)
  <2>1. FirstPolls(w) \subseteq OneShots \cap Callers
    BY DEF FirstPolls, OneShots
  <2> QED
    BY <1>13, <2>1 DEF Boot, TypeOK
<1>14. CASE Crash(w)
  BY <1>14 DEF Crash, NoDiscovery, TypeOK
<1> QED
  BY <1>1, <1>2, <1>3, <1>4, <1>5, <1>6, <1>7, <1>8, <1>9, <1>10, <1>11,
     <1>12, <1>13, <1>14 DEF WorkerStep

LEMMA NextTypeOK == TypeOK /\ [Next]_vars => TypeOK'
<1> SUFFICES ASSUME TypeOK, [Next]_vars PROVE TypeOK'
  OBVIOUS
<1>1. ASSUME NEW c \in Cycles, NEW h \in Hours, NoaaPosts(c, h)
      PROVE  TypeOK'
  <2>1. posted' \in Feed
    BY <1>1 DEF NoaaPosts, PostHour, TypeOK, Feed
  <2> QED
    BY <1>1, <2>1 DEF NoaaPosts, TypeOK
<1>2. ASSUME NEW w \in Workers, WorkerStep(w)
      PROVE  TypeOK'
  BY <1>2, WorkerTypeOK
<1>3. CASE UNCHANGED vars
  BY <1>3 DEF vars, TypeOK
<1> QED
  BY <1>1, <1>2, <1>3 DEF Next

\* The variables of the fleet keep their types: in particular every pointer
\* that reaches the shared cache is a well-formed record, and a warm-up never
\* counts more tiles than it has.
THEOREM TypeCorrect == Spec => []TypeOK
<1>1. Init => TypeOK
  BY InitTypeOK
<1>2. TypeOK /\ [Next]_vars => TypeOK'
  BY NextTypeOK
<1> QED
  BY <1>1, <1>2, PTL DEF Spec

-----------------------------------------------------------------------------
(***************************************************************************)
(* Where the copies of the pointer come from.                              *)
(***************************************************************************)

\* A task that cached a tile did so for its cycle.
GoodIsRendered ==
    \A w \in Workers :
        warmup[w] # NoTask /\ warmup[w].good > 0 => warmup[w].cycle \in rendered

\* p was made from the result of a discovery, and carries the progress of a
\* copy of the pointer to the same cycle, or none.
MadeFromRun(p) ==
    \E run \in Run, progress \in Warmup \cup {NoWarmup} :
        /\ run.hours # {}
        /\ run.hours \subseteq posted[run.cycle]
        /\ p = PointerTo(run, progress)
        /\ progress # NoWarmup => \E q \in Copies : q.warmup = progress

\* p is a copy of the pointer on which a task has put its progress.
MadeByUpdate(p) ==
    \E q \in Copies, w \in Workers, status \in {"running", "done", "failed"} :
        /\ warmup[w] \in Task
        /\ p = [q EXCEPT !.warmup = [status |-> status, of |-> warmup[w].cycle]]
        /\ status = "done" => warmup[w].cycle \in rendered'

Accounted(p) == p \in Copies \/ MadeFromRun(p) \/ MadeByUpdate(p)

\* Copies are pointers.
LEMMA CopiesType == TypeOK => Copies \subseteq Pointer
BY PollerAssumption DEF TypeOK, Copies

\* A pointer that a process fetches is a copy.
LEMMA FetchedIsCopy ==
    ASSUME TypeOK, NEW w \in Workers, NEW p \in FetchResults(w), p # NoPointer
    PROVE  p \in Copies
BY PollerAssumption DEF TypeOK, FetchResults, Copies

\* Attaching progress makes no copy that is not accounted for.
LEMMA UpdateAccounts ==
    ASSUME TypeOK, NEW w \in Workers, warmup[w] \in Task,
           NEW status \in {"running", "done", "failed"}, UpdateWarmup(w, status),
           status = "done" => warmup[w].cycle \in rendered',
           UNCHANGED shared, NEW p \in Copies'
    PROVE  Accounted(p)
<1>1. PICK current \in FetchResults(w) :
        /\ memo' = [memo EXCEPT ![w] = current]
        /\ pending' = IF current = NoPointer THEN pending
                      ELSE [pending EXCEPT ![w] =
                              [current EXCEPT !.warmup =
                                 [status |-> status, of |-> warmup[w].cycle]]]
  BY DEF UpdateWarmup, Remember
<1> DEFINE new == [current EXCEPT !.warmup = [status |-> status, of |-> warmup[w].cycle]]
<1>2. current # NoPointer => current \in Copies
  BY FetchedIsCopy
<1>3. \/ p \in Copies
      \/ current # NoPointer /\ (p = current \/ p = new)
  BY <1>1 DEF Copies, TypeOK
<1>4. current # NoPointer => MadeByUpdate(new)
  BY <1>2 DEF MadeByUpdate
<1> QED
  BY <1>2, <1>3, <1>4 DEF Accounted

\* The only steps that make a new copy of the pointer are those that publish
\* the result of a discovery, or the progress of a warm-up.
LEMMA CopiesAccounted ==
    ASSUME TypeOK, GoodIsRendered, NEW w \in Workers, WorkerStep(w), NEW p \in Copies'
    PROVE  Accounted(p)
<1>1. CASE ExpireMemo(w)
  BY <1>1 DEF TypeOK, ExpireMemo, Remember, Copies, Accounted
<1>2. CASE ReadPointer(w)
  <2>1. PICK pointer \in FetchResults(w) : memo' = [memo EXCEPT ![w] = pointer]
    BY <1>2 DEF ReadPointer, Remember
  <2>2. p \in Copies \/ (p = pointer /\ p # NoPointer)
    BY <1>2, <2>1 DEF ReadPointer, Copies, TypeOK
  <2> QED
    BY <2>2, FetchedIsCopy DEF Accounted
<1>3. CASE Publish(w)
  BY <1>3 DEF TypeOK, Publish, Remember, Copies, Accounted
<1>4. ASSUME NEW caller \in Callers, StartDiscovery(w, caller)
      PROVE  Accounted(p)
  BY <1>4 DEF StartDiscovery, Copies, Accounted
<1>5. ASSUME NEW caller \in Callers, FindNothing(w, caller)
      PROVE  Accounted(p)
  <2>1. PICK pointer \in FetchResults(w) : memo' = [memo EXCEPT ![w] = pointer]
    BY <1>5 DEF FindNothing, Remember
  <2>2. UNCHANGED <<shared, pending>>
    BY <1>5 DEF FindNothing, DiscoveryOver
  <2>3. p \in Copies \/ (p = pointer /\ p # NoPointer)
    BY <2>1, <2>2 DEF Copies, TypeOK
  <2> QED
    BY <2>3, FetchedIsCopy DEF Accounted
<1>6. ASSUME NEW caller \in Callers, PollPublishes(w, caller)
      PROVE  Accounted(p)
  <2>1. PICK run \in Found(w, caller) \ {NoRun}, previous \in FetchResults(w) :
          /\ memo' = [memo EXCEPT ![w] = previous]
          /\ pending' = [pending EXCEPT ![w] =
                           PointerTo(run, CarriedProgress(run, previous))]
    BY <1>6 DEF PollPublishes, Remember
  <2> DEFINE progress == CarriedProgress(run, previous)
             new == PointerTo(run, progress)
  <2>2. /\ run \in Run
        /\ run.hours # {}
        /\ run.hours \subseteq posted[run.cycle]
    BY <1>6, FoundCovered DEF PollPublishes
  <2>3. previous \in Pointer \cup {NoPointer}
    BY FetchType
  <2>4. progress \in Warmup \cup {NoWarmup}
    BY <2>2, <2>3, CarriedType
  <2>5. previous # NoPointer => previous \in Copies
    BY FetchedIsCopy
  <2>6. progress # NoWarmup => previous # NoPointer /\ previous.warmup = progress
    BY DEF CarriedProgress, SameCycle
  <2>7. MadeFromRun(new)
    BY <2>2, <2>4, <2>5, <2>6 DEF MadeFromRun
  <2>8. UNCHANGED shared
    BY <1>6 DEF PollPublishes, DiscoveryOver
  <2>9. p \in Copies \/ (p = previous /\ p # NoPointer) \/ p = new
    BY <2>1, <2>8 DEF Copies, TypeOK
  <2> QED
    BY <2>5, <2>7, <2>9 DEF Accounted
<1>7. ASSUME NEW caller \in Callers, LivePublishes(w, caller)
      PROVE  Accounted(p)
  <2>1. PICK run \in Found(w, caller) \ {NoRun} :
          pending' = [pending EXCEPT ![w] = PointerTo(run, NoWarmup)]
    BY <1>7 DEF LivePublishes
  <2>2. /\ run \in Run
        /\ run.hours # {}
        /\ run.hours \subseteq posted[run.cycle]
    BY <1>7, FoundCovered DEF LivePublishes
  <2>3. MadeFromRun(PointerTo(run, NoWarmup))
    BY <2>2 DEF MadeFromRun
  <2>4. UNCHANGED <<shared, memo>>
    BY <1>7 DEF LivePublishes, DiscoveryOver
  <2>5. p \in Copies \/ p = PointerTo(run, NoWarmup)
    BY <2>1, <2>4 DEF Copies, TypeOK
  <2> QED
    BY <2>3, <2>5 DEF Accounted
<1>8. CASE WarmupBegins(w)
  <2>1. warmup[w] \in Task /\ UNCHANGED shared
    BY <1>8 DEF WarmupBegins, InStage, TypeOK
  <2> QED
    BY <1>8, <2>1, UpdateAccounts DEF WarmupBegins
<1>9. CASE WarmupUnbounded(w)
  <2>1. warmup[w] \in Task /\ UNCHANGED shared
    BY <1>9 DEF WarmupUnbounded, InStage, TypeOK
  <2> QED
    BY <1>9, <2>1, UpdateAccounts DEF WarmupUnbounded
<1>10. CASE TileRendered(w)
  <2>1. warmup[w] \in Task /\ UNCHANGED shared /\ warmup[w].cycle \in rendered'
    BY <1>10 DEF TileRendered, InStage, TypeOK
  <2>2. \/ \E status \in {"running", "done"} : UpdateWarmup(w, status)
        \/ UNCHANGED <<memo, pending>>
    BY <1>10 DEF TileRendered
  <2>3. CASE \E status \in {"running", "done"} : UpdateWarmup(w, status)
    BY <2>1, <2>3, UpdateAccounts
  <2>4. CASE UNCHANGED <<memo, pending>>
    BY <2>1, <2>4 DEF Copies, Accounted
  <2> QED
    BY <2>2, <2>3, <2>4
<1>11. CASE TileFailed(w)
  BY <1>11 DEF TileFailed, Copies, Accounted
<1>12. CASE WarmupEnds(w)
  <2>1. /\ warmup[w] \in Task /\ warmup[w] # NoTask
        /\ UNCHANGED <<shared, rendered>>
        /\ Finished(warmup[w]) = Tiles
        /\ UpdateWarmup(w, FinalStatus(warmup[w]))
    BY <1>12 DEF WarmupEnds, InStage, TypeOK
  <2>2. FinalStatus(warmup[w]) = "done" => warmup[w].good > 0
    BY <2>1, PollerAssumption DEF FinalStatus, Finished, Task
  <2>3. FinalStatus(warmup[w]) = "done" => warmup[w].cycle \in rendered'
    BY <2>1, <2>2 DEF GoodIsRendered
  <2>4. FinalStatus(warmup[w]) \in {"running", "done", "failed"}
    BY DEF FinalStatus
  <2> QED
    BY <2>1, <2>3, <2>4, UpdateAccounts
<1>13. CASE Boot(w)
  BY <1>13 DEF Boot, Copies, Accounted
<1>14. CASE Crash(w)
  BY <1>14 DEF Crash, TypeOK, Copies, Accounted
<1> QED
  BY <1>1, <1>2, <1>3, <1>4, <1>5, <1>6, <1>7, <1>8, <1>9, <1>10, <1>11,
     <1>12, <1>13, <1>14 DEF WorkerStep

\* The bucket only grows, the tile cache too, and progress of a task is kept.
LEMMA PostedGrows ==
    ASSUME TypeOK, [Next]_vars
    PROVE  /\ \A c \in Cycles : posted[c] \subseteq posted'[c]
           /\ rendered \subseteq rendered'
<1>1. ASSUME NEW c \in Cycles, NEW h \in Hours, NoaaPosts(c, h)
      PROVE  /\ \A d \in Cycles : posted[d] \subseteq posted'[d]
             /\ rendered \subseteq rendered'
  BY <1>1 DEF NoaaPosts, PostHour, TypeOK, Feed
<1>2. ASSUME NEW w \in Workers, WorkerStep(w)
      PROVE  UNCHANGED posted /\ rendered \subseteq rendered'
  BY <1>2 DEF WorkerStep, ExpireMemo, ReadPointer, Publish, StartDiscovery, FindNothing,
       PollPublishes, LivePublishes, DiscoveryOver, WarmupBegins, WarmupUnbounded,
       TileRendered, TileFailed, WarmupEnds, Boot, Crash
<1> QED
  BY <1>1, <1>2 DEF Next, vars

\* Steps that are not a worker's leave the copies alone.
LEMMA OtherSteps ==
    ASSUME TypeOK, [Next]_vars, ~ \E w \in Workers : WorkerStep(w)
    PROVE  UNCHANGED <<shared, memo, pending, discovery, warmup, rendered, owner, up, due>>
BY DEF Next, NoaaPosts, vars

\* Every copy after a step is accounted for.
LEMMA NextAccounts ==
    ASSUME TypeOK, GoodIsRendered, [Next]_vars, NEW p \in Copies'
    PROVE  Accounted(p)
<1>1. ASSUME NEW w \in Workers, WorkerStep(w)
      PROVE  Accounted(p)
  BY <1>1, CopiesAccounted
<1>2. CASE ~ \E w \in Workers : WorkerStep(w)
  BY <1>2, OtherSteps DEF Copies, Accounted
<1> QED
  BY <1>1, <1>2

-----------------------------------------------------------------------------
(***************************************************************************)
(* The pointer tells the truth.                                            *)
(***************************************************************************)

LEMMA NextGoodIsRendered ==
    ASSUME TypeOK, GoodIsRendered, [Next]_vars
    PROVE  GoodIsRendered'
<1> SUFFICES ASSUME NEW v \in Workers, warmup'[v] # NoTask, warmup'[v].good > 0
             PROVE  warmup'[v].cycle \in rendered'
  BY DEF GoodIsRendered
<1>1. rendered \subseteq rendered'
  BY PostedGrows
<1>2. CASE warmup'[v] = warmup[v]
  BY <1>1, <1>2 DEF GoodIsRendered
<1>3. CASE warmup'[v] # warmup[v]
  <2>1. PICK w \in Workers : WorkerStep(w)
    BY <1>3, OtherSteps
  <2>2. ASSUME NEW caller \in Callers, PollPublishes(w, caller)
        PROVE  FALSE
    <3>1. PICK run \in Found(w, caller) \ {NoRun} :
            \/ ScheduleWarmup(w, run.cycle)
            \/ UNCHANGED warmup
      BY <2>2 DEF PollPublishes
    <3>2. v = w /\ warmup'[v] = NewTask(run.cycle)
      BY <1>3, <3>1 DEF ScheduleWarmup, TypeOK
    <3> QED
      BY <3>2 DEF NewTask
  <2>3. CASE WarmupBegins(w)
    <3>1. v = w /\ warmup[w] # NoTask /\ warmup[w] \in Task
      BY <1>3, <2>3 DEF WarmupBegins, InStage, TypeOK
    <3>2. warmup'[v].good = warmup[v].good /\ warmup'[v].cycle = warmup[v].cycle
      BY <2>3, <3>1 DEF WarmupBegins, TypeOK, Task
    <3> QED
      BY <1>1, <3>1, <3>2 DEF GoodIsRendered
  <2>4. CASE TileRendered(w)
    <3>1. v = w /\ warmup[w] \in Task
      BY <1>3, <2>4 DEF TileRendered, InStage, TypeOK
    <3>2. warmup'[v].cycle = warmup[v].cycle
      BY <2>4, <3>1 DEF TileRendered, TypeOK, Task
    <3> QED
      BY <2>4, <3>1, <3>2 DEF TileRendered
  <2>5. CASE TileFailed(w)
    <3>1. v = w /\ warmup[w] # NoTask /\ warmup[w] \in Task
      BY <1>3, <2>5 DEF TileFailed, InStage, TypeOK
    <3>2. warmup'[v].good = warmup[v].good /\ warmup'[v].cycle = warmup[v].cycle
      BY <2>5, <3>1 DEF TileFailed, TypeOK, Task
    <3> QED
      BY <1>1, <3>1, <3>2 DEF GoodIsRendered
  <2>6. CASE WarmupUnbounded(w) \/ WarmupEnds(w) \/ Crash(w)
    BY <1>3, <2>6 DEF WarmupUnbounded, WarmupEnds, Crash, TypeOK
  <2>7. CASE UNCHANGED warmup
    BY <1>3, <2>7
  <2>8. \/ \E caller \in Callers : PollPublishes(w, caller)
        \/ WarmupBegins(w) \/ TileRendered(w) \/ TileFailed(w)
        \/ WarmupUnbounded(w) \/ WarmupEnds(w) \/ Crash(w)
        \/ UNCHANGED warmup
    BY <2>1 DEF WorkerStep, ExpireMemo, ReadPointer, Publish, StartDiscovery,
         FindNothing, LivePublishes, Boot
  <2> QED
    BY <2>2, <2>3, <2>4, <2>5, <2>6, <2>7, <2>8
<1> QED
  BY <1>2, <1>3

LEMMA NextTruthful ==
    ASSUME TypeOK, GoodIsRendered, PointerTruthful, [Next]_vars
    PROVE  PointerTruthful'
<1> SUFFICES ASSUME NEW p \in Copies'
             PROVE  /\ p.hours # {}
                    /\ p.hours \subseteq posted'[p.cycle]
                    /\ p.complete <=> Window \subseteq p.hours
  BY DEF PointerTruthful
<1>1. Accounted(p)
  BY NextAccounts
<1>2. \A c \in Cycles : posted[c] \subseteq posted'[c]
  BY PostedGrows
<1>3. \A q \in Copies : q.cycle \in Cycles
  BY CopiesType DEF Pointer
<1>4. CASE p \in Copies
  BY <1>2, <1>3, <1>4 DEF PointerTruthful
<1>5. CASE MadeFromRun(p)
  <2>1. PICK run \in Run, progress \in Warmup \cup {NoWarmup} :
          /\ run.hours # {}
          /\ run.hours \subseteq posted[run.cycle]
          /\ p = PointerTo(run, progress)
    BY <1>5 DEF MadeFromRun
  <2>2. /\ p.cycle = run.cycle /\ p.hours = run.hours
        /\ p.complete = (Window \subseteq run.hours)
    BY <2>1 DEF PointerTo, IsComplete
  <2>3. run.cycle \in Cycles
    BY DEF Run
  <2> QED
    BY <1>2, <2>1, <2>2, <2>3
<1>6. CASE MadeByUpdate(p)
  <2>1. PICK q \in Copies :
          p.hours = q.hours /\ p.cycle = q.cycle /\ p.complete = q.complete
    BY <1>6, CopiesType DEF MadeByUpdate, Pointer
  <2> QED
    BY <1>2, <1>3, <2>1 DEF PointerTruthful
<1> QED
  BY <1>1, <1>4, <1>5, <1>6 DEF Accounted

LEMMA NextDone ==
    ASSUME TypeOK, GoodIsRendered, DoneMeansRendered, [Next]_vars
    PROVE  DoneMeansRendered'
<1> SUFFICES ASSUME NEW p \in Copies', p.warmup # NoWarmup, p.warmup.status = "done"
             PROVE  p.warmup.of \in rendered'
  BY DEF DoneMeansRendered
<1>1. Accounted(p)
  BY NextAccounts
<1>2. rendered \subseteq rendered'
  BY PostedGrows
<1>3. CASE p \in Copies
  BY <1>2, <1>3 DEF DoneMeansRendered
<1>4. CASE MadeFromRun(p)
  <2>1. PICK q \in Copies : q.warmup = p.warmup
    BY <1>4 DEF MadeFromRun, PointerTo
  <2> QED
    BY <1>2, <2>1 DEF DoneMeansRendered
<1>5. CASE MadeByUpdate(p)
  <2>1. PICK q \in Copies, w \in Workers, status \in {"running", "done", "failed"} :
          /\ p = [q EXCEPT !.warmup = [status |-> status, of |-> warmup[w].cycle]]
          /\ status = "done" => warmup[w].cycle \in rendered'
    BY <1>5 DEF MadeByUpdate
  <2>2. p.warmup = [status |-> status, of |-> warmup[w].cycle]
    BY <2>1, CopiesType DEF Pointer
  <2> QED
    BY <2>1, <2>2
<1> QED
  BY <1>1, <1>3, <1>4, <1>5 DEF Accounted

\* A task is only started for a complete run, whose hours the bucket has.
LEMMA NextWindow ==
    ASSUME TypeOK, WarmupHasItsWindow, [Next]_vars
    PROVE  WarmupHasItsWindow'
<1> SUFFICES ASSUME NEW v \in Workers, warmup'[v] # NoTask
             PROVE  Window \subseteq posted'[warmup'[v].cycle]
  BY DEF WarmupHasItsWindow
<1>1. \A c \in Cycles : posted[c] \subseteq posted'[c]
  BY PostedGrows
<1>2. CASE warmup[v] # NoTask /\ warmup'[v].cycle = warmup[v].cycle
  <2>1. warmup[v].cycle \in Cycles
    BY <1>2 DEF TypeOK, Task
  <2> QED
    BY <1>1, <1>2, <2>1 DEF WarmupHasItsWindow
<1>3. CASE ~(warmup[v] # NoTask /\ warmup'[v].cycle = warmup[v].cycle)
  <2>1. PICK w \in Workers : WorkerStep(w)
    BY <1>3, OtherSteps
  <2>2. ASSUME NEW caller \in Callers, PollPublishes(w, caller)
        PROVE  Window \subseteq posted'[warmup'[v].cycle]
    <3>1. PICK run \in Found(w, caller) \ {NoRun}, previous \in FetchResults(w),
               asked \in {FALSE, (caller \in Manual)} :
            IF WarmupDue(run, previous, asked)
            THEN ScheduleWarmup(w, run.cycle)
            ELSE UNCHANGED warmup
      BY <2>2 DEF PollPublishes
    <3>2. warmup'[v] = NewTask(run.cycle) /\ WarmupDue(run, previous, asked)
      BY <1>3, <3>1 DEF ScheduleWarmup, TypeOK
    <3>3. run \in Run /\ run.hours \subseteq posted[run.cycle]
      BY <2>2, FoundCovered DEF PollPublishes
    <3>4. Window \subseteq run.hours
      BY <3>2 DEF WarmupDue, IsComplete
    <3> QED
      BY <1>1, <3>2, <3>3, <3>4 DEF NewTask, Run
  <2>3. CASE WarmupBegins(w)
    BY <1>3, <2>3 DEF WarmupBegins, InStage, TypeOK, Task
  <2>4. CASE TileRendered(w)
    BY <1>3, <2>4 DEF TileRendered, InStage, TypeOK, Task
  <2>5. CASE TileFailed(w)
    BY <1>3, <2>5 DEF TileFailed, InStage, TypeOK, Task
  <2>6. CASE WarmupUnbounded(w) \/ WarmupEnds(w) \/ Crash(w)
    BY <1>3, <2>6 DEF WarmupUnbounded, WarmupEnds, Crash, TypeOK
  <2>7. CASE UNCHANGED warmup
    BY <1>3, <2>7
  <2>8. \/ \E caller \in Callers : PollPublishes(w, caller)
        \/ WarmupBegins(w) \/ TileRendered(w) \/ TileFailed(w)
        \/ WarmupUnbounded(w) \/ WarmupEnds(w) \/ Crash(w)
        \/ UNCHANGED warmup
    BY <2>1 DEF WorkerStep, ExpireMemo, ReadPointer, Publish, StartDiscovery,
         FindNothing, LivePublishes, Boot
  <2> QED
    BY <2>2, <2>3, <2>4, <2>5, <2>6, <2>7, <2>8
<1> QED
  BY <1>2, <1>3

\* The inductive invariant: a copy of the pointer is only as good as the copies
\* and the tasks it is made from.
PollerInv ==
    /\ TypeOK
    /\ GoodIsRendered
    /\ PointerTruthful
    /\ WarmupHasItsWindow
    /\ DoneMeansRendered

THEOREM PollerInvariant == Spec => []PollerInv
<1>1. Init => PollerInv
  <2> SUFFICES ASSUME Init PROVE PollerInv
    OBVIOUS
  <2>1. TypeOK
    BY InitTypeOK
  <2>2. Copies = {}
    BY DEF Init, Copies
  <2>3. \A w \in Workers : warmup[w] = NoTask
    BY DEF Init
  <2> QED
    BY <2>1, <2>2, <2>3
    DEF PollerInv, GoodIsRendered, PointerTruthful, WarmupHasItsWindow, DoneMeansRendered
<1>2. PollerInv /\ [Next]_vars => PollerInv'
  BY NextTypeOK, NextGoodIsRendered, NextTruthful, NextWindow, NextDone DEF PollerInv
<1> QED
  BY <1>1, <1>2, PTL DEF Spec

\* No copy of the pointer ever advertises a forecast hour that NOAA has not
\* posted, or calls a cycle complete that is not.
THEOREM PointerIsTruthful == Spec => []PointerTruthful
BY PollerInvariant, PTL DEF PollerInv

\* Root tiles are only warmed for a cycle whose core window is in the bucket.
THEOREM WarmupsHaveTheirWindow == Spec => []WarmupHasItsWindow
BY PollerInvariant, PTL DEF PollerInv

\* A pointer says "done" only of a cycle with at least one cached root tile.
THEOREM DoneIsRendered == Spec => []DoneMeansRendered
BY PollerInvariant, PTL DEF PollerInv

-----------------------------------------------------------------------------
(***************************************************************************)
(* The lock.                                                               *)
(***************************************************************************)

\* Who polls by itself, or warms tiles, or is about to, holds the lock.
BackgroundHasLock ==
    \A w \in Workers : InBackground(w) \/ due[w] # {} => owner = w

\* Unless somebody polls by hand at most one process of the machine runs background
\* work: a tick, the startup job, the immediate poll of the daemon, or a warm-up, which
\* outlives the poll that started it; through every crash and restart.
THEOREM OneProcessPolls ==
    ASSUME Callers \cap Manual = {}
    PROVE  Spec => []PollerIsAlone
<1> DEFINE Inv == TypeOK /\ BackgroundHasLock
<1>1. Init => Inv
  BY InitTypeOK DEF Init, NoDiscovery, BackgroundHasLock, InBackground
<1>2. Inv /\ [Next]_vars => Inv'
  <2> SUFFICES ASSUME Inv, [Next]_vars PROVE BackgroundHasLock'
    BY NextTypeOK
  <2>1. CASE ~ \E w \in Workers : WorkerStep(w)
    BY <2>1, OtherSteps DEF BackgroundHasLock, InBackground
  <2>2. ASSUME NEW w \in Workers, WorkerStep(w)
        PROVE  BackgroundHasLock'
    <3>1. CASE Crash(w)
      <4>1. ~InBackground(w)' /\ due'[w] = {}
        BY <3>1 DEF Crash, NoDiscovery, InBackground, TypeOK
      <4>2. ASSUME NEW v \in Workers, v # w, InBackground(v)' \/ due'[v] # {}
            PROVE  owner' = v
        BY <3>1, <4>2 DEF Crash, BackgroundHasLock, InBackground, TypeOK
      <4> QED
        BY <4>1, <4>2 DEF BackgroundHasLock
    <3>2. CASE Boot(w)
      <4>1. CASE owner = NoWorker
        <5>1. \A v \in Workers : ~InBackground(v) /\ due[v] = {}
          BY <4>1, PollerAssumption DEF BackgroundHasLock
        <5>2. \A v \in Workers : ~InBackground(v)' /\ (v # w => due'[v] = {})
          BY <3>2, <4>1, <5>1 DEF Boot, InBackground, TypeOK
        <5> QED
          BY <3>2, <4>1, <5>2 DEF Boot, BackgroundHasLock
      <4>2. CASE owner # NoWorker
        BY <3>2, <4>2 DEF Boot, BackgroundHasLock, InBackground
      <4> QED
        BY <4>1, <4>2
    <3>3. ASSUME NEW caller \in Callers, StartDiscovery(w, caller)
          PROVE  BackgroundHasLock'
      <4>1. \A v \in Workers, k \in Callers :
              discovery'[v][k] = discovery[v][k] \/ (v = w /\ k = caller)
        BY <3>3 DEF StartDiscovery, TypeOK
      <4>2. caller \in Automatic => owner = w
        <5>1. caller \in OneShots => caller \in due[w]
          BY <3>3 DEF StartDiscovery, MayDiscover, OneShots, Tick, Startup, Immediate
        <5>2. caller = Tick => owner = w
          BY <3>3 DEF StartDiscovery, MayDiscover, OneShots, Tick, Startup, Immediate
        <5> QED
          BY <5>1, <5>2 DEF Automatic, BackgroundHasLock
      <4>3. UNCHANGED <<warmup, owner>> /\ \A v \in Workers : due'[v] \subseteq due[v]
        BY <3>3 DEF StartDiscovery, TypeOK
      <4> QED
        BY <4>1, <4>2, <4>3 DEF BackgroundHasLock, InBackground
    <3>4. ASSUME \A v \in Workers, k \in Callers : discovery'[v][k] \in {discovery[v][k], NoSnapshot},
                 \A v \in Workers : warmup[v] = NoTask => warmup'[v] = NoTask,
                 UNCHANGED <<owner, due>>
          PROVE  BackgroundHasLock'
      BY <3>4 DEF BackgroundHasLock, InBackground
    <3>5. ASSUME NEW caller \in Callers, DiscoveryOver(w, caller)
          PROVE  /\ \A v \in Workers, k \in Callers :
                      discovery'[v][k] \in {discovery[v][k], NoSnapshot}
                 /\ UNCHANGED <<owner, due>>
      BY <3>5 DEF DiscoveryOver, TypeOK
    <3>6. ASSUME NEW caller \in Callers, FindNothing(w, caller) \/ LivePublishes(w, caller)
          PROVE  BackgroundHasLock'
      BY <3>4, <3>5, <3>6 DEF FindNothing, LivePublishes
    <3>7. ASSUME NEW caller \in Callers, PollPublishes(w, caller)
          PROVE  BackgroundHasLock'
      <4>1. caller \in Automatic /\ discovery[w][caller] # NoSnapshot
        BY <3>7, PollerAssumption DEF PollPublishes, DiscoveryOver
      <4>2. owner = w
        BY <4>1 DEF BackgroundHasLock, InBackground
      <4>3. \A v \in Workers : v # w => warmup'[v] = warmup[v]
        BY <3>7 DEF PollPublishes, ScheduleWarmup, TypeOK
      <4>4. DiscoveryOver(w, caller)
        BY <3>7 DEF PollPublishes
      <4> QED
        BY <3>5, <4>2, <4>3, <4>4 DEF BackgroundHasLock, InBackground
    <3>8. CASE \/ WarmupBegins(w) \/ WarmupUnbounded(w) \/ TileRendered(w) \/ TileFailed(w)
               \/ WarmupEnds(w)
      BY <3>4, <3>8 DEF WarmupBegins, WarmupUnbounded, TileRendered, TileFailed, WarmupEnds,
           InStage, TypeOK
    <3>9. CASE ExpireMemo(w) \/ ReadPointer(w) \/ Publish(w)
      BY <3>4, <3>9 DEF ExpireMemo, ReadPointer, Publish
    <3> QED
      BY <2>2, <3>1, <3>2, <3>3, <3>6, <3>7, <3>8, <3>9 DEF WorkerStep
  <2> QED
    BY <2>1, <2>2
<1>3. Inv => PollerIsAlone
  BY DEF BackgroundHasLock, PollerIsAlone
<1> QED
  BY <1>1, <1>2, <1>3, PTL DEF Spec

-----------------------------------------------------------------------------
(***************************************************************************)
(* What the pointer has caught up with.                                    *)
(***************************************************************************)

\* The types are kept also by the pause in which the liveness properties are stated.
LEMMA TypeStep == TypeOK /\ [Next \/ Settle]_vars => TypeOK'
<1>1. TypeOK /\ Settle => TypeOK'
  BY DEF Settle, TypeOK
<1> QED
  BY <1>1, NextTypeOK

\* A pointer that a worker fetches tells of every run that the pointer has caught up with.
LEMMA FetchedIsCaughtUp ==
    ASSUME TypeOK, NEW run \in Run, CaughtUp(run),
           NEW w \in Workers, NEW p \in FetchResults(w), p # NoPointer
    PROVE  AtLeast(p, run)
BY PollerAssumption DEF TypeOK, FetchResults, CaughtUp

\* A discovery whose probes do not fail reports a run that is at least any run that was
\* to be seen when it began.
LEMMA FoundIsAtLeast ==
    ASSUME TypeOK, ~Possible("probe"), NEW seen \in Run,
           NEW w \in Workers, NEW caller \in Callers,
           discovery[w][caller] \in Feed, Shows(discovery[w][caller], seen),
           NEW run \in Found(w, caller) \ {NoRun}, NEW progress
    PROVE  AtLeast(PointerTo(run, progress), seen)
<1> DEFINE before == discovery[w][caller]
<1>1. /\ run \in Run /\ before[run.cycle] \subseteq run.hours
      /\ \A d \in Cycles : d > run.cycle => 1 \notin before[d]
  <2>1. run \in Discoveries(before, posted, FALSE) \ {NoRun}
    BY DEF Found, Possible
  <2> HIDE DEF before
  <2> QED
    BY <2>1, FeedAssumption DEF Discoveries, PassedOver
<1>2. 1 \in before[seen.cycle] /\ seen.hours \subseteq before[seen.cycle]
  BY DEF Shows
<1> HIDE DEF before
<1>3. seen.cycle \in Cycles /\ run.cycle \in Cycles /\ Cycles \subseteq Nat
  BY <1>1, FeedAssumption DEF Run
<1>4. ~(seen.cycle > run.cycle)
  BY <1>1, <1>2, <1>3
<1>5. run.cycle > seen.cycle \/ run.cycle = seen.cycle
  <2>1. seen.cycle \in Nat /\ run.cycle \in Nat
    BY <1>3
  <2> QED
    BY <1>4, <2>1
<1>6. run.cycle = seen.cycle => seen.hours \subseteq run.hours
  BY <1>1, <1>2
<1> QED
  BY <1>5, <1>6 DEF AtLeast, PointerTo

\* A step that writes nothing but what tells of the run, and whose snapshots show it.
LEMMA StillCaughtUp ==
    ASSUME TypeOK, NEW run \in Run, CaughtUp(run), Shows(posted', run),
           shared' = shared \/ \E w \in Workers : pending[w] # NoPointer /\ shared' = pending[w],
           \A w \in Workers :
               /\ \/ memo'[w] \in {memo[w], pending[w], NoMemo, NoPointer}
                  \/ memo'[w] \in FetchResults(w)
               /\ pending'[w] \in {pending[w], NoPointer} \/ AtLeast(pending'[w], run)
               /\ \A caller \in Callers :
                    discovery'[w][caller] \in {discovery[w][caller], NoSnapshot, posted}
    PROVE  CaughtUp(run)'
<1>1. shared' # NoPointer /\ AtLeast(shared', run)
  BY DEF CaughtUp
<1>2. ASSUME NEW w \in Workers, memo'[w] \notin {NoPointer, NoMemo}
      PROVE  AtLeast(memo'[w], run)
  BY <1>2, FetchedIsCaughtUp DEF CaughtUp
<1>3. ASSUME NEW w \in Workers, pending'[w] # NoPointer
      PROVE  AtLeast(pending'[w], run)
  BY <1>3 DEF CaughtUp
<1>4. ASSUME NEW w \in Workers, NEW caller \in Callers, discovery'[w][caller] # NoSnapshot
      PROVE  Shows(discovery'[w][caller], run)
  BY <1>4 DEF CaughtUp
<1>5. /\ Shows(posted, run)' = Shows(posted', run)
      /\ AtLeast(shared, run)' = AtLeast(shared', run)
      /\ \A w \in Workers : /\ AtLeast(memo[w], run)' = AtLeast(memo'[w], run)
                            /\ AtLeast(pending[w], run)' = AtLeast(pending'[w], run)
                            /\ \A caller \in Callers : Shows(discovery[w][caller], run)'
                                                         = Shows(discovery'[w][caller], run)
  BY DEF Shows, AtLeast
<1> QED
  BY <1>1, <1>2, <1>3, <1>4, <1>5 DEF CaughtUp

\* The progress of a warm-up does not change what the pointer tells.
LEMMA UpdateTells ==
    ASSUME TypeOK, NEW run \in Run, CaughtUp(run), NEW w \in Workers, warmup[w] \in Task,
           NEW status, UpdateWarmup(w, status)
    PROVE  \A v \in Workers :
             /\ memo'[v] = memo[v] \/ memo'[v] \in FetchResults(v)
             /\ pending'[v] = pending[v] \/ AtLeast(pending'[v], run)
<1>1. PICK current \in FetchResults(w) :
        /\ memo' = [memo EXCEPT ![w] = current]
        /\ pending' = IF current = NoPointer THEN pending
                      ELSE [pending EXCEPT ![w] =
                              [current EXCEPT !.warmup =
                                 [status |-> status, of |-> warmup[w].cycle]]]
  BY DEF UpdateWarmup, Remember
<1> DEFINE new == [current EXCEPT !.warmup = [status |-> status, of |-> warmup[w].cycle]]
<1>2. current # NoPointer => AtLeast(new, run)
  <2>1. current # NoPointer => current \in Pointer /\ AtLeast(current, run)
    BY FetchType, FetchedIsCaughtUp
  <2>2. current # NoPointer => new.cycle = current.cycle /\ new.hours = current.hours
    BY <2>1 DEF Pointer
  <2> QED
    BY <2>1, <2>2 DEF AtLeast
<1> HIDE DEF new
<1>3. \A v \in Workers : pending'[v] = pending[v] \/ (current # NoPointer /\ pending'[v] = new)
  BY <1>1 DEF TypeOK, new
<1>4. \A v \in Workers : memo'[v] = memo[v] \/ memo'[v] \in FetchResults(v)
  BY <1>1 DEF TypeOK
<1> QED
  BY <1>2, <1>3, <1>4

\* The steps of a worker.
LEMMA WorkerTells ==
    ASSUME TypeOK, NEW run \in Run, CaughtUp(run), ~Possible("probe"),
           NEW w \in Workers, WorkerStep(w)
    PROVE  CaughtUp(run)'
<1>a. Shows(posted, run)
  BY DEF CaughtUp
<1>b. ASSUME NEW caller \in Callers, DiscoveryOver(w, caller)
      PROVE  /\ UNCHANGED <<posted, shared>>
             /\ \A v \in Workers, k \in Callers : discovery'[v][k] \in {discovery[v][k], NoSnapshot}
             /\ discovery[w][caller] \in Feed /\ Shows(discovery[w][caller], run)
  BY <1>b, OverType DEF DiscoveryOver, TypeOK, CaughtUp
<1>c. ASSUME NEW pointer \in FetchResults(w) \cup {NoMemo}, Remember(w, pointer)
      PROVE  \A v \in Workers : memo'[v] \in {memo[v], NoMemo} \/ memo'[v] \in FetchResults(v)
  BY <1>c DEF Remember, TypeOK
<1>1. CASE ExpireMemo(w)
  <2>1. \A v \in Workers : memo'[v] \in {memo[v], NoMemo} \/ memo'[v] \in FetchResults(v)
    BY <1>1, <1>c DEF ExpireMemo
  <2> QED
    BY <1>1, <1>a, <2>1, StillCaughtUp DEF ExpireMemo
<1>2. CASE ReadPointer(w)
  <2>1. \A v \in Workers : memo'[v] \in {memo[v], NoMemo} \/ memo'[v] \in FetchResults(v)
    BY <1>2, <1>c DEF ReadPointer
  <2> QED
    BY <1>2, <1>a, <2>1, StillCaughtUp DEF ReadPointer
<1>3. CASE Publish(w)
  <2>1. \A v \in Workers : /\ memo'[v] \in {memo[v], pending[v]}
                           /\ pending'[v] \in {pending[v], NoPointer}
    BY <1>3 DEF Publish, Remember, TypeOK
  <2>2. shared' \in {shared, pending[w]} /\ pending[w] # NoPointer /\ UNCHANGED <<posted, discovery>>
    BY <1>3 DEF Publish
  <2> QED
    BY <1>a, <2>1, <2>2, StillCaughtUp
<1>4. ASSUME NEW caller \in Callers, StartDiscovery(w, caller)
      PROVE  CaughtUp(run)'
  <2>1. \A v \in Workers, k \in Callers : discovery'[v][k] \in {discovery[v][k], posted}
    BY <1>4 DEF StartDiscovery, TypeOK
  <2> QED
    BY <1>4, <1>a, <2>1, StillCaughtUp DEF StartDiscovery
<1>5. ASSUME NEW caller \in Callers, FindNothing(w, caller)
      PROVE  CaughtUp(run)'
  <2>1. \A v \in Workers : memo'[v] \in {memo[v], NoMemo} \/ memo'[v] \in FetchResults(v)
    BY <1>5, <1>c DEF FindNothing
  <2> QED
    BY <1>5, <1>a, <1>b, <2>1, StillCaughtUp DEF FindNothing
<1>6. ASSUME NEW caller \in Callers, PollPublishes(w, caller)
      PROVE  CaughtUp(run)'
  <2>1. PICK found \in Found(w, caller) \ {NoRun}, previous \in FetchResults(w) :
          /\ Remember(w, previous)
          /\ pending' = [pending EXCEPT ![w] = PointerTo(found, CarriedProgress(found, previous))]
    BY <1>6 DEF PollPublishes
  <2>2. DiscoveryOver(w, caller)
    BY <1>6 DEF PollPublishes
  <2>3. \A v \in Workers : memo'[v] \in {memo[v], NoMemo} \/ memo'[v] \in FetchResults(v)
    BY <2>1, <1>c
  <2>4. AtLeast(PointerTo(found, CarriedProgress(found, previous)), run)
    BY <1>b, <2>2, FoundIsAtLeast
  <2>5. \A v \in Workers : pending'[v] = pending[v] \/ AtLeast(pending'[v], run)
    BY <2>1, <2>4 DEF TypeOK
  <2> QED
    BY <1>a, <1>b, <2>2, <2>3, <2>5, StillCaughtUp
<1>7. ASSUME NEW caller \in Callers, LivePublishes(w, caller)
      PROVE  CaughtUp(run)'
  <2>1. PICK found \in Found(w, caller) \ {NoRun} :
          pending' = [pending EXCEPT ![w] = PointerTo(found, NoWarmup)]
    BY <1>7 DEF LivePublishes
  <2>2. DiscoveryOver(w, caller) /\ UNCHANGED memo
    BY <1>7 DEF LivePublishes
  <2>3. AtLeast(PointerTo(found, NoWarmup), run)
    BY <1>b, <2>2, FoundIsAtLeast
  <2>4. \A v \in Workers : pending'[v] = pending[v] \/ AtLeast(pending'[v], run)
    BY <2>1, <2>3 DEF TypeOK
  <2> QED
    BY <1>a, <1>b, <2>2, <2>4, StillCaughtUp
<1>8. ASSUME NEW status, UpdateWarmup(w, status), warmup[w] \in Task,
             UNCHANGED <<posted, shared, discovery>>
      PROVE  CaughtUp(run)'
  BY <1>8, <1>a, UpdateTells, StillCaughtUp
<1>9. CASE WarmupBegins(w) \/ WarmupUnbounded(w) \/ WarmupEnds(w)
  <2>1. warmup[w] \in Task /\ UNCHANGED <<posted, shared, discovery>>
    BY <1>9 DEF WarmupBegins, WarmupUnbounded, WarmupEnds, InStage, TypeOK
  <2> QED
    BY <1>8, <1>9, <2>1 DEF WarmupBegins, WarmupUnbounded, WarmupEnds
<1>10. CASE UNCHANGED <<posted, shared, memo, pending, discovery>>
  BY <1>10, <1>a, StillCaughtUp
<1>11. CASE TileRendered(w)
  <2>1. warmup[w] \in Task /\ UNCHANGED <<posted, shared, discovery>>
    BY <1>11 DEF TileRendered, InStage, TypeOK
  <2> QED
    BY <1>8, <1>10, <1>11, <2>1 DEF TileRendered
<1>12. CASE TileFailed(w) \/ Boot(w)
  BY <1>10, <1>12 DEF TileFailed, Boot
<1>13. CASE Crash(w)
  <2>1. /\ UNCHANGED <<posted, shared>>
        /\ \A v \in Workers :
             /\ memo'[v] \in {memo[v], NoMemo}
             /\ pending'[v] \in {pending[v], NoPointer}
             /\ \A k \in Callers : discovery'[v][k] \in {discovery[v][k], NoSnapshot}
    BY <1>13 DEF Crash, NoDiscovery, TypeOK
  <2> QED
    BY <1>a, <2>1, StillCaughtUp
<1> QED
  BY <1>1, <1>2, <1>3, <1>4, <1>5, <1>6, <1>7, <1>9, <1>11, <1>12, <1>13 DEF WorkerStep

\* In a fleet of any size, with any callers overlapping, once nothing under way is older
\* than a run the pointer never again falls behind it, unless a probe fails: through lost
\* cache writes and reads, failed tiles, deaths and restarts of processes, and whatever
\* old pointer the progress of a warm-up writes back.
THEOREM PointerStaysCaughtUp ==
    (Spec => CaughtUpStays) /\ (FairSpec => CaughtUpStays)
<1> DEFINE Stays == \A run \in Run : CaughtUp(run) /\ ~Possible("probe") => CaughtUp(run)'
<1>1. TypeOK /\ [Next \/ Settle]_vars => [Stays]_vars
  <2> SUFFICES ASSUME TypeOK, [Next \/ Settle]_vars,
                      NEW run \in Run, CaughtUp(run), ~Possible("probe")
               PROVE  CaughtUp(run)'
    OBVIOUS
  <2>1. ASSUME NEW w \in Workers, WorkerStep(w)
        PROVE  CaughtUp(run)'
    BY <2>1, WorkerTells
  <2>2. CASE /\ UNCHANGED <<shared, memo, pending, discovery>>
             /\ \A c \in Cycles : posted[c] \subseteq posted'[c]
    <3>1. Shows(posted', run)
      BY <2>2 DEF CaughtUp, Shows, Run
    <3> QED
      BY <2>2, <3>1, StillCaughtUp
  <2>3. ASSUME NEW c \in Cycles, NEW h \in Hours, NoaaPosts(c, h)
        PROVE  /\ UNCHANGED <<shared, memo, pending, discovery>>
               /\ \A d \in Cycles : posted[d] \subseteq posted'[d]
    BY <2>3 DEF NoaaPosts, PostHour, TypeOK, Feed
  <2> QED
    BY <2>1, <2>2, <2>3 DEF Next, Settle, vars
<1>2. [Next]_vars => [Next \/ Settle]_vars
  OBVIOUS
<1>3. Init /\ [][Next \/ Settle]_vars => [][Stays]_vars
  BY <1>1, InitTypeOK, TypeStep, PTL
<1> QED
  BY <1>2, <1>3, PTL DEF Spec, FairSpec, CaughtUpStays

-----------------------------------------------------------------------------
(***************************************************************************)
(* One process.                                                            *)
(***************************************************************************)

\* What the next theorem assumes: one worker process, and a cache that can be read and
\* written.  Probes, tiles and the process may fail, and the startup poll, the tick,
\* manual polls and /runs/latest may overlap.
SoleWriter ==
    /\ \E w \in Workers : Workers = {w}
    /\ "cache" \notin Failures

\* The memo of the only process is what is in the cache.
MemoIsShared == \A w \in Workers : memo[w] \in {NoMemo, shared}

\* The memo and the cache change together.
LEMMA MemoStep ==
    SoleWriter /\ TypeOK /\ MemoIsShared /\ [Next \/ Settle]_vars => MemoIsShared'
<1> SUFFICES ASSUME SoleWriter, TypeOK, MemoIsShared, [Next \/ Settle]_vars PROVE MemoIsShared'
  OBVIOUS
<1>1. ASSUME NEW w \in Workers, WorkerStep(w)
      PROVE  MemoIsShared'
  <2>1. FetchResults(w) \subseteq {shared}
    BY DEF FetchResults, Possible, SoleWriter, MemoIsShared
  <2>2. ASSUME NEW pointer \in {shared, NoMemo}, memo' = [memo EXCEPT ![w] = pointer],
               UNCHANGED shared
        PROVE  MemoIsShared'
    BY <2>2 DEF MemoIsShared, TypeOK
  <2>3. CASE Publish(w)
    <3>1. shared' = pending[w] /\ memo' = [memo EXCEPT ![w] = pending[w]]
      BY <2>3 DEF Publish, Possible, SoleWriter, Remember
    <3>2. memo'[w] = pending[w]
      BY <3>1 DEF TypeOK
    <3> QED
      BY <3>1, <3>2 DEF MemoIsShared, SoleWriter
  <2>4. CASE UNCHANGED <<shared, memo>>
    BY <2>4 DEF MemoIsShared
  <2>5. ASSUME NEW status, UpdateWarmup(w, status), UNCHANGED shared
        PROVE  MemoIsShared'
    BY <2>1, <2>2, <2>5 DEF UpdateWarmup, Remember
  <2>6. CASE ExpireMemo(w) \/ Crash(w)
    BY <2>2, <2>6 DEF ExpireMemo, Crash, Remember
  <2>7. CASE ReadPointer(w)
    BY <2>1, <2>2, <2>7 DEF ReadPointer, Remember
  <2>8. ASSUME NEW caller \in Callers, FindNothing(w, caller) \/ PollPublishes(w, caller)
        PROVE  MemoIsShared'
    BY <2>1, <2>2, <2>8 DEF FindNothing, PollPublishes, DiscoveryOver, Remember
  <2>9. CASE WarmupBegins(w)
    BY <2>5, <2>9 DEF WarmupBegins
  <2>10. CASE WarmupUnbounded(w)
    BY <2>5, <2>10 DEF WarmupUnbounded
  <2>11. CASE WarmupEnds(w)
    BY <2>5, <2>11 DEF WarmupEnds
  <2>12. CASE TileRendered(w)
    BY <2>4, <2>5, <2>12 DEF TileRendered
  <2>13. CASE \/ TileFailed(w) \/ Boot(w)
              \/ \E caller \in Callers : StartDiscovery(w, caller) \/ LivePublishes(w, caller)
    BY <2>4, <2>13 DEF TileFailed, Boot, LivePublishes, StartDiscovery, DiscoveryOver
  <2> QED
    BY <1>1, <2>3, <2>6, <2>7, <2>8, <2>9, <2>10, <2>11, <2>12, <2>13 DEF WorkerStep
<1>2. CASE ~ \E w \in Workers : WorkerStep(w)
  <2>1. UNCHANGED <<shared, memo>>
    BY <1>2 DEF Next, NoaaPosts, Settle, vars
  <2> QED
    BY <2>1 DEF MemoIsShared
<1> QED
  BY <1>1, <1>2


\* A new task comes from a poll that ends, for the cycle that it found; and it is asked
\* for only by a manual one.
LEMMA TaskFromPoll ==
    ASSUME TypeOK, [Next \/ Settle]_vars, NEW w \in Workers, warmup[w] = NoTask, warmup'[w] # NoTask
    PROVE  \E caller \in Callers, run \in Run, previous \in FetchResults(w), asked \in BOOLEAN :
             /\ WarmupDue(run, previous, asked)
             /\ warmup'[w].cycle = run.cycle
             /\ discovery'[w][caller] # discovery[w][caller]
             /\ asked => caller \in Manual
<1>1. PICK v \in Workers : WorkerStep(v)
  BY DEF Next, Settle, NoaaPosts, vars
<1>2. ~UNCHANGED warmup
  OBVIOUS
<1>3. ~(WarmupBegins(v) \/ WarmupUnbounded(v) \/ TileRendered(v) \/ TileFailed(v)
        \/ WarmupEnds(v) \/ Crash(v))
  BY DEF WarmupBegins, WarmupUnbounded, TileRendered, TileFailed, WarmupEnds, Crash, InStage, TypeOK
<1>4. PICK caller \in Callers : PollPublishes(v, caller)
  BY <1>1, <1>2, <1>3 DEF WorkerStep, ExpireMemo, ReadPointer, Publish, StartDiscovery,
       FindNothing, LivePublishes, Boot
<1>5. PICK run \in Found(v, caller) \ {NoRun}, previous \in FetchResults(v),
           asked \in {FALSE, (caller \in Manual)} :
        IF WarmupDue(run, previous, asked) THEN ScheduleWarmup(v, run.cycle) ELSE UNCHANGED warmup
  BY <1>4 DEF PollPublishes
<1>6. run \in Run /\ DiscoveryOver(v, caller)
  BY <1>4, FoundCovered DEF PollPublishes
<1>7. WarmupDue(run, previous, asked) /\ v = w /\ warmup'[w] = NewTask(run.cycle)
  BY <1>2, <1>5 DEF ScheduleWarmup, TypeOK
<1>8. asked \in BOOLEAN /\ (asked => caller \in Manual)
  <2>1. (caller \in Manual) \in BOOLEAN
    OBVIOUS
  <2>2. CASE asked = FALSE
    BY <2>2
  <2>3. CASE asked = (caller \in Manual)
    <3>1. asked \in BOOLEAN
      BY <2>1, <2>3, Zenon
    <3>2. asked => caller \in Manual
      BY <2>3, Zenon
    <3> QED
      BY <3>1, <3>2
  <2> QED
    BY <2>2, <2>3
<1>9. previous \in FetchResults(w) /\ warmup'[w].cycle = run.cycle
  BY <1>7 DEF NewTask
<1>10. discovery'[w][caller] # discovery[w][caller]
  BY <1>6, <1>7 DEF DiscoveryOver, TypeOK
<1> QED
  BY <1>6, <1>7, <1>8, <1>9, <1>10, Zenon

\* With a single process and a working cache no poll but a manual one warms again a cycle
\* whose own warm-up the pointer records as running or done, although polls overlap,
\* discoveries miss objects, tiles fail and the process dies in the middle of a warm-up.
THEOREM SoleNoRepeatedWarmup ==
    ASSUME SoleWriter
    PROVE  (Spec => NoRepeatedWarmup) /\ (FairSpec => NoRepeatedWarmup)
<1> DEFINE Inv == TypeOK /\ MemoIsShared
           Unasked(w) == \A caller \in Callers \cap Manual :
                            discovery'[w][caller] = discovery[w][caller]
           Due(w) == /\ shared # NoPointer
                     /\ shared.warmup # NoWarmup
                     /\ shared.warmup.of = shared.cycle
                     /\ shared.cycle = warmup'[w].cycle
                     /\ shared.warmup.status \in {"running", "done"}
           New == \A w \in Workers :
                     /\ warmup[w] = NoTask /\ warmup'[w] # NoTask
                     /\ Unasked(w)
                     => ~Due(w)
<1>1. Inv /\ [Next \/ Settle]_vars => [New]_warmup
  <2> SUFFICES ASSUME Inv, [Next \/ Settle]_vars, NEW w \in Workers,
                      warmup[w] = NoTask, warmup'[w] # NoTask, Unasked(w), Due(w)
               PROVE  FALSE
    OBVIOUS
  <2>1. PICK caller \in Callers, run \in Run, previous \in FetchResults(w), asked \in BOOLEAN :
          /\ WarmupDue(run, previous, asked)
          /\ warmup'[w].cycle = run.cycle
          /\ discovery'[w][caller] # discovery[w][caller]
          /\ asked => caller \in Manual
    BY TaskFromPoll
  <2>2. previous = shared /\ ~asked
    BY <2>1 DEF FetchResults, Possible, SoleWriter, MemoIsShared
  <2> QED
    BY <2>1, <2>2 DEF WarmupDue, AlreadyWarm, SameCycle
<1>2. Inv /\ [Next \/ Settle]_vars => Inv'
  BY TypeStep, MemoStep
<1>3. [Next]_vars => [Next \/ Settle]_vars
  OBVIOUS
<1>4. Init => Inv
  BY InitTypeOK DEF Init, MemoIsShared
<1>5. Init /\ [][Next \/ Settle]_vars => [][New]_warmup
  BY <1>1, <1>2, <1>4, PTL
<1> QED
  BY <1>3, <1>5, PTL DEF Spec, FairSpec, NoRepeatedWarmup
=============================================================================
