----------------------------- MODULE PageProofs -----------------------------
(***************************************************************************)
(* Safety of the other components of the page, for any values of their     *)
(* constants: the follower of the run feed, the notices, the scrub bar,    *)
(* the product drawer and the preferences; and the types of the whole page.*)
(***************************************************************************)
EXTENDS PanelProofs, WeatherRasterProofs, ProbeReadoutProofs, SequenceTheorems

-----------------------------------------------------------------------------
(*****************************************************************************)
(* The follower of the run feed (RunFeed).                                   *)
(*****************************************************************************)

\* A step of the page is a step of the feed's follower, or leaves it alone.
LEMMA FollowMoves == [PageNext]_pageVars => [Follow!Next]_feedVars
BY DEF PageNext, Only, pageVars, feedVars

\* What the page may show of the feed, with the bounds the code keeps.
FeedPages ==
    [domain : Domains, cycle : 0..(LastCycle + 23), head : 0..LastCycle,
     hours : Follow!Ladders, hour : 1..Ladder, status : {"complete", "ingesting"}]

\* What was announced: the notice on the screen and the condition it was about.
Told ==
    [notice : {NoNotice} \cup Follow!Cycles, troubled : BOOLEAN, cycle : Follow!Cycles,
     announced : BOOLEAN]

\* The requests of loadRun.
FeedFlights ==
    [id : 1..Outstanding, live : BOOLEAN, state : Follow!Outcomes, run : Follow!Runs]

\* The types, with those of the functions above.
FeedTypes ==
    /\ clock \in [hour : Follow!Cycles, late : BOOLEAN]
    /\ server \in Follow!Runs
    /\ feedPage \in FeedPages
    /\ ladder \in Follow!Ladders
    /\ domainDue \in BOOLEAN
    /\ loads \subseteq FeedFlights
    /\ told \in Told
    /\ feedBudget \in 0..FeedChanges

\* The notice on the screen is about the condition remembered.
ToldOfTrouble ==
    told.notice = IF told.troubled THEN told.cycle ELSE NoNotice

\* The inductive invariant of the follower.
FeedInv == FeedTypes /\ ToldOfTrouble

\* The types of the proof are those of the module.
LEMMA FeedTypesSuffice == FeedTypes => Follow!TypeOK
BY DEF FeedTypes, Follow!TypeOK, FeedPages, Told, FeedFlights, Follow!Canonical

\* All hours make a ladder.
LEMMA CanonicalIsLadder == Follow!Canonical \in Follow!Ladders
<1>1. 1 \in Follow!Canonical
  BY FollowAssumption DEF FollowAssumption, Follow!Canonical
<1> QED
  BY <1>1 DEF Follow!Ladders

\* The server starts with a run.
LEMMA FirstRunType == Follow!FirstRun \in Follow!Runs
<1>1. (CHOOSE hours \in Lists : hours # {}) \in Lists
  BY FollowAssumption DEF FollowAssumption
<1> QED
  BY <1>1, FollowAssumption DEF FollowAssumption, Follow!FirstRun, Follow!Runs, Follow!Cycles

\* An answer leaves the page with a ladder, and with one of its hours.
LEMMA PostedType ==
    ASSUME NEW run \in Follow!Runs, NEW h \in 1..Ladder
    PROVE  Follow!Posted(run) \in Follow!Ladders /\ Follow!Kept(h, Follow!Posted(run)) \in 1..Ladder
<1>1. CASE run.hours = {}
  BY <1>1, CanonicalIsLadder DEF Follow!Posted, Follow!Kept, Follow!Canonical
<1>2. CASE run.hours # {}
  <2>1. run.hours \in Follow!Ladders
    <3>1. run.hours \in Lists
      BY DEF Follow!Runs
    <3>2. run.hours \in SUBSET Follow!Canonical
      BY <3>1, FollowAssumption DEF FollowAssumption, Follow!Canonical
    <3> QED
      BY <1>2, <3>2 DEF Follow!Ladders
  <2>2. \E first \in run.hours : \A other \in run.hours : first <= other
    BY <1>2, FollowAssumption DEF FollowAssumption, Follow!Runs
  <2> DEFINE first == CHOOSE x \in run.hours : \A other \in run.hours : x <= other
  <2>3. first \in run.hours
    BY <2>2
  <2>4. Follow!Posted(run) = run.hours /\ Follow!Kept(h, run.hours) \in {h, first}
    BY <1>2 DEF Follow!Posted, Follow!Kept
  <2> HIDE DEF first
  <2> QED
    BY <2>1, <2>3, <2>4 DEF Follow!Ladders, Follow!Canonical
<1> QED
  BY <1>1, <1>2

\* The invariant holds when the page is mounted.
LEMMA FeedInit == Follow!Init => FeedInv
<1> SUFFICES ASSUME Follow!Init PROVE FeedInv
  OBVIOUS
<1>1. FirstCycle \in Follow!Cycles
  BY FollowAssumption DEF FollowAssumption, Follow!Cycles
<1>2. Follow!FirstRun \in Follow!Runs
  BY FirstRunType
<1>3. (CHOOSE domain \in Domains : TRUE) \in Domains
  BY FollowAssumption DEF FollowAssumption
<1>4. Follow!Fallback(clock.hour, clock.late) = FirstCycle
  <2>1. clock.hour = FirstCycle /\ clock.late
    BY DEF Follow!Init
  <2> QED
    BY <2>1 DEF Follow!Fallback
<1>5. feedPage \in FeedPages
  <2>1. /\ 0 \in 0..LastCycle /\ FirstCycle \in 0..(LastCycle + 23) /\ Ladder \in 1..Ladder
        /\ Follow!Canonical \in Follow!Ladders
    BY FollowAssumption, CanonicalIsLadder DEF FollowAssumption
  <2> QED
    BY <1>3, <1>4, <2>1 DEF Follow!Init, FeedPages
<1>6. feedBudget \in 0..FeedChanges /\ ladder \in Follow!Ladders
  BY FollowAssumption, CanonicalIsLadder DEF Follow!Init, FollowAssumption
<1> QED
  BY <1>1, <1>2, <1>5, <1>6, FollowAssumption
  DEF Follow!Init, FeedInv, FeedTypes, Told, ToldOfTrouble

\* The cycle that the clock suggests is at most a day past the last one.
LEMMA FallbackType ==
    ASSUME NEW h \in Follow!Cycles, NEW late \in BOOLEAN
    PROVE  Follow!Fallback(h, late) \in 0..(LastCycle + 23)
<1>1. h \in Nat /\ h <= LastCycle
  BY FollowAssumption DEF FollowAssumption, Follow!Cycles
<1>2. h \div 24 \in Nat /\ 24 * (h \div 24) <= h
  BY <1>1
<1>3. (h + 23) % 24 \in 0..23
  BY <1>1
<1> QED
  BY <1>1, <1>2, <1>3, FollowAssumption DEF Follow!Fallback, FollowAssumption

\* A new request has an id of its own among those in flight.
LEMMA NewFlightType ==
    ASSUME NEW running \in SUBSET FeedFlights, Follow!NewFlight(running)
    PROVE  loads' \subseteq FeedFlights
<1> DEFINE free == 1..Outstanding \ {f.id : f \in running}
           new == [id |-> CHOOSE i \in free : TRUE, live |-> TRUE, state |-> "asked",
                   run |-> Follow!FirstRun]
<1>1. free # {} /\ loads' = running \cup {new}
  BY DEF Follow!NewFlight
<1>2. (CHOOSE i \in free : TRUE) \in 1..Outstanding
  BY <1>1
<1>3. new \in FeedFlights
  BY <1>2, FirstRunType DEF FeedFlights, Follow!Outcomes
<1> QED
  BY <1>1, <1>3

\* Every step keeps the invariant.
LEMMA FeedStep == FeedInv /\ [Follow!Next]_feedVars => FeedInv'
<1> SUFFICES ASSUME FeedInv, [Follow!Next]_feedVars PROVE FeedInv'
  OBVIOUS
<1> USE DEF FeedInv, FeedTypes, ToldOfTrouble
<1>1. CASE Follow!ClockTicks
  <2>1. clock' \in [hour : Follow!Cycles, late : BOOLEAN]
    <3>1. clock = [hour |-> clock.hour, late |-> clock.late]
      OBVIOUS
    <3>2. CASE clock.late
      BY <1>1, <3>2 DEF Follow!ClockTicks
    <3>3. CASE ~clock.late
      BY <1>1, <3>1, <3>3 DEF Follow!ClockTicks
    <3> QED
      BY <3>2, <3>3
  <2> QED
    BY <1>1, <2>1 DEF Follow!ClockTicks
<1>2. ASSUME NEW run \in Follow!Runs, Follow!ServerLearns(run)
      PROVE  FeedInv'
  BY <1>2, FollowAssumption DEF Follow!ServerLearns, Follow!Spend, FollowAssumption
<1>4. CASE Follow!LoadRun \/ Follow!RunEffect
  <2>1. {[f EXCEPT !.live = FALSE] : f \in loads} \in SUBSET FeedFlights
    BY DEF FeedFlights
  <2>2. loads' \subseteq FeedFlights
    BY <1>4, <2>1, NewFlightType DEF Follow!LoadRun, Follow!RunEffect
  <2> QED
    BY <1>4, <2>2 DEF Follow!LoadRun, Follow!RunEffect
<1>3. CASE Follow!SetHours
  BY <1>3 DEF Follow!SetHours, FeedPages
<1>5. ASSUME NEW domain \in Domains, Follow!SwitchDomain(domain)
      PROVE  FeedInv'
  BY <1>5, FollowAssumption DEF Follow!SwitchDomain, Follow!Spend, FeedPages, FollowAssumption
<1>6. ASSUME NEW cycle \in Follow!Cycles, Follow!PickCycle(cycle)
      PROVE  FeedInv'
  BY <1>6, FollowAssumption
     DEF Follow!PickCycle, Follow!Spend, FeedPages, Follow!Cycles, FollowAssumption
<1>7. ASSUME NEW h \in 1..Ladder, Follow!SeekHour(h)
      PROVE  FeedInv'
  BY <1>7, FollowAssumption DEF Follow!SeekHour, Follow!Spend, FeedPages, FollowAssumption
<1>8. ASSUME NEW flight \in loads, Follow!Reply(flight)
      PROVE  FeedInv'
  BY <1>8 DEF Follow!Reply, Follow!Becomes, FeedFlights, Follow!Outcomes
<1>9. ASSUME NEW flight \in loads, Follow!Fail(flight)
      PROVE  FeedInv'
  BY <1>9, FollowAssumption
     DEF Follow!Fail, Follow!Becomes, Follow!Spend, FeedFlights, Follow!Outcomes, FollowAssumption
<1>12. ASSUME NEW flight \in loads, Follow!NameNone(flight)
       PROVE  FeedInv'
  BY <1>12, FollowAssumption DEF Follow!NameNone, Follow!Spend, FollowAssumption
<1>10. ASSUME NEW flight \in loads, Follow!Land(flight)
      PROVE  FeedInv'
  <2>1. flight \in FeedFlights
    BY <1>10
  <2>2. loads' \subseteq FeedFlights /\ UNCHANGED <<clock, server, ladder, domainDue, feedBudget>>
    BY <1>10 DEF Follow!Land
  <2>3. CASE ~flight.live
    <3>1. UNCHANGED <<feedPage, told>>
      BY <1>10, <2>1, <2>3 DEF Follow!Land, Follow!Apply, FeedFlights
    <3> QED
      BY <2>2, <3>1
  <2>4. CASE flight.live /\ flight.state = "failed"
    <3>1. feedPage' = Follow!ShowFallback /\ told' = [told EXCEPT !.announced = FALSE]
      BY <1>10, <2>1, <2>4 DEF Follow!Land, Follow!Apply, FeedFlights
    <3>2. Follow!Fallback(clock.hour, clock.late) \in 0..(LastCycle + 23)
      BY FallbackType
    <3>3. feedPage' \in FeedPages
      <4>1. 0 \in 0..LastCycle
        BY FollowAssumption DEF FollowAssumption
      <4> QED
        BY <3>1, <3>2, <4>1 DEF FeedPages, Follow!ShowFallback
    <3>4. told' \in Told /\ ToldOfTrouble'
      BY <3>1 DEF Told
    <3> QED
      BY <2>2, <3>3, <3>4
  <2>5. CASE flight.live /\ flight.state = "answered"
    <3> DEFINE run == flight.run
    <3>1. run \in Follow!Runs
      BY <2>1 DEF FeedFlights
    <3>2. /\ feedPage' = Follow!ShowRun(run)
          /\ told' = [notice |-> IF run.troubled THEN run.cycle ELSE NoNotice,
                      troubled |-> run.troubled, cycle |-> run.cycle,
                      announced |-> Follow!Announces(run)]
      BY <1>10, <2>1, <2>5 DEF Follow!Land, Follow!Apply, FeedFlights
    <3>3. /\ run.cycle \in 0..LastCycle /\ run.cycle \in 0..(LastCycle + 23)
          /\ Follow!Posted(run) \in Follow!Ladders
          /\ Follow!Kept(feedPage.hour, Follow!Posted(run)) \in 1..Ladder
          /\ Follow!Status(run) \in {"complete", "ingesting"}
      <4>1. feedPage.hour \in 1..Ladder
        BY DEF FeedPages
      <4> QED
        BY <3>1, <4>1, PostedType, FollowAssumption
        DEF FollowAssumption, Follow!Runs, Follow!Cycles, Follow!Status
    <3>5. feedPage' \in FeedPages
      BY <3>2, <3>3 DEF FeedPages, Follow!ShowRun
    <3>4. told' \in Told /\ ToldOfTrouble'
      BY <3>1, <3>2 DEF Told, Follow!Runs, Follow!Announces
    <3> QED
      BY <2>2, <3>4, <3>5
  <2> QED
    BY <1>10, <2>1, <2>3, <2>4, <2>5 DEF Follow!Land, FeedFlights, Follow!Outcomes
<1>11. CASE UNCHANGED feedVars
  BY <1>11 DEF feedVars
<1> QED
  BY <1>1, <1>2, <1>3, <1>4, <1>5, <1>6, <1>7, <1>8, <1>9, <1>10, <1>11, <1>12
  DEF Follow!Next, Follow!Canonical

\* An answer about the condition that the answer before it found announces nothing.
LEMMA FeedAnnounces ==
  FeedInv /\ [Follow!Next]_feedVars =>
      [told'.troubled = told.troubled /\ told'.cycle = told.cycle => ~told'.announced]_told
<1> SUFFICES ASSUME FeedInv, [Follow!Next]_feedVars, told' # told,
                    told'.troubled = told.troubled, told'.cycle = told.cycle
             PROVE  ~told'.announced
  OBVIOUS
<1>1. PICK flight \in loads : Follow!Land(flight)
  BY DEF Follow!Next, feedVars, Follow!ClockTicks, Follow!ServerLearns, Follow!LoadRun,
         Follow!RunEffect, Follow!SwitchDomain, Follow!PickCycle, Follow!SetHours, Follow!SeekHour,
         Follow!Reply, Follow!Fail, Follow!NameNone
<1>2. flight \in FeedFlights /\ told \in Told
  BY <1>1 DEF FeedInv, FeedTypes
<1>3. flight.live
  BY <1>1, <1>2 DEF Follow!Land, Follow!Apply, FeedFlights
<1>4. CASE flight.state = "failed"
  BY <1>1, <1>2, <1>3, <1>4 DEF Follow!Land, Follow!Apply, FeedFlights, Told
<1>5. CASE flight.state = "answered"
  <2>1. told' = [notice |-> IF flight.run.troubled THEN flight.run.cycle ELSE NoNotice,
                 troubled |-> flight.run.troubled, cycle |-> flight.run.cycle,
                 announced |-> Follow!Announces(flight.run)]
    BY <1>1, <1>2, <1>3, <1>5 DEF Follow!Land, Follow!Apply, FeedFlights
  <2>2. told'.announced = Follow!Announces(flight.run)
    BY <2>1
  <2>3. flight.run.troubled = told.troubled /\ flight.run.cycle = told.cycle
    BY <2>1
  <2>4. ~Follow!Announces(flight.run)
    BY <2>3 DEF Follow!Announces, FeedInv, ToldOfTrouble
  <2> QED
    BY <2>2, <2>4
<1> QED
  BY <1>1, <1>2, <1>4, <1>5 DEF Follow!Land, FeedFlights, Follow!Outcomes

\* AnnouncedOnce: an answer about a condition that is known pushes no second notice.
THEOREM ConditionsAreAnnouncedOnce == PageSpec => AnnouncedOnce
<1>1. PageInit => FeedInv
  BY FeedInit DEF PageInit
<1>2. FeedInv /\ [PageNext]_pageVars => FeedInv'
  BY FollowMoves, FeedStep
<1>3. FeedInv /\ [PageNext]_pageVars =>
          [told'.troubled = told.troubled /\ told'.cycle = told.cycle => ~told'.announced]_told
  BY FollowMoves, FeedAnnounces
<1> QED
  BY <1>1, <1>2, <1>3, PTL DEF PageSpec, AnnouncedOnce, Follow!AnnouncedOnce

-----------------------------------------------------------------------------
(*****************************************************************************)
(* The notices (Notices).                                                    *)
(*****************************************************************************)

\* A step of the page is a step of the notices, or leaves them alone.
LEMMA NoticeMoves == [PageNext]_pageVars => [Notice!Next]_noticeVars
BY DEF PageNext, Only, pageVars, noticeVars

\* A visible toast.
Toasts == [id : 1..Pushes, key : Notice!Sources, push : 1..Pushes]

\* An armed timer.
Timers == [id : 1..Pushes, push : 1..Pushes]

\* Types, and every id given out so far is at most pushes.
NoticeTypes ==
    /\ toasts \in Seq(Toasts) /\ Len(toasts) <= MaxVisible
    /\ timers \subseteq Timers
    /\ pushes \in 0..Pushes
    /\ throttled \subseteq TileKeys
    /\ panel \in [key : PanelKeys, error : PanelKeys \cup {Nothing}]
    /\ faulty \subseteq PanelKeys

\* An id is used by one toast, and none is in use that was not given out.
IdsAreGivenOut ==
    /\ \A i \in DOMAIN toasts : toasts[i].id <= pushes
    /\ \A t \in timers : t.id <= pushes
    /\ \A i, j \in DOMAIN toasts : toasts[i].id = toasts[j].id => i = j

\* The inductive invariant of the notices.
NoticeInv ==
    /\ NoticeTypes
    /\ IdsAreGivenOut
    /\ Notice!ToastsAreTimed
    /\ Notice!CrashIsCurrent

\* The types of the proof are those of the module.
LEMMA NoticeTypesSuffice == NoticeInv => Notice!TypeOK
<1> SUFFICES ASSUME NoticeInv PROVE Notice!TypeOK
  OBVIOUS
<1>1. toasts \in [1..Len(toasts) -> Toasts] /\ Len(toasts) \in 0..MaxVisible
  BY NoticeAssumption DEF NoticeAssumption, NoticeInv, NoticeTypes
<1>2. toasts \in Notice!BoundedSeq(Toasts, MaxVisible)
  BY <1>1 DEF Notice!BoundedSeq, Notice!SeqOf
<1> QED
  BY <1>2 DEF NoticeInv, NoticeTypes, IdsAreGivenOut, Notice!TypeOK, Toasts, Timers

\* The invariant holds when the page is mounted.
LEMMA NoticeInit == PageInit => NoticeInv
<1> SUFFICES ASSUME Notice!Init PROVE NoticeInv
  BY DEF PageInit
<1> QED
  BY NoticeAssumption DEF NoticeAssumption, Notice!Init, NoticeInv, NoticeTypes, IdsAreGivenOut,
     Notice!ToastsAreTimed, Notice!CrashIsCurrent

\* RemoveAt takes the i-th element out.
LEMMA RemoveAtType ==
    ASSUME NEW S, NEW s \in Seq(S), NEW i \in 1..Len(s)
    PROVE  /\ Notice!RemoveAt(s, i) \in Seq(S)
           /\ Len(Notice!RemoveAt(s, i)) = Len(s) - 1
           /\ \A j \in 1..Len(s) - 1 :
                  Notice!RemoveAt(s, i)[j] = IF j < i THEN s[j] ELSE s[j + 1]
<1> DEFINE a == SubSeq(s, 1, i - 1)
           b == SubSeq(s, i + 1, Len(s))
<1>1. Len(s) \in Nat /\ \A j \in 1..Len(s) : s[j] \in S
  BY LenProperties, ElementOfSeq
<1>2. a \in Seq(S) /\ Len(a) = i - 1 /\ \A j \in 1..i - 1 : a[j] = s[j]
  <2>1. \A j \in 1..i - 1 : s[j] \in S
    BY <1>1
  <2>2. /\ a \in Seq(S)
        /\ Len(a) = IF 1 <= i - 1 THEN (i - 1) - 1 + 1 ELSE 0
        /\ \A j \in 1..(i - 1) - 1 + 1 : a[j] = s[1 + j - 1]
    <3> HIDE DEF a
    <3> QED
      BY <1>1, <2>1, SubSeqProperties DEF a
  <2> QED
    BY <1>1, <2>2
<1>3. b \in Seq(S) /\ Len(b) = Len(s) - i /\ \A j \in 1..Len(s) - i : b[j] = s[i + j]
  <2>1. \A j \in i + 1..Len(s) : s[j] \in S
    BY <1>1
  <2>2. /\ b \in Seq(S)
        /\ Len(b) = IF i + 1 <= Len(s) THEN Len(s) - (i + 1) + 1 ELSE 0
        /\ \A j \in 1..Len(s) - (i + 1) + 1 : b[j] = s[(i + 1) + j - 1]
    BY <1>1, <2>1, SubSeqProperties
  <2> QED
    BY <1>1, <2>2
<1>4. Notice!RemoveAt(s, i) = a \o b
  BY DEF Notice!RemoveAt
<1> HIDE DEF a, b
<1>5. /\ a \o b \in Seq(S)
      /\ Len(a \o b) = Len(a) + Len(b)
      /\ \A j \in 1..Len(a) + Len(b) : (a \o b)[j] = IF j <= Len(a) THEN a[j] ELSE b[j - Len(a)]
  BY <1>2, <1>3, ConcatProperties
<1>6. ASSUME NEW j \in 1..Len(s) - 1
      PROVE  (a \o b)[j] = IF j < i THEN s[j] ELSE s[j + 1]
  <2>1. j \in 1..Len(a) + Len(b)
    BY <1>1, <1>2, <1>3
  <2>2. CASE j < i
    BY <1>1, <1>2, <1>5, <2>1, <2>2
  <2>3. CASE ~(j < i)
    <3>1. j - (i - 1) \in 1..Len(s) - i /\ i + (j - (i - 1)) = j + 1 /\ ~(j <= Len(a))
      BY <1>1, <1>2, <2>3
    <3>2. (a \o b)[j] = b[j - (i - 1)]
      BY <1>2, <1>5, <2>1, <3>1
    <3> QED
      BY <1>3, <2>3, <3>1, <3>2
  <2> QED
    BY <2>2, <2>3
<1> QED
  BY <1>1, <1>2, <1>3, <1>4, <1>5, <1>6

\* The least of one number.
LEMMA MinOfOne ==
    ASSUME NEW i \in Nat
    PROVE  Notice!Min({i}) = i
BY DEF Notice!Min

\* w is what the toasts are without those of the id.
IsWithout(w, id) ==
    /\ w \in Seq(Toasts) /\ Len(w) <= Len(toasts)
    /\ \A j \in 1..Len(w) : \E i \in 1..Len(toasts) : w[j] = toasts[i] /\ toasts[i].id # id
    /\ \A j, k \in 1..Len(w) : w[j].id = w[k].id => j = k

\* The filter by id does that.
LEMMA WithoutDrops ==
    ASSUME NoticeInv, NEW id
    PROVE  IsWithout(Notice!Without(id), id)
<1> DEFINE at == {i \in DOMAIN toasts : toasts[i].id = id}
<1>1. toasts \in Seq(Toasts) /\ Len(toasts) \in Nat /\ DOMAIN toasts = 1..Len(toasts)
      /\ \A i, j \in 1..Len(toasts) : toasts[i].id = toasts[j].id => i = j
  BY LenProperties DEF NoticeInv, NoticeTypes, IdsAreGivenOut
<1>2. CASE at = {}
  <2>1. Notice!Without(id) = toasts
    BY <1>2 DEF Notice!Without
  <2> QED
    BY <1>1, <1>2, <2>1 DEF IsWithout
<1>3. CASE at # {}
  <2>1. PICK i \in 1..Len(toasts) : toasts[i].id = id
    BY <1>1, <1>3
  <2>2. at = {i}
    BY <1>1, <2>1
  <2>3. Notice!Without(id) = Notice!RemoveAt(toasts, i)
    BY <1>1, <2>2, MinOfOne DEF Notice!Without
  <2> HIDE DEF at
  <2> DEFINE w == Notice!RemoveAt(toasts, i)
  <2>4. /\ w \in Seq(Toasts)
        /\ Len(w) = Len(toasts) - 1
        /\ \A j \in 1..Len(toasts) - 1 : w[j] = IF j < i THEN toasts[j] ELSE toasts[j + 1]
    BY <1>1, RemoveAtType
  <2> HIDE DEF w
  <2>5. ASSUME NEW j \in 1..Len(w)
        PROVE  \E k \in 1..Len(toasts) : /\ k = IF j < i THEN j ELSE j + 1
                                         /\ w[j] = toasts[k] /\ toasts[k].id # id
    BY <1>1, <2>1, <2>4
  <2>6. ASSUME NEW j \in 1..Len(w), NEW k \in 1..Len(w), w[j].id = w[k].id
        PROVE  j = k
    BY <1>1, <2>4, <2>5, <2>6
  <2> QED
    BY <1>1, <2>3, <2>4, <2>5, <2>6 DEF IsWithout, w
<1> QED
  BY <1>2, <1>3

\* Dismissing a toast leaves the others with their timers.
LEMMA DismissStep ==
    ASSUME NoticeInv, NEW id, Notice!Dismiss(id), UNCHANGED <<pushes, throttled, panel, faulty>>
    PROVE  NoticeInv'
<1>1. IsWithout(toasts', id) /\ timers' = {t \in timers : t.id # id}
  BY WithoutDrops DEF Notice!Dismiss
<1>2. Len(toasts) \in Nat /\ Len(toasts') \in Nat /\ DOMAIN toasts = 1..Len(toasts)
      /\ DOMAIN toasts' = 1..Len(toasts')
  BY <1>1, LenProperties DEF NoticeInv, NoticeTypes, IsWithout
<1>3. NoticeTypes'
  BY <1>1, <1>2, NoticeAssumption
     DEF NoticeAssumption, NoticeInv, NoticeTypes, Timers, Toasts, IsWithout
<1>4. IdsAreGivenOut'
  BY <1>1, <1>2 DEF NoticeInv, IdsAreGivenOut, IsWithout
<1>5. Notice!ToastsAreTimed'
  <2> SUFFICES ASSUME NEW i \in 1..Len(toasts')
               PROVE  /\ {t \in timers' : t.id = toasts'[i].id} =
                             {[id |-> toasts'[i].id, push |-> toasts'[i].push]}
                      /\ \A j \in 1..Len(toasts') : toasts'[j].key = toasts'[i].key => i = j
    BY <1>2 DEF Notice!ToastsAreTimed
  <2>1. PICK k \in 1..Len(toasts) : toasts'[i] = toasts[k] /\ toasts[k].id # id
    BY <1>1 DEF IsWithout
  <2>2. {t \in timers' : t.id = toasts'[i].id} = {t \in timers : t.id = toasts[k].id}
    BY <1>1, <2>1
  <2>3. {t \in timers : t.id = toasts[k].id} = {[id |-> toasts[k].id, push |-> toasts[k].push]}
    BY <1>2 DEF NoticeInv, Notice!ToastsAreTimed
  <2>4. ASSUME NEW j \in 1..Len(toasts'), toasts'[j].key = toasts'[i].key
        PROVE  i = j
    <3>1. PICK l \in 1..Len(toasts) : toasts'[j] = toasts[l]
      BY <1>1 DEF IsWithout
    <3>2. l = k
      BY <1>2, <2>1, <2>4, <3>1 DEF NoticeInv, Notice!ToastsAreTimed
    <3> QED
      BY <1>1, <2>1, <3>1, <3>2 DEF IsWithout
  <2> QED
    BY <2>1, <2>2, <2>3, <2>4
<1>6. Notice!CrashIsCurrent'
  BY DEF NoticeInv, Notice!CrashIsCurrent
<1> QED
  BY <1>3, <1>4, <1>5, <1>6 DEF NoticeInv

\* A push takes the id of the toast that has the key, or the next one.
LEMMA IdForKey ==
    ASSUME NoticeInv, NEW key, pushes < Pushes
    PROVE  /\ Notice!IdFor(key) \in 1..pushes + 1 /\ Notice!IdFor(key) \in 1..Pushes
           /\ \A i \in DOMAIN toasts : toasts[i].key = key => toasts[i].id = Notice!IdFor(key)
<1> DEFINE same == {i \in DOMAIN toasts : toasts[i].key = key}
<1>1. /\ Len(toasts) \in Nat /\ DOMAIN toasts = 1..Len(toasts)
      /\ \A i \in 1..Len(toasts) : toasts[i] \in Toasts /\ toasts[i].id <= pushes
      /\ pushes \in Nat /\ Pushes \in Nat
  BY NoticeAssumption, LenProperties, ElementOfSeq
     DEF NoticeAssumption, NoticeInv, NoticeTypes, IdsAreGivenOut
<1>2. \A i, j \in 1..Len(toasts) : toasts[i].key = toasts[j].key => i = j
  BY <1>1 DEF NoticeInv, Notice!ToastsAreTimed
<1>3. CASE same = {}
  <2>1. Notice!IdFor(key) = pushes + 1
    BY <1>3 DEF Notice!IdFor
  <2> QED
    BY <1>1, <1>3, <2>1
<1>4. CASE same # {}
  <2>1. PICK i \in 1..Len(toasts) : toasts[i].key = key
    BY <1>1, <1>4
  <2>2. same = {i}
    BY <1>1, <1>2, <2>1
  <2>3. Notice!IdFor(key) = toasts[i].id
    BY <1>1, <2>2, MinOfOne DEF Notice!IdFor
  <2>4. toasts[i].id \in 1..Pushes /\ toasts[i].id <= pushes
    BY <1>1 DEF Toasts
  <2> QED
    BY <1>1, <1>2, <2>1, <2>3, <2>4
<1> QED
  BY <1>3, <1>4

\* n is w with e after it, perhaps without the oldest element.
IsPushed(n, w, e, S) ==
    /\ n \in Seq(S) /\ Len(n) <= MaxVisible
    /\ \E d \in {0, 1} : \A j \in 1..Len(n) :
           \/ j + d \in 1..Len(w) /\ n[j] = w[j + d]
           \/ j + d = Len(w) + 1 /\ n[j] = e

\* The pushed toast comes last, and the oldest one may go.
LEMMA NewestKeeps ==
    ASSUME NEW S, NEW w \in Seq(S), NEW e \in S, Len(w) <= MaxVisible,
           NEW n, n = Notice!Newest(Append(w, e))
    PROVE  IsPushed(n, w, e, S)
<1> DEFINE a == Append(w, e)
<1>0. n = Notice!Newest(a)
  OBVIOUS
<1>1. Len(w) \in Nat /\ MaxVisible \in Nat \ {0}
  BY LenProperties, NoticeAssumption DEF NoticeAssumption
<1>2. /\ a \in Seq(S) /\ Len(a) = Len(w) + 1
      /\ \A j \in 1..Len(w) : a[j] = w[j]
      /\ a[Len(w) + 1] = e
  BY <1>1
<1> HIDE DEF a
<1>3. CASE Len(a) > MaxVisible
  <2>1. n = Tail(a) /\ a # <<>>
    BY <1>0, <1>1, <1>2, <1>3 DEF Notice!Newest
  <2>2. /\ n \in Seq(S) /\ Len(n) = Len(w)
        /\ \A j \in 1..Len(n) : n[j] = a[j + 1]
    BY <1>1, <1>2, <2>1, HeadTailProperties
  <2>3. \A j \in 1..Len(n) : \/ j + 1 \in 1..Len(w) /\ n[j] = w[j + 1]
                             \/ j + 1 = Len(w) + 1 /\ n[j] = e
    BY <1>1, <1>2, <2>2
  <2> QED
    BY <1>1, <2>2, <2>3 DEF a, IsPushed
<1>4. CASE ~(Len(a) > MaxVisible)
  <2>1. n = a
    BY <1>0, <1>4 DEF Notice!Newest
  <2>2. \A j \in 1..Len(n) : \/ j + 0 \in 1..Len(w) /\ n[j] = w[j + 0]
                             \/ j + 0 = Len(w) + 1 /\ n[j] = e
    BY <1>1, <1>2, <2>1
  <2> QED
    BY <1>1, <1>2, <1>4, <2>1, <2>2 DEF a, IsPushed
<1> QED
  BY <1>3, <1>4

\* The toasts after a push of the key: the one that is new, and others with other keys
\* and ids.
LEMMA PushedToasts ==
    ASSUME NoticeInv, NEW key \in Notice!Sources, Notice!Push(key)
    PROVE  LET id  == Notice!IdFor(key)
               new == [id |-> id, key |-> key, push |-> pushes + 1]
           IN  /\ toasts' \in Seq(Toasts) /\ Len(toasts') <= MaxVisible
               /\ \A i \in 1..Len(toasts') :
                      \/ toasts'[i] = new
                      \/ \E k \in 1..Len(toasts) :
                            toasts'[i] = toasts[k] /\ toasts[k].id # id /\ toasts[k].key # key
               /\ \A i, j \in 1..Len(toasts') : toasts'[i].id = toasts'[j].id => i = j
<1> DEFINE id  == Notice!IdFor(key)
           new == [id |-> id, key |-> key, push |-> pushes + 1]
           w   == Notice!Without(id)
<1>1. /\ id \in 1..pushes + 1 /\ id \in 1..Pushes
      /\ \A i \in DOMAIN toasts : toasts[i].key = key => toasts[i].id = id
  BY IdForKey DEF Notice!Push
<1>2. pushes + 1 \in 1..Pushes
  BY NoticeAssumption DEF NoticeAssumption, NoticeInv, NoticeTypes, Notice!Push
<1>3. IsWithout(w, id)
  BY WithoutDrops
<1>4. toasts' = Notice!Newest(Append(w, new))
  BY DEF Notice!Push
<1> HIDE DEF id, w
<1>5. new \in Toasts /\ new.id = id /\ new.key = key
  BY <1>1, <1>2 DEF Toasts
<1> HIDE DEF new
<1>6. DOMAIN toasts = 1..Len(toasts) /\ Len(toasts) \in Nat /\ Len(w) \in Nat
      /\ MaxVisible \in Nat /\ Len(toasts) <= MaxVisible
  BY <1>3, LenProperties, NoticeAssumption
     DEF NoticeAssumption, NoticeInv, NoticeTypes, IsWithout
<1>7. w \in Seq(Toasts) /\ Len(w) <= MaxVisible
  BY <1>3, <1>6 DEF IsWithout
<1>8. /\ toasts' \in Seq(Toasts) /\ Len(toasts') <= MaxVisible
      /\ \E d \in {0, 1} : \A j \in 1..Len(toasts') :
             \/ j + d \in 1..Len(w) /\ toasts'[j] = w[j + d]
             \/ j + d = Len(w) + 1 /\ toasts'[j] = new
  <2>1. IsPushed(toasts', w, new, Toasts)
    BY <1>4, <1>5, <1>7, NewestKeeps
  <2> QED
    BY <2>1 DEF IsPushed
<1>9. PICK d \in {0, 1} : \A j \in 1..Len(toasts') :
             \/ j + d \in 1..Len(w) /\ toasts'[j] = w[j + d]
             \/ j + d = Len(w) + 1 /\ toasts'[j] = new
  BY <1>8
<1>10. \A j \in 1..Len(w) : \E k \in 1..Len(toasts) :
           w[j] = toasts[k] /\ toasts[k].id # id /\ toasts[k].key # key
  BY <1>1, <1>3, <1>6 DEF IsWithout
<1>11. ASSUME NEW i \in 1..Len(toasts')
       PROVE  \/ toasts'[i] = new
              \/ \E k \in 1..Len(toasts) :
                    toasts'[i] = toasts[k] /\ toasts[k].id # id /\ toasts[k].key # key
  BY <1>9, <1>10
<1>12. ASSUME NEW i \in 1..Len(toasts'), NEW j \in 1..Len(toasts'), toasts'[i].id = toasts'[j].id
       PROVE  i = j
  <2>1. Len(toasts') \in Nat /\ i \in Nat /\ j \in Nat
    BY <1>8, LenProperties
  <2>2. CASE /\ i + d \in 1..Len(w) /\ toasts'[i] = w[i + d]
             /\ j + d \in 1..Len(w) /\ toasts'[j] = w[j + d]
    <3>1. i + d = j + d
      BY <1>3, <1>12, <2>2 DEF IsWithout
    <3> QED
      BY <2>1, <3>1
  <2>3. CASE i + d = Len(w) + 1 /\ j + d = Len(w) + 1
    BY <2>1, <2>3, <1>6
  <2>4. \A k \in 1..Len(w) : w[k].id # id
    BY <1>10
  <2> QED
    BY <1>5, <1>9, <1>12, <2>2, <2>3, <2>4
<1> QED
  BY <1>8, <1>11, <1>12 DEF id, new

\* A push arms the one timer of its toast, and leaves the others with theirs.
LEMMA PushStep ==
    ASSUME NoticeInv, NEW key \in Notice!Sources, Notice!Push(key)
    PROVE  /\ pushes' \in 0..Pushes /\ timers' \subseteq Timers
           /\ toasts' \in Seq(Toasts) /\ Len(toasts') <= MaxVisible
           /\ IdsAreGivenOut'
           /\ Notice!ToastsAreTimed'
<1> DEFINE id  == Notice!IdFor(key)
           new == [id |-> id, key |-> key, push |-> pushes + 1]
           timer == [id |-> id, push |-> pushes + 1]
<1>1. id \in 1..pushes + 1 /\ id \in 1..Pushes
  BY IdForKey DEF Notice!Push
<1>2. pushes + 1 \in 1..Pushes /\ pushes' = pushes + 1 /\ pushes \in Nat /\ Pushes \in Nat
  BY NoticeAssumption DEF NoticeAssumption, NoticeInv, NoticeTypes, Notice!Push
<1>3. timers' = {t \in timers : t.id # id} \cup {timer}
  BY DEF Notice!Push, Notice!Rearm
<1>4. /\ toasts' \in Seq(Toasts) /\ Len(toasts') <= MaxVisible
      /\ \A i \in 1..Len(toasts') :
             \/ toasts'[i] = new
             \/ \E k \in 1..Len(toasts) :
                   toasts'[i] = toasts[k] /\ toasts[k].id # id /\ toasts[k].key # key
      /\ \A i, j \in 1..Len(toasts') : toasts'[i].id = toasts'[j].id => i = j
  BY PushedToasts
<1> HIDE DEF id
<1>5. timer \in Timers /\ timer.id = id
  BY <1>1, <1>2 DEF Timers
<1>6. new.id = id /\ new.key = key /\ [id |-> new.id, push |-> new.push] = timer
  OBVIOUS
<1> HIDE DEF new, timer
<1>7. DOMAIN toasts = 1..Len(toasts) /\ DOMAIN toasts' = 1..Len(toasts')
  BY <1>4, LenProperties DEF NoticeInv, NoticeTypes
<1>8. timers' \subseteq Timers
  BY <1>3, <1>5 DEF NoticeInv, NoticeTypes
<1>9. IdsAreGivenOut'
  <2>1. \A t \in timers : t.id \in Nat /\ t.id <= pushes
    BY DEF NoticeInv, NoticeTypes, IdsAreGivenOut, Timers
  <2>2. \A t \in timers' : t.id <= pushes'
    BY <1>1, <1>2, <1>3, <1>5, <2>1
  <2>3. \A k \in 1..Len(toasts) : toasts[k].id \in Nat /\ toasts[k].id <= pushes
    <3>1. \A k \in 1..Len(toasts) : toasts[k] \in Toasts
      BY ElementOfSeq DEF NoticeInv, NoticeTypes
    <3>2. \A e \in Toasts : e.id \in Nat
      BY <1>2 DEF Toasts
    <3>3. \A k \in 1..Len(toasts) : toasts[k].id <= pushes
      BY <1>7 DEF NoticeInv, IdsAreGivenOut
    <3> QED
      BY <3>1, <3>2, <3>3
  <2>4. \A i \in 1..Len(toasts') : toasts'[i].id <= pushes'
    BY <1>1, <1>2, <1>4, <1>6, <2>3
  <2> QED
    BY <1>4, <1>7, <2>2, <2>4 DEF IdsAreGivenOut
<1>10. Notice!ToastsAreTimed'
  <2> SUFFICES ASSUME NEW i \in 1..Len(toasts')
               PROVE  /\ {t \in timers' : t.id = toasts'[i].id} =
                             {[id |-> toasts'[i].id, push |-> toasts'[i].push]}
                      /\ \A j \in 1..Len(toasts') : toasts'[j].key = toasts'[i].key => i = j
    BY <1>7 DEF Notice!ToastsAreTimed
  <2>1. CASE toasts'[i] = new
    <3>1. {t \in timers' : t.id = id} = {timer}
      BY <1>3, <1>5
    <3>2. \A j \in 1..Len(toasts') : toasts'[j].key = key => i = j
      BY <1>4, <1>6, <2>1
    <3> QED
      BY <1>6, <2>1, <3>1, <3>2
  <2>2. CASE \E k \in 1..Len(toasts) :
                 toasts'[i] = toasts[k] /\ toasts[k].id # id /\ toasts[k].key # key
    <3>1. PICK k \in 1..Len(toasts) :
              toasts'[i] = toasts[k] /\ toasts[k].id # id /\ toasts[k].key # key
      BY <2>2
    <3>2. {t \in timers' : t.id = toasts'[i].id} = {t \in timers : t.id = toasts[k].id}
      BY <1>3, <1>5, <3>1
    <3>3. {t \in timers : t.id = toasts[k].id} =
              {[id |-> toasts[k].id, push |-> toasts[k].push]}
      BY <1>7 DEF NoticeInv, Notice!ToastsAreTimed
    <3>4. ASSUME NEW j \in 1..Len(toasts'), toasts'[j].key = toasts'[i].key
          PROVE  i = j
      <4>1. toasts'[j] # new
        BY <1>6, <3>1, <3>4
      <4>2. PICK l \in 1..Len(toasts) : toasts'[j] = toasts[l]
        BY <1>4, <4>1
      <4>3. l = k
        BY <1>7, <3>1, <3>4, <4>2 DEF NoticeInv, Notice!ToastsAreTimed
      <4> QED
        BY <1>4, <3>1, <4>2, <4>3
    <3> QED
      BY <3>1, <3>2, <3>3, <3>4
  <2> QED
    BY <1>4, <2>1, <2>2
<1> QED
  BY <1>2, <1>4, <1>8, <1>9, <1>10

\* The panel is rendered with the key; if it throws, that is pushed.
LEMMA RenderedStep ==
    ASSUME NoticeInv, NEW key \in PanelKeys, faulty' \subseteq PanelKeys, UNCHANGED throttled,
           Notice!Rendered(key, faulty')
    PROVE  NoticeInv'
<1>1. panel' \in [key : PanelKeys, error : PanelKeys \cup {Nothing}] /\ Notice!CrashIsCurrent'
  BY NoticeAssumption DEF NoticeAssumption, Notice!Rendered, Notice!CrashIsCurrent
<1>2. CASE Notice!Push(PanelKey)
  <2>1. PanelKey \in Notice!Sources
    BY DEF Notice!Sources
  <2> QED
    BY <1>1, <1>2, <2>1, PushStep DEF NoticeInv, NoticeTypes
<1>3. CASE UNCHANGED <<toasts, timers, pushes>>
  BY <1>1, <1>3 DEF NoticeInv, NoticeTypes, IdsAreGivenOut, Notice!ToastsAreTimed
<1> QED
  BY <1>2, <1>3 DEF Notice!Rendered

\* Every step keeps the invariant.
LEMMA NoticeStep == NoticeInv /\ [Notice!Next]_noticeVars => NoticeInv'
<1> SUFFICES ASSUME NoticeInv, [Notice!Next]_noticeVars
             PROVE  NoticeInv'
  OBVIOUS
<1>1. ASSUME NEW id, Notice!Dismiss(id), UNCHANGED <<pushes, throttled, panel, faulty>>
      PROVE  NoticeInv'
  BY <1>1, DismissStep
<1>2. CASE \/ \E toast \in Notice!ToSet(toasts) : Notice!Close(toast)
           \/ \E timer \in timers : Notice!TimerFires(timer)
  BY <1>1, <1>2 DEF Notice!Close, Notice!TimerFires
<1>3. ASSUME NEW key \in Notice!Sources, Notice!Push(key), UNCHANGED <<panel, faulty>>,
             throttled' \subseteq TileKeys
      PROVE  NoticeInv'
  BY <1>3, PushStep DEF NoticeInv, NoticeTypes, Notice!CrashIsCurrent
<1>4. CASE Notice!FeedNotice
  BY <1>3, <1>4 DEF Notice!FeedNotice, Notice!Sources, NoticeInv, NoticeTypes
<1>5. CASE \E tile \in TileKeys : Notice!OnError(tile)
  BY <1>3, <1>5 DEF Notice!OnError, Notice!Sources, NoticeInv, NoticeTypes
<1>6. CASE UNCHANGED <<toasts, timers, pushes, panel, faulty>> /\ throttled' \subseteq throttled
  BY <1>6 DEF NoticeInv, NoticeTypes, IdsAreGivenOut, Notice!ToastsAreTimed, Notice!CrashIsCurrent
<1>7. CASE \E tile \in TileKeys : Notice!ThrottleEnds(tile)
  BY <1>6, <1>7 DEF Notice!ThrottleEnds
<1>8. CASE \E key \in PanelKeys : Notice!Select(key)
  BY <1>8, RenderedStep DEF Notice!Select, NoticeInv, NoticeTypes
<1>9. ASSUME NEW key \in PanelKeys, Notice!DataChange(key)
      PROVE  NoticeInv'
  <2>1. faulty' \subseteq PanelKeys
    BY <1>9 DEF Notice!DataChange, NoticeInv, NoticeTypes
  <2>2. CASE panel.error = Nothing /\ key = panel.key
    BY <1>9, <2>1, <2>2, RenderedStep DEF Notice!DataChange
  <2>3. CASE ~(panel.error = Nothing /\ key = panel.key)
    <3>1. UNCHANGED <<toasts, timers, pushes, throttled, panel>>
      BY <1>9, <2>3 DEF Notice!DataChange
    <3>2. Notice!CrashIsCurrent'
      BY <1>9, <2>3, <3>1 DEF Notice!DataChange, NoticeInv, Notice!CrashIsCurrent
    <3> QED
      BY <2>1, <3>1, <3>2 DEF NoticeInv, NoticeTypes, IdsAreGivenOut, Notice!ToastsAreTimed
  <2> QED
    BY <2>2, <2>3
<1>10. CASE Notice!Retry
  BY <1>10, RenderedStep DEF Notice!Retry, NoticeInv, NoticeTypes
<1>11. CASE UNCHANGED noticeVars
  BY <1>6, <1>11 DEF noticeVars, NoticeInv, NoticeTypes
<1> QED
  BY <1>2, <1>4, <1>5, <1>7, <1>8, <1>9, <1>10, <1>11 DEF Notice!Next

\* The invariant of the notices holds in every state of the page.
THEOREM NoticeInvariant == PageSpec => []NoticeInv
BY NoticeInit, NoticeStep, NoticeMoves, PTL DEF PageSpec

\* ToastsAreTimed: through refreshes, dismissals and pushes beyond MAX_VISIBLE, a visible
\* toast has one timer, that of its latest push, and no key shows twice.
THEOREM ToastsKeepTheirTimers == PageSpec => []ToastsAreTimed
<1>1. NoticeInv => ToastsAreTimed
  BY DEF NoticeInv, ToastsAreTimed
<1> QED
  BY <1>1, NoticeInvariant, PTL

\* CrashIsCurrent: an error that the boundary shows is one of what is selected now.
THEOREM CrashesAreCurrent == PageSpec => []CrashIsCurrent
<1>1. NoticeInv => CrashIsCurrent
  BY DEF NoticeInv, CrashIsCurrent
<1> QED
  BY <1>1, NoticeInvariant, PTL

-----------------------------------------------------------------------------
(*****************************************************************************)
(* The scrub bar and the playhead (TimelineDock).                            *)
(*****************************************************************************)

\* A step of the page is a step of the dock, or leaves it alone.
LEMMA DockMoves == [PageNext]_pageVars => [Dock!Next]_dockVars
BY DEF PageNext, Only, pageVars, dockVars

\* A pointer that has captured the bar is over it.
CapturedAreOver == pointers.captured \subseteq pointers.over

\* The longest ladder.
Longest == CHOOSE n \in Counts : \A m \in Counts : m <= n

\* There is one.
LEMMA LongestIsLongest == Longest \in Nat /\ \A m \in Counts : m \in Nat /\ m <= Longest
BY DockAssumption DEF DockAssumption, Longest

\* Every index of a ladder is a position of the bar.
LEMMA PositionsOfCounts ==
    ASSUME NEW count \in Counts, NEW i \in Nat, i < count
    PROVE  i \in Dock!Positions
BY LongestIsLongest DEF Dock!Positions, Longest

\* clamp returns an index of the ladder.
LEMMA ClampType ==
    ASSUME NEW index \in Int, NEW count \in Counts
    PROVE  /\ Dock!Clamp(index, count) \in Nat
           /\ count > 0 => Dock!Clamp(index, count) < count
           /\ Dock!Clamp(index, count) \in Dock!Positions
<1>1. count \in Nat
  BY DockAssumption DEF DockAssumption
<1>2. Dock!Clamp(index, count) \in Nat /\ (count > 0 => Dock!Clamp(index, count) < count)
  BY <1>1 DEF Dock!Clamp
<1>3. \E n \in Counts : n > 1
  BY DockAssumption DEF DockAssumption
<1>4. 0 \in Dock!Positions
  BY <1>3, PositionsOfCounts, DockAssumption DEF DockAssumption
<1> QED
  BY <1>1, <1>2, <1>4, PositionsOfCounts DEF Dock!Clamp

\* The playhead, as the bar shows it.
Bars == [index : Dock!Positions, count : Counts, playing : BOOLEAN, fps : MinFps..MaxFps,
         rocking : BOOLEAN]

\* The playhead is on the ladder.
BarOK(b) == b \in Bars /\ (b.count > 0 => b.index < b.count)

\* seekIndex leaves the playhead on the ladder.
LEMMA SeekIndexType ==
    ASSUME BarOK(bar), NEW index \in Int, Dock!SeekIndex(index)
    PROVE  BarOK(bar')
<1> DEFINE i == Dock!Clamp(index, bar.count)
<1>1. bar.count \in Counts
  BY DEF BarOK, Bars
<1>2. i \in Dock!Positions /\ (bar.count > 0 => i < bar.count)
  BY <1>1, ClampType
<1>3. bar' = [bar EXCEPT !.index = i]
  BY DEF Dock!SeekIndex
<1> HIDE DEF i
<1> QED
  BY <1>2, <1>3 DEF BarOK, Bars

\* What may be previewed: a position, or nothing.
Previews == Dock!Positions \cup {Nothing}

\* The refs and the state of the scrub bar.
Drags == [dragging : BOOLEAN, hover : Previews, next : Previews, told : Previews]

\* Positions are numbers.
LEMMA PositionsAreInts == Dock!Positions \subseteq Int
BY LongestIsLongest DEF Dock!Positions, Longest

\* So are the fields of the bar.
LEMMA BarNumbers == BarOK(bar) => bar.index \in Int /\ bar.count \in Counts /\ bar.count \in Nat
<1> SUFFICES ASSUME BarOK(bar) PROVE bar.index \in Int /\ bar.count \in Counts /\ bar.count \in Nat
  OBVIOUS
<1>1. bar.index \in Dock!Positions /\ bar.count \in Counts
  BY DEF BarOK, Bars
<1> QED
  BY <1>1, PositionsAreInts, DockAssumption DEF DockAssumption

\* What the pointer can reach can be previewed.
LEMMA ReachableType == ASSUME BarOK(bar), NEW next \in Dock!Reachable PROVE next \in Previews
<1>1. bar.count \in Counts /\ bar.count \in Nat
  BY BarNumbers
<1>2. CASE bar.count < 2
  BY <1>2 DEF Dock!Reachable, Previews
<1>3. CASE ~(bar.count < 2)
  <2>1. next \in Nat /\ next < bar.count
    BY <1>1, <1>3 DEF Dock!Reachable
  <2> QED
    BY <1>1, <2>1, PositionsOfCounts DEF Previews
<1> QED
  BY <1>2, <1>3

\* A report of the pointer's position moves the preview only.
LEMMA ReportType ==
    ASSUME NEW d \in Drags, NEW index \in Dock!Positions
    PROVE  /\ Dock!Report(d, index) \in Drags
           /\ Dock!Report(d, index).dragging = d.dragging
           /\ Dock!Report(d, index).hover = d.hover
           /\ Dock!Report(d, index).next = d.next
BY DEF Dock!Report, Drags, Previews

\* The type invariant of the module, part by part.
LEMMA DockTypes ==
  Dock!TypeOK <=> /\ BarOK(bar)
                  /\ pointers \in [over : SUBSET Pointers, captured : SUBSET Pointers]
                  /\ drag \in Drags
                  /\ presses \in 0..Presses
BY DEF Dock!TypeOK, BarOK, Bars, Drags, Previews

\* What PreviewEnds says before the rendering of what was set.
NothingIsSet ==
    /\ drag.dragging => pointers.captured # {}
    /\ pointers.over = {} => drag.next = Nothing

\* With nothing set and rendered, no preview is left when no pointer is over the bar.
LEMMA RenderedShows ==
    ASSUME drag \in Drags, CapturedAreOver, NothingIsSet
    PROVE  PreviewEnds
<1>1. SUFFICES ASSUME pointers.over = {}, drag = Dock!Rendered
               PROVE  drag.hover = Nothing /\ drag.told = Nothing
  BY DEF PreviewEnds, Dock!PreviewEnds, NothingIsSet
<1>2. ~drag.dragging /\ drag.next = Nothing
  BY <1>1 DEF CapturedAreOver, NothingIsSet
<1>3. drag.hover = Nothing
  <2>1. Dock!Rendered.hover = drag.next
    BY <1>2 DEF Dock!Rendered, Dock!Report, Drags
  <2> QED
    BY <1>1, <1>2, <2>1
<1>4. Dock!Rendered.told = Nothing
  BY <1>2 DEF Dock!Rendered, Dock!Report, Drags
<1> QED
  BY <1>1, <1>3, <1>4

\* The inductive invariant of the dock.
DockInv ==
    /\ BarOK(bar)
    /\ pointers \in [over : SUBSET Pointers, captured : SUBSET Pointers]
    /\ drag \in Drags
    /\ presses \in 0..Presses
    /\ CapturedAreOver
    /\ NothingIsSet

\* The invariant holds when the dock is mounted.
LEMMA DockInit == Dock!Init => DockInv
<1> SUFFICES ASSUME Dock!Init PROVE DockInv
  OBVIOUS
<1>1. (CHOOSE n \in Counts : n > 1) \in Counts /\ (CHOOSE n \in Counts : n > 1) > 1
  BY DockAssumption DEF DockAssumption
<1>2. 0 \in Dock!Positions
  BY <1>1, PositionsOfCounts, DockAssumption DEF DockAssumption
<1>3. BarOK(bar)
  BY <1>1, <1>2, DockAssumption DEF DockAssumption, Dock!Init, BarOK, Bars
<1> QED
  BY <1>3, DockAssumption
  DEF DockAssumption, Dock!Init, DockInv, Drags, Previews, CapturedAreOver, NothingIsSet

\* A pointer goes down on the bar or moves over it.
LEMMA DockTrackStep ==
    ASSUME DockInv, NEW p \in Pointers, NEW next \in Dock!Reachable,
           Dock!PointerDown(p, next) \/ Dock!PointerMove(p, next)
    PROVE  DockInv'
<1>1. next \in Previews /\ (next # Nothing => next \in Int)
  BY ReachableType DEF DockInv, Dock!Reachable, BarOK, Bars
<1>2. BarOK(bar')
  <2>1. CASE UNCHANGED bar
    BY <2>1 DEF DockInv
  <2>2. CASE Dock!SeekIndex(next) /\ next # Nothing
    BY <1>1, <2>2, SeekIndexType DEF DockInv
  <2> QED
    BY <2>1, <2>2 DEF Dock!PointerDown, Dock!PointerMove
<1>3. CASE Dock!PointerDown(p, next)
  <2> DEFINE d == [drag EXCEPT !.dragging = TRUE]
  <2>1. d \in Drags /\ d.dragging /\ d.next = drag.next
    BY DEF DockInv, Drags
  <2>2. bar'.index \in Dock!Positions
    BY <1>2 DEF BarOK, Bars
  <2>3. drag' = Dock!Report(d, bar'.index)
    BY <1>3 DEF Dock!PointerDown
  <2>4. drag' \in Drags /\ drag'.dragging
    BY <2>1, <2>2, <2>3, ReportType
  <2>5. pointers' = [over |-> pointers.over \cup {p}, captured |-> pointers.captured \cup {p}]
    BY <1>3 DEF Dock!PointerDown
  <2> QED
    BY <1>2, <1>3, <2>4, <2>5 DEF Dock!PointerDown, DockInv, CapturedAreOver, NothingIsSet
<1>4. CASE Dock!PointerMove(p, next)
  <2>1. drag' \in Drags /\ drag'.dragging = drag.dragging
    BY <1>1, <1>4 DEF Dock!PointerMove, DockInv, Drags
  <2>2. pointers' = [pointers EXCEPT !.over = @ \cup {p}]
    BY <1>4 DEF Dock!PointerMove
  <2> QED
    BY <1>2, <1>4, <2>1, <2>2 DEF Dock!PointerMove, DockInv, CapturedAreOver, NothingIsSet
<1> QED
  BY <1>3, <1>4

\* A pointer is released, or leaves the bar.
LEMMA DockReleaseStep ==
    ASSUME DockInv, NEW p \in Pointers, Dock!EndDrag(p) \/ Dock!PointerLeave(p)
    PROVE  DockInv'
<1>1. CASE Dock!EndDrag(p)
  <2> DEFINE d == [drag EXCEPT !.dragging = FALSE]
  <2>1. d \in Drags /\ ~d.dragging /\ d.next = drag.next
    BY DEF DockInv, Drags
  <2>2. drag' \in Drags /\ ~drag'.dragging /\ drag'.next = drag.next
    BY <1>1, <2>1, ReportType DEF Dock!EndDrag, DockInv, BarOK, Bars
  <2> QED
    BY <1>1, <2>2 DEF Dock!EndDrag, DockInv, CapturedAreOver, NothingIsSet
<1>2. CASE Dock!PointerLeave(p)
  <2>1. drag' \in Drags /\ drag'.dragging = drag.dragging /\ (~drag.dragging => drag'.next = Nothing)
    BY <1>2 DEF Dock!PointerLeave, DockInv, Drags, Previews
  <2>2. pointers' = [pointers EXCEPT !.over = @ \ {p}] /\ p \notin pointers.captured
    BY <1>2 DEF Dock!PointerLeave
  <2> QED
    BY <1>2, <2>1, <2>2 DEF Dock!PointerLeave, DockInv, CapturedAreOver, NothingIsSet
<1> QED
  BY <1>1, <1>2

\* React renders the preview that was set.
LEMMA DockRenderStep == DockInv /\ Dock!Render => DockInv'
<1> SUFFICES ASSUME DockInv, Dock!Render PROVE DockInv'
  OBVIOUS
<1> DEFINE d == [drag EXCEPT !.hover = drag.next]
<1>1. d \in Drags /\ d.dragging = drag.dragging /\ d.next = drag.next
  BY DEF DockInv, Drags
<1>2. drag' \in Drags /\ drag'.dragging = drag.dragging /\ drag'.next = drag.next
  BY <1>1, ReportType DEF Dock!Render, Dock!Rendered, DockInv, BarOK, Bars
<1> QED
  BY <1>2 DEF Dock!Render, DockInv, CapturedAreOver, NothingIsSet

\* The buttons and keys move the playhead only.
LEMMA DockControlStep ==
    ASSUME DockInv, BarOK(bar'), UNCHANGED <<pointers, drag>>, presses' \in 0..Presses
    PROVE  DockInv'
BY DEF DockInv, CapturedAreOver, NothingIsSet

\* A press is counted.
LEMMA DockPressType == DockInv /\ Dock!Press => presses' \in 0..Presses /\ UNCHANGED <<pointers, drag>>
BY DockAssumption DEF DockAssumption, DockInv, Dock!Press

\* Every step keeps the invariant.
LEMMA DockStep == DockInv /\ [Dock!Next]_dockVars => DockInv'
<1> SUFFICES ASSUME DockInv, [Dock!Next]_dockVars PROVE DockInv'
  OBVIOUS
<1>0. BarOK(bar) /\ bar.index \in Int /\ bar.count \in Nat
  BY BarNumbers, DockAssumption DEF DockInv, DockAssumption
<1>1. ASSUME NEW control \in DOMAIN Dock!Targets, Dock!Button(control) \/ Dock!Hotkey(control)
      PROVE  DockInv'
  <2>1. Dock!Targets[control] \in Int
    BY <1>0, <1>1 DEF Dock!Targets
  <2>2. BarOK(bar')
    BY <1>0, <1>1, <2>1, SeekIndexType DEF Dock!Button, Dock!Hotkey
  <2> QED
    BY <1>1, <2>2, DockPressType, DockControlStep DEF Dock!Button, Dock!Hotkey
<1>8. ASSUME NEW index \in Dock!Positions, Dock!JumpHours(index)
      PROVE  DockInv'
  <2>1. index \in Int
    BY LongestIsLongest DEF Dock!Positions
  <2>2. BarOK(bar')
    BY <1>0, <1>8, <2>1, SeekIndexType DEF Dock!JumpHours
  <2> QED
    BY <1>8, <2>2, DockPressType, DockControlStep DEF Dock!JumpHours
<1>2. CASE Dock!TogglePlay
  <2>1. BarOK(bar')
    BY <1>0, <1>2 DEF Dock!TogglePlay, BarOK, Bars
  <2> QED
    BY <1>2, <2>1, DockPressType, DockControlStep DEF Dock!TogglePlay
<1>3. ASSUME NEW delta \in {-1, 1}, Dock!ChangeFps(delta)
      PROVE  DockInv'
  <2>1. BarOK(bar')
    BY <1>0, <1>3 DEF Dock!ChangeFps, BarOK, Bars
  <2> QED
    BY <1>3, <2>1, DockPressType, DockControlStep DEF Dock!ChangeFps
<1>4. CASE Dock!ToggleLoop
  <2>1. BarOK(bar')
    BY <1>0, <1>4 DEF Dock!ToggleLoop, BarOK, Bars
  <2> QED
    BY <1>4, <2>1, DockPressType, DockControlStep DEF Dock!ToggleLoop
<1>5. ASSUME NEW count \in Counts, Dock!SetHours(count)
      PROVE  DockInv'
  <2> DEFINE i == Dock!Clamp(bar.index, count)
  <2>1. i \in Dock!Positions /\ (count > 0 => i < count)
    BY <1>0, ClampType
  <2>2. bar' = [bar EXCEPT !.count = count, !.index = i]
    BY <1>5 DEF Dock!SetHours
  <2> HIDE DEF i
  <2>3. BarOK(bar')
    BY <1>0, <2>1, <2>2 DEF BarOK, Bars
  <2> QED
    BY <1>5, <2>3, DockPressType, DockControlStep DEF Dock!SetHours
<1>6. ASSUME NEW index \in Dock!Positions, Dock!AdvanceFrame(index)
      PROVE  DockInv'
  <2>1. CASE bar.count < 2
    <3>1. BarOK(bar')
      BY <1>0, <1>6, <2>1 DEF Dock!AdvanceFrame, BarOK, Bars
    <3> QED
      BY <1>6, <3>1, DockControlStep DEF Dock!AdvanceFrame, DockInv
  <2>2. CASE ~(bar.count < 2)
    <3>1. Dock!SeekIndex(index) /\ index \in Int
      BY <1>6, <2>2, LongestIsLongest DEF Dock!AdvanceFrame, Dock!Positions
    <3>2. BarOK(bar')
      BY <1>0, <3>1, SeekIndexType
    <3> QED
      BY <1>6, <3>2, DockControlStep DEF Dock!AdvanceFrame, DockInv
  <2> QED
    BY <2>1, <2>2
<1>7. CASE UNCHANGED dockVars
  BY <1>7 DEF dockVars, DockInv, CapturedAreOver, NothingIsSet
<1> QED
  BY <1>1, <1>2, <1>3, <1>4, <1>5, <1>6, <1>7, <1>8, DockTrackStep, DockReleaseStep, DockRenderStep
     DEF Dock!Next

\* PreviewEnds: up, cancel and leave of several pointers, in any order and between any
\* renders, leave no preview behind.
THEOREM PreviewAlwaysEnds == PageSpec => []PreviewEnds
<1>1. PageInit => DockInv
  BY DockInit DEF PageInit
<1>2. DockInv /\ [PageNext]_pageVars => DockInv'
  BY DockMoves, DockStep
<1>3. DockInv => PreviewEnds
  BY RenderedShows DEF DockInv
<1> QED
  BY <1>1, <1>2, <1>3, PTL DEF PageSpec

-----------------------------------------------------------------------------
(*****************************************************************************)
(* The product drawer (ProductCatalog).                                      *)
(*****************************************************************************)

\* A step of the page is a step of the drawer, or leaves it alone.
LEMMA CatalogMoves == [PageNext]_pageVars => [Catalog!Next]_catalogVars
BY DEF PageNext, Only, pageVars, catalogVars

\* What an entry of the tables promises.
IsProduct(p) ==
    /\ p.types \subseteq Catalog!Types /\ p.type \in p.types
    /\ p.percentiles \subseteq Catalog!Percentiles /\ p.accums \subseteq Catalog!Accumulations
    /\ IF p.percentiles = {} THEN p.percentile = NoOption ELSE p.percentile \in p.percentiles
    /\ IF p.accums = {} THEN p.accum = NoOption ELSE p.accum \in p.accums
    /\ p.thresholds \in 0..5

\* product() makes an entry that keeps the promise.
LEMMA ProductIsProduct ==
    ASSUME NEW id, NEW element, NEW types, NEW percentiles, NEW accums, NEW thresholds,
           types \subseteq Catalog!Types, "deterministic" \in types \/ "probabilistic" \in types,
           percentiles \subseteq Catalog!Percentiles, percentiles = {} \/ 50 \in percentiles,
           accums \subseteq Catalog!Accumulations, thresholds \in 0..5
    PROVE  IsProduct(Catalog!Product(id, element, types, percentiles, accums, thresholds))
BY DEF IsProduct, Catalog!Product

\* So does an entry without options.
LEMMA PlainIsProduct ==
    ASSUME NEW id, NEW element, NEW types, NEW thresholds,
           types \subseteq Catalog!Types, "deterministic" \in types \/ "probabilistic" \in types,
           thresholds \in 0..5
    PROVE  IsProduct(Catalog!Plain(id, element, types, thresholds))
BY ProductIsProduct DEF Catalog!Plain

\* The lists of types that the tables share.
LEMMA TypesOfTables ==
  /\ Catalog!Det \subseteq Catalog!Types /\ "deterministic" \in Catalog!Det
  /\ Catalog!Prob \subseteq Catalog!Types /\ "probabilistic" \in Catalog!Prob
  /\ Catalog!DetMean \subseteq Catalog!Types /\ "deterministic" \in Catalog!DetMean
  /\ Catalog!DetProb \subseteq Catalog!Types /\ "deterministic" \in Catalog!DetProb
  /\ "deterministic" \in Catalog!Types
BY DEF Catalog!Det, Catalog!Prob, Catalog!DetMean, Catalog!DetProb, Catalog!Types

\* The lists of options that they share.
LEMMA OptionsOfTables ==
  /\ Catalog!Five \subseteq Catalog!Percentiles /\ 50 \in Catalog!Five /\ 50 \in Catalog!Percentiles
  /\ \A a \in {"1h", "6h", "12h", "24h", "48h", "72h"} : {a} \subseteq Catalog!Accumulations
BY DEF Catalog!Five, Catalog!Percentiles, Catalog!Accumulations

\* The entries of each group keep the promise: temperature and moisture,
LEMMA TempMoistureOK == \A p \in Catalog!TempMoisture : IsProduct(p)
BY ProductIsProduct, PlainIsProduct, TypesOfTables, OptionsOfTables DEF Catalog!TempMoisture

\* precipitation,
LEMMA PrecipQpfOK == \A p \in Catalog!PrecipQpf : IsProduct(p)
<1>1. \A id, accum : accum \in Catalog!Accumulations => IsProduct(Catalog!Pop(id, accum))
  BY TypesOfTables DEF Catalog!Pop, IsProduct, Catalog!Product, Catalog!DetProb
<1> QED
  BY <1>1, ProductIsProduct, TypesOfTables, OptionsOfTables DEF Catalog!PrecipQpf

\* winter,
LEMMA WinterOK == \A p \in Catalog!Winter : IsProduct(p)
<1>1. IsProduct([Catalog!Product("snow", "snow", Catalog!Types, Catalog!Percentiles,
                                 Catalog!Accumulations \ {"1h"}, 5) EXCEPT !.accum = "24h"])
  BY TypesOfTables, OptionsOfTables DEF IsProduct, Catalog!Product, Catalog!Accumulations
<1> QED
  BY <1>1, PlainIsProduct, TypesOfTables DEF Catalog!Winter

\* wind,
LEMMA WindOK == \A p \in Catalog!Wind : IsProduct(p)
BY ProductIsProduct, PlainIsProduct, TypesOfTables, OptionsOfTables DEF Catalog!Wind

\* convection,
LEMMA ConvectiveOK == \A p \in Catalog!Convective : IsProduct(p)
BY PlainIsProduct, TypesOfTables DEF Catalog!Convective

\* aviation and marine,
LEMMA AviationMarineOK == \A p \in Catalog!AviationMarine : IsProduct(p)
BY ProductIsProduct, PlainIsProduct, TypesOfTables, OptionsOfTables DEF Catalog!AviationMarine

\* and fire.
LEMMA FireOK == \A p \in Catalog!Fire : IsProduct(p)
BY PlainIsProduct, TypesOfTables DEF Catalog!Fire

\* So every product does.
LEMMA ProductsOK == \A p \in Catalog!Products : IsProduct(p)
BY TempMoistureOK, PrecipQpfOK, WinterOK, WindOK, ConvectiveOK, AviationMarineOK, FireOK
DEF Catalog!Products

\* What MapShell keeps of the selection.
Selections ==
    [product : Catalog!Products, type : Catalog!Types, percentile : Catalog!Percentiles,
     accum : Catalog!Accumulations, threshold : 0..5]

\* The inductive invariant of the selection.
CatalogInv ==
    /\ selection \in Selections
    /\ drawer \in [mobile : BOOLEAN, open : BOOLEAN, favorites : BOOLEAN]
    /\ choices \in 0..Choices
    /\ OptionsBelongToProduct

\* The id of an entry is the one it was made with.
LEMMA IdOfProduct ==
  \A id, element, types, percentiles, accums, thresholds :
      Catalog!Product(id, element, types, percentiles, accums, thresholds).id = id
BY DEF Catalog!Product

\* Also without options.
LEMMA IdOfPlain ==
  \A id, element, types, thresholds : Catalog!Plain(id, element, types, thresholds).id = id
BY DEF Catalog!Product, Catalog!Plain

\* The page starts with a product of the tables.
LEMMA CatalogInit == Catalog!Init => CatalogInv
<1> SUFFICES ASSUME Catalog!Init PROVE CatalogInv
  OBVIOUS
<1> DEFINE tmp == Catalog!Product("tmp", "tmp", Catalog!DetMean, Catalog!Five, {}, 0)
<1>1. tmp \in Catalog!Products /\ tmp.id = "tmp"
  BY DEF Catalog!Products, Catalog!TempMoisture, Catalog!Product
<1>2. selection.product \in Catalog!Products /\ selection.product.id = "tmp"
  BY <1>1 DEF Catalog!Init, Catalog!ProductById
<1> HIDE DEF tmp
<1>3. \A p \in Catalog!TempMoisture : p.id = "tmp" => p = tmp
  BY IdOfProduct, IdOfPlain DEF Catalog!TempMoisture, tmp, Catalog!Plain
<1>4. \A p \in Catalog!PrecipQpf \cup Catalog!Winter : p.id # "tmp"
  <2>1. \A id, accum : Catalog!Pop(id, accum).id = id
    BY DEF Catalog!Pop, Catalog!Product
  <2> DEFINE snow == [Catalog!Product("snow", "snow", Catalog!Types, Catalog!Percentiles,
                                      Catalog!Accumulations \ {"1h"}, 5) EXCEPT !.accum = "24h"]
  <2>2. snow.id = "snow"
    BY DEF Catalog!Product
  <2>3. \A p \in Catalog!PrecipQpf : p.id # "tmp"
    BY <2>1, IdOfProduct DEF Catalog!PrecipQpf
  <2>4. \A p \in Catalog!Winter : p.id # "tmp"
    <3> DEFINE others == {Catalog!Plain("snowc", "snowc", Catalog!Det, 0),
                          Catalog!Plain("snowlev", "snowlev", Catalog!Det, 0),
                          Catalog!Plain("ice_accum", "snow", Catalog!Prob, 3)}
    <3>1. Catalog!Winter = {snow} \cup others
      BY DEF Catalog!Winter
    <3>2. \A p \in others : p.id # "tmp"
      BY IdOfPlain
    <3> QED
      BY <2>2, <3>1, <3>2
  <2> QED
    BY <2>3, <2>4
<1>5. \A p \in Catalog!Wind \cup Catalog!Convective \cup Catalog!AviationMarine \cup Catalog!Fire :
          p.id # "tmp"
  BY IdOfProduct, IdOfPlain
  DEF Catalog!Wind, Catalog!Convective, Catalog!AviationMarine, Catalog!Fire
<1>6. selection.product = tmp
  BY <1>2, <1>3, <1>4, <1>5 DEF Catalog!Products
<1>7. /\ tmp.types = {"deterministic", "mean"} /\ tmp.percentiles = {10, 25, 50, 75, 90}
      /\ tmp.accums = {} /\ tmp.thresholds = 0
  BY DEF tmp, Catalog!Product, Catalog!DetMean, Catalog!Five
<1>8. selection \in Selections
  BY <1>2 DEF Catalog!Init, Selections, Catalog!Types, Catalog!Percentiles, Catalog!Five,
              Catalog!Accumulations
<1> QED
  BY <1>6, <1>7, <1>8, CatalogAssumption
  DEF CatalogAssumption, Catalog!Init, CatalogInv, OptionsBelongToProduct,
      Catalog!OptionsBelongToProduct

\* Every choice keeps the invariant.
LEMMA CatalogStep == CatalogInv /\ [Catalog!Next]_catalogVars => CatalogInv'
<1> SUFFICES ASSUME CatalogInv, [Catalog!Next]_catalogVars PROVE CatalogInv'
  OBVIOUS
<1> DEFINE Belongs(s) ==
      /\ s \in Selections
      /\ s.type \in s.product.types
      /\ s.product.percentiles # {} => s.percentile \in s.product.percentiles
      /\ s.product.accums # {} => s.accum \in s.product.accums
      /\ s.threshold \in 0..s.product.thresholds
<1>1. Belongs(selection)
  BY DEF CatalogInv, OptionsBelongToProduct, Catalog!OptionsBelongToProduct
<1>2. IsProduct(selection.product)
  BY ProductsOK DEF CatalogInv, Selections
<1>3. ASSUME NEW new, Belongs(new), Catalog!Choose(new)
      PROVE  Belongs(selection') /\ choices' \in 0..Choices
  <2>1. selection' = new /\ choices \in Nat /\ choices > 0 /\ choices' = choices - 1
    BY <1>3, CatalogAssumption DEF Catalog!Choose, CatalogInv, CatalogAssumption
  <2>2. choices' \in 0..Choices
    BY <2>1, CatalogAssumption DEF CatalogInv, CatalogAssumption
  <2> QED
    BY <1>3, <2>1, <2>2
<1>4. ASSUME Belongs(selection'), choices' \in 0..Choices,
             drawer' \in [mobile : BOOLEAN, open : BOOLEAN, favorites : BOOLEAN]
      PROVE  CatalogInv'
  BY <1>4 DEF CatalogInv, OptionsBelongToProduct, Catalog!OptionsBelongToProduct
<1>5. ASSUME NEW p \in Catalog!Products, Catalog!SelectProduct(p)
      PROVE  CatalogInv'
  <2>1. IsProduct(p)
    BY ProductsOK
  <2>2. Catalog!Selected(p) \in Selections
    <3>1. /\ p.type \in Catalog!Types
          /\ p.percentile = NoOption \/ p.percentile \in Catalog!Percentiles
          /\ p.accum = NoOption \/ p.accum \in Catalog!Accumulations
      BY <2>1 DEF IsProduct
    <3> DEFINE new == Catalog!Selected(p)
    <3>2. new.product = p /\ new.type = p.type /\ new.threshold = 0
      BY DEF Catalog!Selected, CatalogInv, Selections
    <3>3. /\ new.percentile = IF p.percentile = NoOption THEN selection.percentile ELSE p.percentile
          /\ new.accum = IF p.accum = NoOption THEN selection.accum ELSE p.accum
      BY DEF Catalog!Selected, CatalogInv, Selections
    <3>4. /\ selection.percentile \in Catalog!Percentiles
          /\ selection.accum \in Catalog!Accumulations
      BY DEF CatalogInv, Selections
    <3>5. /\ new.product \in Catalog!Products /\ new.type \in Catalog!Types
          /\ new.percentile \in Catalog!Percentiles /\ new.accum \in Catalog!Accumulations
          /\ new.threshold \in 0..5
      BY <3>1, <3>2, <3>3, <3>4
    <3> QED
      BY <3>5 DEF CatalogInv, Selections, Catalog!Selected
  <2>3. Belongs(Catalog!Selected(p))
    <3>1. p.thresholds \in Nat
      BY <2>1 DEF IsProduct
    <3>2. NoOption \notin p.percentiles /\ NoOption \notin p.accums
      BY <2>1, CatalogAssumption DEF IsProduct, CatalogAssumption
    <3> QED
      BY <2>1, <2>2, <3>1, <3>2 DEF CatalogInv, Selections, Catalog!Selected, IsProduct
  <2>4. drawer' \in [mobile : BOOLEAN, open : BOOLEAN, favorites : BOOLEAN]
    BY <1>5 DEF Catalog!SelectProduct, CatalogInv
  <2> QED
    BY <1>3, <1>4, <1>5, <2>3, <2>4 DEF Catalog!SelectProduct
<1>6. ASSUME NEW type \in Catalog!Types, Catalog!SelectType(type)
      PROVE  CatalogInv'
  <2>1. Belongs([selection EXCEPT !.type = type])
    BY <1>1, <1>6 DEF Catalog!SelectType, Selections
  <2> QED
    BY <1>3, <1>4, <1>6, <2>1 DEF Catalog!SelectType, CatalogInv
<1>7. ASSUME NEW percentile \in Catalog!Percentiles, Catalog!SelectPercentile(percentile)
      PROVE  CatalogInv'
  <2>1. Belongs([selection EXCEPT !.percentile = percentile])
    BY <1>1, <1>7 DEF Catalog!SelectPercentile, Selections
  <2> QED
    BY <1>3, <1>4, <1>7, <2>1 DEF Catalog!SelectPercentile, CatalogInv
<1>8. ASSUME NEW accum \in Catalog!Accumulations, Catalog!SelectAccum(accum)
      PROVE  CatalogInv'
  <2>1. Belongs([selection EXCEPT !.accum = accum])
    BY <1>1, <1>8 DEF Catalog!SelectAccum, Selections
  <2> QED
    BY <1>3, <1>4, <1>8, <2>1 DEF Catalog!SelectAccum, CatalogInv
<1>9. ASSUME NEW threshold \in 1..5, Catalog!SelectThreshold(threshold)
      PROVE  CatalogInv'
  <2>1. selection.product.thresholds \in Nat
    BY <1>2 DEF IsProduct
  <2>2. Belongs([selection EXCEPT !.threshold = threshold])
    BY <1>1, <1>9, <2>1 DEF Catalog!SelectThreshold, Selections
  <2> QED
    BY <1>3, <1>4, <1>9, <2>2 DEF Catalog!SelectThreshold, CatalogInv
<1>10. CASE Catalog!ToggleDrawer \/ Catalog!Resize \/ Catalog!ShowOnlyFavorites
  BY <1>1, <1>4, <1>10
     DEF Catalog!ToggleDrawer, Catalog!Resize, Catalog!ShowOnlyFavorites, CatalogInv
<1>11. CASE UNCHANGED catalogVars
  BY <1>1, <1>4, <1>11 DEF catalogVars, CatalogInv
<1> QED
  BY <1>5, <1>6, <1>7, <1>8, <1>9, <1>10, <1>11 DEF Catalog!Next

\* OptionsBelongToProduct: whatever is chosen in the drawer, in which order, the options
\* shown as selected are among those that the tables give the selected product.
THEOREM OptionsAreOfTheProduct == PageSpec => []OptionsBelongToProduct
<1>1. PageInit => CatalogInv
  BY CatalogInit DEF PageInit
<1>2. CatalogInv /\ [PageNext]_pageVars => CatalogInv'
  BY CatalogMoves, CatalogStep
<1>3. CatalogInv => OptionsBelongToProduct
  BY DEF CatalogInv
<1> QED
  BY <1>1, <1>2, <1>3, PTL DEF PageSpec

-----------------------------------------------------------------------------
(*****************************************************************************)
(* The preferences (Preferences).                                            *)
(*****************************************************************************)

\* A step of the page is a step of the preferences, or leaves them alone.
LEMMA SavedMoves == [PageNext]_pageVars => [Saved!Next]_savedVars
BY DEF PageNext, Only, pageVars, savedVars

\* The entries of localStorage, of this version and the one before.
Storages ==
    [units : Saved!UnitSystems \cup {None}, wind : Saved!WindDisplays \cup {None},
     theme : Saved!Themes \cup {None}, favorites : (SUBSET Pinned) \cup {None},
     old : (SUBSET Pinned) \cup {None}]

\* One product was pinned or unpinned.
OneToggle(from, to) == \E p \in Pinned : to = from \cup {p} \/ to = from \ {p}

\* What is shown is what is stored, but for the one toggle that the save effect has
\* still to write.
FavoritesOnTheWay ==
    /\ saveDue # {} => phase = "ready"
    /\ phase = "ready" =>
           IF "favorites" \in saveDue
           THEN shown.favorites = Saved!SavedFavorites
                \/ OneToggle(Saved!SavedFavorites, shown.favorites)
           ELSE shown.favorites = Saved!SavedFavorites

\* The inductive invariant of the preferences.
SavedInv == Saved!TypeOK /\ FavoritesOnTheWay

\* A load finds a set of products.
LEMMA SavedFavoritesType == Saved!TypeOK => Saved!SavedFavorites \in SUBSET Pinned
BY SavedAssumption DEF SavedAssumption, Saved!TypeOK, Saved!SavedFavorites, Saved!Or

\* The invariant holds before the page loads.
LEMMA SavedInit == Saved!Init => SavedInv
<1> SUFFICES ASSUME Saved!Init PROVE SavedInv
  OBVIOUS
<1>1. storage \in Storages
  BY DEF Saved!Init, Storages, Saved!UnitSystems
<1>2. shown \in Saved!Shown
  BY DEF Saved!Init, Saved!FirstRender, Saved!Shown, Saved!UnitSystems, Saved!WindDisplays,
         Saved!Themes
<1>3. saveBudget \in [changes : 0..SavedChanges, loads : 0..Loads]
  BY SavedAssumption DEF SavedAssumption, Saved!Init
<1> QED
  BY <1>1, <1>2, <1>3 DEF SavedInv, Saved!Init, Saved!TypeOK, Storages, FavoritesOnTheWay

\* What no effect or choice can do to the entries of the favorites.
LEMMA SavedStep ==
  SavedInv /\ [Saved!Next]_savedVars =>
      /\ SavedInv'
      /\ Saved!SavedFavorites' # Saved!SavedFavorites =>
             OneToggle(Saved!SavedFavorites, Saved!SavedFavorites')
<1> SUFFICES ASSUME SavedInv, [Saved!Next]_savedVars
             PROVE  /\ SavedInv'
                    /\ Saved!SavedFavorites' # Saved!SavedFavorites =>
                           OneToggle(Saved!SavedFavorites, Saved!SavedFavorites')
  OBVIOUS
<1> DEFINE same == storage'.favorites = storage.favorites /\ storage'.old = storage.old
<1>a. storage \in Storages /\ shown \in Saved!Shown /\ saveDue \subseteq {"units", "wind", "favorites"}
      /\ saveBudget \in [changes : 0..SavedChanges, loads : 0..Loads]
      /\ phase \in {"closed", "mounting", "ready"}
  BY DEF SavedInv, Saved!TypeOK, Storages
<1>b. same => Saved!SavedFavorites' = Saved!SavedFavorites
  BY DEF Saved!SavedFavorites, Saved!Or
<1>c. ASSUME storage' \in Storages, shown' \in Saved!Shown,
             saveDue' \subseteq {"units", "wind", "favorites"},
             saveBudget' \in [changes : 0..SavedChanges, loads : 0..Loads],
             phase' \in {"closed", "mounting", "ready"}
      PROVE  Saved!TypeOK'
  BY <1>c DEF Saved!TypeOK, Storages
<1>d. ASSUME NEW new \in Saved!Shown, NEW effect \in SUBSET {"units", "wind", "favorites"},
             Saved!Choose(new, effect)
      PROVE  /\ shown' \in Saved!Shown /\ saveDue' \subseteq {"units", "wind", "favorites"}
             /\ saveBudget' \in [changes : 0..SavedChanges, loads : 0..Loads]
             /\ phase = "ready" /\ phase' = "ready" /\ shown' = new /\ saveDue' = effect /\ saveDue = {}
  BY <1>a, <1>d, SavedAssumption DEF Saved!Choose, SavedAssumption
<1>1. CASE Saved!Open
  <2>1. shown' \in Saved!Shown
    BY <1>1, <1>a
       DEF Saved!Open, Saved!FirstRender, Saved!Shown, Saved!UnitSystems, Saved!WindDisplays,
                Saved!Themes, Storages, Saved!Or
  <2>2. saveBudget' \in [changes : 0..SavedChanges, loads : 0..Loads]
    BY <1>1, <1>a, SavedAssumption DEF Saved!Open, SavedAssumption
  <2>3. Saved!TypeOK'
    BY <1>1, <1>a, <1>c, <2>1, <2>2 DEF Saved!Open
  <2> QED
    BY <1>1, <1>b, <2>3 DEF Saved!Open, SavedInv, FavoritesOnTheWay
<1>2. CASE Saved!Close
  BY <1>2, <1>a, <1>b, <1>c DEF Saved!Close, SavedInv, FavoritesOnTheWay
<1>3. CASE Saved!MountEffects
  <2>1. storage' \in Storages /\ same
    BY <1>3, <1>a DEF Saved!MountEffects, Saved!PersistsFirst, Storages, Saved!Shown
  <2>2. shown' \in Saved!Shown
    BY <1>3, <1>a, SavedFavoritesType
       DEF Saved!MountEffects, SavedInv, Saved!Shown, Storages, Saved!Or
  <2>3. Saved!SavedFavorites' = shown'.favorites
    BY <1>3, <1>a, <1>b, <2>1 DEF Saved!MountEffects, Saved!Shown
  <2> QED
    BY <1>3, <1>a, <1>b, <1>c, <2>1, <2>2, <2>3 DEF Saved!MountEffects, SavedInv, FavoritesOnTheWay
<1>4. CASE Saved!PersistEffects
  <2>1. storage' \in Storages
    BY <1>4, <1>a DEF Saved!PersistEffects, Storages, Saved!Shown
  <2>2. phase = "ready"
    BY <1>4 DEF Saved!PersistEffects, SavedInv, FavoritesOnTheWay
  <2>3. CASE "favorites" \in saveDue
    <3>1. Saved!SavedFavorites' = shown.favorites
      <4>1. storage'.favorites = shown.favorites /\ shown.favorites # None
        BY <1>4, <1>a, <2>3, SavedAssumption
        DEF Saved!PersistEffects, Storages, Saved!Shown, SavedAssumption
      <4> QED
        BY <4>1 DEF Saved!SavedFavorites, Saved!Or
    <3> QED
      BY <1>4, <1>a, <1>c, <2>1, <2>2, <2>3, <3>1
      DEF Saved!PersistEffects, SavedInv, FavoritesOnTheWay
  <2>4. CASE "favorites" \notin saveDue
    <3>1. same
      BY <1>4, <1>a, <2>4 DEF Saved!PersistEffects, Storages
    <3> QED
      BY <1>4, <1>a, <1>b, <1>c, <2>1, <2>2, <2>4, <3>1
      DEF Saved!PersistEffects, SavedInv, FavoritesOnTheWay
  <2> QED
    BY <2>3, <2>4
<1>5. ASSUME NEW units \in Saved!UnitSystems, Saved!ToggleUnits(units)
      PROVE  SavedInv' /\ same
  <2>1. [shown EXCEPT !.units = units] \in Saved!Shown
    BY <1>a DEF Saved!Shown
  <2>2. [shown EXCEPT !.units = units].favorites = shown.favorites
    BY <1>a DEF Saved!Shown
  <2> QED
    BY <1>5, <1>a, <1>b, <1>c, <1>d, <2>1, <2>2 DEF Saved!ToggleUnits, SavedInv, FavoritesOnTheWay
<1>6. ASSUME NEW wind \in Saved!WindDisplays, Saved!SelectWind(wind)
      PROVE  SavedInv' /\ same
  <2>1. [shown EXCEPT !.wind = wind] \in Saved!Shown
    BY <1>a DEF Saved!Shown
  <2>2. [shown EXCEPT !.wind = wind].favorites = shown.favorites
    BY <1>a DEF Saved!Shown
  <2> QED
    BY <1>6, <1>a, <1>b, <1>c, <1>d, <2>1, <2>2 DEF Saved!SelectWind, SavedInv, FavoritesOnTheWay
<1>7. ASSUME NEW theme \in Saved!Themes, Saved!ToggleTheme(theme)
      PROVE  SavedInv' /\ same
  <2>1. [shown EXCEPT !.theme = theme] \in Saved!Shown
    BY <1>a DEF Saved!Shown
  <2>2. [shown EXCEPT !.theme = theme].favorites = shown.favorites
    BY <1>a DEF Saved!Shown
  <2>3. storage' \in Storages /\ same
    BY <1>7, <1>a DEF Saved!ToggleTheme, Storages
  <2> QED
    BY <1>7, <1>a, <1>b, <1>c, <1>d, <2>1, <2>2, <2>3
       DEF Saved!ToggleTheme, SavedInv, FavoritesOnTheWay
<1>8. ASSUME NEW p \in Pinned, Saved!ToggleFavorite(p)
      PROVE  SavedInv' /\ same
  <2> DEFINE new == [shown EXCEPT !.favorites = IF p \in @ THEN @ \ {p} ELSE @ \cup {p}]
  <2>1. new \in Saved!Shown
    BY <1>a DEF Saved!Shown
  <2>2. new.favorites = shown.favorites \ {p} \/ new.favorites = shown.favorites \cup {p}
    BY <1>a DEF Saved!Shown
  <2>3. Saved!Choose(new, {"favorites"}) /\ UNCHANGED storage
    BY <1>8 DEF Saved!ToggleFavorite
  <2> HIDE DEF new
  <2>4. shown.favorites = Saved!SavedFavorites
    BY <1>d, <2>1, <2>3 DEF SavedInv, FavoritesOnTheWay
  <2> QED
    BY <1>a, <1>b, <1>c, <1>d, <2>1, <2>2, <2>3, <2>4 DEF SavedInv, FavoritesOnTheWay, OneToggle
<1>9. CASE UNCHANGED savedVars
  <2>1. SavedInv'
    BY <1>9 DEF savedVars, SavedInv, Saved!TypeOK, FavoritesOnTheWay, Saved!SavedFavorites
  <2> QED
    BY <1>9, <1>b, <2>1 DEF savedVars
<1> QED
  BY <1>b, <1>1, <1>2, <1>3, <1>4, <1>5, <1>6, <1>7, <1>8, <1>9 DEF Saved!Next

\* OnlyTogglesChangeFavorites: no migration, effect of a mount or save of an initial state
\* changes the favorites that a later load will find.
THEOREM FavoritesAreOnlyToggled == PageSpec => OnlyTogglesChangeFavorites
<1>1. PageInit => SavedInv
  BY SavedInit DEF PageInit
<1>2. SavedInv /\ [PageNext]_pageVars => SavedInv'
  BY SavedMoves, SavedStep
<1>3. SavedInv /\ [PageNext]_pageVars =>
          [Saved!SavedFavorites' # Saved!SavedFavorites =>
               \E p \in Pinned :
                   \/ Saved!SavedFavorites' = Saved!SavedFavorites \cup {p}
                   \/ Saved!SavedFavorites' = Saved!SavedFavorites \ {p}]_(Saved!vars)
  BY SavedMoves, SavedStep DEF OneToggle
<1> QED
  BY <1>1, <1>2, <1>3, PTL
     DEF PageSpec, OnlyTogglesChangeFavorites, Saved!OnlyTogglesChangeFavorites

-----------------------------------------------------------------------------
(*****************************************************************************)
(* The types of the page.                                                    *)
(*****************************************************************************)

\* A step of the page is a step of the raster layer and of the cursor readout, or leaves
\* them alone.
LEMMA LayerMoves == [PageNext]_pageVars => [Next]_vars /\ [ProbeNext]_probeVars
BY DEF PageNext, Only, pageVars

\* The conjunction of the invariants of the components.
PageInv ==
    /\ RasterInv
    /\ ProbeInv
    /\ WindInv
    /\ OverlayInv
    /\ FeedInv
    /\ NoticeInv
    /\ MeteogramInv
    /\ CatalogInv
    /\ SavedInv
    /\ DockInv

\* It holds when the page is mounted.
LEMMA PageInvInit == PageInit => PageInv
BY InitInv, ProbeInvInit, WindInit, OverlayInit, FeedInit, NoticeInit, MeteogramInit, CatalogInit,
   SavedInit, DockInit DEF PageInit, PageInv

\* Every step of a component keeps its part.
LEMMA PageInvStep == PageInv /\ [PageNext]_pageVars => PageInv'
<1> SUFFICES ASSUME PageInv, [PageNext]_pageVars
             PROVE  PageInv'
  OBVIOUS
<1>1. RasterInv' /\ ProbeInv'
  BY LayerMoves, NextInv, ProbeInvStep DEF PageInv
<1>2. WindInv' /\ OverlayInv' /\ MeteogramInv'
  BY WindMoves, WindStep, OverlayMoves, OverlayStep, MeteogramMoves, MeteogramStep DEF PageInv
<1>3. FeedInv' /\ NoticeInv'
  BY FollowMoves, FeedStep, NoticeMoves, NoticeStep DEF PageInv
<1>4. CatalogInv' /\ SavedInv' /\ DockInv'
  BY CatalogMoves, CatalogStep, SavedMoves, SavedStep, DockMoves, DockStep DEF PageInv
<1> QED
  BY <1>1, <1>2, <1>3, <1>4 DEF PageInv

\* PageTypeOK: every component keeps its types and bounds, in any page of any size.
THEOREM PageTypeCorrect == PageSpec => []PageTypeOK
<1>1. PageInv => PageTypeOK
  <2>1. ASSUME RasterInv, ProbeInv
        PROVE  TypeOK /\ ProbeTypeOK
    BY <2>1 DEF RasterInv, ProbeInv
  <2>2. ASSUME WindInv, OverlayInv, MeteogramInv
        PROVE  Wind!TypeOK /\ Overlay!TypeOK /\ Meteogram!TypeOK
    BY <2>2, WindTypesSuffice, OverlayTypesSuffice, MeteogramTypesSuffice
       DEF WindInv, OverlayInv, MeteogramInv
  <2>3. ASSUME FeedInv, NoticeInv
        PROVE  Follow!TypeOK /\ Notice!TypeOK
    BY <2>3, FeedTypesSuffice, NoticeTypesSuffice DEF FeedInv
  <2>4. CatalogInv => Catalog!TypeOK
    BY DEF CatalogInv, Selections, Catalog!TypeOK
  <2>5. SavedInv => Saved!TypeOK
    BY DEF SavedInv
  <2>6. DockInv => Dock!TypeOK
    BY DockTypes DEF DockInv
  <2> QED
    BY <2>1, <2>2, <2>3, <2>4, <2>5, <2>6 DEF PageInv, PageTypeOK
<1> QED
  BY <1>1, PageInvInit, PageInvStep, PTL DEF PageSpec
=============================================================================
