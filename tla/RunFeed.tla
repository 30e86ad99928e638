------------------------------ MODULE RunFeed ------------------------------
(***************************************************************************)
(* Where the page learns which run to show: loadRun of MapShell            *)
(* (frontend/components/map/MapShell.tsx), which asks /runs/latest on a    *)
(* timer and when the tab becomes visible, and the cycle selector of the   *)
(* header (frontend/components/layout/Header.tsx).  Nothing keeps the      *)
(* answers of overlapping requests in order.                               *)
(*                                                                         *)
(* A cycle is the number of its hour: 24 is 00Z of the second day.         *)
(***************************************************************************)
EXTENDS Naturals, FiniteSets

CONSTANTS
    Domains,
    NoNotice,
    FirstCycle, LastCycle,  \* the hours the clock shows
    Ladder,                 \* forecast hours: 1..Ladder is canonicalForecastHours()
    Lists,                  \* the lists of hours that the server answers with
    Recent,                 \* length of the list of recent cycles (16)
    Outstanding,            \* bound: requests that wait at a time
    Changes                 \* bound: changes of the server, failures, choices

Cycles == FirstCycle..LastCycle

Outcomes == {"asked", "failed", "answered"}

Canonical == 1..Ladder

\* What /runs/latest answers: the cycle; the hours of it that are posted, {} if the answer
\* has no list of them; whether the pointer says that more come; whether it says that it
\* is stale or that NOAA cannot be reached, which the page words differently, no more.
Runs == [cycle : Cycles, hours : Lists, ingesting : BOOLEAN, troubled : BOOLEAN]

FirstRun == [cycle |-> FirstCycle, hours |-> CHOOSE hours \in Lists : hours # {},
             ingesting |-> TRUE, troubled |-> FALSE]

Ladders == (SUBSET Canonical) \ {{}}

VARIABLES
    clock,   \* the hour, and whether 40 minutes of it have passed
    server,  \* the run the server knows
    page,    \* domain, cycle, head of the recent cycles or 0, hours, hour, status
    ladder,  \* the hours that the timeline's engine has
    due,     \* the effect on the domain has not run
    flights, \* requests: whether their effect is still current, and the answer
    told,    \* lastFeedNotice; the last answer that was used; whether it announced
    budget

vars == <<clock, server, page, ladder, due, flights, told, budget>>

\* computeFallbackCycle: the hour before until 40 minutes have passed, on the same day.
Fallback(hour, late) ==
    IF late THEN hour ELSE 24 * (hour \div 24) + ((hour + 23) % 24)

AllShown == Cycles \cup {Fallback(c, l) : c \in Cycles, l \in BOOLEAN}

TypeOK ==
    /\ clock \in [hour : Cycles, late : BOOLEAN]
    /\ server \in Runs
    /\ page.domain \in Domains
    /\ page.cycle \in 0..(LastCycle + 23)
    /\ page.head \in 0..LastCycle
    /\ page.hours \in Ladders /\ ladder \in Ladders
    /\ page.hour \in Canonical
    /\ page.status \in {"complete", "ingesting"}
    /\ due \in BOOLEAN
    /\ flights \subseteq [id : 1..Outstanding, live : BOOLEAN,
                          state : Outcomes, run : Runs]
    /\ told.notice \in {NoNotice} \cup Cycles
    /\ told.troubled \in BOOLEAN /\ told.announced \in BOOLEAN
    /\ budget \in 0..Changes

Init ==
    /\ clock = [hour |-> FirstCycle, late |-> TRUE]
    /\ server = FirstRun
    /\ page = [domain |-> CHOOSE domain \in Domains : TRUE, head |-> 0,
               cycle |-> Fallback(clock.hour, clock.late),
               hours |-> Canonical, hour |-> Ladder, status |-> "complete"]
    /\ ladder = Canonical
    /\ due = TRUE
    /\ flights = {}
    /\ told = [notice |-> NoNotice, troubled |-> FALSE, cycle |-> FirstCycle,
               announced |-> FALSE]
    /\ budget = Changes

Spend == budget > 0 /\ budget' = budget - 1

-----------------------------------------------------------------------------
(***************************************************************************)
(* The time and the server.                                                *)
(***************************************************************************)

ClockTicks ==
    /\ clock' = IF clock.late THEN [hour |-> clock.hour + 1, late |-> FALSE]
                ELSE [clock EXCEPT !.late = TRUE]
    /\ clock'.hour \in Cycles
    /\ UNCHANGED <<server, page, ladder, due, flights, told, budget>>

\* NOAA posts more hours or a new cycle, the cycle completes, the pointer turns stale or
\* degraded, recovers, or falls back to an older cycle.
ServerLearns(run) ==
    /\ Spend
    /\ run # server
    /\ run.cycle <= clock.hour
    /\ run.cycle = server.cycle => server.hours \subseteq run.hours
    /\ server' = run
    /\ UNCHANGED <<clock, page, ladder, due, flights, told>>

-----------------------------------------------------------------------------
(***************************************************************************)
(* The page.                                                               *)
(***************************************************************************)

NewFlight(running) ==
    LET free == 1..Outstanding \ {f.id : f \in running}
    IN  /\ free # {}
        /\ flights' = running \cup {[id |-> CHOOSE i \in free : TRUE, live |-> TRUE,
                                     state |-> "asked", run |-> FirstRun]}

\* The interval, or visibilitychange.
LoadRun ==
    /\ ~due
    /\ NewFlight(flights)
    /\ UNCHANGED <<clock, server, page, ladder, due, told, budget>>

\* The cleanup of the effect on the domain, and its loadRun.
RunEffect ==
    /\ due
    /\ due' = FALSE
    /\ NewFlight({[f EXCEPT !.live = FALSE] : f \in flights})
    /\ UNCHANGED <<clock, server, page, ladder, told, budget>>

\* The pills of the header.
SwitchDomain(domain) ==
    /\ ~due
    /\ domain # page.domain
    /\ Spend
    /\ page' = [page EXCEPT !.domain = domain]
    /\ due' = TRUE
    /\ UNCHANGED <<clock, server, ladder, flights, told>>

\* The list of the header: it starts at the newest run known, else at the shown cycle.
Head(shown) == IF shown.head # 0 THEN shown.head ELSE shown.cycle

RecentCycles(shown) ==
    {cycle \in Cycles : Head(shown) - Recent < cycle /\ cycle <= Head(shown)}

PickCycle(cycle) ==
    /\ cycle \in RecentCycles(page)
    /\ cycle # page.cycle
    /\ Spend
    /\ page' = [page EXCEPT !.cycle = cycle]
    /\ UNCHANGED <<clock, server, ladder, due, flights, told>>

\* The timeline takes over the hours of the page, some time after they were rendered.
SetHours ==
    /\ ladder # page.hours
    /\ ladder' = page.hours
    /\ UNCHANGED <<clock, server, page, due, flights, told, budget>>

\* The timeline reports another hour of its own ladder, which the page may lack by now.
SeekHour(hour) ==
    /\ hour \in ladder
    /\ hour # page.hour
    /\ Spend
    /\ page' = [page EXCEPT !.hour = hour]
    /\ UNCHANGED <<clock, server, ladder, due, flights, told>>

-----------------------------------------------------------------------------
(***************************************************************************)
(* The answers.                                                            *)
(***************************************************************************)

Becomes(flight, answered) == flights' = (flights \ {flight}) \cup {answered}

\* The server answers with what it knows.
Reply(flight) ==
    /\ flight.state = "asked"
    /\ Becomes(flight, [flight EXCEPT !.state = "answered", !.run = server])
    /\ UNCHANGED <<clock, server, page, ladder, due, told, budget>>

\* No connection, or an error of the server.
Fail(flight) ==
    /\ flight.state = "asked"
    /\ Spend
    /\ Becomes(flight, [flight EXCEPT !.state = "failed"])
    /\ UNCHANGED <<clock, server, page, ladder, due, told>>

\* An answer that names no run, as long as the server has found none, changes nothing.
NameNone(flight) ==
    /\ flight.state = "asked"
    /\ Spend
    /\ flights' = flights \ {flight}
    /\ UNCHANGED <<clock, server, page, ladder, due, told>>

\* The hours of a run; all of them if it has no list.
Posted(run) == IF run.hours = {} THEN Canonical ELSE run.hours

\* The hour shown, or the first of the ladder if that lacks it.
Kept(hour, hours) ==
    IF hour \in hours THEN hour ELSE CHOOSE first \in hours : \A h \in hours : first <= h

Status(run) == IF run.ingesting THEN "ingesting" ELSE "complete"

\* Mutant: only the first answer selects its cycle.
ShowRunOnce(run) ==
    [page EXCEPT !.cycle = IF page.head = 0 THEN run.cycle ELSE @, !.head = run.cycle,
                 !.hours = Posted(run), !.hour = Kept(@, Posted(run)), !.status = Status(run)]

\* The state setters of loadRun; the first hour of an empty list is no hour.
ShowRun(run) ==
    [page EXCEPT !.cycle = run.cycle, !.head = run.cycle,
                 !.hours = Posted(run), !.hour = Kept(@, Posted(run)), !.status = Status(run)]

\* Mutant: every answer about a troubled feed is announced.
AnnouncesAlways(run) == run.troubled \/ told.notice # NoNotice

\* A notice whose cycle was not announced yet, or the end of the trouble.
Announces(run) ==
    IF run.troubled THEN told.notice # run.cycle ELSE told.notice # NoNotice

\* The catch branch: a cycle is guessed, no recent ones are known, the hours stay.
ShowFallback ==
    [page EXCEPT !.cycle = Fallback(clock.hour, clock.late), !.head = 0, !.status = "complete"]

\* What an answer changes; that of a cancelled effect changes nothing.
Apply(flight) ==
    CASE ~flight.live -> UNCHANGED <<page, told>>
      [] flight.live /\ flight.state = "failed" ->
            page' = ShowFallback /\ told' = [told EXCEPT !.announced = FALSE]
      [] flight.live /\ flight.state = "answered" ->
            /\ page' = ShowRun(flight.run)
            /\ told' = [notice |-> IF flight.run.troubled THEN flight.run.cycle
                                   ELSE NoNotice,
                        troubled |-> flight.run.troubled, cycle |-> flight.run.cycle,
                        announced |-> Announces(flight.run)]

Land(flight) ==
    /\ flight.state # "asked"
    /\ flights' = flights \ {flight}
    /\ Apply(flight)
    /\ UNCHANGED <<clock, server, ladder, due, budget>>

Next ==
    \/ ClockTicks
    \/ \E run \in Runs : ServerLearns(run)
    \/ LoadRun
    \/ RunEffect
    \/ \E domain \in Domains : SwitchDomain(domain)
    \/ \E cycle \in Cycles : PickCycle(cycle)
    \/ SetHours
    \/ \E hour \in Canonical : SeekHour(hour)
    \/ \E flight \in flights : Reply(flight) \/ Fail(flight) \/ NameNone(flight) \/ Land(flight)

\* The interval goes on, effects run, and a request is answered some time.
Fairness ==
    /\ WF_vars(LoadRun)
    /\ WF_vars(RunEffect)
    /\ WF_vars(SetHours)
    /\ \A i \in 1..Outstanding :
           WF_vars(\E flight \in flights :
                       flight.id = i /\ (Reply(flight) \/ Land(flight)))

Spec == Init /\ [][Next]_vars /\ Fairness

-----------------------------------------------------------------------------
(***************************************************************************)
(* Properties.                                                             *)
(***************************************************************************)

\* However its answers crossed, whatever was chosen meanwhile, and although the timeline
\* may have moved the hour off a ladder it did not know yet: when the server stays with a
\* run, the page comes to show that run, its hours, one of them and its status for good.
PageFollowsServer ==
    <>[][FALSE]_server =>
        <>[](/\ page.cycle = server.cycle
             /\ page.hours = Posted(server) /\ page.hour \in page.hours
             /\ page.status = Status(server))

\* "Announce operational conditions once per transition (not per poll)": an answer that
\* finds the condition of the answer before it announces nothing.
AnnouncedOnce ==
    [][told'.troubled = told.troubled /\ told'.cycle = told.cycle => ~told'.announced]_told
=============================================================================
