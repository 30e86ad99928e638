---------------------------- MODULE TilePreloader ----------------------------
(***************************************************************************)
(* The hidden-image preloader of the forecast timeline                     *)
(* (frontend/src/components/timeline/TilePreloader.ts): an LRU cache of    *)
(* frames, a queue of tiles to fetch and a bounded number of fetch slots.  *)
(*                                                                         *)
(* The module has no variables: a preloader is a value, and every method   *)
(* is an operator from the preloader before to the one after.  Timeline    *)
(* holds one.                                                              *)
(***************************************************************************)
EXTENDS Integers, FiniteSets, SequencesExt

CONSTANTS
    Hours,            \* the forecast hours: the frame keys of one context
    Urls,             \* the tiles of a frame in the viewport
    MaxCachedFrames,
    MaxInFlight

ASSUME PreloaderAssumption ==
    /\ Hours \subseteq Nat
    /\ IsFiniteSet(Urls)
    /\ MaxCachedFrames \in Nat \ {0, 1}
    /\ MaxInFlight \in Nat \ {0}

Items == Hours \X Urls

\* order lists the cached frames from the least to the most recently requested
\* (lastAccess).  A slot is held by an image of a cached frame, or is lost: the
\* image was released with its frame and its handlers will never run.
Preloader ==
    [order    : Seq(Hours),
     images   : [Hours -> SUBSET Urls],
     pending  : [Hours -> SUBSET Urls],
     queue    : Seq(Items),
     inFlight : SUBSET Items,
     lost     : 0..MaxInFlight]

\* A new preloader; also what clear() leaves.
EmptyPreloader ==
    [order |-> <<>>, images |-> [h \in Hours |-> {}], pending |-> [h \in Hours |-> {}],
     queue |-> <<>>, inFlight |-> {}, lost |-> 0]

Cached(p) == ToSet(p.order)

IsReady(p, h) == h \in Cached(p) /\ p.pending[h] = {}

FreeSlots(p) == MaxInFlight - Cardinality(p.inFlight) - p.lost

\* pump: start fetches from the head of the queue while slots are free.  (That
\* the queue only holds images of cached frames is PendingIsOnItsWay.)
Pump(p) ==
    LET n == Min({Len(p.queue), FreeSlots(p)})
    IN  [p EXCEPT !.queue = SubSeq(@, n + 1, Len(@)),
                  !.inFlight = @ \cup ToSet(SubSeq(p.queue, 1, n))]

\* The members of s that are not in out, in their order.
Without(s, out) ==
    LET kept[n \in 0..Len(s)] ==
            IF n = 0 THEN <<>>
            ELSE IF s[n] \in out THEN kept[n - 1] ELSE Append(kept[n - 1], s[n])
    IN  kept[Len(s)]

\* Mutant: the queued items of an evicted frame stay queued.
EvictKeepsQueue(p, protected) ==
    LET candidates == Without(p.order, protected)
        excess     == Max({0, Len(p.order) - MaxCachedFrames})
        victims    == ToSet(SubSeq(candidates, 1, Min({excess, Len(candidates)})))
        Kept(h)    == h \notin victims
    IN  [p EXCEPT !.order = Without(@, victims),
                  !.images = [h \in Hours |-> IF Kept(h) THEN @[h] ELSE {}],
                  !.pending = [h \in Hours |-> IF Kept(h) THEN @[h] ELSE {}],
                  !.inFlight = {item \in @ : Kept(item[1])},
                  !.lost = @ + Cardinality({item \in p.inFlight : ~Kept(item[1])})]

\* evictIfNeeded and destroyEntry: the oldest unprotected frames go until the
\* bound is met, with their queued items; inFlight keeps their images.
Evict(p, protected) ==
    LET candidates == Without(p.order, protected)
        excess     == Max({0, Len(p.order) - MaxCachedFrames})
        victims    == ToSet(SubSeq(candidates, 1, Min({excess, Len(candidates)})))
        Kept(h)    == h \notin victims
    IN  [order    |-> Without(p.order, victims),
         images   |-> [h \in Hours |-> IF Kept(h) THEN p.images[h] ELSE {}],
         pending  |-> [h \in Hours |-> IF Kept(h) THEN p.pending[h] ELSE {}],
         queue    |-> Without(p.queue, victims \X Urls),
         inFlight |-> {item \in p.inFlight : Kept(item[1])},
         lost     |-> p.lost + Cardinality({item \in p.inFlight : ~Kept(item[1])})]

Touched(order, h) == Append(Without(order, {h}), h)

\* request: queue the tiles the frame does not have yet.
Request(p, h) ==
    LET fresh == Urls \ p.images[h]
    IN  IF Urls = {} THEN p
        ELSE Pump(Evict(
               [p EXCEPT !.order = Touched(@, h),
                         !.images[h] = @ \cup fresh,
                         !.pending[h] = @ \cup fresh,
                         !.queue = @ \o SetToSeq({h} \X fresh)],
               {h}))

\* Mutant: the freed slot waits for the next request.
SettledNoPump(p, item) ==
    [p EXCEPT !.inFlight = @ \ {item}, !.pending[item[1]] = @ \ {item[2]}]

\* settle, from onload, onerror or onabort.
Settled(p, item) ==
    Pump([p EXCEPT !.inFlight = @ \ {item},
                   !.pending[item[1]] = @ \ {item[2]}])
=============================================================================
