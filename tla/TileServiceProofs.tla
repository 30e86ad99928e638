------------------------- MODULE TileServiceProofs -------------------------
(***************************************************************************)
(* Safety of the tile pipeline, alone and next to the probe service, for   *)
(* any requests, fields, tiles and sizes: until the lock table is cleared, *)
(* a field is fetched and decoded once at a time, and never while it is    *)
(* cached.  The probe service keeps the bounds of its semaphore and of its *)
(* value cache.                                                            *)
(***************************************************************************)
EXTENDS ProbeService, SequenceTheorems, FiniteSetTheorems, TLAPS

Grid == [field : Fields, origin : Origin]

\* What RemoveAt leaves was there before, and nothing else is gone.
LEMMA RemoveAtSound ==
  ASSUME NEW S, NEW s \in Seq(S), NEW i \in 1..Len(s)
  PROVE  /\ RemoveAt(s, i) \in Seq(S)
         /\ Len(RemoveAt(s, i)) = Len(s) - 1
         /\ \A j \in DOMAIN RemoveAt(s, i) : \E k \in DOMAIN s : RemoveAt(s, i)[j] = s[k]
         /\ \A k \in DOMAIN s \ {i} : \E j \in DOMAIN RemoveAt(s, i) : RemoveAt(s, i)[j] = s[k]
<1> DEFINE a == SubSeq(s, 1, i - 1)
           b == SubSeq(s, i + 1, Len(s))
<1>1. i \in Int /\ Len(s) \in Nat /\ 1 <= i /\ i <= Len(s) /\ DOMAIN s = 1..Len(s)
  OBVIOUS
<1>2. /\ a \in Seq(S) /\ Len(a) = i - 1
      /\ \A j \in 1..(i - 1) : a[j] = s[j]
  OBVIOUS
<1>3. /\ b \in Seq(S) /\ Len(b) = Len(s) - i
      /\ \A j \in 1..(Len(s) - i) : b[j] = s[i + j]
  OBVIOUS
<1> HIDE DEF a, b
<1>4. /\ a \o b \in Seq(S) /\ Len(a \o b) = Len(a) + Len(b)
      /\ \A j \in 1..(Len(a) + Len(b)) :
             (a \o b)[j] = IF j <= Len(a) THEN a[j] ELSE b[j - Len(a)]
  BY <1>2, <1>3, ConcatProperties
<1>5. Len(a) + Len(b) = Len(s) - 1
  BY <1>1, <1>2, <1>3
<1>6. ASSUME NEW j \in 1..(Len(s) - 1)
      PROVE  \E k \in DOMAIN s : (a \o b)[j] = s[k]
  <2>1. CASE j <= i - 1
    <3>1. (a \o b)[j] = a[j] /\ j \in 1..(i - 1) /\ j \in DOMAIN s
      BY <1>1, <1>2, <1>4, <1>5, <2>1
    <3> QED
      BY <1>2, <3>1
  <2>2. CASE ~(j <= i - 1)
    <3>1. (a \o b)[j] = b[j - (i - 1)]
      BY <1>2, <1>4, <1>5, <2>2
    <3>2. j - (i - 1) \in 1..(Len(s) - i) /\ i + (j - (i - 1)) = j + 1
      BY <1>1, <2>2
    <3>3. b[j - (i - 1)] = s[j + 1]
      BY <1>3, <3>2
    <3> QED
      BY <1>1, <3>1, <3>3
  <2> QED
    BY <2>1, <2>2
<1>7. RemoveAt(s, i) = a \o b
  BY DEF RemoveAt, a, b
<1>8. DOMAIN (a \o b) = 1..(Len(s) - 1)
  BY <1>4, <1>5
<1>9. ASSUME NEW k \in DOMAIN s \ {i}
      PROVE  \E j \in 1..(Len(s) - 1) : (a \o b)[j] = s[k]
  <2>1. CASE k < i
    <3>1. k \in 1..(i - 1) /\ k \in 1..(Len(s) - 1)
      BY <1>1, <2>1
    <3>2. (a \o b)[k] = a[k] /\ a[k] = s[k]
      BY <1>1, <1>2, <1>4, <1>5, <3>1
    <3> QED
      BY <3>1, <3>2
  <2>2. CASE ~(k < i)
    <3>1. k - 1 \in 1..(Len(s) - 1) /\ ~(k - 1 <= i - 1) /\ k - 1 - (i - 1) \in 1..(Len(s) - i)
      BY <1>1, <2>2
    <3>2. (a \o b)[k - 1] = b[k - 1 - (i - 1)]
      BY <1>2, <1>4, <1>5, <3>1
    <3>3. b[k - 1 - (i - 1)] = s[i + (k - 1 - (i - 1))] /\ i + (k - 1 - (i - 1)) = k
      BY <1>1, <1>3, <3>1
    <3> QED
      BY <3>1, <3>2, <3>3
  <2> QED
    BY <2>1, <2>2
<1> QED
  BY <1>4, <1>5, <1>6, <1>7, <1>8, <1>9

\* A grid put into the cache leaves it well formed and within its bounds.
LEMMA PutSound ==
  ASSUME TileServiceAssumption, grids \in Seq(Grid), CachedFields \in Fits,
         NEW f \in Fields, NEW origin \in Origin, Put(f, origin)
  PROVE  /\ grids' \in Seq(Grid)
         /\ CachedFields' \in Fits
         /\ CachedFields' \subseteq CachedFields \cup {f}
<1> DEFINE others == IF f \in CachedFields THEN RemoveAt(grids, Slot(f)) ELSE grids
           new == [field |-> f, origin |-> origin]
           all == Append(others, new)
           From(n) == {all[i].field : i \in n..Len(all)}
<1>1. /\ others \in Seq(Grid)
      /\ \A i \in DOMAIN others : others[i].field \in CachedFields
  <2>1. CASE f \in CachedFields
    <3>1. Slot(f) \in 1..Len(grids)
      BY <2>1 DEF Slot, CachedFields
    <3>2. others = RemoveAt(grids, Slot(f))
      BY <2>1
    <3> QED
      BY <3>1, <3>2, RemoveAtSound DEF CachedFields
  <2>2. CASE f \notin CachedFields
    BY <2>2 DEF CachedFields
  <2> QED
    BY <2>1, <2>2
<1>2. new \in Grid /\ new.field = f
  BY DEF Grid
<1>3. CASE {f} \notin Fits
  BY <1>3 DEF Put, CachedFields
<1>4. CASE {f} \in Fits
  <2>1. PICK n \in DOMAIN all : From(n) \in Fits /\ grids' = SubSeq(all, n, Len(all))
    BY <1>4 DEF Put
  <2> HIDE DEF others, new
  <2>2. /\ all \in Seq(Grid)
        /\ \A i \in DOMAIN all : all[i].field \in CachedFields \cup {f}
    BY <1>1, <1>2
  <2> HIDE DEF all
  <2>3. n \in 1..Len(all) /\ Len(all) \in Nat
    BY <2>1, <2>2
  <2>4. /\ grids' \in Seq(Grid) /\ DOMAIN grids' = 1..(Len(all) - n + 1)
        /\ \A k \in 1..(Len(all) - n + 1) : grids'[k] = all[n + k - 1]
    BY <2>1, <2>2, <2>3
  <2>5. CachedFields' = From(n)
    <3>1. CachedFields' = {grids'[k].field : k \in 1..(Len(all) - n + 1)}
      BY <2>4 DEF CachedFields
    <3>2. ASSUME NEW k \in 1..(Len(all) - n + 1)
          PROVE  n + k - 1 \in n..Len(all) /\ grids'[k].field = all[n + k - 1].field
      BY <2>3, <2>4
    <3>3. ASSUME NEW i \in n..Len(all)
          PROVE  i - n + 1 \in 1..(Len(all) - n + 1) /\ grids'[i - n + 1].field = all[i].field
      <4>1. i - n + 1 \in 1..(Len(all) - n + 1) /\ n + (i - n + 1) - 1 = i
        BY <2>3
      <4> QED
        BY <2>4, <4>1
    <3>4. \A x \in CachedFields' : x \in From(n)
      BY <3>1, <3>2
    <3>5. \A x \in From(n) : x \in CachedFields'
      BY <3>1, <3>3
    <3> QED
      BY <3>4, <3>5
  <2>6. From(n) \subseteq CachedFields \cup {f}
    BY <2>2, <2>3
  <2> QED
    BY <2>1, <2>4, <2>5, <2>6
<1> QED
  BY <1>3, <1>4

\* A grid that is used moves to the end; the same ones are cached.
LEMMA UseSound ==
  ASSUME grids \in Seq(Grid), NEW f \in CachedFields, Use(f)
  PROVE  grids' \in Seq(Grid) /\ CachedFields' = CachedFields
<1> DEFINE i == Slot(f)
           others == RemoveAt(grids, i)
<1>1. i \in 1..Len(grids)
  BY DEF Slot, CachedFields
<1>2. grids' = Append(others, grids[i])
  BY DEF Use
<1> HIDE DEF i
<1>3. /\ others \in Seq(Grid)
      /\ \A j \in DOMAIN others : \E k \in DOMAIN grids : others[j] = grids[k]
      /\ \A k \in DOMAIN grids \ {i} : \E j \in DOMAIN others : others[j] = grids[k]
  BY <1>1, RemoveAtSound
<1> HIDE DEF others
<1>4. grids[i] \in Grid /\ i \in DOMAIN grids
  BY <1>1
<1>5. /\ grids' \in Seq(Grid) /\ DOMAIN grids' = 1..(Len(others) + 1)
      /\ grids'[Len(others) + 1] = grids[i]
      /\ \A j \in DOMAIN others : j \in DOMAIN grids' /\ grids'[j] = others[j]
  BY <1>2, <1>3, <1>4
<1>6. \A j \in DOMAIN grids' : j \in DOMAIN others \/ j = Len(others) + 1
  BY <1>3, <1>5
<1>7. \A j \in DOMAIN grids' : \E k \in DOMAIN grids : grids'[j] = grids[k]
  BY <1>3, <1>4, <1>5, <1>6
<1>8. \A k \in DOMAIN grids : \E j \in DOMAIN grids' : grids'[j] = grids[k]
  <2>1. Len(others) + 1 \in DOMAIN grids'
    BY <1>3, <1>5
  <2> QED
    BY <1>3, <1>5, <2>1
<1>9. CachedFields' = {grids'[j].field : j \in DOMAIN grids'}
  BY DEF CachedFields
<1>10. \A x \in CachedFields' : x \in CachedFields
  BY <1>7, <1>9 DEF CachedFields
<1>11. \A x \in CachedFields : x \in CachedFields'
  BY <1>8, <1>9 DEF CachedFields
<1> QED
  BY <1>5, <1>10, <1>11

\* What is not touched stays cached.
LEMMA CacheKept == UNCHANGED grids => CachedFields' = CachedFields
BY DEF CachedFields

-----------------------------------------------------------------------------
(***************************************************************************)
(* The queues of the locks.                                                *)
(***************************************************************************)

Waits(r) == request[r].stage \in {"queued", "probe", "fetch"}

InFlight(r) == request[r].stage \in {"probe", "fetch"}

\* Who is in a queue waits for that lock, and is there once.
QueuesMatch ==
    \A l \in LockIds :
        /\ \A i \in DOMAIN queue[l] : Waits(queue[l][i]) /\ request[queue[l][i]].lock = l
        /\ \A i, j \in DOMAIN queue[l] : queue[l][i] = queue[l][j] => i = j

\* Who waits is in the queue of its lock, and who fetches is the first there.
WaitersQueued ==
    \A r \in Requests :
        /\ Waits(r) => /\ request[r].lock \in LockIds
                       /\ \E i \in DOMAIN queue[request[r].lock] : queue[request[r].lock][i] = r
        /\ InFlight(r) => queue[request[r].lock][1] = r

QueueInv == QueuesMatch /\ WaitersQueued

\* A request that holds no lock goes on, or a new one begins.
LEMMA OutsideStep ==
  ASSUME QueueInv, queue \in [LockIds -> Seq(Requests)], NEW r \in Requests,
         ~Waits(r), ~Waits(r)', UNCHANGED queue,
         \A s \in Requests \ {r} : request'[s] = request[s]
  PROVE  QueueInv'
<1>1. \A l \in LockIds : \A i \in DOMAIN queue[l] : queue[l][i] \in Requests \ {r}
  BY DEF QueueInv, QueuesMatch
<1> QED
  BY <1>1 DEF QueueInv, QueuesMatch, WaitersQueued, Waits, InFlight

\* A request in a queue goes on waiting, and to the source only when it is the first.
LEMMA InsideStep ==
  ASSUME QueueInv, queue \in [LockIds -> Seq(Requests)], NEW r \in Requests,
         Waits(r), Waits(r)', UNCHANGED queue, request'[r].lock = request[r].lock,
         queue[request[r].lock][1] = r,
         \A s \in Requests \ {r} : request'[s] = request[s]
  PROVE  QueueInv'
<1>1. \A l \in LockIds : \A i \in DOMAIN queue[l] : queue[l][i] \in Requests
  OBVIOUS
<1>2. QueuesMatch'
  BY <1>1 DEF QueueInv, QueuesMatch, Waits
<1>3. WaitersQueued'
  BY DEF QueueInv, WaitersQueued, Waits, InFlight
<1> QED
  BY <1>2, <1>3 DEF QueueInv

\* A request joins a queue; it goes to the source at once only if it is alone.
LEMMA JoinStep ==
  ASSUME QueueInv, queue \in [LockIds -> Seq(Requests)], NEW r \in Requests, NEW l \in LockIds,
         ~Waits(r), Waits(r)', request'[r].lock = l,
         queue' = [queue EXCEPT ![l] = Append(@, r)],
         queue[l] # <<>> => ~InFlight(r)',
         \A s \in Requests \ {r} : request'[s] = request[s]
  PROVE  QueueInv'
<1>1. \A k \in LockIds : \A i \in DOMAIN queue[k] : queue[k][i] \in Requests \ {r}
  BY DEF QueueInv, QueuesMatch
<1>2. /\ DOMAIN queue'[l] = 1..(Len(queue[l]) + 1)
      /\ \A i \in DOMAIN queue[l] : i \in DOMAIN queue'[l] /\ queue'[l][i] = queue[l][i]
      /\ queue'[l][Len(queue[l]) + 1] = r
      /\ \A i \in DOMAIN queue'[l] : i \in DOMAIN queue[l] \/ i = Len(queue[l]) + 1
  OBVIOUS
<1>3. \A k \in LockIds \ {l} : queue'[k] = queue[k]
  OBVIOUS
<1>4. QueuesMatch'
  <2>1. ASSUME NEW k \in LockIds \ {l}
        PROVE  /\ \A i \in DOMAIN queue'[k] :
                      /\ request'[queue'[k][i]].stage \in {"queued", "probe", "fetch"}
                      /\ request'[queue'[k][i]].lock = k
               /\ \A i, j \in DOMAIN queue'[k] : queue'[k][i] = queue'[k][j] => i = j
    BY <1>1, <1>3 DEF QueueInv, QueuesMatch, Waits
  <2>2. \A i \in DOMAIN queue'[l] :
            /\ request'[queue'[l][i]].stage \in {"queued", "probe", "fetch"}
            /\ request'[queue'[l][i]].lock = l
    <3>1. \A i \in DOMAIN queue[l] : request'[queue'[l][i]] = request[queue[l][i]]
      BY <1>1, <1>2
    <3>2. /\ request'[queue'[l][Len(queue[l]) + 1]].stage \in {"queued", "probe", "fetch"}
          /\ request'[queue'[l][Len(queue[l]) + 1]].lock = l
      BY <1>2 DEF Waits
    <3> QED
      BY <1>2, <3>1, <3>2 DEF QueueInv, QueuesMatch, Waits
  <2>3. \A i, j \in DOMAIN queue'[l] : queue'[l][i] = queue'[l][j] => i = j
    BY <1>1, <1>2 DEF QueueInv, QueuesMatch
  <2> QED
    BY <2>1, <2>2, <2>3 DEF QueuesMatch, Waits
<1>5. WaitersQueued'
  <2> SUFFICES ASSUME NEW s \in Requests
               PROVE  /\ Waits(s)' =>
                           /\ request'[s].lock \in LockIds
                           /\ \E i \in DOMAIN queue'[request'[s].lock] :
                                   queue'[request'[s].lock][i] = s
                      /\ InFlight(s)' => queue'[request'[s].lock][1] = s
    BY DEF WaitersQueued, Waits, InFlight
  <2>1. CASE s = r
    <3>1. Len(queue[l]) \in Nat /\ Len(queue[l]) + 1 \in DOMAIN queue'[l]
      BY <1>2
    <3>2. queue[l] = <<>> => queue'[l][1] = r
      BY <1>2
    <3> QED
      BY <1>2, <2>1, <3>1, <3>2
  <2>2. CASE s # r
    <3>1. /\ request'[s] = request[s]
          /\ Waits(s)' <=> Waits(s)
          /\ InFlight(s)' <=> InFlight(s)
      BY <2>2 DEF Waits, InFlight
    <3>2. Waits(s) =>
             /\ request[s].lock \in LockIds
             /\ \E i \in DOMAIN queue'[request[s].lock] : queue'[request[s].lock][i] = s
      BY <1>2, <1>3 DEF QueueInv, WaitersQueued
    <3>3. InFlight(s) => queue'[request[s].lock][1] = s
      <4>1. InFlight(s) => Waits(s)
        BY DEF InFlight, Waits
      <4>2. InFlight(s) => 1 \in DOMAIN queue[request[s].lock]
        BY <4>1 DEF QueueInv, WaitersQueued
      <4> QED
        BY <1>2, <1>3, <4>1, <4>2 DEF QueueInv, WaitersQueued
    <3> QED
      BY <3>1, <3>2, <3>3
  <2> QED
    BY <2>1, <2>2
<1> QED
  BY <1>4, <1>5 DEF QueueInv

\* The first of a queue leaves it.
LEMMA LeaveStep ==
  ASSUME QueueInv, queue \in [LockIds -> Seq(Requests)], NEW r \in Requests,
         Waits(r), ~Waits(r)', queue[request[r].lock][1] = r, Release(r),
         \A s \in Requests \ {r} : request'[s] = request[s]
  PROVE  QueueInv'
<1> DEFINE l == request[r].lock
<1>1. l \in LockIds /\ queue[l] # <<>>
  BY DEF QueueInv, WaitersQueued
<1>2. /\ Len(queue[l]) \in Nat /\ DOMAIN queue[l] = 1..Len(queue[l])
      /\ queue'[l] = Tail(queue[l])
      /\ \A k \in LockIds \ {l} : queue'[k] = queue[k]
  BY <1>1 DEF Release
<1>3. /\ Tail(queue[l]) \in Seq(Requests) /\ Len(Tail(queue[l])) = Len(queue[l]) - 1
      /\ \A i \in 1..(Len(queue[l]) - 1) : Tail(queue[l])[i] = queue[l][i + 1]
  BY <1>1, HeadTailProperties
<1>4. DOMAIN queue'[l] = 1..(Len(queue[l]) - 1)
  BY <1>2, <1>3
<1>5. \A i \in DOMAIN queue'[l] : i + 1 \in DOMAIN queue[l] /\ queue'[l][i] = queue[l][i + 1]
  BY <1>2, <1>3, <1>4
<1>6. \A i \in DOMAIN queue[l] : i # 1 => i - 1 \in DOMAIN queue'[l] /\ queue'[l][i - 1] = queue[l][i]
  BY <1>2, <1>3, <1>4
<1>7. /\ \A i \in DOMAIN queue'[l] : queue'[l][i] # r /\ queue'[l][i] \in Requests
      /\ \A k \in LockIds \ {l} : \A i \in DOMAIN queue[k] : queue[k][i] # r /\ queue[k][i] \in Requests
  <2>1. 1 \in DOMAIN queue[l]
    BY <1>1, <1>2
  <2>2. \A i \in DOMAIN queue'[l] : i + 1 # 1
    BY <1>2, <1>4
  <2> QED
    BY <1>1, <1>5, <2>1, <2>2 DEF QueueInv, QueuesMatch
<1> HIDE DEF l
<1>8. QueuesMatch'
  <2>1. ASSUME NEW i \in DOMAIN queue'[l], NEW j \in DOMAIN queue'[l], queue'[l][i] = queue'[l][j]
        PROVE  i = j
    <3>1. i + 1 = j + 1
      BY <1>1, <1>5, <2>1 DEF QueueInv, QueuesMatch
    <3> QED
      BY <1>4, <3>1, <1>2
  <2>2. ASSUME NEW i \in DOMAIN queue'[l]
        PROVE  request'[queue'[l][i]].stage \in {"queued", "probe", "fetch"}
               /\ request'[queue'[l][i]].lock = l
    <3>1. request'[queue'[l][i]] = request[queue[l][i + 1]]
      BY <1>5, <1>7
    <3> QED
      BY <1>1, <1>5, <3>1 DEF QueueInv, QueuesMatch, Waits
  <2>3. ASSUME NEW k \in LockIds \ {l}
        PROVE  /\ \A i \in DOMAIN queue'[k] :
                      /\ request'[queue'[k][i]].stage \in {"queued", "probe", "fetch"}
                      /\ request'[queue'[k][i]].lock = k
               /\ \A i, j \in DOMAIN queue'[k] : queue'[k][i] = queue'[k][j] => i = j
    BY <1>2, <1>7 DEF QueueInv, QueuesMatch, Waits
  <2> QED
    BY <2>1, <2>2, <2>3 DEF QueuesMatch, Waits
<1>9. WaitersQueued'
  <2> SUFFICES ASSUME NEW s \in Requests \ {r}
               PROVE  /\ Waits(s)' =>
                           /\ request'[s].lock \in LockIds
                           /\ \E i \in DOMAIN queue'[request'[s].lock] :
                                   queue'[request'[s].lock][i] = s
                      /\ InFlight(s)' => queue'[request'[s].lock][1] = s
    BY DEF WaitersQueued, Waits, InFlight
  <2>1. /\ request'[s] = request[s]
        /\ Waits(s)' <=> Waits(s)
        /\ InFlight(s)' <=> InFlight(s)
    BY DEF Waits, InFlight
  <2>2. CASE request[s].lock = l
    <3>1. ~InFlight(s)
      BY <2>2 DEF QueueInv, WaitersQueued, l
    <3>2. Waits(s) => \E i \in DOMAIN queue[l] : queue[l][i] = s /\ i # 1
      BY <2>2 DEF QueueInv, WaitersQueued, l
    <3> QED
      BY <1>1, <1>6, <2>1, <2>2, <3>1, <3>2
  <2>3. CASE request[s].lock # l
    BY <1>2, <2>1, <2>3 DEF QueueInv, WaitersQueued, Waits, InFlight
  <2> QED
    BY <2>2, <2>3
<1> QED
  BY <1>8, <1>9 DEF QueueInv

-----------------------------------------------------------------------------
(***************************************************************************)
(* The lock table.                                                         *)
(***************************************************************************)

LockTable == [Fields -> LockIds \cup {NoLock}]

Size(table) == Cardinality({f \in Fields : table[f] # NoLock})

\* There is a lock that neither the table nor a queue uses.
LEMMA FreeLock ==
  ASSUME TileServiceAssumption, QueueInv, queue \in [LockIds -> Seq(Requests)],
         locks \in LockTable, NEW f \in Fields, locks[f] = NoLock
  PROVE  \E l \in LockIds : l \notin {locks[g] : g \in Fields} \cup {k \in LockIds : queue[k] # <<>>}
<1> DEFINE others == Fields \ {f}
           listed == {locks[g] : g \in others}
           queued == {l \in LockIds : queue[l] # <<>>}
<1>1. /\ IsFiniteSet(others) /\ Cardinality(others) = Cardinality(Fields) - 1
      /\ Cardinality(Fields) \in Nat /\ Cardinality(Requests) \in Nat
  BY FS_RemoveElement, FS_CardinalityType DEF TileServiceAssumption
<1>2. IsFiniteSet(listed) /\ Cardinality(listed) <= Cardinality(Fields) - 1
  <2> DEFINE h == [g \in others |-> locks[g]]
  <2>1. h \in Surjection(others, listed)
    BY DEF Surjection
  <2> QED
    BY <1>1, <2>1, FS_Surjection
<1>3. IsFiniteSet(queued) /\ Cardinality(queued) <= Cardinality(Requests)
  <2> DEFINE h == [l \in queued |-> queue[l][1]]
  <2>1. \A l \in queued : 1 \in DOMAIN queue[l] /\ queue[l][1] \in Requests
    OBVIOUS
  <2>2. \A l \in queued : request[h[l]].lock = l
    BY <2>1 DEF QueueInv, QueuesMatch
  <2>3. h \in [queued -> Requests] /\ DOMAIN h = queued
    BY <2>1
  <2>4. \A k, l \in queued : h[k] = h[l] => k = l
    BY <2>2
  <2> HIDE DEF h
  <2>5. h \in Injection(queued, Requests)
    BY <2>3, <2>4 DEF Injection, IsInjective
  <2> QED
    BY <2>5, FS_Injection DEF TileServiceAssumption
<1>4. /\ IsFiniteSet(LockIds)
      /\ Cardinality(LockIds) = Cardinality(Fields) + Cardinality(Requests)
  BY <1>1, FS_Interval DEF LockIds
<1>5. ~(LockIds \subseteq listed \cup queued)
  <2> SUFFICES ASSUME LockIds \subseteq listed \cup queued PROVE FALSE
    OBVIOUS
  <2>1. /\ IsFiniteSet(listed \cup queued)
        /\ Cardinality(listed \cup queued) =
              Cardinality(listed) + Cardinality(queued) - Cardinality(listed \cap queued)
    BY <1>2, <1>3, FS_Union
  <2>2. /\ Cardinality(listed) \in Nat /\ Cardinality(queued) \in Nat
        /\ Cardinality(listed \cap queued) \in Nat
    BY <1>2, <1>3, FS_CardinalityType, FS_Intersection
  <2>3. Cardinality(LockIds) <= Cardinality(listed \cup queued)
    BY <2>1, FS_Subset
  <2> HIDE DEF listed, queued
  <2> QED
    BY <1>1, <1>2, <1>3, <1>4, <2>1, <2>2, <2>3
<1>6. NoLock \notin LockIds
  BY <1>1 DEF TileServiceAssumption, LockIds
<1> QED
  BY <1>5, <1>6

\* _grid_lock gives the field a lock, keeps the bound of the table, and takes the lock of
\* another field only when it clears the table.
LEMMA GridLocksSound ==
  ASSUME TileServiceAssumption, QueueInv, queue \in [LockIds -> Seq(Requests)],
         locks \in LockTable, Size(locks) <= MaxLocks + 1, NEW f \in Fields
  PROVE  /\ GridLocks(f) \in LockTable
         /\ GridLocks(f)[f] \in LockIds
         /\ Size(GridLocks(f)) <= MaxLocks + 1
         /\ \A g \in Fields : GridLocks(f)[g] = NoLock \/ locks[g] = NoLock \/ GridLocks(f)[g] = locks[g]
<1>1. CASE locks[f] # NoLock
  <2>1. GridLocks(f) = locks
    BY <1>1 DEF GridLocks
  <2> QED
    BY <1>1, <2>1 DEF LockTable
<1>2. CASE locks[f] = NoLock
  <2> DEFINE inUse == {locks[g] : g \in Fields} \cup {l \in LockIds : queue[l] # <<>>}
             new == CHOOSE l \in LockIds : l \notin inUse
             old == {g \in Fields : locks[g] # NoLock}
             now == {g \in Fields : GridLocks(f)[g] # NoLock}
  <2>1. new \in LockIds
    BY <1>2, FreeLock
  <2>2. GridLocks(f) = [g \in Fields |-> IF g = f THEN new
                                        ELSE IF Cardinality(old) > MaxLocks THEN NoLock ELSE locks[g]]
    BY <1>2 DEF GridLocks
  <2> HIDE DEF new
  <2>3. /\ IsFiniteSet(old) /\ Cardinality(old) \in Nat
        /\ IsFiniteSet(old \cup {f}) /\ Cardinality(old \cup {f}) <= Cardinality(old) + 1
    <3>1. IsFiniteSet(Fields) /\ old \subseteq Fields
      BY DEF TileServiceAssumption
    <3> HIDE DEF old
    <3>2. IsFiniteSet(old) /\ Cardinality(old) \in Nat
      BY <3>1, FS_Subset, FS_CardinalityType
    <3>3. IsFiniteSet(old \cup {f}) /\ Cardinality(old \cup {f}) \in {Cardinality(old), Cardinality(old) + 1}
      BY <3>2, FS_AddElement, ZenonT(30)
    <3> QED
      BY <3>2, <3>3
  <2>4. Size(GridLocks(f)) <= MaxLocks + 1
    <3>1. CASE Cardinality(old) > MaxLocks
      <4>1. now \subseteq {f}
        BY <2>2, <3>1
      <4>2. Cardinality(now) <= 1 /\ Cardinality(now) \in Nat
        <5>1. IsFiniteSet({f}) /\ Cardinality({f}) = 1
          BY FS_Singleton
        <5> HIDE DEF now
        <5> QED
          BY <4>1, <5>1, FS_Subset, FS_CardinalityType
      <4> QED
        BY <4>2 DEF Size, TileServiceAssumption
    <3>2. CASE ~(Cardinality(old) > MaxLocks)
      <4>1. now \subseteq old \cup {f}
        BY <2>2, <3>2
      <4>2. Cardinality(now) <= Cardinality(old \cup {f}) /\ Cardinality(now) \in Nat
        BY <2>3, <4>1, FS_Subset, FS_CardinalityType
      <4>3. Cardinality(old \cup {f}) \in Nat
        BY <2>3, FS_CardinalityType
      <4> HIDE DEF old, now
      <4> QED
        BY <2>3, <3>2, <4>2, <4>3 DEF Size, TileServiceAssumption, now
    <3> QED
      BY <3>1, <3>2
  <2> QED
    BY <1>2, <2>1, <2>2, <2>4 DEF LockTable
<1> QED
  BY <1>1, <1>2

-----------------------------------------------------------------------------
(***************************************************************************)
(* Types.                                                                  *)
(***************************************************************************)

Running == [stage : Stage, tile : Tiles, lock : LockIds \cup {NoLock}, origin : Origin \cup {NoSource}]

Budgets == [asks : 0..Asks, faults : 0..Faults, losses : 0..Losses]

\* A request that is not idle has a stage, a tile and a field.
LEMMA RunningRequest ==
  ASSUME TileServiceAssumption, TypeOK, NEW r \in Requests, ~At(r, "idle")
  PROVE  request[r] \in Running /\ Field(r) \in Fields
<1>1. request[r] # NoRequest
  BY DEF At, NoRequest
<1>2. request[r] \in Running
  BY <1>1 DEF TypeOK, Running
<1> QED
  BY <1>2 DEF Running, Field, TileServiceAssumption

\* The grid found for a cached field has an origin.
LEMMA GridOriginType ==
  ASSUME TypeOK, NEW f \in CachedFields
  PROVE  GridOrigin(f) \in Origin
<1>1. Slot(f) \in DOMAIN grids
  BY DEF Slot, CachedFields
<1>2. grids \in Seq(Grid)
  BY DEF TypeOK, Grid
<1>3. grids[Slot(f)] \in Grid
  BY <1>1, <1>2
<1> QED
  BY <1>3 DEF GridOrigin, Grid

\* What is left of a bound stays within it.
LEMMA SpendSound ==
  ASSUME TileServiceAssumption, TypeOK, NEW what \in {"asks", "faults", "losses"}, Spend(what)
  PROVE  budget' \in Budgets
<1>1. budget \in Budgets
  BY DEF TypeOK, Budgets
<1>2. CASE what = "asks"
  BY <1>1, <1>2 DEF Budgets, Spend, TileServiceAssumption
<1>3. CASE what = "faults"
  BY <1>1, <1>3 DEF Budgets, Spend, TileServiceAssumption
<1>4. CASE what = "losses"
  BY <1>1, <1>4 DEF Budgets, Spend, TileServiceAssumption
<1> QED
  BY <1>2, <1>3, <1>4

\* The parts of TypeOK, with the names used here.
LEMMA TypeParts ==
  ASSUME TypeOK
  PROVE  /\ request \in [Requests -> {NoRequest} \cup Running]
         /\ locks \in LockTable /\ Size(locks) <= MaxLocks + 1
         /\ queue \in [LockIds -> Seq(Requests)]
         /\ grids \in Seq(Grid) /\ CachedFields \in Fits
         /\ tiles \in [Tiles -> Origin \cup {NoTile}]
         /\ source \in [active : Origin \cup {NoSource}, degraded : BOOLEAN]
         /\ cleared \in BOOLEAN
         /\ answers \in [Tiles -> SUBSET Origin]
         /\ budget \in Budgets
BY DEF TypeOK, Running, LockTable, Size, Grid, Budgets

\* The same for the next state, from its parts.
LEMMA TypeFromParts ==
  ASSUME request' \in [Requests -> {NoRequest} \cup Running],
         locks' \in LockTable, Size(locks') <= MaxLocks + 1,
         queue' \in [LockIds -> Seq(Requests)],
         grids' \in Seq(Grid), CachedFields' \in Fits,
         tiles' \in [Tiles -> Origin \cup {NoTile}],
         source' \in [active : Origin \cup {NoSource}, degraded : BOOLEAN],
         cleared' \in BOOLEAN,
         answers' \in [Tiles -> SUBSET Origin],
         budget' \in Budgets
  PROVE  TypeOK'
BY DEF TypeOK, Running, LockTable, Size, Grid, Budgets

\* The tail of a queue, or a queue with one more.
LEMMA ReleaseType ==
  ASSUME TypeOK, QueueInv, NEW r \in Requests, Waits(r), Release(r)
  PROVE  queue' \in [LockIds -> Seq(Requests)]
<1>1. request[r].lock \in LockIds /\ queue[request[r].lock] # <<>>
  BY DEF QueueInv, WaitersQueued
<1> QED
  BY <1>1, HeadTailProperties DEF TypeOK, Release

\* A worker starts well typed.
LEMMA TileTypeInit == TileServiceAssumption /\ Init => TypeOK
<1> SUFFICES ASSUME TileServiceAssumption, Init PROVE TypeOK
  OBVIOUS
<1>1. Size(locks) <= MaxLocks + 1
  <2>1. {f \in Fields : locks[f] # NoLock} = {}
    BY DEF Init
  <2>2. Size(locks) = Cardinality({})
    BY <2>1 DEF Size
  <2> QED
    BY <2>2, FS_EmptySet DEF TileServiceAssumption
<1>2. /\ locks \in [Fields -> LockIds \cup {NoLock}]
      /\ request \in [Requests -> {NoRequest}]
      /\ answers \in [Tiles -> SUBSET Origin]
      /\ tiles \in [Tiles -> Origin \cup {NoTile}]
  BY DEF Init
<1>3. /\ queue \in [LockIds -> Seq(Requests)]
      /\ grids = <<>> /\ cleared = FALSE
  BY EmptySeq DEF Init
<1>4. /\ budget \in [asks : 0..Asks, faults : 0..Faults, losses : 0..Losses]
      /\ source \in [active : Origin \cup {NoSource}, degraded : BOOLEAN]
  BY DEF Init, FreshSource, TileServiceAssumption
<1>5. CachedFields \in Fits /\ grids \in Seq([field : Fields, origin : Origin])
  <2>1. grids = <<>> /\ CachedFields = {}
    BY <1>3 DEF CachedFields
  <2> QED
    BY <2>1, EmptySeq DEF TileServiceAssumption
<1> QED
  BY <1>1, <1>2, <1>3, <1>4, <1>5 DEF TypeOK, Size

\* A worker starts again well typed.
LEMMA RestartType == TileServiceAssumption /\ TypeOK /\ Restart => TypeOK'
<1> SUFFICES ASSUME TileServiceAssumption, TypeOK, Restart PROVE TypeOK'
  OBVIOUS
<1>1. Size(locks') <= MaxLocks + 1
  <2>1. {f \in Fields : locks'[f] # NoLock} = {}
    BY DEF Restart
  <2>2. Size(locks') = Cardinality({})
    BY <2>1 DEF Size
  <2> QED
    BY <2>2, FS_EmptySet DEF TileServiceAssumption
<1>2. budget' \in Budgets
  BY SpendSound DEF Restart
<1>3. /\ request' \in [Requests -> {NoRequest} \cup Running]
      /\ locks' \in LockTable
      /\ queue' \in [LockIds -> Seq(Requests)]
  <2>1. <<>> \in Seq(Requests)
    OBVIOUS
  <2> QED
    BY <2>1 DEF Restart, LockTable
<1>4. grids' \in Seq(Grid) /\ CachedFields' \in Fits
  <2>1. grids' = <<>>
    BY DEF Restart
  <2>2. CachedFields' = {}
    BY <2>1 DEF CachedFields
  <2> QED
    BY <2>1, <2>2, EmptySeq DEF TileServiceAssumption
<1>5. /\ source' \in [active : Origin \cup {NoSource}, degraded : BOOLEAN]
      /\ cleared' \in BOOLEAN
  BY DEF Restart, FreshSource
<1>6. tiles' = tiles /\ answers' = answers
  BY DEF Restart
<1> QED
  BY <1>1, <1>2, <1>3, <1>4, <1>5, <1>6, TypeParts, TypeFromParts

\* request' when the entry of one request changes.
LEMMA EntryType ==
  ASSUME TypeOK, NEW r \in Requests, NEW next \in {NoRequest} \cup Running,
         request' = [request EXCEPT ![r] = next]
  PROVE  request' \in [Requests -> {NoRequest} \cup Running]
<1>1. request \in [Requests -> {NoRequest} \cup Running]
  BY TypeParts
<1> HIDE DEF Running
<1> QED
  BY <1>1

\* A new request is well typed.
LEMMA AskType ==
  ASSUME TileServiceAssumption, TypeOK, NEW r \in Requests, NEW t \in Tiles, Ask(r, t)
  PROVE  TypeOK'
<1>1. [stage |-> "lookup", tile |-> t, lock |-> NoLock, origin |-> NoSource] \in Running
  BY DEF Running, Stage
<1>2. request' \in [Requests -> {NoRequest} \cup Running]
  BY <1>1, EntryType DEF Ask
<1>3. budget' \in Budgets
  BY SpendSound DEF Ask
<1> QED
  BY <1>2, <1>3, TypeParts, TypeFromParts, CacheKept DEF Ask

\* The layer 2 lookup answers with an origin, or leaves the request running.
LEMMA LookupType ==
  ASSUME TileServiceAssumption, TypeOK, NEW r \in Requests, Lookup(r)
  PROVE  TypeOK'
<1>1. request[r] \in Running
  BY RunningRequest DEF Lookup, At
<1>2. request' \in [Requests -> {NoRequest} \cup Running]
  <2>1. [request[r] EXCEPT !.stage = "missed"] \in Running
    BY <1>1 DEF Running, Stage
  <2>2. request' = [request EXCEPT ![r] = NoRequest]
        \/ request' = [request EXCEPT ![r] = [request[r] EXCEPT !.stage = "missed"]]
    BY DEF Lookup, Answers, Ends, Goes
  <2> QED
    BY <2>1, <2>2, EntryType
<1>3. answers' \in [Tiles -> SUBSET Origin]
  <2> DEFINE found == tiles[request[r].tile]
  <2>1. request[r].tile \in Tiles
    BY <1>1 DEF Running
  <2>2. found # NoTile => found \in Origin
    BY <2>1 DEF TypeOK
  <2>3. \/ answers' = answers
        \/ /\ found # NoTile
           /\ answers' = [answers EXCEPT ![request[r].tile] = @ \cup {found}]
    BY DEF Lookup, Answers
  <2> HIDE DEF found
  <2> QED
    BY <2>1, <2>2, <2>3, TypeParts
<1> QED
  BY <1>2, <1>3, TypeParts, TypeFromParts, CacheKept DEF Lookup

\* The entry of a request that uses a cached grid, or goes to the source.
LEMMA UseGridType ==
  ASSUME TileServiceAssumption, TypeOK, NEW r \in Requests, ~At(r, "idle"), UseGrid(r)
  PROVE  /\ request' \in [Requests -> {NoRequest} \cup Running]
         /\ grids' \in Seq(Grid) /\ CachedFields' \in Fits
         /\ CachedFields' \subseteq CachedFields
<1>1. request[r] \in Running /\ Field(r) \in Fields /\ Field(r) \in CachedFields
  BY RunningRequest DEF UseGrid
<1>2. GridOrigin(Field(r)) \in Origin
  BY <1>1, GridOriginType
<1>3. [request[r] EXCEPT !.stage = "render", !.origin = GridOrigin(Field(r)), !.lock = NoLock] \in Running
  BY <1>1, <1>2 DEF Running, Stage
<1>4. request' = [request EXCEPT ![r] =
                     [request[r] EXCEPT !.stage = "render", !.origin = GridOrigin(Field(r)), !.lock = NoLock]]
  BY DEF UseGrid
<1>5. request' \in [Requests -> {NoRequest} \cup Running]
  BY <1>3, <1>4, EntryType
<1>6. grids' \in Seq(Grid) /\ CachedFields' = CachedFields
  BY <1>1, TypeParts, UseSound DEF UseGrid
<1> QED
  BY <1>5, <1>6, TypeParts

\* A request that goes to the source is still a request.
LEMMA StartFetchType ==
  ASSUME TileServiceAssumption, TypeOK, NEW r \in Requests, ~At(r, "idle"), NEW l \in LockIds,
         StartFetch(r, l)
  PROVE  request' \in [Requests -> {NoRequest} \cup Running]
<1> DEFINE next == [request[r] EXCEPT !.stage = IF source.active = NoSource THEN "probe" ELSE "fetch",
                                      !.origin = source.active, !.lock = l]
<1>1. request[r] \in Running /\ source.active \in Origin \cup {NoSource}
  BY RunningRequest DEF TypeOK
<1>2. next \in Running
  BY <1>1 DEF Running, Stage
<1>3. request' = [request EXCEPT ![r] = next]
  BY DEF StartFetch
<1> QED
  BY <1>2, <1>3, EntryType

-----------------------------------------------------------------------------
(***************************************************************************)
(* The invariant.                                                          *)
(***************************************************************************)

\* Until the table is cleared, everybody who waits does so at the lock the table has.
LocksKept == ~cleared => \A r \in Requests : Waits(r) => locks[Field(r)] = request[r].lock

\* Until then nobody fetches a field that is cached.
FetchesNew == ~cleared => \A r \in Requests : InFlight(r) => Field(r) \notin CachedFields

\* A fetch that has a source, and what comes of it, has an origin.
Known(r) == request[r].stage \in {"fetch", "render"} => request[r].origin \in Origin

OriginKnown == \A r \in Requests : Known(r)

TileInv == TypeOK /\ QueueInv /\ LocksKept /\ FetchesNew /\ OriginKnown

\* Two fetches of a field would both be the first in the queue of its one lock.
LEMMA InvSingleFlight == TileServiceAssumption /\ TileInv => SingleFlight
<1> SUFFICES ASSUME TileServiceAssumption, TileInv, ~cleared, NEW f \in Fields
             PROVE  /\ Cardinality(Flights(f)) <= 1
                    /\ Flights(f) # {} => f \notin CachedFields
  BY DEF SingleFlight
<1>1. \A r \in Flights(f) : r \in Requests /\ InFlight(r) /\ Waits(r) /\ Field(r) = f
  BY DEF Flights, InFlight, Waits
<1>2. \A r, s \in Flights(f) : r = s
  BY <1>1 DEF TileInv, LocksKept, QueueInv, WaitersQueued
<1>3. Flights(f) = {} \/ \E r : Flights(f) = {r}
  BY <1>2
<1>4. Cardinality(Flights(f)) <= 1
  <2>1. CASE Flights(f) = {}
    <3>1. Cardinality(Flights(f)) = 0
      BY <2>1, FS_EmptySet
    <3> QED
      BY <3>1
  <2>2. ASSUME NEW r, Flights(f) = {r}
        PROVE  Cardinality(Flights(f)) <= 1
    <3>1. Cardinality(Flights(f)) = 1
      BY <2>2, FS_Singleton
    <3> QED
      BY <3>1
  <2> QED
    BY <1>3, <2>1, <2>2
<1> QED
  BY <1>1, <1>4 DEF TileInv, FetchesNew

\* A step of one request that moves it to no other lock.
LEMMA KeptStep ==
  ASSUME TileInv, NEW r \in Requests, UNCHANGED <<locks, cleared>>,
         Waits(r)' => Waits(r) /\ request'[r].lock = request[r].lock /\ Field(r)' = Field(r),
         \A s \in Requests \ {r} : request'[s] = request[s]
  PROVE  LocksKept'
BY DEF TileInv, LocksKept, Waits, Field

\* A step of one request that starts no fetch and caches no new field.
LEMMA NewStep ==
  ASSUME TileInv, NEW r \in Requests, UNCHANGED cleared, CachedFields' \subseteq CachedFields,
         InFlight(r)' => InFlight(r) /\ Field(r)' = Field(r),
         \A s \in Requests \ {r} : request'[s] = request[s]
  PROVE  FetchesNew'
BY DEF TileInv, FetchesNew, InFlight, Field

\* A step of one request that leaves it with an origin if it needs one.
LEMMA KnownStep ==
  ASSUME TileInv, NEW r \in Requests, Known(r)',
         \A s \in Requests \ {r} : request'[s] = request[s]
  PROVE  OriginKnown'
BY DEF TileInv, OriginKnown, Known

\* A request outside the queues that stays outside.
LEMMA OutsideSound ==
  ASSUME TileInv, NEW r \in Requests, ~Waits(r), ~Waits(r)', UNCHANGED <<queue, locks, cleared>>,
         CachedFields' \subseteq CachedFields, TypeOK', Known(r)',
         \A s \in Requests \ {r} : request'[s] = request[s]
  PROVE  TileInv'
<1>1. QueueInv'
  BY OutsideStep, TypeParts DEF TileInv
<1>2. LocksKept'
  BY KeptStep
<1>3. ~InFlight(r)'
  BY DEF InFlight, Waits
<1>4. FetchesNew'
  BY <1>3, NewStep
<1>5. OriginKnown'
  BY KnownStep
<1> QED
  BY <1>1, <1>2, <1>4, <1>5 DEF TileInv

\* A new request is outside the queues.
LEMMA AskSound ==
  ASSUME TileServiceAssumption, TileInv, NEW r \in Requests, NEW t \in Tiles, Ask(r, t)
  PROVE  TileInv'
<1>1. TypeOK'
  BY AskType DEF TileInv
<1>2. ~Waits(r) /\ ~Waits(r)' /\ Known(r)' /\ \A s \in Requests \ {r} : request'[s] = request[s]
  BY TypeParts DEF Ask, At, Waits, Known, TileInv
<1>3. CachedFields' \subseteq CachedFields
  BY DEF Ask, CachedFields
<1> QED
  BY <1>1, <1>2, <1>3, OutsideSound DEF Ask

\* The lookup leaves the request outside the queues.
LEMMA LookupSound ==
  ASSUME TileServiceAssumption, TileInv, NEW r \in Requests, Lookup(r)
  PROVE  TileInv'
<1>1. TypeOK'
  BY LookupType DEF TileInv
<1>2. ~Waits(r) /\ ~Waits(r)' /\ Known(r)' /\ \A s \in Requests \ {r} : request'[s] = request[s]
  <2>1. request[r] \in Running /\ ~Waits(r)
    BY RunningRequest DEF TileInv, Lookup, At, Waits
  <2>2. request' = [request EXCEPT ![r] = NoRequest]
        \/ request' = [request EXCEPT ![r] = [request[r] EXCEPT !.stage = "missed"]]
    BY DEF Lookup, Answers, Ends, Goes
  <2>3. /\ request'[r] = NoRequest \/ request'[r] = [request[r] EXCEPT !.stage = "missed"]
        /\ \A s \in Requests \ {r} : request'[s] = request[s]
    BY <2>2, TypeParts DEF TileInv
  <2>4. request'[r].stage \in {"idle", "missed"}
    BY <2>1, <2>3 DEF NoRequest, Running
  <2> QED
    BY <2>1, <2>3, <2>4 DEF Waits, Known
<1>3. CachedFields' \subseteq CachedFields
  BY DEF Lookup, CachedFields
<1> QED
  BY <1>1, <1>2, <1>3, OutsideSound DEF Lookup

\* What UseGrid and StartFetch make of the request.
LEMMA UseGridEntry ==
  ASSUME TileServiceAssumption, TypeOK, NEW r \in Requests, ~At(r, "idle"), UseGrid(r)
  PROVE  /\ ~Waits(r)' /\ Known(r)'
         /\ \A s \in Requests \ {r} : request'[s] = request[s]
<1>1. request[r] \in Running
  BY RunningRequest
<1>2. /\ request'[r] = [request[r] EXCEPT !.stage = "render", !.origin = GridOrigin(Field(r)),
                                          !.lock = NoLock]
      /\ \A s \in Requests \ {r} : request'[s] = request[s]
  BY TypeParts DEF UseGrid
<1>3. request'[r].stage = "render" /\ request'[r].origin = GridOrigin(Field(r))
  BY <1>1, <1>2 DEF Running
<1>4. GridOrigin(Field(r)) \in Origin
  BY GridOriginType DEF UseGrid
<1> QED
  BY <1>2, <1>3, <1>4 DEF Waits, Known

\* A request sent to the source is in flight at the lock it was given.
LEMMA StartFetchEntry ==
  ASSUME TileServiceAssumption, TypeOK, NEW r \in Requests, ~At(r, "idle"), NEW l \in LockIds,
         StartFetch(r, l)
  PROVE  /\ InFlight(r)' /\ request'[r].lock = l /\ Field(r)' = Field(r) /\ Known(r)'
         /\ \A s \in Requests \ {r} : request'[s] = request[s]
<1>1. request[r] \in Running
  BY RunningRequest
<1>2. /\ request'[r] = [request[r] EXCEPT !.stage = IF source.active = NoSource THEN "probe" ELSE "fetch",
                                          !.origin = source.active, !.lock = l]
      /\ \A s \in Requests \ {r} : request'[s] = request[s]
  BY TypeParts DEF StartFetch
<1>3. /\ request'[r].stage \in {"probe", "fetch"} /\ request'[r].lock = l
      /\ request'[r].tile = request[r].tile
  BY <1>1, <1>2 DEF Running
<1>4. request'[r].stage = "fetch" => request'[r].origin \in Origin
  <2>1. request'[r].origin = source.active /\ (request'[r].stage = "fetch" => source.active # NoSource)
    BY <1>1, <1>2 DEF Running
  <2> QED
    BY <2>1, TypeParts
<1> QED
  BY <1>2, <1>3, <1>4 DEF InFlight, Field, Known

\* A request finds the grid, joins a queue, or is alone there and fetches.
LEMMA GetGridSound ==
  ASSUME TileServiceAssumption, TileInv, NEW r \in Requests, GetGrid(r)
  PROVE  TileInv'
<1>1. /\ TypeOK /\ QueueInv /\ ~At(r, "idle") /\ ~Waits(r)
      /\ request[r] \in Running /\ Field(r) \in Fields
  BY RunningRequest DEF TileInv, GetGrid, At, Waits
<1>2. CASE UseGrid(r) /\ UNCHANGED <<locks, queue, cleared>>
  <2>1. /\ request' \in [Requests -> {NoRequest} \cup Running]
        /\ grids' \in Seq(Grid) /\ CachedFields' \in Fits
        /\ CachedFields' \subseteq CachedFields
    BY <1>1, <1>2, UseGridType
  <2>2. TypeOK'
    BY <1>1, <1>2, <2>1, TypeParts, TypeFromParts DEF GetGrid
  <2> QED
    BY <1>1, <1>2, <2>1, <2>2, UseGridEntry, OutsideSound
<1>3. CASE /\ Field(r) \notin CachedFields
           /\ locks' = GridLocks(Field(r))
           /\ cleared' = (cleared \/ \E g \in Fields : locks[g] # NoLock /\ locks'[g] = NoLock)
           /\ LET lock == locks'[Field(r)]
              IN  /\ queue' = [queue EXCEPT ![lock] = Append(@, r)]
                  /\ IF queue[lock] = <<>> THEN StartFetch(r, lock)
                     ELSE request' = [request EXCEPT ![r].stage = "queued", ![r].lock = lock]
           /\ UNCHANGED grids
  <2> DEFINE l == locks'[Field(r)]
  <2>1. /\ locks' \in LockTable /\ l \in LockIds /\ Size(locks') <= MaxLocks + 1
        /\ \A g \in Fields : locks'[g] = NoLock \/ locks[g] = NoLock \/ locks'[g] = locks[g]
    BY <1>1, <1>3, GridLocksSound, TypeParts
  <2> HIDE DEF l
  <2>2. queue' = [queue EXCEPT ![l] = Append(@, r)] /\ queue' \in [LockIds -> Seq(Requests)]
    BY <1>1, <1>3, <2>1, TypeParts DEF l
  <2>3. /\ request' \in [Requests -> {NoRequest} \cup Running]
        /\ Waits(r)' /\ request'[r].lock = l /\ Field(r)' = Field(r)
        /\ queue[l] # <<>> => ~InFlight(r)'
        /\ Known(r)'
        /\ \A s \in Requests \ {r} : request'[s] = request[s]
    <3>1. CASE queue[l] = <<>>
      <4>1. StartFetch(r, l)
        BY <1>3, <3>1 DEF l
      <4>2. InFlight(r)' => Waits(r)'
        BY DEF InFlight, Waits
      <4> QED
        BY <1>1, <2>1, <3>1, <4>1, <4>2, StartFetchType, StartFetchEntry
    <3>2. CASE queue[l] # <<>>
      <4> DEFINE next == [request[r] EXCEPT !.stage = "queued", !.lock = l]
      <4>1. request' = [request EXCEPT ![r] = next]
        BY <1>3, <3>2 DEF l
      <4>2. next \in Running /\ next.stage = "queued" /\ next.lock = l /\ next.tile = request[r].tile
        BY <1>1, <2>1 DEF Running, Stage
      <4> HIDE DEF next
      <4>3. request'[r] = next /\ \A s \in Requests \ {r} : request'[s] = request[s]
        BY <1>1, <4>1, TypeParts
      <4>4. request' \in [Requests -> {NoRequest} \cup Running]
        BY <1>1, <4>1, <4>2, EntryType
      <4> QED
        BY <4>2, <4>3, <4>4 DEF Waits, InFlight, Field, Known
    <3> QED
      BY <3>1, <3>2
  <2>4. cleared' \in BOOLEAN
    BY <1>1, <1>3, TypeParts
  <2>5. TypeOK'
    BY <1>1, <1>3, <2>1, <2>2, <2>3, <2>4, TypeParts, TypeFromParts, CacheKept DEF GetGrid
  <2>6. QueueInv'
    BY <1>1, <2>1, <2>2, <2>3, JoinStep, TypeParts
  <2>7. LocksKept'
    <3> SUFFICES ASSUME ~cleared', NEW s \in Requests, Waits(s)'
                 PROVE  locks'[Field(s)'] = request'[s].lock
      BY DEF LocksKept, Field
    <3>1. CASE s = r
      BY <2>3, <3>1 DEF l
    <3>2. CASE s # r
      <4>1. /\ request'[s] = request[s] /\ Waits(s) /\ Field(s)' = Field(s) /\ ~cleared
        BY <1>3, <2>3, <3>2 DEF Waits, Field
      <4>2. locks[Field(s)] = request[s].lock /\ request[s].lock \in LockIds
        BY <1>1, <4>1 DEF TileInv, LocksKept, QueueInv, WaitersQueued
      <4>3. Field(s) \in Fields /\ NoLock \notin LockIds
        <5>1. ~At(s, "idle")
          BY <4>1 DEF Waits, At
        <5>2. Cardinality(Fields) \in Nat /\ Cardinality(Requests) \in Nat
          BY FS_CardinalityType DEF TileServiceAssumption
        <5> QED
          BY <1>1, <5>1, <5>2, RunningRequest DEF LockIds, TileServiceAssumption
      <4>4. locks'[Field(s)] # NoLock
        BY <1>3, <4>2, <4>3
      <4> QED
        BY <2>1, <4>1, <4>2, <4>3, <4>4
    <3> QED
      BY <3>1, <3>2
  <2>8. FetchesNew'
    <3>1. CachedFields' = CachedFields /\ (~cleared' => ~cleared)
      BY <1>3 DEF CachedFields
    <3> QED
      BY <1>3, <2>3, <3>1 DEF TileInv, FetchesNew, InFlight, Field
  <2>9. OriginKnown'
    BY <2>3, KnownStep
  <2> QED
    BY <2>5, <2>6, <2>7, <2>8, <2>9 DEF TileInv
<1> QED
  BY <1>2, <1>3 DEF GetGrid

\* What is known of a request in a queue.
LEMMA Waiting ==
  ASSUME TileServiceAssumption, TileInv, NEW r \in Requests, Waits(r)
  PROVE  /\ TypeOK /\ QueueInv /\ ~At(r, "idle")
         /\ request[r] \in Running /\ Field(r) \in Fields
         /\ request[r].lock \in LockIds
         /\ InFlight(r) => queue[request[r].lock][1] = r
<1>1. ~At(r, "idle")
  BY DEF Waits, At
<1> QED
  BY <1>1, RunningRequest DEF TileInv, QueueInv, WaitersQueued

\* The first of a queue finds the grid and leaves, or fetches.
LEMMA AcquireSound ==
  ASSUME TileServiceAssumption, TileInv, NEW r \in Requests, Acquire(r)
  PROVE  TileInv'
<1>1. Waits(r) /\ ~InFlight(r) /\ queue[request[r].lock][1] = r
  BY DEF Acquire, At, Waits, InFlight
<1>2. /\ TypeOK /\ QueueInv /\ ~At(r, "idle")
      /\ request[r] \in Running /\ Field(r) \in Fields
      /\ request[r].lock \in LockIds
  BY <1>1, Waiting
<1>3. CASE UseGrid(r) /\ Release(r)
  <2>1. /\ request' \in [Requests -> {NoRequest} \cup Running]
        /\ grids' \in Seq(Grid) /\ CachedFields' \in Fits
        /\ CachedFields' \subseteq CachedFields
        /\ ~Waits(r)' /\ Known(r)' /\ \A s \in Requests \ {r} : request'[s] = request[s]
    BY <1>2, <1>3, UseGridType, UseGridEntry
  <2>2. queue' \in [LockIds -> Seq(Requests)]
    BY <1>1, <1>2, <1>3, ReleaseType
  <2>3. TypeOK'
    BY <1>2, <2>1, <2>2, TypeParts, TypeFromParts DEF Acquire
  <2>4. QueueInv'
    BY <1>1, <1>2, <1>3, <2>1, LeaveStep, TypeParts
  <2>5. LocksKept'
    BY <2>1, KeptStep DEF Acquire
  <2>6. FetchesNew'
    <3>1. ~InFlight(r)'
      BY <2>1 DEF InFlight, Waits
    <3> QED
      BY <2>1, <3>1, NewStep DEF Acquire
  <2>7. OriginKnown'
    BY <2>1, KnownStep
  <2> QED
    BY <2>3, <2>4, <2>5, <2>6, <2>7 DEF TileInv
<1>4. CASE /\ Field(r) \notin CachedFields
           /\ StartFetch(r, request[r].lock)
           /\ UNCHANGED <<queue, grids>>
  <2>1. /\ request' \in [Requests -> {NoRequest} \cup Running]
        /\ InFlight(r)' /\ request'[r].lock = request[r].lock /\ Field(r)' = Field(r) /\ Known(r)'
        /\ \A s \in Requests \ {r} : request'[s] = request[s]
    BY <1>2, <1>4, StartFetchType, StartFetchEntry
  <2>2. Waits(r)'
    BY <2>1 DEF InFlight, Waits
  <2>3. TypeOK'
    BY <1>2, <1>4, <2>1, TypeParts, TypeFromParts, CacheKept DEF Acquire
  <2>4. QueueInv'
    BY <1>1, <1>2, <1>4, <2>1, <2>2, InsideStep, TypeParts
  <2>5. LocksKept'
    BY <1>1, <2>1, KeptStep DEF Acquire
  <2>6. FetchesNew'
    <3>1. CachedFields' = CachedFields /\ cleared' = cleared
      BY <1>4 DEF CachedFields, Acquire
    <3> QED
      BY <1>4, <2>1, <3>1 DEF TileInv, FetchesNew, InFlight, Field
  <2>7. OriginKnown'
    BY <2>1, KnownStep
  <2> QED
    BY <2>3, <2>4, <2>5, <2>6, <2>7 DEF TileInv
<1> QED
  BY <1>3, <1>4 DEF Acquire

\* A fetch goes on: the probe answers, or the source falls back.
LEMMA FetchGoesOn ==
  ASSUME TileServiceAssumption, TileInv, NEW r \in Requests, InFlight(r),
         NEW next \in Running, next.stage = "fetch", next.origin \in Origin, next.tile = request[r].tile,
         next.lock = request[r].lock, request' = [request EXCEPT ![r] = next],
         source' \in [active : Origin \cup {NoSource}, degraded : BOOLEAN], budget' \in Budgets,
         UNCHANGED <<locks, queue, grids, tiles, cleared, answers>>
  PROVE  TileInv'
<1>1. Waits(r)
  BY DEF InFlight, Waits
<1>2. /\ TypeOK /\ QueueInv /\ request[r] \in Running
      /\ queue[request[r].lock][1] = r
  BY <1>1, Waiting
<1>3. /\ request'[r] = next
      /\ \A s \in Requests \ {r} : request'[s] = request[s]
  BY <1>2, TypeParts
<1>4. InFlight(r)' /\ Waits(r)' /\ request'[r].lock = request[r].lock /\ Field(r)' = Field(r)
  BY <1>3 DEF InFlight, Waits, Field
<1>5. TypeOK'
  BY <1>2, EntryType, TypeParts, TypeFromParts, CacheKept
<1>6. QueueInv'
  BY <1>1, <1>2, <1>3, <1>4, InsideStep, TypeParts
<1>7. LocksKept'
  BY <1>1, <1>3, <1>4, KeptStep
<1>8. FetchesNew'
  <2>1. CachedFields' \subseteq CachedFields
    BY DEF CachedFields
  <2> QED
    BY <1>3, <1>4, <2>1, NewStep
<1>9. OriginKnown'
  BY <1>3, KnownStep DEF Known
<1> QED
  BY <1>5, <1>6, <1>7, <1>8, <1>9 DEF TileInv

\* The answer of the probe gives the fetch an origin.
LEMMA ProbeEndsSound ==
  ASSUME TileServiceAssumption, TileInv, NEW r \in Requests, NEW origin \in Origin, ProbeEnds(r, origin)
  PROVE  TileInv'
<1> DEFINE next == [request[r] EXCEPT !.stage = "fetch", !.origin = origin]
<1>1. InFlight(r) /\ Waits(r)
  BY DEF ProbeEnds, At, InFlight, Waits
<1>2. TypeOK /\ request[r] \in Running
  BY <1>1, Waiting
<1>3. /\ next \in Running /\ next.stage = "fetch" /\ next.origin \in Origin
      /\ next.tile = request[r].tile /\ next.lock = request[r].lock
  BY <1>2 DEF Running, Stage
<1>4. request' = [request EXCEPT ![r] = next]
  BY DEF ProbeEnds
<1>5. source' \in [active : Origin \cup {NoSource}, degraded : BOOLEAN]
  BY <1>2, TypeParts DEF ProbeEnds
<1>6. budget' \in Budgets
  BY <1>2, TypeParts, SpendSound DEF ProbeEnds
<1> HIDE DEF next
<1> QED
  BY <1>1, <1>3, <1>4, <1>5, <1>6, FetchGoesOn DEF ProbeEnds

\* The synthetic source gives the fetch another origin.
LEMMA FetchFallsBackSound ==
  ASSUME TileServiceAssumption, TileInv, NEW r \in Requests, FetchFallsBack(r)
  PROVE  TileInv'
<1> DEFINE next == [request[r] EXCEPT !.origin = "synthetic"]
<1>1. InFlight(r) /\ Waits(r) /\ request[r].stage = "fetch"
  BY DEF FetchFallsBack, At, InFlight, Waits
<1>2. TypeOK /\ request[r] \in Running
  BY <1>1, Waiting
<1>3. /\ next \in Running /\ next.stage = "fetch" /\ next.origin \in Origin
      /\ next.tile = request[r].tile /\ next.lock = request[r].lock
  BY <1>1, <1>2 DEF Running, Origin
<1>4. request' = [request EXCEPT ![r] = next]
  BY DEF FetchFallsBack
<1>5. source' \in [active : Origin \cup {NoSource}, degraded : BOOLEAN]
  BY DEF FetchFallsBack, Origin
<1>6. budget' \in Budgets
  BY <1>2, SpendSound DEF FetchFallsBack
<1> HIDE DEF next
<1> QED
  BY <1>1, <1>3, <1>4, <1>5, <1>6, FetchGoesOn DEF FetchFallsBack

\* A fetch is over, well or not: the lock is released, and the field may now be cached.
LEMMA FetchOver ==
  ASSUME TileServiceAssumption, TileInv, NEW r \in Requests, InFlight(r), Release(r),
         NEW next \in {NoRequest} \cup Running, next.stage \in {"idle", "render"},
         next.stage = "render" => next.origin \in Origin,
         request' = [request EXCEPT ![r] = next],
         grids' \in Seq(Grid), CachedFields' \in Fits,
         CachedFields' \subseteq CachedFields \cup {Field(r)}, budget' \in Budgets,
         UNCHANGED <<locks, tiles, source, cleared, answers>>
  PROVE  TileInv'
<1>1. Waits(r)
  BY DEF InFlight, Waits
<1>2. /\ TypeOK /\ QueueInv
      /\ request[r].lock \in LockIds /\ queue[request[r].lock][1] = r
  BY <1>1, Waiting
<1>3. /\ request'[r] = next
      /\ \A s \in Requests \ {r} : request'[s] = request[s]
  BY <1>2, TypeParts
<1>4. ~InFlight(r)' /\ ~Waits(r)'
  BY <1>3 DEF InFlight, Waits
<1>5. TypeOK'
  <2>1. request' \in [Requests -> {NoRequest} \cup Running]
    BY <1>2, EntryType
  <2>2. queue' \in [LockIds -> Seq(Requests)]
    BY <1>1, <1>2, ReleaseType
  <2> QED
    BY <1>2, <2>1, <2>2, TypeParts, TypeFromParts
<1>6. QueueInv'
  BY <1>1, <1>2, <1>3, <1>4, LeaveStep, TypeParts
<1>7. LocksKept'
  BY <1>3, <1>4, KeptStep
<1>8. FetchesNew'
  <2> SUFFICES ASSUME ~cleared, NEW s \in Requests \ {r}, InFlight(s)
               PROVE  Field(s) \notin CachedFields'
    BY <1>3, <1>4 DEF FetchesNew, InFlight, Field
  <2>1. Waits(s) /\ queue[request[s].lock][1] = s
    BY Waiting DEF InFlight, Waits
  <2>2. request[s].lock # request[r].lock
    BY <1>2, <2>1
  <2>3. Field(s) # Field(r)
    BY <1>1, <2>1, <2>2 DEF TileInv, LocksKept
  <2> QED
    BY <2>3 DEF TileInv, FetchesNew
<1>9. OriginKnown'
  BY <1>3, KnownStep DEF Known
<1> QED
  BY <1>5, <1>6, <1>7, <1>8, <1>9 DEF TileInv

\* A fetch caches its own field, which nobody else fetches, and leaves the queue.
LEMMA FetchEndsSound ==
  ASSUME TileServiceAssumption, TileInv, NEW r \in Requests, FetchEnds(r)
  PROVE  TileInv'
<1> DEFINE next == [request[r] EXCEPT !.stage = "render", !.lock = NoLock]
<1>1. InFlight(r) /\ Waits(r)
  BY DEF FetchEnds, At, InFlight, Waits
<1>2. TypeOK /\ request[r] \in Running /\ Field(r) \in Fields
  BY <1>1, Waiting
<1>3. next \in Running /\ next.stage = "render" /\ next.origin = request[r].origin
  BY <1>2 DEF Running, Stage
<1>4. request' = [request EXCEPT ![r] = next]
  BY DEF FetchEnds
<1>5. request[r].origin \in Origin
  BY DEF TileInv, OriginKnown, Known, FetchEnds, At
<1>6. /\ grids' \in Seq(Grid) /\ CachedFields' \in Fits
      /\ CachedFields' \subseteq CachedFields \cup {Field(r)}
  BY <1>2, <1>5, PutSound, TypeParts DEF FetchEnds
<1>7. budget' \in Budgets
  BY <1>2, TypeParts DEF FetchEnds
<1> HIDE DEF next
<1> QED
  BY <1>1, <1>3, <1>4, <1>5, <1>6, <1>7, FetchOver DEF FetchEnds

\* A fetch that fails leaves the queue.
LEMMA RaisesSound ==
  ASSUME TileServiceAssumption, TileInv, NEW r \in Requests, Raises(r)
  PROVE  TileInv'
<1>1. InFlight(r) /\ Waits(r)
  BY DEF Raises, At, InFlight, Waits
<1>2. TypeOK
  BY DEF TileInv
<1>3. NoRequest.stage = "idle" /\ request' = [request EXCEPT ![r] = NoRequest]
  BY DEF NoRequest, Raises, Ends
<1>4. CachedFields' \subseteq CachedFields \cup {Field(r)}
  BY DEF Raises, CachedFields
<1>5. budget' \in Budgets
  BY <1>2, SpendSound DEF Raises
<1> QED
  BY <1>1, <1>2, <1>3, <1>4, <1>5, FetchOver, TypeParts, CacheKept DEF Raises

\* The end of a request is outside the queues.
LEMMA RenderEndsSound ==
  ASSUME TileServiceAssumption, TileInv, NEW r \in Requests, NEW stored \in BOOLEAN, RenderEnds(r, stored)
  PROVE  TileInv'
<1>1. /\ TypeOK /\ ~Waits(r) /\ request[r] \in Running /\ request[r].tile \in Tiles
      /\ request[r].origin \in Origin
  BY RunningRequest DEF TileInv, OriginKnown, Known, RenderEnds, At, Waits, Running
<1>2. request' = [request EXCEPT ![r] = NoRequest]
  BY DEF RenderEnds, Answers, Ends
<1>3. /\ request'[r] = NoRequest
      /\ \A s \in Requests \ {r} : request'[s] = request[s]
  BY <1>1, <1>2, TypeParts
<1>4. TypeOK'
  <2>1. request' \in [Requests -> {NoRequest} \cup Running]
    BY <1>1, <1>2, EntryType
  <2>2. tiles' \in [Tiles -> Origin \cup {NoTile}]
    BY <1>1, TypeParts DEF RenderEnds
  <2>3. answers' \in [Tiles -> SUBSET Origin]
    BY <1>1, TypeParts DEF RenderEnds, Answers
  <2>4. budget' \in Budgets
    BY <1>1, TypeParts, SpendSound DEF RenderEnds
  <2> QED
    BY <1>1, <2>1, <2>2, <2>3, <2>4, TypeParts, TypeFromParts, CacheKept DEF RenderEnds
<1>5. ~Waits(r)' /\ Known(r)'
  BY <1>3 DEF Waits, Known, NoRequest
<1>6. CachedFields' \subseteq CachedFields
  BY DEF RenderEnds, CachedFields
<1> QED
  BY <1>1, <1>3, <1>4, <1>5, <1>6, OutsideSound DEF RenderEnds

\* A lost tile concerns no lock and no grid.
LEMMA LoseTileSound ==
  ASSUME TileInv, TileServiceAssumption, NEW t \in Tiles, LoseTile(t)
  PROVE  TileInv'
<1>1. TypeOK'
  <2>1. TypeOK
    BY DEF TileInv
  <2>2. tiles' \in [Tiles -> Origin \cup {NoTile}] /\ budget' \in Budgets
    BY <2>1, TypeParts, SpendSound DEF LoseTile
  <2> QED
    BY <2>1, <2>2, TypeParts, TypeFromParts, CacheKept DEF LoseTile
<1> QED
  BY <1>1 DEF LoseTile, TileInv, QueueInv, QueuesMatch, WaitersQueued, LocksKept, FetchesNew,
              OriginKnown, Known, Waits, InFlight, Field, CachedFields

\* A worker that starts again has no request, no lock and no grid.
LEMMA RestartSound == TileServiceAssumption /\ TileInv /\ Restart => TileInv'
<1> SUFFICES ASSUME TileServiceAssumption, TileInv, Restart PROVE TileInv'
  OBVIOUS
<1>1. TypeOK'
  BY RestartType DEF TileInv
<1>2. /\ \A r \in Requests : request'[r].stage = "idle"
      /\ \A l \in LockIds : queue'[l] = <<>>
  BY DEF Restart, NoRequest
<1> QED
  BY <1>1, <1>2 DEF TileInv, QueueInv, QueuesMatch, WaitersQueued, LocksKept, FetchesNew,
                    OriginKnown, Known, Waits, InFlight

\* A worker that starts has no request, no lock and no grid.
LEMMA TileInvInit == TileServiceAssumption /\ Init => TileInv
<1> SUFFICES ASSUME TileServiceAssumption, Init PROVE TileInv
  OBVIOUS
<1>1. TypeOK
  BY TileTypeInit
<1>2. /\ \A r \in Requests : request[r].stage = "idle"
      /\ \A l \in LockIds : queue[l] = <<>>
  BY DEF Init, NoRequest
<1> QED
  BY <1>1, <1>2 DEF TileInv, QueueInv, QueuesMatch, WaitersQueued, LocksKept, FetchesNew,
                    OriginKnown, Known, Waits, InFlight

\* Every step of a request keeps the invariant.
LEMMA StepSound ==
  ASSUME TileServiceAssumption, TileInv, NEW r \in Requests, Step(r)
  PROVE  TileInv'
<1>1. CASE Lookup(r)
  BY <1>1, LookupSound
<1>2. CASE GetGrid(r)
  BY <1>2, GetGridSound
<1>3. CASE Acquire(r)
  BY <1>3, AcquireSound
<1>4. CASE \E origin \in Origin : ProbeEnds(r, origin)
  BY <1>4, ProbeEndsSound
<1>5. CASE FetchEnds(r)
  BY <1>5, FetchEndsSound
<1>6. CASE FetchFallsBack(r)
  BY <1>6, FetchFallsBackSound
<1>7. CASE Raises(r)
  BY <1>7, RaisesSound
<1>8. CASE \E stored \in BOOLEAN : RenderEnds(r, stored)
  BY <1>8, RenderEndsSound
<1> QED
  BY <1>1, <1>2, <1>3, <1>4, <1>5, <1>6, <1>7, <1>8 DEF Step
\* Every step of the tile pipeline keeps the invariant.
LEMMA TileInvStep == TileServiceAssumption /\ TileInv /\ [Next]_vars => TileInv'
<1> SUFFICES ASSUME TileServiceAssumption, TileInv, [Next]_vars PROVE TileInv'
  OBVIOUS
<1>1. CASE \E r \in Requests, t \in Tiles : Ask(r, t)
  BY <1>1, AskSound
<1>2. CASE \E r \in Requests : Step(r)
  BY <1>2, StepSound
<1>3. CASE \E t \in Tiles : LoseTile(t)
  BY <1>3, LoseTileSound
<1>4. CASE Restart
  BY <1>4, RestartSound
<1>5. CASE UNCHANGED vars
  <2>1. TypeOK'
    BY <1>5, TypeParts, TypeFromParts, CacheKept DEF TileInv, vars
  <2> QED
    BY <1>5, <2>1 DEF vars, TileInv, QueueInv, QueuesMatch, WaitersQueued, LocksKept, FetchesNew,
                      OriginKnown, Known, Waits, InFlight, Field, CachedFields
<1> QED
  BY <1>1, <1>2, <1>3, <1>4, <1>5 DEF Next

-----------------------------------------------------------------------------
(***************************************************************************)
(* What it gives.                                                          *)
(***************************************************************************)

\* Through failures, lost tiles and restarts the requests, the lock table, the queues
\* and both caches keep their types, and the grid cache and the lock table the bounds
\* that cache.py and renderer.py set them.
THEOREM TileTypeCorrect == Spec => []TypeOK
BY TileServiceAssumption, TileInvInit, TileInvStep, PTL DEF Spec, TileInv

\* A field is fetched and decoded by one request at a time, and never while it is
\* cached, for any requests, fields and sizes: the promise of TileRenderer._grid.
THEOREM TileSingleFlight == Spec => []SingleFlight
BY TileServiceAssumption, TileInvInit, TileInvStep, InvSingleFlight, PTL DEF Spec

-----------------------------------------------------------------------------
(***************************************************************************)
(* With the probe service next to it.                                      *)
(***************************************************************************)

\* A step of the probe service touches the cache, the source and the bounds only, and
\* caches no field.
LEMMA SharedStep ==
  ASSUME TileServiceAssumption, TileInv,
         UNCHANGED <<request, locks, queue, tiles, cleared, answers>>,
         grids' = grids \/ \E f \in CachedFields : Use(f),
         source' \in [active : Origin \cup {NoSource}, degraded : BOOLEAN], budget' \in Budgets
  PROVE  TileInv'
<1>1. TypeOK
  BY DEF TileInv
<1>2. /\ grids' \in Seq(Grid) /\ CachedFields' \in Fits
      /\ CachedFields' \subseteq CachedFields
  <2>1. CASE grids' = grids
    BY <1>1, <2>1, TypeParts DEF CachedFields
  <2>2. ASSUME NEW f \in CachedFields, Use(f)
        PROVE  /\ grids' \in Seq(Grid) /\ CachedFields' \in Fits
               /\ CachedFields' \subseteq CachedFields
    BY <1>1, <2>2, TypeParts, UseSound
  <2> QED
    BY <2>1, <2>2
<1>3. TypeOK'
  BY <1>1, <1>2, TypeParts, TypeFromParts
<1> QED
  BY <1>2, <1>3 DEF TileInv, QueueInv, QueuesMatch, WaitersQueued, LocksKept, FetchesNew,
                    OriginKnown, Known, Waits, InFlight, Field

\* Every step of the probe service keeps the invariant of the tile pipeline.
LEMMA ProbeServiceSound ==
  ASSUME TileServiceAssumption, TileInv, ProbeServiceNext
  PROVE  TileInv'
<1>1. /\ TypeOK /\ budget \in Budgets
      /\ source \in [active : Origin \cup {NoSource}, degraded : BOOLEAN]
      /\ UNCHANGED <<request, locks, queue, tiles, cleared, answers>>
  BY TypeParts DEF TileInv, ProbeServiceNext
<1>2. ASSUME UNCHANGED <<grids, source, budget>>
      PROVE  TileInv'
  BY <1>1, <1>2, SharedStep
<1>3. CASE \E p \in Probers, asked \in SUBSET Cells \ {{}} : ProbeCells(p, asked)
  BY <1>2, <1>3 DEF ProbeCells, Begins
<1>4. CASE \E p \in Probers : ProbeWind(p)
  BY <1>2, <1>4 DEF ProbeWind, Begins
<1>5. CASE \E p \in Probers : Interpolated(p)
  BY <1>2, <1>5 DEF Interpolated
<1>6. ASSUME NEW task \in tasks, TaskStep(task)
      PROVE  TileInv'
  <2>1. CASE LoadGrid(task)
    <3>1. UNCHANGED <<source, budget>>
      BY <2>1 DEF LoadGrid
    <3>2. grids' = grids \/ \E f \in CachedFields : Use(f)
      BY <2>1 DEF LoadGrid
    <3> QED
      BY <1>1, <3>1, <3>2, SharedStep
  <2>2. ASSUME NEW origin \in Origin, BucketAnswers(task, origin)
        PROVE  TileInv'
    <3>1. grids' = grids /\ source' \in [active : Origin \cup {NoSource}, degraded : BOOLEAN]
      BY <1>1, <2>2 DEF BucketAnswers
    <3>2. budget' \in Budgets
      BY <1>1, <2>2, SpendSound DEF BucketAnswers
    <3> QED
      BY <1>1, <3>1, <3>2, SharedStep
  <2>3. CASE GridLoads(task)
    BY <1>2, <2>3 DEF GridLoads
  <2>4. CASE LoadFallsBack(task)
    <3>1. grids' = grids /\ source' \in [active : Origin \cup {NoSource}, degraded : BOOLEAN]
      BY <2>4 DEF LoadFallsBack, Origin
    <3>2. budget' \in Budgets
      BY <1>1, <2>4, SpendSound DEF LoadFallsBack
    <3> QED
      BY <1>1, <3>1, <3>2, SharedStep
  <2>5. CASE LoadRaises(task)
    <3>1. grids' = grids /\ source' = source
      BY <2>5 DEF LoadRaises
    <3>2. budget' \in Budgets
      BY <1>1, <2>5, SpendSound DEF LoadRaises
    <3> QED
      BY <1>1, <3>1, <3>2, SharedStep
  <2> QED
    BY <1>6, <2>1, <2>2, <2>3, <2>4, <2>5 DEF TaskStep
<1> QED
  BY <1>3, <1>4, <1>5, <1>6 DEF ProbeServiceNext

\* Every step of the worker keeps it.
LEMMA WorkerInvStep == TileServiceAssumption /\ TileInv /\ [WorkerNext]_workerVars => TileInv'
<1> SUFFICES ASSUME TileServiceAssumption, TileInv, [WorkerNext]_workerVars PROVE TileInv'
  OBVIOUS
<1>1. CASE ProbeServiceNext
  BY <1>1, ProbeServiceSound
<1>2. CASE [Next]_vars
  BY <1>2, TileInvStep
<1>3. [Next]_vars \/ ProbeServiceNext
  BY DEF WorkerNext, workerVars, WorkerRestarts, Next
<1> QED
  BY <1>1, <1>2, <1>3

\* Probes, meteograms and wind fields, which read the tile pipeline's cache and move its
\* source, do not break the single flight of its fetches.
THEOREM WorkerSingleFlight == WorkerSpec => []SingleFlight
<1>1. WorkerInit => Init
  BY DEF WorkerInit
<1> QED
  BY <1>1, TileServiceAssumption, TileInvInit, WorkerInvStep, InvSingleFlight, PTL DEF WorkerSpec

-----------------------------------------------------------------------------
(***************************************************************************)
(* The bounds of the probe service.                                        *)
(***************************************************************************)

\* The samples inside the semaphore.
Sampling == {task \in tasks : Samples(task) /\ task.stage # "waiting"}

\* The cells of the value cache.
Remembers == {c \in Cells : values[c] # NoValue}

PermitsKept ==
    /\ permits \in 0..Permits
    /\ IsFiniteSet(Sampling)
    /\ permits + Cardinality(Sampling) = Permits

ValuesKept ==
    /\ values \in [Cells -> Origin \cup {NoValue}]
    /\ IsFiniteSet(Remembers)
    /\ Cardinality(Remembers) <= MaxValues

\* A task is of the request that waits for it, and is of the kind it waits for; a
\* sample is never left alone, and a grid that is fetched comes from somewhere.
TasksKept ==
    /\ calls \in [Probers -> {"idle", "samples", "grids", "interpolation"}]
    /\ tasks \subseteq Tasks
    /\ \A u \in tasks :
         /\ u.stage = "fetch" => u.origin \in Origin
         /\ Samples(u) => u.of # NoProber
         /\ u.of # NoProber => calls[u.of] = IF Samples(u) THEN "samples" ELSE "grids"

\* A request has one sample of a cell.
SamplesOnce ==
    \A u, v \in tasks : Samples(u) /\ u.of = v.of /\ u.cell = v.cell => u = v

ProberInv ==
    /\ PermitsKept /\ ValuesKept /\ TasksKept /\ SamplesOnce
    /\ callsLeft \in 0..Calls

-----------------------------------------------------------------------------
\* The worker starts within its bounds.
LEMMA ProberInvInit == ProbeServiceAssumption /\ WorkerInit => ProberInv
<1> SUFFICES ASSUME ProbeServiceAssumption, WorkerInit PROVE ProberInv
  OBVIOUS
<1>1. Sampling = {} /\ Remembers = {} /\ tasks = {}
  BY DEF Sampling, Remembers, WorkerInit, NoValues
<1>2. IsFiniteSet({}) /\ Cardinality({}) = 0
  BY FS_EmptySet
<1>3. PermitsKept
  BY <1>1, <1>2 DEF PermitsKept, WorkerInit, ProbeServiceAssumption
<1>4. ValuesKept
  BY <1>1, <1>2 DEF ValuesKept, WorkerInit, NoValues, ProbeServiceAssumption
<1>5. TasksKept /\ SamplesOnce
  BY <1>1 DEF TasksKept, SamplesOnce, WorkerInit, NoCalls
<1>6. callsLeft \in 0..Calls
  BY DEF WorkerInit, ProbeServiceAssumption
<1> QED
  BY <1>3, <1>4, <1>5, <1>6 DEF ProberInv

\* A value that is remembered may cost another, never a place too many.
LEMMA SampleSound ==
  ASSUME ProbeServiceAssumption, ValuesKept, NEW task, NEW origin \in Origin, Sample(task, origin)
  PROVE  ValuesKept'
<1> DEFINE cell == task.cell
           all == [values EXCEPT ![cell] = origin]
           known == {c \in Cells : all[c] # NoValue}
<1>1. CASE UNCHANGED values
  BY <1>1 DEF ValuesKept, Remembers, Cells
<1>2. CASE values' \in Remembered(cell, origin)
  <2>1. /\ values \in [Cells -> Origin \cup {NoValue}] /\ IsFiniteSet(Remembers)
        /\ Cardinality(Remembers) <= MaxValues /\ MaxValues \in Nat \ {0}
    BY DEF ValuesKept, ProbeServiceAssumption
  <2>2. all \in [Cells -> Origin \cup {NoValue}]
    BY <2>1
  <2>3. known \subseteq Remembers \cup {cell} /\ Remembers \subseteq known
    BY <2>1, <2>2 DEF Remembers, ProbeServiceAssumption
  <2>4. IsFiniteSet(Remembers \cup {cell}) /\ Cardinality(Remembers \cup {cell}) \in Nat
        /\ Cardinality(Remembers \cup {cell}) <= Cardinality(Remembers) + 1
        /\ Cardinality(Remembers) \in Nat
    <3>1. /\ IsFiniteSet(Remembers \cup {cell})
          /\ Cardinality(Remembers \cup {cell}) =
                 IF cell \in Remembers THEN Cardinality(Remembers) ELSE Cardinality(Remembers) + 1
      BY <2>1, FS_AddElement, Zenon
    <3>2. Cardinality(Remembers) \in Nat
      BY <2>1, FS_CardinalityType
    <3> QED
      BY <3>1, <3>2
  <2>5. IsFiniteSet(known) /\ Cardinality(known) \in Nat /\ Cardinality(known) <= MaxValues + 1
    BY <2>1, <2>3, <2>4, FS_Subset, FS_CardinalityType
  <2>6. CASE Cardinality(known) <= MaxValues
    <3>1. values' = all
      BY <1>2, <2>6 DEF Remembered
    <3>2. Remembers' = known
      BY <3>1 DEF Remembers, Cells
    <3> QED
      BY <2>2, <2>5, <2>6, <3>1, <3>2 DEF ValuesKept, Cells
  <2>7. CASE ~(Cardinality(known) <= MaxValues)
    <3>1. PICK c \in known \ {cell} : values' = [all EXCEPT ![c] = NoValue]
      BY <1>2, <2>7 DEF Remembered
    <3>2. values' \in [Cells -> Origin \cup {NoValue}]
      BY <2>2, <3>1
    <3>3. Remembers' = known \ {c}
      BY <2>2, <3>1 DEF Remembers, Cells
    <3>4. IsFiniteSet(known \ {c}) /\ Cardinality(known \ {c}) = Cardinality(known) - 1
      BY <2>5, <3>1, FS_RemoveElement
    <3>5. Cardinality(known \ {c}) <= MaxValues
      BY <2>1, <2>5, <3>4
    <3> QED
      BY <3>2, <3>3, <3>4, <3>5 DEF ValuesKept, Cells
  <2> QED
    BY <2>6, <2>7
<1> QED
  BY <1>1, <1>2 DEF Sample

\* A task that goes on as another one, for the same request and cell, keeps the links
\* between tasks and requests.
LEMMA GoesOnSound ==
  ASSUME TasksKept, SamplesOnce, NEW task \in tasks, NEW new \in Tasks,
         new.of = task.of, new.cell = task.cell, new.stage = "fetch" => new.origin \in Origin,
         tasks' = (tasks \ {task}) \cup {new}, UNCHANGED calls
  PROVE  TasksKept' /\ SamplesOnce'
<1>1. Samples(new) <=> Samples(task)
  BY DEF Samples
<1>2. TasksKept'
  BY <1>1 DEF TasksKept, Samples
<1>3. SamplesOnce'
  BY <1>1 DEF SamplesOnce, Samples
<1> QED
  BY <1>2, <1>3

\* A task that ends does too.
LEMMA CompletesSound ==
  ASSUME TasksKept, SamplesOnce, NEW task \in tasks, Completes(task), NoProber \notin Probers
  PROVE  TasksKept' /\ SamplesOnce'
<1>1. tasks' \subseteq tasks /\ tasks' = tasks \ {task}
  BY DEF Completes
<1>2. task.of \in Probers \cup {NoProber}
  BY DEF TasksKept, Tasks
<1>3. SamplesOnce'
  BY <1>1 DEF SamplesOnce, Samples
<1>4. CASE calls' = calls
  BY <1>1, <1>3, <1>4 DEF TasksKept, Samples
<1>5. CASE ~(task.of = NoProber \/ Siblings(task) # {})
  <2>1. task.of \in Probers /\ \A u \in tasks' : u.of # task.of
    BY <1>1, <1>2, <1>5 DEF Siblings
  <2>2. PICK next \in {"idle", "interpolation"} : calls' = [calls EXCEPT ![task.of] = next]
    BY <1>5 DEF Completes
  <2>3. calls' \in [Probers -> {"idle", "samples", "grids", "interpolation"}]
    BY <2>1, <2>2 DEF TasksKept
  <2>4. ASSUME NEW u \in tasks'
        PROVE  /\ u \in Tasks
               /\ u.stage = "fetch" => u.origin \in Origin
               /\ Samples(u) => u.of # NoProber
               /\ u.of # NoProber => calls'[u.of] = IF Samples(u) THEN "samples" ELSE "grids"
    <3>1. u \in tasks /\ u \in Tasks /\ u.of # task.of /\ u.of \in Probers \cup {NoProber}
      BY <1>1, <2>1 DEF TasksKept, Tasks
    <3>2. u.of # NoProber => calls'[u.of] = calls[u.of]
      BY <2>2, <3>1 DEF TasksKept
    <3> QED
      BY <3>1, <3>2 DEF TasksKept
  <2> QED
    BY <1>3, <2>3, <2>4 DEF TasksKept, Samples
<1> QED
  BY <1>3, <1>4, <1>5 DEF Completes

\* The semaphore counts its samples: one enters.
LEMMA EnterSound ==
  ASSUME ProbeServiceAssumption, PermitsKept, TasksKept, SamplesOnce,
         NEW task \in tasks, NEW new \in Tasks, new.of = task.of, new.cell = task.cell,
         Samples(task), task.stage = "waiting", new.stage # "waiting", permits > 0,
         tasks' = (tasks \ {task}) \cup {new}, permits' = permits - 1
  PROVE  PermitsKept'
<1>1. Sampling' = Sampling \cup {new}
  BY DEF Sampling, Samples
<1>2. new \notin Sampling
  BY DEF Sampling, SamplesOnce
<1>3. /\ IsFiniteSet(Sampling \cup {new})
      /\ Cardinality(Sampling \cup {new}) = Cardinality(Sampling) + 1
      /\ Cardinality(Sampling) \in Nat
  BY <1>2, FS_AddElement, FS_CardinalityType DEF PermitsKept
<1> QED
  BY <1>1, <1>3 DEF PermitsKept, ProbeServiceAssumption

\* One goes on inside.
LEMMA InsideSound ==
  ASSUME ProbeServiceAssumption, PermitsKept, TasksKept, SamplesOnce,
         NEW task \in tasks, NEW new \in Tasks, new.of = task.of, new.cell = task.cell,
         Samples(task) => task.stage # "waiting" /\ new.stage # "waiting",
         tasks' = (tasks \ {task}) \cup {new}, permits' = permits
  PROVE  PermitsKept'
<1>1. CASE ~Samples(task)
  <2>1. Sampling' = Sampling
    BY <1>1 DEF Sampling, Samples
  <2> QED
    BY <2>1 DEF PermitsKept
<1>2. CASE Samples(task)
  <2>1. Sampling' = (Sampling \ {task}) \cup {new}
    BY <1>2 DEF Sampling, Samples
  <2>2. task \in Sampling /\ (new \in Sampling => new = task)
    BY <1>2 DEF Sampling, SamplesOnce
  <2>3. /\ IsFiniteSet(Sampling \ {task})
        /\ Cardinality(Sampling \ {task}) = Cardinality(Sampling) - 1
        /\ Cardinality(Sampling) \in Nat
    BY <2>2, FS_RemoveElement, FS_CardinalityType DEF PermitsKept
  <2>4. /\ IsFiniteSet((Sampling \ {task}) \cup {new})
        /\ Cardinality((Sampling \ {task}) \cup {new}) = Cardinality(Sampling \ {task}) + 1
    BY <2>2, <2>3, FS_AddElement
  <2> QED
    BY <2>1, <2>3, <2>4 DEF PermitsKept
<1> QED
  BY <1>1, <1>2

\* One leaves, and gives its permit back.
LEMMA LeaveSound ==
  ASSUME ProbeServiceAssumption, PermitsKept, TasksKept,
         NEW task \in tasks, task.stage # "waiting", Sampling' = Sampling \ {task},
         permits' = Left(task)
  PROVE  PermitsKept'
<1>1. CASE Samples(task)
  <2>1. task \in Sampling
    BY <1>1 DEF Sampling
  <2>2. /\ IsFiniteSet(Sampling \ {task})
        /\ Cardinality(Sampling \ {task}) = Cardinality(Sampling) - 1
        /\ Cardinality(Sampling) \in Nat /\ Cardinality(Sampling \ {task}) \in Nat
    BY <2>1, FS_RemoveElement, FS_CardinalityType DEF PermitsKept
  <2> QED
    BY <1>1, <2>2 DEF PermitsKept, Left, ProbeServiceAssumption
<1>2. CASE ~Samples(task)
  <2>1. Sampling \ {task} = Sampling
    BY <1>2 DEF Sampling
  <2> QED
    BY <1>2, <2>1 DEF PermitsKept, Left
<1> QED
  BY <1>1, <1>2

\* A request that begins has a task for each of its cells.
LEMMA BeginsSound ==
  ASSUME ProbeServiceAssumption, ProberInv, NEW p \in Probers,
         NEW what \in {"samples", "grids"}, NEW cells, Begins(p, what, cells),
         IF what = "samples" THEN cells \subseteq Cells ELSE cells \subseteq WindFields \X {WholeGrid}
  PROVE  ProberInv'
<1> DEFINE Begun(c) == [of |-> p, cell |-> c, stage |-> "waiting", origin |-> NoSource]
<1>1. /\ PermitsKept /\ ValuesKept /\ TasksKept /\ SamplesOnce /\ callsLeft \in 0..Calls
      /\ WholeGrid \notin Places /\ NoProber \notin Probers /\ Calls \in Nat
      /\ Sampled \subseteq Fields /\ WindFields \subseteq Fields
  BY DEF ProberInv, ProbeServiceAssumption
<1>2. /\ calls[p] = "idle" /\ callsLeft > 0 /\ callsLeft' = callsLeft - 1
      /\ calls' = IF cells = {} THEN calls ELSE [calls EXCEPT ![p] = what]
      /\ tasks' = tasks \cup {Begun(c) : c \in cells}
      /\ permits' = permits /\ values' = values
  BY DEF Begins
<1>3. ASSUME NEW c \in cells
      PROVE  /\ Begun(c) \in Tasks /\ Begun(c).stage = "waiting" /\ Begun(c).of = p
             /\ Begun(c).cell = c /\ (Samples(Begun(c)) <=> what = "samples")
  <2>1. c \in Fields \X (Places \cup {WholeGrid}) /\ (c[2] # WholeGrid <=> what = "samples")
    BY <1>1 DEF Cells
  <2> QED
    BY <2>1 DEF Tasks, Samples
<1>4. \A u \in tasks : u.of # p
  BY <1>1, <1>2 DEF TasksKept
<1>5. PermitsKept'
  <2>1. Sampling' = Sampling
    BY <1>2, <1>3 DEF Sampling, Samples
  <2> QED
    BY <1>1, <1>2, <2>1 DEF PermitsKept
<1>6. ValuesKept'
  BY <1>1, <1>2 DEF ValuesKept, Remembers, Cells
<1>7. TasksKept'
  <2>1. calls' \in [Probers -> {"idle", "samples", "grids", "interpolation"}]
    BY <1>1, <1>2 DEF TasksKept
  <2>2. ASSUME NEW u \in tasks'
        PROVE  /\ u \in Tasks
               /\ u.stage = "fetch" => u.origin \in Origin
               /\ Samples(u) => u.of # NoProber
               /\ u.of # NoProber => calls'[u.of] = IF Samples(u) THEN "samples" ELSE "grids"
    <3>1. CASE u \in tasks
      <4>1. u.of \in Probers \cup {NoProber} /\ u.of # p
        BY <1>1, <1>4, <3>1 DEF TasksKept, Tasks
      <4>2. u.of # NoProber => calls'[u.of] = calls[u.of]
        BY <1>1, <1>2, <4>1 DEF TasksKept
      <4> QED
        BY <1>1, <3>1, <4>2 DEF TasksKept
    <3>2. CASE u \notin tasks
      <4>1. PICK c \in cells : u = Begun(c)
        BY <1>2, <3>2
      <4>2. calls'[p] = what /\ p # NoProber
        BY <1>1, <1>2, <4>1 DEF TasksKept
      <4>3. /\ u \in Tasks /\ u.stage = "waiting" /\ u.of = p
            /\ (Samples(u) <=> what = "samples")
        BY <1>3, <4>1
      <4> QED
        BY <4>2, <4>3
    <3> QED
      BY <3>1, <3>2
  <2> QED
    BY <2>1, <2>2 DEF TasksKept, Samples
<1>8. SamplesOnce'
  <2> SUFFICES ASSUME NEW u \in tasks', NEW v \in tasks', Samples(u), u.of = v.of, u.cell = v.cell
               PROVE  u = v
    BY DEF SamplesOnce, Samples
  <2>1. CASE u \in tasks /\ v \in tasks
    BY <1>1, <2>1 DEF SamplesOnce
  <2>2. CASE u \notin tasks \/ v \notin tasks
    <3>1. u \notin tasks /\ v \notin tasks
      BY <1>2, <1>3, <1>4, <2>2
    <3>2. PICK c \in cells, d \in cells : u = Begun(c) /\ v = Begun(d)
      BY <1>2, <3>1
    <3> QED
      BY <1>3, <3>2
  <2> QED
    BY <2>1, <2>2
<1>9. callsLeft' \in 0..Calls
  BY <1>1, <1>2
<1> QED
  BY <1>5, <1>6, <1>7, <1>8, <1>9 DEF ProberInv

\* A task that ends leaves the semaphore, if it was inside.
LEMMA TaskGone ==
  ASSUME NEW task \in tasks, Completes(task)
  PROVE  /\ Sampling' = Sampling \ {task}
         /\ task.stage = "waiting" => Sampling \ {task} = Sampling
BY DEF Completes, Sampling, Samples

\* A task that starts uses a cached grid or asks for one.
LEMMA LoadGridSound ==
  ASSUME ProbeServiceAssumption, TypeOK, ProberInv, NEW task \in tasks, LoadGrid(task)
  PROVE  ProberInv'
<1>1. /\ PermitsKept /\ ValuesKept /\ TasksKept /\ SamplesOnce /\ callsLeft \in 0..Calls
      /\ NoProber \notin Probers
  BY DEF ProberInv, ProbeServiceAssumption
<1>2. task \in Tasks /\ task.stage = "waiting" /\ callsLeft' = callsLeft
  BY <1>1 DEF TasksKept, LoadGrid
<1>3. CASE task.cell[1] \in CachedFields
  <2>1. Sample(task, GridOrigin(task.cell[1])) /\ Completes(task) /\ permits' = permits
    BY <1>3 DEF LoadGrid
  <2>2. ValuesKept'
    BY <1>1, <1>3, <2>1, GridOriginType, SampleSound
  <2>3. TasksKept' /\ SamplesOnce'
    BY <1>1, <2>1, CompletesSound
  <2>4. PermitsKept'
    BY <1>1, <1>2, <2>1, TaskGone DEF PermitsKept
  <2> QED
    BY <1>1, <1>2, <2>2, <2>3, <2>4 DEF ProberInv
<1>4. CASE task.cell[1] \notin CachedFields
  <2> DEFINE stage == IF source.active = NoSource THEN "probe" ELSE "fetch"
             new == [task EXCEPT !.stage = stage, !.origin = source.active]
  <2>1. /\ tasks' = (tasks \ {task}) \cup {new} /\ calls' = calls /\ values' = values
        /\ permits' = IF Samples(task) THEN permits - 1 ELSE permits
        /\ Samples(task) => permits > 0
    BY <1>4 DEF LoadGrid
  <2>2. source.active \in Origin \cup {NoSource}
    BY TypeParts
  <2>3. stage \in {"probe", "fetch"} /\ (stage = "fetch" => source.active \in Origin)
    BY <2>2
  <2> HIDE DEF stage
  <2>4. /\ new \in Tasks /\ new.of = task.of /\ new.cell = task.cell /\ new.stage = stage
        /\ new.origin = source.active
    BY <1>2, <2>2, <2>3 DEF Tasks
  <2> HIDE DEF new
  <2>5. TasksKept' /\ SamplesOnce'
    BY <1>1, <2>1, <2>3, <2>4, GoesOnSound
  <2>6. PermitsKept'
    <3>1. CASE Samples(task)
      BY <1>1, <1>2, <2>1, <2>3, <2>4, <3>1, EnterSound
    <3>2. CASE ~Samples(task)
      BY <1>1, <2>1, <2>4, <3>2, InsideSound
    <3> QED
      BY <3>1, <3>2
  <2>7. ValuesKept'
    BY <1>1, <2>1 DEF ValuesKept, Remembers, Cells
  <2> QED
    BY <1>1, <1>2, <2>5, <2>6, <2>7 DEF ProberInv
<1> QED
  BY <1>3, <1>4

\* A task inside goes on with another stage or origin.
LEMMA InsideStepSound ==
  ASSUME ProbeServiceAssumption, ProberInv, NEW task \in tasks, NEW origin \in Origin,
         task.stage \in {"probe", "fetch"},
         tasks' = (tasks \ {task}) \cup {[task EXCEPT !.stage = "fetch", !.origin = origin]},
         UNCHANGED <<calls, permits, values, callsLeft>>
  PROVE  ProberInv'
<1> DEFINE new == [task EXCEPT !.stage = "fetch", !.origin = origin]
<1>1. /\ PermitsKept /\ ValuesKept /\ TasksKept /\ SamplesOnce /\ callsLeft \in 0..Calls
  BY DEF ProberInv
<1>2. /\ new \in Tasks /\ new.of = task.of /\ new.cell = task.cell /\ new.stage = "fetch"
      /\ new.origin = origin /\ tasks' = (tasks \ {task}) \cup {new}
  BY <1>1 DEF TasksKept, Tasks
<1> HIDE DEF new
<1>3. TasksKept' /\ SamplesOnce'
  BY <1>1, <1>2, GoesOnSound
<1>4. PermitsKept'
  BY <1>1, <1>2, InsideSound
<1>5. ValuesKept'
  BY <1>1 DEF ValuesKept, Remembers, Cells
<1> QED
  BY <1>1, <1>3, <1>4, <1>5 DEF ProberInv

\* A grid has come.
LEMMA GridLoadsSound ==
  ASSUME ProbeServiceAssumption, ProberInv, NEW task \in tasks, GridLoads(task)
  PROVE  ProberInv'
<1>1. /\ PermitsKept /\ ValuesKept /\ TasksKept /\ SamplesOnce /\ callsLeft \in 0..Calls
      /\ NoProber \notin Probers
  BY DEF ProberInv, ProbeServiceAssumption
<1>2. /\ task.stage = "fetch" /\ task.origin \in Origin /\ Sample(task, task.origin)
      /\ Completes(task) /\ permits' = Left(task) /\ callsLeft' = callsLeft
  BY <1>1 DEF TasksKept, GridLoads
<1>3. ValuesKept'
  BY <1>1, <1>2, SampleSound
<1>4. TasksKept' /\ SamplesOnce'
  BY <1>1, <1>2, CompletesSound
<1>5. PermitsKept'
  BY <1>1, <1>2, TaskGone, LeaveSound
<1> QED
  BY <1>1, <1>2, <1>3, <1>4, <1>5 DEF ProberInv

\* A wind field that loses a grid: the other one goes on for nobody.
LEMMA OrphansSound ==
  ASSUME ProbeServiceAssumption, ProberInv, NEW task \in tasks, ~Samples(task), task.of # NoProber,
         tasks' = (tasks \ ({task} \cup Siblings(task))) \cup
                      {[u EXCEPT !.of = NoProber] : u \in Siblings(task)},
         calls' = [calls EXCEPT ![task.of] = "idle"], UNCHANGED <<permits, values, callsLeft>>
  PROVE  ProberInv'
<1> DEFINE Orphan(u) == [u EXCEPT !.of = NoProber]
<1>1. /\ PermitsKept /\ ValuesKept /\ TasksKept /\ SamplesOnce /\ callsLeft \in 0..Calls
      /\ NoProber \notin Probers
  BY DEF ProberInv, ProbeServiceAssumption
<1>2. task.of \in Probers
  BY <1>1 DEF TasksKept, Tasks
<1>3. ASSUME NEW u \in Siblings(task)
      PROVE  /\ u \in tasks /\ ~Samples(u) /\ Orphan(u) \in Tasks /\ Orphan(u).of = NoProber
             /\ Orphan(u).stage = u.stage /\ Orphan(u).origin = u.origin /\ ~Samples(Orphan(u))
  <2>1. u \in tasks /\ u \in Tasks /\ u.of = task.of /\ ~Samples(u)
    BY <1>1 DEF Siblings, TasksKept
  <2> QED
    BY <2>1 DEF Tasks, Samples
<1>4. ASSUME NEW u \in tasks'
      PROVE  (u \in tasks /\ u.of # task.of) \/ (\E v \in Siblings(task) : u = Orphan(v))
  BY DEF Siblings
<1>5. PermitsKept'
  <2>1. ASSUME NEW u \in tasks', Samples(u)
        PROVE  u \in tasks
    BY <1>3, <1>4, <2>1
  <2>2. ASSUME NEW u \in tasks, Samples(u)
        PROVE  u \in tasks'
    <3>1. u.of # task.of
      BY <1>1, <1>2, <2>2 DEF TasksKept
    <3> QED
      BY <2>2, <3>1 DEF Siblings
  <2>3. Sampling' = Sampling
    BY <2>1, <2>2 DEF Sampling, Samples
  <2> QED
    BY <1>1, <2>3 DEF PermitsKept
<1>6. ValuesKept'
  BY <1>1 DEF ValuesKept, Remembers, Cells
<1>7. TasksKept'
  <2>1. calls' \in [Probers -> {"idle", "samples", "grids", "interpolation"}]
    BY <1>1, <1>2 DEF TasksKept
  <2>2. ASSUME NEW u \in tasks'
        PROVE  /\ u \in Tasks
               /\ u.stage = "fetch" => u.origin \in Origin
               /\ Samples(u) => u.of # NoProber
               /\ u.of # NoProber => calls'[u.of] = IF Samples(u) THEN "samples" ELSE "grids"
    <3>1. CASE u \in tasks /\ u.of # task.of
      <4>1. u.of \in Probers \cup {NoProber}
        BY <1>1, <3>1 DEF TasksKept, Tasks
      <4>2. u.of # NoProber => calls'[u.of] = calls[u.of]
        BY <1>1, <3>1, <4>1 DEF TasksKept
      <4> QED
        BY <1>1, <3>1, <4>2 DEF TasksKept
    <3>2. ASSUME NEW v \in Siblings(task), u = Orphan(v)
          PROVE  /\ u \in Tasks /\ ~Samples(u) /\ u.of = NoProber
                 /\ u.stage = "fetch" => u.origin \in Origin
      BY <1>1, <1>3, <3>2 DEF TasksKept
    <3> QED
      BY <1>4, <3>1, <3>2
  <2> QED
    BY <2>1, <2>2 DEF TasksKept, Samples
<1>8. SamplesOnce'
  <2>1. ASSUME NEW u \in tasks', Samples(u)
        PROVE  u \in tasks /\ u.of # NoProber
    BY <1>1, <1>3, <1>4, <2>1 DEF TasksKept
  <2>2. ASSUME NEW v \in tasks', v.of # NoProber
        PROVE  v \in tasks
    BY <1>3, <1>4, <2>2
  <2> QED
    BY <1>1, <2>1, <2>2 DEF SamplesOnce, Samples
<1> QED
  BY <1>1, <1>5, <1>6, <1>7, <1>8 DEF ProberInv

\* A task that raises gives back what it holds.
LEMMA LoadRaisesSound ==
  ASSUME ProbeServiceAssumption, ProberInv, NEW task \in tasks, LoadRaises(task)
  PROVE  ProberInv'
<1>1. /\ PermitsKept /\ ValuesKept /\ TasksKept /\ SamplesOnce /\ callsLeft \in 0..Calls
      /\ NoProber \notin Probers
  BY DEF ProberInv, ProbeServiceAssumption
<1>2. /\ task.stage = "fetch" /\ Fails(task) /\ permits' = Left(task)
      /\ UNCHANGED <<values, callsLeft>>
  BY DEF LoadRaises
<1>3. CASE Completes(task)
  <2>1. ValuesKept'
    BY <1>1, <1>2 DEF ValuesKept, Remembers, Cells
  <2>2. TasksKept' /\ SamplesOnce'
    BY <1>1, <1>3, CompletesSound
  <2>3. PermitsKept'
    BY <1>1, <1>2, <1>3, TaskGone, LeaveSound
  <2> QED
    BY <1>1, <1>2, <2>1, <2>2, <2>3 DEF ProberInv
<1>4. CASE ~Completes(task)
  BY <1>2, <1>4, OrphansSound DEF Fails, Left
<1> QED
  BY <1>3, <1>4

\* The steps of the probe service.
LEMMA ProberStep ==
  ASSUME ProbeServiceAssumption, TypeOK, ProberInv, ProbeServiceNext
  PROVE  ProberInv'
<1>1. ASSUME NEW p \in Probers, NEW asked \in SUBSET Cells \ {{}}, ProbeCells(p, asked)
      PROVE  ProberInv'
  <2>1. {c \in asked : values[c] = NoValue} \subseteq Cells
    OBVIOUS
  <2> QED
    BY <1>1, <2>1, BeginsSound DEF ProbeCells
<1>2. ASSUME NEW p \in Probers, ProbeWind(p)
      PROVE  ProberInv'
  BY <1>2, BeginsSound DEF ProbeWind
<1>3. ASSUME NEW p \in Probers, Interpolated(p)
      PROVE  ProberInv'
  <2>1. /\ calls[p] = "interpolation" /\ calls' = [calls EXCEPT ![p] = "idle"]
        /\ UNCHANGED <<tasks, permits, values, callsLeft>>
    BY <1>3 DEF Interpolated
  <2>2. /\ PermitsKept /\ ValuesKept /\ TasksKept /\ SamplesOnce /\ callsLeft \in 0..Calls
        /\ NoProber \notin Probers
    BY DEF ProberInv, ProbeServiceAssumption
  <2>3. ASSUME NEW u \in tasks, u.of # NoProber
        PROVE  calls'[u.of] = calls[u.of]
    <3>1. u.of \in Probers
      BY <2>2, <2>3 DEF TasksKept, Tasks
    <3>2. u.of # p
      BY <2>1, <2>2, <2>3 DEF TasksKept
    <3> QED
      BY <2>1, <2>2, <3>1, <3>2 DEF TasksKept
  <2>4. TasksKept'
    BY <2>1, <2>2, <2>3 DEF TasksKept, Samples
  <2>5. PermitsKept' /\ ValuesKept' /\ SamplesOnce'
    BY <2>1, <2>2 DEF PermitsKept, Sampling, Samples, ValuesKept, Remembers, Cells, SamplesOnce
  <2> QED
    BY <2>1, <2>2, <2>4, <2>5 DEF ProberInv
<1>4. ASSUME NEW task \in tasks, TaskStep(task)
      PROVE  ProberInv'
  <2>1. CASE LoadGrid(task)
    BY <2>1, LoadGridSound
  <2>2. ASSUME NEW origin \in Origin, BucketAnswers(task, origin)
        PROVE  ProberInv'
    <3>1. /\ task.stage \in {"probe", "fetch"}
          /\ tasks' = (tasks \ {task}) \cup {[task EXCEPT !.stage = "fetch", !.origin = origin]}
          /\ UNCHANGED <<calls, permits, values, callsLeft>>
      BY <2>2 DEF BucketAnswers
    <3> QED
      BY <3>1, InsideStepSound
  <2>3. CASE GridLoads(task)
    BY <2>3, GridLoadsSound
  <2>4. CASE LoadFallsBack(task)
    <3>1. task \in Tasks /\ task.stage = "fetch"
      BY <2>4 DEF ProberInv, TasksKept, LoadFallsBack
    <3>2. [task EXCEPT !.origin = "synthetic"] = [task EXCEPT !.stage = "fetch", !.origin = "synthetic"]
      BY <3>1 DEF Tasks
    <3>3. "synthetic" \in Origin
      BY DEF Origin
    <3>4. /\ tasks' = (tasks \ {task}) \cup
                         {[task EXCEPT !.stage = "fetch", !.origin = "synthetic"]}
          /\ UNCHANGED <<calls, permits, values, callsLeft>>
      BY <2>4, <3>2 DEF LoadFallsBack
    <3> QED
      BY <3>1, <3>3, <3>4, InsideStepSound
  <2>5. CASE LoadRaises(task)
    BY <2>5, LoadRaisesSound
  <2> QED
    BY <1>4, <2>1, <2>2, <2>3, <2>4, <2>5 DEF TaskStep
<1> QED
  BY <1>1, <1>2, <1>3, <1>4 DEF ProbeServiceNext

\* Every step of the worker: the tile pipeline leaves the probe service alone, and a
\* restart begins it anew.
LEMMA ProberInvStep ==
  ASSUME ProbeServiceAssumption, TypeOK, ProberInv, [WorkerNext]_workerVars
  PROVE  ProberInv'
<1>1. CASE UNCHANGED serviceVars
  BY <1>1 DEF serviceVars, ProberInv, PermitsKept, Sampling, Samples, ValuesKept, Remembers, Cells,
              TasksKept, SamplesOnce
<1>2. CASE WorkerRestarts
  <2>1. Sampling' = {} /\ Remembers' = {} /\ tasks' = {}
    BY <1>2 DEF Sampling, Remembers, WorkerRestarts, NoValues, Cells
  <2>2. IsFiniteSet({}) /\ Cardinality({}) = 0
    BY FS_EmptySet
  <2>3. PermitsKept'
    BY <1>2, <2>1, <2>2 DEF PermitsKept, WorkerRestarts, ProbeServiceAssumption
  <2>4. ValuesKept'
    BY <1>2, <2>1, <2>2 DEF ValuesKept, WorkerRestarts, NoValues, ProbeServiceAssumption, Cells
  <2>5. TasksKept' /\ SamplesOnce'
    BY <1>2, <2>1 DEF TasksKept, SamplesOnce, WorkerRestarts, NoCalls
  <2>6. callsLeft' \in 0..Calls
    BY <1>2 DEF WorkerRestarts, ProberInv
  <2> QED
    BY <2>3, <2>4, <2>5, <2>6 DEF ProberInv
<1>3. CASE ProbeServiceNext
  BY <1>3, ProberStep
<1> QED
  BY <1>1, <1>2, <1>3 DEF WorkerNext, workerVars

\* A worker keeps its types and the bounds it sets itself: the semaphore of the probes is
\* never overdrawn nor over-released, whatever fails, and the value cache never holds
\* more than its size, for any requests, places and sizes.
THEOREM WorkerTypeCorrect == WorkerSpec => []WorkerTypeOK
<1>1. WorkerInit => Init
  BY DEF WorkerInit
<1>2. TileInv => TypeOK
  BY DEF TileInv
<1>3. TypeOK /\ ProberInv => WorkerTypeOK
  BY DEF WorkerTypeOK, ProberInv, PermitsKept, ValuesKept, Remembers, TasksKept
<1>4. /\ ProbeServiceAssumption /\ WorkerInit => ProberInv
      /\ ProbeServiceAssumption /\ TypeOK /\ ProberInv /\ [WorkerNext]_workerVars => ProberInv'
  BY ProberInvInit, ProberInvStep
<1> QED
  BY <1>1, <1>2, <1>3, <1>4, TileServiceAssumption, ProbeServiceAssumption, TileInvInit,
     WorkerInvStep, PTL DEF WorkerSpec
=============================================================================
