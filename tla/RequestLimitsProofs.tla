------------------------- MODULE RequestLimitsProofs -------------------------
(***************************************************************************)
(* Proofs about the web's quotas and about its sessions.                   *)
(* RequestLimits, for any numbers of sessions, actors and requests, any    *)
(* limits and however long the clock runs: the inductive invariant ties    *)
(* each counter to the requests it counts; what has to be shown is that    *)
(* pruning, touching and refusing change no count, and that charging and   *)
(* releasing change the two of the request and no others.  The rate cap    *)
(* needs more: that what a bucket remembers is, entry by entry, the        *)
(* requests admitted in the window, which holds as long as idle buckets    *)
(* are kept at least that long.                                            *)
(* WebSessions, for any numbers of keys, chats and requests: unless a      *)
(* number was given again while something was still on its old chat, what  *)
(* there is of a chat is of one key, and nothing in a chat that can be     *)
(* sent to has been deleted.                                               *)
(***************************************************************************)
EXTENDS RequestLimits, WebSessions, FiniteSetTheorems, SequenceTheorems, WellFoundedInduction,
        TLAPS

USE LimitsAssumption

IsBucket(q) == q \in [inflight : 0 .. MaxInflight, recent : {q.recent}, touch : {q.touch}]

\* What a pair of maps looks like, whatever its history.
Sound(map) ==
    /\ map = [k \in DOMAIN map |-> map[k]]
    /\ DOMAIN map \subseteq Name /\ IsFiniteSet(DOMAIN map)
    /\ \A k \in DOMAIN map : IsBucket(map[k])

Count(map, k) == IF k \in DOMAIN map THEN map[k].inflight ELSE 0

RequestsOK ==
    /\ state \in [Request -> {"new", "running", "done", "lost"} \cup Refused]
    /\ sessionOf \in [Request -> SessionKey]
    /\ actorOf \in [Request -> ActorKey]

BooksInv == RequestsOK /\ Sound(quota) /\ InflightExact /\ BucketsBounded

\* prune_map forgets buckets without requests only.
LEMMA PruneMapKeeps ==
  ASSUME NEW map, Sound(map)
  PROVE  /\ Sound(PruneMap(map))
         /\ DOMAIN PruneMap(map) \subseteq DOMAIN map
         /\ \A k : Count(PruneMap(map), k) = Count(map, k)
  <1> DEFINE pruned == [k \in DOMAIN map |-> Pruned(map[k])]
             stay == {n \in DOMAIN map : Retained(pruned[n])}
  <1>1. PruneMap(map) = [k \in stay |-> pruned[k]]
    BY DEF PruneMap
  <1>2. \A k \in DOMAIN map :
            IsBucket(pruned[k]) /\ pruned[k].inflight = map[k].inflight
    BY DEF Sound, IsBucket, Pruned
  <1>3. \A k \in DOMAIN map : k \notin stay => map[k].inflight = 0
    BY <1>2 DEF Retained
  <1>4. IsFiniteSet(stay)
    BY FS_Subset DEF Sound
  <1> HIDE DEF pruned, stay
  <1>5. stay \subseteq DOMAIN map /\ DOMAIN PruneMap(map) = stay
    BY <1>1 DEF stay
  <1>6. \A k \in stay : PruneMap(map)[k] = pruned[k]
    BY <1>1
  <1>7. Sound(PruneMap(map))
    BY <1>1, <1>2, <1>4, <1>5, <1>6 DEF Sound
  <1>8. \A k : Count(PruneMap(map), k) = Count(map, k)
    BY <1>2, <1>3, <1>5, <1>6 DEF Count
  <1> QED
    BY <1>5, <1>7, <1>8

\* entry(..).or_default() adds a bucket that counts nothing.
LEMMA TouchedKeeps ==
  ASSUME NEW map, Sound(map), NEW k \in Name
  PROVE  /\ Sound(Touched(map, k))
         /\ DOMAIN Touched(map, k) = DOMAIN map \cup {k}
         /\ \A n : Count(Touched(map, k), n) = Count(map, n)
  <1> DEFINE q == IF k \in DOMAIN map THEN map[k] ELSE [inflight |-> 0, recent |-> <<>>, touch |-> now]
             new == [q EXCEPT !.touch = now]
             M == Touched(map, k)
  <1>1. M = [n \in DOMAIN map \cup {k} |-> IF n = k THEN new ELSE map[n]]
    BY DEF Touched
  <1>2. IsBucket(new) /\ new.inflight = Count(map, k)
    BY DEF Sound, IsBucket, Count
  <1>3. IsFiniteSet(DOMAIN map \cup {k})
    BY FS_AddElement DEF Sound
  <1> HIDE DEF M, new
  <1>4. /\ DOMAIN M = DOMAIN map \cup {k} /\ M[k] = new
        /\ \A n \in DOMAIN map : n # k => M[n] = map[n]
    BY <1>1
  <1>5. Sound(M)
    BY <1>1, <1>2, <1>3, <1>4 DEF Sound
  <1>6. \A n : Count(M, n) = Count(map, n)
    BY <1>2, <1>4 DEF Count
  <1> QED
    BY <1>4, <1>5, <1>6 DEF M

\* A bucket that agrees is charged with one request.
LEMMA ChargedKeeps ==
  ASSUME NEW map, Sound(map), NEW k \in DOMAIN map, map[k].inflight < MaxInflight
  PROVE  /\ Sound(Charged(map, k))
         /\ DOMAIN Charged(map, k) = DOMAIN map
         /\ \A n : Count(Charged(map, k), n) = Count(map, n) + IF n = k THEN 1 ELSE 0
  <1> DEFINE new == [map[k] EXCEPT !.inflight = @ + 1, !.recent = Append(@, now)]
             M == Charged(map, k)
  <1>1. M = [n \in DOMAIN map |-> IF n = k THEN new ELSE map[n]]
    BY DEF Charged, Sound
  <1>2. IsBucket(new) /\ new.inflight = map[k].inflight + 1
    <2>1. PICK i, l, t : /\ map[k] \in [inflight : {i}, recent : {l}, touch : {t}]
                         /\ i \in 0 .. MaxInflight /\ i < MaxInflight
      BY DEF Sound, IsBucket
    <2>2. \A n, a : [map[k] EXCEPT !.inflight = n, !.recent = a]
                        \in [inflight : {n}, recent : {a}, touch : {t}]
      BY <2>1
    <2>3. /\ new = [map[k] EXCEPT !.inflight = i + 1, !.recent = Append(map[k].recent, now)]
          /\ map[k].inflight = i
      BY <2>1
    <2>4. new \in [inflight : {i + 1}, recent : {Append(map[k].recent, now)}, touch : {t}]
      BY <2>2, <2>3
    <2> HIDE DEF new
    <2> QED
      BY <2>1, <2>3, <2>4 DEF IsBucket
  <1> HIDE DEF M, new
  <1>3. /\ DOMAIN M = DOMAIN map /\ M[k] = new
        /\ \A n \in DOMAIN map : n # k => M[n] = map[n]
    BY <1>1
  <1>4. Sound(M)
    BY <1>1, <1>2, <1>3 DEF Sound
  <1>5. \A n : Count(M, n) = Count(map, n) + IF n = k THEN 1 ELSE 0
    BY <1>2, <1>3 DEF Count, Sound, IsBucket
  <1> QED
    BY <1>3, <1>4, <1>5 DEF M

\* A bucket that says "running" has room for one more.
LEMMA VerdictHasRoom ==
  ASSUME NEW q, q.inflight \in 0 .. MaxInflight, Verdict(q) = "running"
  PROVE  q.inflight < MaxInflight
  BY DEF Verdict

\* The verdict of a bucket never says that it starts or ends a request it refuses.
LEMMA VerdictType ==
  ASSUME NEW q, q.inflight \in 0 .. MaxInflight
  PROVE  Verdict(q) \in {"running"} \cup Refused
  BY DEF Verdict, Refused

\* Only a map with room gets a new key.
LEMMA RoomKeeps ==
  ASSUME NEW D, NEW kind, NEW k, IsFiniteSet(D), Cardinality(D \cap kind) <= MaxBuckets,
         k \in kind => k \in D \/ Cardinality(D \cap kind) < MaxBuckets
  PROVE  Cardinality((D \cup {k}) \cap kind) <= MaxBuckets
  <1>1. IsFiniteSet(D \cap kind)
    BY FS_Subset
  <1>2. Cardinality(D \cap kind) \in Nat
    BY <1>1, FS_CardinalityType
  <1>3. CASE k \in kind /\ k \notin D
    <2>1. (D \cup {k}) \cap kind = (D \cap kind) \cup {k}
      BY <1>3
    <2>2. Cardinality((D \cap kind) \cup {k}) = Cardinality(D \cap kind) + 1
      BY <1>1, <1>3, FS_AddElement
    <2> QED
      BY <1>2, <1>3, <2>1, <2>2
  <1>4. CASE k \notin kind \/ k \in D
    <2>1. (D \cup {k}) \cap kind = D \cap kind
      BY <1>4
    <2> QED
      BY <2>1
  <1> QED
    BY <1>3, <1>4

\* Fewer keys fit as well.
LEMMA FewerFit ==
  ASSUME NEW D, NEW E, IsFiniteSet(D), E \subseteq D, NEW kind, Cardinality(D \cap kind) <= MaxBuckets
  PROVE  Cardinality(E \cap kind) <= MaxBuckets
  <1>1. IsFiniteSet(D \cap kind) /\ E \cap kind \subseteq D \cap kind
    BY FS_Subset
  <1>2. /\ Cardinality(E \cap kind) <= Cardinality(D \cap kind)
        /\ IsFiniteSet(E \cap kind)
    BY <1>1, FS_Subset
  <1>3. Cardinality(E \cap kind) \in Nat /\ Cardinality(D \cap kind) \in Nat
    BY <1>1, <1>2, FS_CardinalityType
  <1> QED
    BY <1>2, <1>3

\* The counters start with nobody in any bucket.
LEMMA BooksInit == LimitsInit => BooksInv
  <1> SUFFICES ASSUME LimitsInit PROVE BooksInv
    OBVIOUS
  <1>1. RequestsOK
    BY DEF LimitsInit, RequestsOK
  <1>2. DOMAIN quota = {} /\ quota = [k \in {} |-> quota[k]]
    BY DEF LimitsInit
  <1>3. Sound(quota)
    BY <1>2, FS_EmptySet DEF Sound
  <1>4. \A k : Holding(k) = {}
    BY <1>1 DEF LimitsInit, Holding, Running, Lost, Of
  <1>5. InflightExact
    BY <1>2, <1>4, FS_EmptySet DEF InflightExact
  <1>6. \A kind : DOMAIN quota \cap kind = {}
    BY <1>2
  <1>7. BucketsBounded
    BY <1>6, FS_EmptySet DEF BucketsBounded
  <1> QED
    BY <1>1, <1>3, <1>5, <1>7 DEF BooksInv

\* Who holds a place is finite in number, so that it can be counted.
LEMMA HoldingFinite ==
  \A k : IsFiniteSet(Holding(k)) /\ Cardinality(Holding(k)) \in Nat
  <1> SUFFICES ASSUME NEW k PROVE IsFiniteSet(Holding(k)) /\ Cardinality(Holding(k)) \in Nat
    OBVIOUS
  <1>1. Holding(k) \in SUBSET Request
    BY DEF Holding, Running, Lost, Of
  <1>2. IsFiniteSet(Holding(k))
    BY <1>1, FS_Subset
  <1> QED
    BY <1>2, FS_CardinalityType

\* A request that is answered with a refusal holds no place before or after.
LEMMA RefusalPreserves ==
  ASSUME BooksInv, NEW r \in Request, state[r] = "new", NEW s \in Refused, Answer(r, s),
         Sound(quota'), \A k \in Name : Count(quota', k) = Count(quota, k), BucketsBounded'
  PROVE  BooksInv'
  <1>1. RequestsOK'
    BY DEF BooksInv, RequestsOK, Answer
  <1>2. \A k : Holding(k)' = Holding(k)
    BY DEF BooksInv, RequestsOK, Answer, Refused, Holding, Running, Lost, Of
  <1>3. InflightExact'
    BY <1>2 DEF BooksInv, InflightExact, Count
  <1> QED
    BY <1>1, <1>3 DEF BooksInv

\* begin: the two counters of an admitted request grow by one, a refused one
\* changes none.
LEMMA BeginPreserves ==
  ASSUME BooksInv, NEW r \in Request, Begin(r)
  PROVE  BooksInv'
  <1> DEFINE m == PruneMap(quota)
             s == sessionOf[r]
             a == actorOf[r]
             withSession == Touched(m, s)
             withBoth == Touched(withSession, a)
  <1>1. s \in SessionKey /\ a \in ActorKey /\ s # a /\ s \in Name /\ a \in Name
    BY DEF BooksInv, RequestsOK, Name
  <1>2. /\ Sound(m) /\ DOMAIN m \subseteq DOMAIN quota
        /\ \A k : Count(m, k) = Count(quota, k)
    BY PruneMapKeeps DEF BooksInv
  <1>3. /\ Sound(withSession) /\ DOMAIN withSession = DOMAIN m \cup {s}
        /\ \A k : Count(withSession, k) = Count(quota, k)
    BY <1>1, <1>2, TouchedKeeps
  <1>4. /\ Sound(withBoth) /\ DOMAIN withBoth = DOMAIN m \cup {s, a}
        /\ \A k : Count(withBoth, k) = Count(quota, k)
    <2> HIDE DEF withSession, s, a
    <2>1. /\ Sound(withBoth) /\ DOMAIN withBoth = DOMAIN withSession \cup {a}
          /\ \A k : Count(withBoth, k) = Count(withSession, k)
      BY <1>1, <1>3, TouchedKeeps
    <2> QED
      BY <1>3, <2>1
  <1>5. \A kind \in {SessionKey, ActorKey} : Cardinality(DOMAIN m \cap kind) <= MaxBuckets
    BY <1>2, FewerFit DEF BooksInv, Sound, BucketsBounded
  <1>6. HasRoom(m, SessionKey, s) =>
          \A kind \in {SessionKey, ActorKey} : Cardinality((DOMAIN m \cup {s}) \cap kind) <= MaxBuckets
    BY <1>1, <1>2, <1>5, RoomKeeps DEF HasRoom, Sound
  <1>7. HasRoom(m, SessionKey, s) /\ HasRoom(m, ActorKey, a) =>
          \A kind \in {SessionKey, ActorKey} : Cardinality((DOMAIN m \cup {s, a}) \cap kind) <= MaxBuckets
    <2> SUFFICES ASSUME HasRoom(m, SessionKey, s), HasRoom(m, ActorKey, a),
                        NEW kind \in {SessionKey, ActorKey}
                 PROVE  Cardinality((DOMAIN m \cup {s, a}) \cap kind) <= MaxBuckets
      OBVIOUS
    <2>1. (DOMAIN m \cup {s}) \cup {a} = DOMAIN m \cup {s, a}
      OBVIOUS
    <2>2. IsFiniteSet(DOMAIN m \cup {s})
      BY <1>2, FS_AddElement DEF Sound
    <2>3. (DOMAIN m \cup {s}) \cap ActorKey = DOMAIN m \cap ActorKey
      BY <1>1
    <2>4. a \in kind => a \in DOMAIN m \cup {s} \/ Cardinality((DOMAIN m \cup {s}) \cap kind) < MaxBuckets
      BY <1>1, <2>3 DEF HasRoom
    <2> QED
      BY <1>6, <2>1, <2>2, <2>4, RoomKeeps
  <1>8. /\ IsBucket(withSession[s]) /\ s \in DOMAIN withSession /\ s \in DOMAIN withBoth
        /\ IsBucket(withBoth[a]) /\ a \in DOMAIN withBoth
        /\ withSession[s].inflight = Count(quota, s) /\ withBoth[s].inflight = Count(quota, s)
        /\ withBoth[a].inflight = Count(quota, a)
    BY <1>3, <1>4 DEF Sound, Count
  <1>9. /\ withSession[s].inflight \in 0 .. MaxInflight
        /\ withBoth[a].inflight \in 0 .. MaxInflight
    BY <1>8 DEF IsBucket
  <1> HIDE DEF m, s, a, withSession, withBoth
  <1>10. CASE ~HasRoom(m, SessionKey, s) \/ ~HasRoom(m, ActorKey, a)
    <2>1. state[r] = "new" /\ quota' = m /\ Answer(r, "refused_buckets")
      BY <1>10 DEF Begin, m, s, a
    <2>2. "refused_buckets" \in Refused /\ BucketsBounded'
      BY <1>5, <2>1 DEF Refused, BucketsBounded
    <2> QED
      BY <1>2, <2>1, <2>2, RefusalPreserves
  <1>11. CASE HasRoom(m, SessionKey, s) /\ HasRoom(m, ActorKey, a) /\ Verdict(withSession[s]) # "running"
    <2>1. state[r] = "new" /\ quota' = withSession /\ Answer(r, Verdict(withSession[s]))
      BY <1>11 DEF Begin, m, s, a, withSession, withBoth
    <2>2. Verdict(withSession[s]) \in Refused
      BY <1>9, <1>11, VerdictType
    <2>3. BucketsBounded'
      BY <1>3, <1>6, <1>11, <2>1 DEF BucketsBounded
    <2> QED
      BY <1>3, <2>1, <2>2, <2>3, RefusalPreserves
  <1>12. CASE /\ HasRoom(m, SessionKey, s) /\ HasRoom(m, ActorKey, a)
              /\ Verdict(withSession[s]) = "running" /\ Verdict(withBoth[a]) # "running"
    <2>1. state[r] = "new" /\ quota' = withBoth /\ Answer(r, Verdict(withBoth[a]))
      BY <1>12 DEF Begin, m, s, a, withSession, withBoth
    <2>2. Verdict(withBoth[a]) \in Refused
      BY <1>9, <1>12, VerdictType
    <2>3. BucketsBounded'
      BY <1>4, <1>7, <1>12, <2>1 DEF BucketsBounded
    <2> QED
      BY <1>4, <2>1, <2>2, <2>3, RefusalPreserves
  <1>13. CASE /\ HasRoom(m, SessionKey, s) /\ HasRoom(m, ActorKey, a)
              /\ Verdict(withSession[s]) = "running" /\ Verdict(withBoth[a]) = "running"
    <2> DEFINE half == Charged(withBoth, s)
    <2>1. /\ state[r] = "new" /\ quota' = Charged(half, a) /\ Answer(r, "running")
      BY <1>13 DEF Begin, m, s, a, withSession, withBoth
    <2>2. withBoth[s].inflight < MaxInflight /\ withBoth[a].inflight < MaxInflight
      BY <1>8, <1>9, <1>13, VerdictHasRoom
    <2>3. /\ Sound(half) /\ DOMAIN half = DOMAIN withBoth
          /\ \A n : Count(half, n) = Count(withBoth, n) + IF n = s THEN 1 ELSE 0
      BY <1>4, <1>8, <2>2, ChargedKeeps
    <2> HIDE DEF half
    <2>4. half[a].inflight = Count(quota, a) + 0 /\ half[a].inflight < MaxInflight /\ a \in DOMAIN half
      BY <1>1, <1>4, <1>8, <1>9, <2>2, <2>3 DEF Count, s, a
    <2>5. /\ Sound(quota') /\ DOMAIN quota' = DOMAIN withBoth
          /\ \A n : Count(quota', n) = Count(half, n) + IF n = a THEN 1 ELSE 0
      BY <2>1, <2>3, <2>4, ChargedKeeps
    <2>6. BucketsBounded'
      BY <1>4, <1>7, <1>13, <2>5 DEF BucketsBounded, s, a
    <2>7. RequestsOK'
      BY <2>1 DEF BooksInv, RequestsOK, Answer
    <2>8. \A k : Holding(k)' = IF k \in {s, a} THEN Holding(k) \cup {r} ELSE Holding(k)
      BY <2>1 DEF BooksInv, RequestsOK, Answer, Holding, Running, Lost, Of, s, a
    <2>9. \A k : r \notin Holding(k)
      BY <2>1 DEF Holding, Running, Lost
    <2>10. ASSUME NEW k \in Name PROVE Cardinality(Holding(k)') = Count(quota', k)
      <3>1. /\ IsFiniteSet(Holding(k)) /\ Cardinality(Holding(k)) \in Nat
            /\ Cardinality(Holding(k)) = Count(quota, k)
        BY HoldingFinite DEF BooksInv, InflightExact, Count
      <3>2. Cardinality(Holding(k) \cup {r}) = Cardinality(Holding(k)) + 1
        BY <2>9, <3>1, FS_AddElement
      <3>3. Count(quota', k) = Count(quota, k) + (IF k = s THEN 1 ELSE 0) + (IF k = a THEN 1 ELSE 0)
        BY <1>4, <2>3, <2>5
      <3>4. s # a
        BY <1>1 DEF s, a
      <3> QED
        BY <2>8, <3>1, <3>2, <3>3, <3>4
    <2> QED
      BY <2>5, <2>6, <2>7, <2>10 DEF BooksInv, InflightExact, Count
  <1> QED
    BY <1>10, <1>11, <1>12, <1>13

\* end_with_limits gives both places back: there is one to give back in each.
LEMMA EndPreserves ==
  ASSUME BooksInv, NEW r \in Request, End(r)
  PROVE  BooksInv'
  <1> DEFINE s == sessionOf[r]
             a == actorOf[r]
             map == [k \in DOMAIN quota |-> IF k \in {s, a} THEN Released(quota[k]) ELSE quota[k]]
  <1>1. state[r] = "running" /\ quota' = PruneMap(map) /\ Answer(r, "done")
    BY DEF End
  <1>2. s \in Name /\ a \in Name
    BY DEF BooksInv, RequestsOK, Name
  <1>3. \A k \in {s, a} : r \in Holding(k)
    BY <1>1 DEF Holding, Running, Of
  <1>4. ASSUME NEW k \in {s, a} PROVE Count(quota, k) > 0
    <2>1. IsFiniteSet(Holding(k)) /\ Cardinality(Holding(k)) = Count(quota, k)
      BY <1>2, HoldingFinite DEF BooksInv, InflightExact, Count
    <2>2. Cardinality(Holding(k)) # 0
      BY <1>3, <2>1, FS_EmptySet
    <2> QED
      BY <2>1, <2>2, HoldingFinite
  <1>5. ASSUME NEW q, IsBucket(q), q.inflight > 0
        PROVE  IsBucket(Released(q)) /\ Released(q).inflight = q.inflight - 1
    <2>1. PICK i, l, t : q \in [inflight : {i}, recent : {l}, touch : {t}] /\ i \in 0 .. MaxInflight /\ i > 0
      BY <1>5 DEF IsBucket
    <2>2. \A x : [q EXCEPT !.recent = x] \in [inflight : {i}, recent : {x}, touch : {t}]
      BY <2>1
    <2>3. PICK x : Pruned(q) \in [inflight : {i}, recent : {x}, touch : {t}]
      BY <2>2 DEF Pruned
    <2>4. Released(q) = [Pruned(q) EXCEPT !.inflight = i - 1, !.touch = now]
      BY <2>1, <2>3 DEF Released
    <2>5. \A n, z : [Pruned(q) EXCEPT !.inflight = n, !.touch = z]
                        \in [inflight : {n}, recent : {x}, touch : {z}]
      BY <2>3
    <2>6. Released(q) \in [inflight : {i - 1}, recent : {x}, touch : {now}]
      BY <2>4, <2>5
    <2> QED
      BY <2>1, <2>6 DEF IsBucket
  <1>6. /\ DOMAIN map = DOMAIN quota /\ map = [k \in DOMAIN map |-> map[k]]
        /\ \A k \in DOMAIN quota : map[k] = IF k \in {s, a} THEN Released(quota[k]) ELSE quota[k]
    OBVIOUS
  <1> HIDE DEF map, s, a
  <1>7. Sound(map)
    BY <1>4, <1>5, <1>6 DEF BooksInv, Sound, Count
  <1>8. \A k : Count(map, k) = IF k \in {s, a} THEN Count(quota, k) - 1 ELSE Count(quota, k)
    BY <1>4, <1>5, <1>6 DEF BooksInv, Sound, Count
  <1>9. /\ Sound(quota') /\ DOMAIN quota' \subseteq DOMAIN quota
        /\ \A k : Count(quota', k) = Count(map, k)
    BY <1>1, <1>6, <1>7, PruneMapKeeps
  <1>10. BucketsBounded'
    BY <1>9, FewerFit DEF BooksInv, Sound, BucketsBounded
  <1>11. RequestsOK'
    BY <1>1 DEF BooksInv, RequestsOK, Answer
  <1>12. \A k : Holding(k)' = IF k \in {s, a} THEN Holding(k) \ {r} ELSE Holding(k)
    BY <1>1 DEF BooksInv, RequestsOK, Answer, Holding, Running, Lost, Of, s, a
  <1>13. ASSUME NEW k \in Name PROVE Cardinality(Holding(k)') = Count(quota', k)
    <2>1. /\ IsFiniteSet(Holding(k)) /\ Cardinality(Holding(k)) \in Nat
          /\ Cardinality(Holding(k)) = Count(quota, k)
      BY HoldingFinite DEF BooksInv, InflightExact, Count
    <2>2. k \in {s, a} => Cardinality(Holding(k) \ {r}) = Cardinality(Holding(k)) - 1
      BY <1>3, <2>1, FS_RemoveElement
    <2> QED
      BY <1>8, <1>9, <1>12, <2>1, <2>2
  <1> QED
    BY <1>9, <1>10, <1>11, <1>13 DEF BooksInv, InflightExact, Count

\* Every step of the web's admission control keeps the books.
LEMMA BooksStep ==
  ASSUME BooksInv, [LimitsNext]_limitsVars
  PROVE  BooksInv'
  <1>1. CASE UNCHANGED <<quota, state, sessionOf, actorOf>>
    BY <1>1 DEF BooksInv, RequestsOK, Sound, IsBucket, InflightExact, BucketsBounded, Holding, Running,
                Lost, Of
  <1>2. CASE UNCHANGED limitsVars \/ Tick
    BY <1>1, <1>2 DEF limitsVars, Tick
  <1>3. ASSUME NEW r \in Request, Begin(r) \/ End(r) PROVE BooksInv'
    BY <1>3, BeginPreserves, EndPreserves
  <1>4. ASSUME NEW r \in Request, Lose(r) PROVE BooksInv'
    <2>1. RequestsOK'
      BY <1>4 DEF Lose, Answer, BooksInv, RequestsOK
    <2>2. \A k : Holding(k)' = Holding(k)
      BY <1>4 DEF Lose, Answer, BooksInv, RequestsOK, Holding, Running, Lost, Of
    <2>3. quota' = quota
      BY <1>4 DEF Lose
    <2>4. Sound(quota)' /\ BucketsBounded'
      BY <2>3 DEF BooksInv, Sound, IsBucket, BucketsBounded
    <2> QED
      BY <2>1, <2>2, <2>3, <2>4 DEF BooksInv, InflightExact
  <1> QED
    BY <1>2, <1>3, <1>4 DEF LimitsNext

\* What RequestHub keeps is right in every state.
THEOREM BooksInvariant == LimitsSpec => []BooksInv
  <1>1. LimitsInit => BooksInv
    BY BooksInit
  <1>2. BooksInv /\ [LimitsNext]_limitsVars => BooksInv'
    BY BooksStep
  <1> QED
    BY <1>1, <1>2, PTL DEF LimitsSpec

\* The counter of a bucket is the number of its requests in progress or lost:
\* a refusal, pruning and the two endpoints' ends never lose or invent one.
THEOREM CountersExact == LimitsSpec => []InflightExact
  <1>1. BooksInv => InflightExact
    BY DEF BooksInv
  <1> QED
    BY <1>1, BooksInvariant, PTL

\* The cap on requests in progress holds for sessions and actors alike.
THEOREM CapHolds == LimitsSpec => []InflightCapped
  <1>1. BooksInv => InflightCapped
    <2> SUFFICES ASSUME BooksInv, NEW k \in Name PROVE Cardinality(Running(k)) <= MaxInflight
      BY DEF InflightCapped
    <2>1. Cardinality(Holding(k)) = Count(quota, k) /\ Count(quota, k) \in 0 .. MaxInflight
      BY DEF BooksInv, InflightExact, Count, Sound, IsBucket
    <2>2. IsFiniteSet(Holding(k)) /\ Running(k) \in SUBSET Holding(k)
      BY HoldingFinite DEF Holding
    <2>3. IsFiniteSet(Running(k)) /\ Cardinality(Running(k)) <= Cardinality(Holding(k))
      BY <2>2, FS_Subset
    <2>4. Cardinality(Running(k)) \in Nat
      BY <2>3, FS_CardinalityType
    <2> QED
      BY <2>1, <2>3, <2>4
  <1> QED
    BY <1>1, BooksInvariant, PTL

\* The two maps never outgrow MAX_BUCKET_KEYS.
THEOREM MapsBounded == LimitsSpec => []BucketsBounded
  <1>1. BooksInv => BucketsBounded
    BY DEF BooksInv
  <1> QED
    BY <1>1, BooksInvariant, PTL

-----------------------------------------------------------------------------
(***************************************************************************)
(* The rate: what a bucket remembers of the requests it has admitted       *)
(***************************************************************************)
Admitted(k) == {r \in Of(k) : state[r] \in {"running", "done", "lost"}}

\* The admissions a bucket remembers, in their order.
InOrder(q) ==
    /\ \A i, j \in 1 .. Len(q.recent) : i <= j => q.recent[i] <= q.recent[j]
    /\ \A i \in 1 .. Len(q.recent) : q.recent[i] <= q.touch

\* Of the requests A, begun at times b, bucket q remembers each that was admitted
\* in the window before n, and an entry is one request.
Remembers(q, A, b, n) ==
    \E f \in [1 .. Len(q.recent) -> A] :
        /\ \A i, j \in 1 .. Len(q.recent) : f[i] = f[j] => i = j
        /\ \A i \in 1 .. Len(q.recent) : b[f[i]] = q.recent[i]
        /\ \A r \in A : n - b[r] <= Window => \E i \in 1 .. Len(q.recent) : f[i] = r

IsLog(q, A, b, n) ==
    /\ q \in Quota /\ Len(q.recent) <= MaxRequests /\ q.touch <= n
    /\ InOrder(q) /\ Remembers(q, A, b, n)

\* So it is in the maps: who has no bucket has admitted nobody lately.
Logged(map, k, A, b, n) ==
    IF k \in DOMAIN map THEN IsLog(map[k], A, b, n) ELSE \A r \in A : ~ (n - b[r] <= Window)

RateInv ==
    /\ BooksInv
    /\ now \in Nat /\ began \in [Request -> Nat]
    /\ \A k \in Name : Logged(quota, k, Admitted(k), began, now)

\* A set of numbers that is not empty has a least one.
LEMMA LeastNumber ==
  ASSUME NEW T \in SUBSET Nat, T # {}
  PROVE  \E i \in T : \A j \in T : i <= j
  <1>1. PICK i \in T : \A j \in T : ~ (<<j, i>> \in OpToRel(<, Nat))
    BY NatLessThanWellFounded, WFMin
  <1>2. \A j \in T : ~ (j < i)
    BY <1>1 DEF OpToRel
  <1> QED
    BY <1>2

\* The loop of prune_quota stops somewhere: at the first entry of the window, or
\* behind the last entry.
LEMMA OldestKeptExists ==
  ASSUME NEW l \in Seq(Nat), now \in Nat
  PROVE  /\ OldestKept(l) \in 1 .. Len(l) + 1
         /\ \A j \in 1 .. OldestKept(l) - 1 : now - l[j] > Window
         /\ OldestKept(l) <= Len(l) => now - l[OldestKept(l)] <= Window
  <1> DEFINE n == Len(l)
             fresh == {i \in 1 .. n : now - l[i] <= Window}
             P(i) == /\ \A j \in 1 .. i - 1 : now - l[j] > Window
                     /\ i <= n => now - l[i] <= Window
  <1>0. n \in Nat /\ Window \in Nat /\ \A j \in 1 .. n : l[j] \in Nat
    OBVIOUS
  <1>1. ASSUME NEW j \in 1 .. n, j \notin fresh PROVE now - l[j] > Window
    <2>1. l[j] \in Nat /\ ~ (now - l[j] <= Window)
      BY <1>0, <1>1
    <2> QED
      BY <1>0, <2>1
  <1>2. OldestKept(l) = CHOOSE i \in 1 .. n + 1 : P(i)
    BY DEF OldestKept
  <1> HIDE DEF n
  <1>3. CASE fresh = {}
    <2>1. \A j \in 1 .. (n + 1) - 1 : now - l[j] > Window
      BY <1>0, <1>1, <1>3
    <2>2. ~ (n + 1 <= n) /\ n + 1 \in 1 .. n + 1
      BY <1>0
    <2>3. P(n + 1)
      BY <2>1, <2>2
    <2> HIDE DEF P
    <2> QED
      BY <2>2, <2>3, <1>2 DEF P, n
  <1>4. CASE fresh # {}
    <2>1. fresh \in SUBSET Nat
      BY <1>0
    <2>2. PICK i \in fresh : \A j \in fresh : i <= j
      BY <1>4, <2>1, LeastNumber
    <2>3. i \in 1 .. n /\ i \in 1 .. n + 1 /\ now - l[i] <= Window
      BY <1>0, <2>2
    <2>4. \A j \in 1 .. i - 1 : j \in 1 .. n /\ j \notin fresh
      BY <1>0, <2>2, <2>3
    <2>5. \A j \in 1 .. i - 1 : now - l[j] > Window
      BY <1>1, <2>4
    <2>6. P(i)
      BY <2>3, <2>5
    <2> HIDE DEF P
    <2> QED
      BY <2>3, <2>6, <1>2 DEF P, n
  <1> QED
    BY <1>3, <1>4

\* Pruning keeps a log, and what is left of it is all of the window.
LEMMA PrunedIsLog ==
  ASSUME NEW q, NEW A, NEW b, IsLog(q, A, b, now), now \in Nat
  PROVE  /\ IsLog(Pruned(q), A, b, now)
         /\ \A i \in 1 .. Len(Pruned(q).recent) : now - Pruned(q).recent[i] <= Window
         /\ Pruned(q).touch = q.touch
         /\ Len(Pruned(q).recent) <= Len(q.recent)
  <1> DEFINE l == q.recent
             n == Len(l)
             o == OldestKept(l)
             p == SubSeq(l, o, n)
             Q == Pruned(q)
  <1>1. l \in Seq(Nat) /\ n \in Nat /\ n <= MaxRequests /\ q.touch \in Nat /\ q.touch <= now
    BY DEF IsLog, Quota
  <1>2. /\ o \in 1 .. n + 1
        /\ \A j \in 1 .. o - 1 : now - l[j] > Window
        /\ o <= n => now - l[o] <= Window
    BY <1>1, OldestKeptExists
  <1>3. Q = [q EXCEPT !.recent = p]
    BY DEF Pruned
  <1>4. (\A i \in 1 .. n : l[i] \in Nat) /\ (\A i \in o .. n : l[i] \in Nat)
    BY <1>1, <1>2
  <1>5. /\ p \in Seq(Nat)
        /\ Len(p) = n - o + 1
        /\ \A i \in 1 .. Len(p) : p[i] = l[i + o - 1]
    <2> HIDE DEF p, o, n, l
    <2>1. /\ SubSeq(l, o, n) \in Seq(Nat)
          /\ Len(SubSeq(l, o, n)) = IF o <= n THEN n - o + 1 ELSE 0
          /\ \A i \in 1 .. n - o + 1 : SubSeq(l, o, n)[i] = l[o + i - 1]
      BY <1>1, <1>2, <1>4, SubSeqProperties
    <2> QED
      BY <1>1, <1>2, <2>1 DEF p
  <1>6. Q \in Quota /\ Q.recent = p /\ Q.touch = q.touch /\ Q.inflight = q.inflight
    <2> HIDE DEF p, Q
    <2> QED
      BY <1>3, <1>5 DEF IsLog, Quota
  <1>7. /\ \A i, j \in 1 .. n : i <= j => l[i] <= l[j]
        /\ \A i \in 1 .. n : l[i] <= q.touch
    BY DEF IsLog, InOrder
  <1>8. PICK f \in [1 .. n -> A] :
            /\ \A i, j \in 1 .. n : f[i] = f[j] => i = j
            /\ \A i \in 1 .. n : b[f[i]] = l[i]
            /\ \A r \in A : now - b[r] <= Window => \E i \in 1 .. n : f[i] = r
    BY DEF IsLog, Remembers
  <1> HIDE DEF p, Q, o, n, l
  <1>9. InOrder(Q)
    <2>1. \A i \in 1 .. Len(p) : i + o - 1 \in 1 .. n /\ p[i] = l[i + o - 1]
      BY <1>1, <1>2, <1>5
    <2>2. ASSUME NEW i \in 1 .. Len(p), NEW j \in 1 .. Len(p), i <= j PROVE p[i] <= p[j]
      <3>1. i + o - 1 <= j + o - 1
        BY <1>1, <1>2, <1>5, <2>2
      <3> QED
        BY <1>7, <2>1, <3>1
    <2>3. \A i \in 1 .. Len(p) : p[i] <= q.touch
      BY <1>7, <2>1
    <2> QED
      BY <1>6, <2>2, <2>3 DEF InOrder
  <1>10. Remembers(Q, A, b, now)
    <2> DEFINE g == [i \in 1 .. Len(p) |-> f[i + o - 1]]
    <2>1. g \in [1 .. Len(p) -> A]
      BY <1>1, <1>2, <1>5, <1>8
    <2>2. \A i, j \in 1 .. Len(p) : g[i] = g[j] => i = j
      BY <1>1, <1>2, <1>5, <1>8
    <2>3. \A i \in 1 .. Len(p) : b[g[i]] = p[i]
      BY <1>1, <1>2, <1>5, <1>8
    <2>4. ASSUME NEW r \in A, now - b[r] <= Window PROVE \E i \in 1 .. Len(p) : g[i] = r
      <3>1. PICK i \in 1 .. n : f[i] = r
        BY <1>8, <2>4
      <3>2. now - l[i] <= Window /\ l[i] \in Nat
        BY <1>4, <1>8, <2>4, <3>1
      <3>3. i \notin 1 .. o - 1
        BY <1>1, <1>2, <3>2
      <3>4. i >= o
        BY <1>1, <1>2, <3>1, <3>3
      <3>5. i - o + 1 \in 1 .. Len(p) /\ g[i - o + 1] = r
        BY <1>1, <1>2, <1>5, <3>1, <3>4
      <3> QED
        BY <3>5
    <2> HIDE DEF g
    <2> QED
      BY <1>6, <2>1, <2>2, <2>3, <2>4 DEF Remembers
  <1>11. \A i \in 1 .. Len(p) : now - p[i] <= Window
    <2> SUFFICES ASSUME NEW i \in 1 .. Len(p) PROVE now - p[i] <= Window
      OBVIOUS
    <2>1. i + o - 1 \in 1 .. n /\ o \in 1 .. n /\ o <= i + o - 1 /\ p[i] = l[i + o - 1]
      BY <1>1, <1>2, <1>5
    <2>2. l[o] <= l[i + o - 1] /\ l[o] \in Nat /\ l[i + o - 1] \in Nat
      BY <1>4, <1>7, <2>1
    <2> QED
      BY <1>1, <1>2, <2>1, <2>2
  <1>12. Len(p) <= n
    BY <1>1, <1>2, <1>5
  <1>13. Len(p) \in Nat /\ Len(p) <= MaxRequests
    BY <1>1, <1>5, <1>12
  <1>14. IsLog(Q, A, b, now)
    BY <1>1, <1>6, <1>9, <1>10, <1>13 DEF IsLog
  <1> QED
    BY <1>6, <1>11, <1>12, <1>14 DEF Q, l, n

\* Looking at a bucket sets last_touch and forgets nothing; releasing changes the
\* counter as well.
LEMMA TouchIsLog ==
  ASSUME NEW q, NEW A, NEW b, NEW n \in Nat, IsLog(q, A, b, n), NEW i \in Nat
  PROVE  IsLog([q EXCEPT !.inflight = i, !.touch = n], A, b, n)
  <1> DEFINE Q == [q EXCEPT !.inflight = i, !.touch = n]
  <1>1. q \in Quota /\ q.recent \in Seq(Nat) /\ q.touch \in Nat /\ q.touch <= n
    BY DEF IsLog, Quota
  <1>2. Q \in Quota /\ Q.recent = q.recent /\ Q.touch = n
    BY <1>1 DEF Quota
  <1>3. \A j \in 1 .. Len(q.recent) : q.recent[j] \in Nat
    BY <1>1
  <1> HIDE DEF Q
  <1>4. InOrder(Q)
    BY <1>1, <1>2, <1>3 DEF IsLog, InOrder
  <1>5. Remembers(Q, A, b, n)
    BY <1>2 DEF IsLog, Remembers
  <1>6. IsLog(Q, A, b, n)
    BY <1>1, <1>2, <1>4, <1>5 DEF IsLog
  <1> QED
    BY <1>6 DEF Q

\* A bucket without requests is an empty log.
LEMMA EmptyIsLog ==
  ASSUME NEW A, NEW b, NEW n \in Nat, \A r \in A : ~ (n - b[r] <= Window)
  PROVE  IsLog([inflight |-> 0, recent |-> <<>>, touch |-> n], A, b, n)
  <1> DEFINE Q == [inflight |-> 0, recent |-> <<>>, touch |-> n]
  <1>1. Q \in Quota /\ Q.recent = <<>> /\ Len(Q.recent) = 0 /\ Q.touch = n
    BY DEF Quota
  <1>2. InOrder(Q)
    BY <1>1 DEF InOrder
  <1>3. Remembers(Q, A, b, n)
    <2> HIDE DEF Q
    <2> DEFINE f == [j \in 1 .. Len(Q.recent) |-> CHOOSE r \in A : TRUE]
    <2>1. 1 .. Len(Q.recent) = {}
      BY <1>1
    <2>2. f \in [1 .. Len(Q.recent) -> A]
      BY <2>1
    <2> HIDE DEF f
    <2> QED
      BY <2>1, <2>2 DEF Remembers
  <1> HIDE DEF Q
  <1>4. IsLog(Q, A, b, n)
    BY <1>1, <1>2, <1>3 DEF IsLog
  <1> QED
    BY <1>4 DEF Q

\* An admission is remembered as the newest.
LEMMA ChargeIsLog ==
  ASSUME NEW q, NEW A, NEW b, NEW c, NEW n \in Nat, IsLog(q, A, b, n), NEW r, r \notin A,
         q.touch = n, Len(q.recent) < MaxRequests, c[r] = n, \A x \in A : c[x] = b[x]
  PROVE  IsLog([q EXCEPT !.inflight = @ + 1, !.recent = Append(@, n)], A \cup {r}, c, n)
  <1> DEFINE l == q.recent
             p == Append(l, n)
             k == Len(l)
             i == q.inflight + 1
             Q == [q EXCEPT !.inflight = i, !.recent = p]
  <1>1. l \in Seq(Nat) /\ k \in Nat /\ i \in Nat /\ k + 1 <= MaxRequests
    BY DEF IsLog, Quota
  <1>2. /\ p \in Seq(Nat) /\ Len(p) = k + 1 /\ p[k + 1] = n
        /\ \A j \in 1 .. k : p[j] = l[j]
    BY <1>1, AppendProperties
  <1>3. \A j \in 1 .. k : l[j] \in Nat /\ l[j] <= n
    BY <1>1 DEF IsLog, InOrder
  <1>4. \A g, h \in 1 .. k : g <= h => l[g] <= l[h]
    BY DEF IsLog, InOrder
  <1>5. PICK f \in [1 .. k -> A] :
            /\ \A g, h \in 1 .. k : f[g] = f[h] => g = h
            /\ \A g \in 1 .. k : b[f[g]] = l[g]
            /\ \A x \in A : n - b[x] <= Window => \E g \in 1 .. k : f[g] = x
    BY DEF IsLog, Remembers
  <1> HIDE DEF p, i
  <1>6. Q \in Quota /\ Q.recent = p /\ Q.touch = n
    BY <1>1, <1>2 DEF IsLog, Quota
  <1> HIDE DEF Q, l, k
  <1>7. \A j \in 1 .. k + 1 : j \in 1 .. k \/ j = k + 1
    BY <1>1
  <1>8. InOrder(Q)
    <2>1. \A j \in 1 .. k + 1 : p[j] <= n
      BY <1>2, <1>3, <1>7
    <2>2. ASSUME NEW g \in 1 .. k + 1, NEW h \in 1 .. k + 1, g <= h PROVE p[g] <= p[h]
      <3>1. CASE h = k + 1
        BY <1>2, <2>1, <3>1
      <3>2. CASE h \in 1 .. k
        <4>1. g \in 1 .. k
          BY <1>1, <2>2, <3>2
        <4> QED
          BY <1>2, <1>4, <2>2, <3>2, <4>1
      <3> QED
        BY <1>7, <3>1, <3>2
    <2> QED
      BY <1>2, <1>6, <2>1, <2>2 DEF InOrder
  <1>9. Remembers(Q, A \cup {r}, c, n)
    <2> DEFINE g == [j \in 1 .. k + 1 |-> IF j = k + 1 THEN r ELSE f[j]]
    <2>1. /\ g \in [1 .. k + 1 -> A \cup {r}] /\ g[k + 1] = r
          /\ \A j \in 1 .. k : g[j] = f[j] /\ f[j] \in A
      BY <1>1, <1>5, <1>7
    <2> HIDE DEF g
    <2>2. \A x, y \in 1 .. k + 1 : g[x] = g[y] => x = y
      BY <1>5, <1>7, <2>1
    <2>3. \A x \in 1 .. k + 1 : c[g[x]] = p[x]
      BY <1>2, <1>5, <1>7, <2>1
    <2>4. ASSUME NEW x \in A \cup {r}, n - c[x] <= Window PROVE \E j \in 1 .. k + 1 : g[j] = x
      <3>1. CASE x = r
        BY <1>1, <2>1, <3>1
      <3>2. CASE x \in A
        <4>1. PICK j \in 1 .. k : f[j] = x
          BY <1>5, <2>4, <3>2
        <4>2. j \in 1 .. k + 1
          BY <1>1
        <4> QED
          BY <2>1, <4>1, <4>2
      <3> QED
        BY <3>1, <3>2
    <2> QED
      BY <1>2, <1>6, <2>1, <2>2, <2>3, <2>4 DEF Remembers
  <1>10. IsLog(Q, A \cup {r}, c, n)
    BY <1>1, <1>2, <1>6, <1>8, <1>9 DEF IsLog
  <1> QED
    BY <1>10 DEF Q, p, i, l

\* A log stays one as time passes and others come and go.
LEMMA LogStays ==
  ASSUME NEW q, NEW A, NEW b, NEW c, NEW n \in Nat, NEW o \in Nat, n <= o,
         A \subseteq Request, b \in [Request -> Nat],
         IsLog(q, A, b, n), \A x \in A : c[x] = b[x]
  PROVE  IsLog(q, A, c, o)
  <1>1. q \in Quota /\ Len(q.recent) <= MaxRequests /\ q.touch <= n /\ q.touch \in Nat /\ InOrder(q)
    BY DEF IsLog, Quota
  <1>2. PICK f \in [1 .. Len(q.recent) -> A] :
            /\ \A i, j \in 1 .. Len(q.recent) : f[i] = f[j] => i = j
            /\ \A i \in 1 .. Len(q.recent) : b[f[i]] = q.recent[i]
            /\ \A r \in A : n - b[r] <= Window => \E i \in 1 .. Len(q.recent) : f[i] = r
    BY DEF IsLog, Remembers
  <1>3. \A r \in A : o - c[r] <= Window => n - b[r] <= Window
    BY DEF IsLog
  <1>4. Remembers(q, A, c, o)
    <2>1. \A i \in 1 .. Len(q.recent) : f[i] \in A
      BY <1>2
    <2>2. \A i \in 1 .. Len(q.recent) : c[f[i]] = q.recent[i]
      BY <1>2, <2>1
    <2>3. \A r \in A : o - c[r] <= Window => \E i \in 1 .. Len(q.recent) : f[i] = r
      BY <1>2, <1>3
    <2> QED
      BY <1>2, <2>2, <2>3 DEF Remembers
  <1> QED
    BY <1>1, <1>4 DEF IsLog

\* Those of the requests A, begun at times b, that were admitted in the window.
InWindow(A, b, n) == {r \in A : n - b[r] <= Window}

\* What a log says of the number of requests admitted in the window: at most as
\* many as it has entries, and exactly as many once it is pruned.
LEMMA LogCounts ==
  ASSUME NEW q, NEW A, NEW b, NEW n, IsLog(q, A, b, n), IsFiniteSet(A)
  PROVE  /\ Cardinality(InWindow(A, b, n)) <= Len(q.recent)
         /\ (\A i \in 1 .. Len(q.recent) : n - q.recent[i] <= Window) =>
                Cardinality(InWindow(A, b, n)) = Len(q.recent)
  <1> DEFINE R == InWindow(A, b, n)
             k == Len(q.recent)
  <1> USE DEF InWindow
  <1>1. k \in Nat
    BY DEF IsLog, Quota
  <1>2. PICK f \in [1 .. k -> A] :
            /\ \A i, j \in 1 .. k : f[i] = f[j] => i = j
            /\ \A i \in 1 .. k : b[f[i]] = q.recent[i]
            /\ \A r \in A : n - b[r] <= Window => \E i \in 1 .. k : f[i] = r
    BY DEF IsLog, Remembers
  <1>3. IsFiniteSet(R)
    BY FS_Subset
  <1> DEFINE D == {i \in 1 .. k : f[i] \in R}
             g == [i \in D |-> f[i]]
  <1>4. IsFiniteSet(1 .. k) /\ Cardinality(1 .. k) = k
    BY <1>1, FS_Interval
  <1>5. D \in SUBSET (1 .. k)
    OBVIOUS
  <1>6. IsFiniteSet(D) /\ Cardinality(D) <= k
    BY <1>4, <1>5, FS_Subset
  <1>7. g \in Injection(D, R) /\ g \in Surjection(D, R)
    BY <1>2 DEF Injection, Surjection, IsInjective
  <1>8. Cardinality(D) = Cardinality(R)
    BY <1>3, <1>7, FS_Injection
  <1>9. (\A i \in 1 .. k : n - q.recent[i] <= Window) => D = 1 .. k
    BY <1>2
  <1> QED
    BY <1>4, <1>6, <1>8, <1>9

\* The bucket of k remembers nothing that is older than the window.
Fresh(map, k) ==
    k \in DOMAIN map => \A i \in 1 .. Len(map[k].recent) : now - map[k].recent[i] <= Window

\* prune_map forgets only those who have admitted nobody in the window, if idle
\* buckets are kept at least that long.
LEMMA PruneMapLogs ==
  ASSUME IdleTtl >= Window, NEW map, now \in Nat,
         NEW k, NEW A, NEW b, Logged(map, k, A, b, now)
  PROVE  Logged(PruneMap(map), k, A, b, now) /\ Fresh(PruneMap(map), k)
  <1> DEFINE pruned == [x \in DOMAIN map |-> Pruned(map[x])]
             stay == {x \in DOMAIN map : Retained(pruned[x])}
             q == Pruned(map[k])
  <1>1. PruneMap(map) = [x \in stay |-> pruned[x]]
    BY DEF PruneMap
  <1>2. CASE k \notin DOMAIN map
    <2>1. k \notin DOMAIN PruneMap(map)
      BY <1>1, <1>2
    <2> QED
      BY <1>2, <2>1 DEF Logged, Fresh
  <1>3. CASE k \in DOMAIN map
    <2>1. IsLog(map[k], A, b, now)
      BY <1>3 DEF Logged
    <2>2. /\ IsLog(q, A, b, now)
          /\ \A i \in 1 .. Len(q.recent) : now - q.recent[i] <= Window
      BY <2>1, PrunedIsLog
    <2>3. pruned[k] = q /\ (k \in stay <=> Retained(q))
      BY <1>3
    <2> HIDE DEF pruned, stay, q
    <2>4. CASE Retained(q)
      <3>1. k \in DOMAIN PruneMap(map) /\ PruneMap(map)[k] = q
        BY <1>1, <2>3, <2>4
      <3> QED
        BY <2>2, <3>1 DEF Logged, Fresh
    <2>5. CASE ~ Retained(q)
      <3>1. k \notin DOMAIN PruneMap(map)
        BY <1>1, <2>3, <2>5
      <3>2. /\ q.recent \in Seq(Nat) /\ q.touch \in Nat
            /\ \A i \in 1 .. Len(q.recent) : q.recent[i] \in Nat /\ q.recent[i] <= q.touch
        BY <2>2 DEF IsLog, InOrder, Quota
      <3>3. 1 .. Len(q.recent) = {}
        <4>1. CASE q.recent = <<>>
          BY <4>1
        <4>2. CASE ~ (now - q.touch <= IdleTtl)
          BY <2>2, <3>2, <4>2
        <4> QED
          BY <2>5, <4>1, <4>2 DEF Retained
      <3>4. \A r \in A : ~ (now - b[r] <= Window)
        BY <2>2, <3>3 DEF IsLog, Remembers
      <3> QED
        BY <3>1, <3>4 DEF Logged, Fresh
    <2> QED
      BY <2>4, <2>5
  <1> QED
    BY <1>2, <1>3

\* Looking a bucket up forgets nothing and adds an empty one at most.
LEMMA TouchedLogs ==
  ASSUME NEW map, Sound(map), now \in Nat, NEW x \in Name,
         NEW k, NEW A, NEW b, Logged(map, k, A, b, now), Fresh(map, k)
  PROVE  /\ Logged(Touched(map, x), k, A, b, now) /\ Fresh(Touched(map, x), k)
         /\ Touched(map, x)[x].touch = now
         /\ k # x /\ k \in DOMAIN map => Touched(map, x)[k] = map[k]
  <1> DEFINE empty == [inflight |-> 0, recent |-> <<>>, touch |-> now]
             q == IF x \in DOMAIN map THEN map[x] ELSE empty
             new == [q EXCEPT !.touch = now]
             M == Touched(map, x)
  <1>1. M = [n \in DOMAIN map \cup {x} |-> IF n = x THEN new ELSE map[n]]
    BY DEF Touched
  <1>2. x \in DOMAIN map => IsBucket(map[x])
    BY DEF Sound
  <1>3. new.touch = now /\ new.recent = q.recent
    BY <1>2 DEF IsBucket
  <1>4. k # x => /\ k \in DOMAIN M <=> k \in DOMAIN map
                 /\ k \in DOMAIN map => M[k] = map[k]
    BY <1>1
  <1>5. CASE k # x
    <2> HIDE DEF M
    <2>1. Logged(M, k, A, b, now) /\ Fresh(M, k)
      BY <1>4, <1>5 DEF Logged, Fresh
    <2> QED
      BY <1>1, <1>3, <1>4, <1>5, <2>1 DEF M
  <1>6. CASE k = x /\ x \in DOMAIN map
    <2>1. IsLog(q, A, b, now) /\ q.inflight \in Nat /\ q = map[k]
      BY <1>6 DEF Logged, IsLog, Quota
    <2>2. IsLog([q EXCEPT !.inflight = q.inflight, !.touch = now], A, b, now)
      BY <2>1, TouchIsLog
    <2>3. [q EXCEPT !.inflight = q.inflight, !.touch = now] = new
      BY <2>1 DEF IsLog, Quota
    <2>4. k \in DOMAIN M /\ M[k] = new
      BY <1>1, <1>6
    <2> HIDE DEF M, q, new
    <2>5. Logged(M, k, A, b, now) /\ Fresh(M, k)
      BY <1>3, <1>6, <2>1, <2>2, <2>3, <2>4 DEF Logged, Fresh
    <2> QED
      BY <1>3, <1>6, <2>4, <2>5 DEF M
  <1>7. CASE k = x /\ x \notin DOMAIN map
    <2>1. IsLog(empty, A, b, now)
      BY <1>7, EmptyIsLog DEF Logged
    <2>2. k \in DOMAIN M /\ M[k] = new /\ new = empty
      BY <1>1, <1>7
    <2>3. 1 .. Len(M[k].recent) = {}
      BY <2>2
    <2> HIDE DEF M, empty
    <2>4. Logged(M, k, A, b, now) /\ Fresh(M, k)
      BY <2>1, <2>2, <2>3 DEF Logged, Fresh
    <2> QED
      BY <1>3, <1>7, <2>2, <2>4 DEF M
  <1> QED
    BY <1>5, <1>6, <1>7

\* Charging a bucket leaves the others alone.
LEMMA ChargedElsewhere ==
  ASSUME NEW map, Sound(map), NEW x \in DOMAIN map
  PROVE  /\ DOMAIN Charged(map, x) = DOMAIN map
         /\ \A k \in DOMAIN map : k # x => Charged(map, x)[k] = map[k]
         /\ Charged(map, x)[x] = [map[x] EXCEPT !.inflight = @ + 1, !.recent = Append(@, now)]
  BY DEF Charged, Sound

\* A request that is not admitted now, or was before, counts as it did.
LEMMA SameAdmitted ==
  ASSUME RateInv, NEW r \in Request, NEW z, Answer(r, z),
         state[r] \in {"running", "done", "lost"} <=> z \in {"running", "done", "lost"}
  PROVE  \A k : Admitted(k)' = Admitted(k)
  BY DEF RateInv, BooksInv, RequestsOK, Answer, Admitted, Of

\* A step that admits nobody keeps the invariant if its maps are logs as before.
LEMMA NobodyAdmitted ==
  ASSUME RateInv, BooksInv', NEW r \in Request, NEW z, Answer(r, z), UNCHANGED began,
         state[r] \in {"running", "done", "lost"} <=> z \in {"running", "done", "lost"},
         \A k \in Name : Logged(quota', k, Admitted(k), began, now)
  PROVE  RateInv'
  <1>1. \A k : Admitted(k)' = Admitted(k)
    BY SameAdmitted
  <1>2. now' = now /\ began' = began
    BY DEF Answer
  <1> QED
    BY <1>1, <1>2 DEF RateInv

\* What a request sees of the maps when it begins.
LEMMA AskedLogs ==
  ASSUME IdleTtl >= Window, RateInv, NEW r \in Request
  PROVE  LET m == PruneMap(quota)
             s == sessionOf[r]
             a == actorOf[r]
             withSession == Touched(m, s)
             withBoth == Touched(withSession, a)
         IN  /\ s \in SessionKey /\ a \in ActorKey /\ s # a
             /\ Sound(m) /\ Sound(withSession) /\ Sound(withBoth)
             /\ DOMAIN m \subseteq DOMAIN quota
             /\ s \in DOMAIN withSession /\ s \in DOMAIN withBoth /\ a \in DOMAIN withBoth
             /\ withSession[s].inflight = Count(quota, s) /\ withBoth[a].inflight = Count(quota, a)
             /\ withBoth[s] = withSession[s]
             /\ withSession[s].touch = now /\ withBoth[a].touch = now
             /\ \A k \in Name : /\ Logged(m, k, Admitted(k), began, now)
                                /\ Logged(withSession, k, Admitted(k), began, now)
                                /\ Logged(withBoth, k, Admitted(k), began, now)
                                /\ Fresh(withSession, k) /\ Fresh(withBoth, k)
  <1> DEFINE m == PruneMap(quota)
             s == sessionOf[r]
             a == actorOf[r]
             withSession == Touched(m, s)
             withBoth == Touched(withSession, a)
  <1>1. s \in SessionKey /\ a \in ActorKey /\ s # a /\ s \in Name /\ a \in Name
    BY DEF RateInv, BooksInv, RequestsOK, Name
  <1>2. Sound(quota) /\ now \in Nat /\ \A k \in Name : Logged(quota, k, Admitted(k), began, now)
    BY DEF RateInv, BooksInv
  <1>3. /\ Sound(m) /\ DOMAIN m \subseteq DOMAIN quota
        /\ \A k : Count(m, k) = Count(quota, k)
    BY <1>2, PruneMapKeeps
  <1>4. \A k \in Name : Logged(m, k, Admitted(k), began, now) /\ Fresh(m, k)
    BY <1>2, PruneMapLogs
  <1> HIDE DEF m, s, a
  <1>5. /\ Sound(withSession) /\ DOMAIN withSession = DOMAIN m \cup {s}
        /\ \A k : Count(withSession, k) = Count(m, k)
    BY <1>1, <1>3, TouchedKeeps
  <1>6. /\ withSession[s].touch = now
        /\ \A k \in Name : Logged(withSession, k, Admitted(k), began, now) /\ Fresh(withSession, k)
    BY <1>1, <1>2, <1>3, <1>4, TouchedLogs
  <1> HIDE DEF withSession
  <1>7. /\ Sound(withBoth) /\ DOMAIN withBoth = DOMAIN withSession \cup {a}
        /\ \A k : Count(withBoth, k) = Count(withSession, k)
    BY <1>1, <1>5, TouchedKeeps
  <1>8. /\ withBoth[a].touch = now
        /\ \A k \in Name : Logged(withBoth, k, Admitted(k), began, now) /\ Fresh(withBoth, k)
        /\ \A k \in Name : k # a /\ k \in DOMAIN withSession => withBoth[k] = withSession[k]
    BY <1>1, <1>2, <1>5, <1>6, TouchedLogs
  <1> HIDE DEF withBoth
  <1>9. withBoth[s] = withSession[s] /\ s \in DOMAIN withSession /\ s \in DOMAIN withBoth /\ a \in DOMAIN withBoth
    BY <1>1, <1>5, <1>7, <1>8
  <1>10. withSession[s].inflight = Count(quota, s) /\ withBoth[a].inflight = Count(quota, a)
    BY <1>3, <1>5, <1>7, <1>9 DEF Count
  <1> QED
    BY <1>1, <1>3, <1>4, <1>5, <1>6, <1>7, <1>8, <1>9, <1>10 DEF m, s, a, withSession, withBoth

\* A bucket that agrees has room in its window.
LEMMA VerdictHasRate ==
  ASSUME NEW q, q.inflight \in Nat, Len(q.recent) \in Nat, Verdict(q) = "running"
  PROVE  Len(q.recent) < MaxRequests
  BY DEF Verdict

\* begin: an admitted request is remembered by both, a refused one by nobody.
LEMMA BeginLogs ==
  ASSUME IdleTtl >= Window, RateInv, BooksInv', NEW r \in Request, Begin(r)
  PROVE  RateInv'
  <1> DEFINE m == PruneMap(quota)
             s == sessionOf[r]
             a == actorOf[r]
             withSession == Touched(m, s)
             withBoth == Touched(withSession, a)
  <1>1. /\ s \in SessionKey /\ a \in ActorKey /\ s # a
        /\ Sound(m) /\ Sound(withSession) /\ Sound(withBoth)
        /\ s \in DOMAIN withSession /\ s \in DOMAIN withBoth /\ a \in DOMAIN withBoth
        /\ withBoth[s] = withSession[s]
        /\ withSession[s].touch = now /\ withBoth[a].touch = now
        /\ \A k \in Name : /\ Logged(m, k, Admitted(k), began, now)
                           /\ Logged(withSession, k, Admitted(k), began, now)
                           /\ Logged(withBoth, k, Admitted(k), began, now)
    BY AskedLogs
  <1>2. state[r] = "new" /\ s \in Name /\ a \in Name
    BY <1>1 DEF Begin, Name
  <1>3. IsLog(withBoth[s], Admitted(s), began, now) /\ IsLog(withBoth[a], Admitted(a), began, now)
    BY <1>1, <1>2 DEF Logged
  <1>4. \A q, A, b, n : IsLog(q, A, b, n) => q.inflight \in Nat /\ Len(q.recent) \in Nat
    BY DEF IsLog, Quota
  <1>5. Verdict(withSession[s]) \in {"running"} \cup Refused /\ Verdict(withBoth[a]) \in {"running"} \cup Refused
    BY <1>1, VerdictType DEF Sound, IsBucket
  <1> HIDE DEF m, s, a, withSession, withBoth
  <1>6. CASE ~HasRoom(m, SessionKey, s) \/ ~HasRoom(m, ActorKey, a)
    <2>1. quota' = m /\ Answer(r, "refused_buckets") /\ UNCHANGED began
      BY <1>6 DEF Begin, m, s, a
    <2> QED
      BY <1>1, <1>2, <2>1, NobodyAdmitted
  <1>7. CASE HasRoom(m, SessionKey, s) /\ HasRoom(m, ActorKey, a) /\ Verdict(withSession[s]) # "running"
    <2>1. quota' = withSession /\ Answer(r, Verdict(withSession[s])) /\ UNCHANGED began
      BY <1>7 DEF Begin, m, s, a, withSession, withBoth
    <2>2. Verdict(withSession[s]) \notin {"running", "done", "lost"}
      BY <1>5, <1>7 DEF Refused
    <2> QED
      BY <1>1, <1>2, <2>1, <2>2, NobodyAdmitted
  <1>8. CASE /\ HasRoom(m, SessionKey, s) /\ HasRoom(m, ActorKey, a)
             /\ Verdict(withSession[s]) = "running" /\ Verdict(withBoth[a]) # "running"
    <2>1. quota' = withBoth /\ Answer(r, Verdict(withBoth[a])) /\ UNCHANGED began
      BY <1>8 DEF Begin, m, s, a, withSession, withBoth
    <2>2. Verdict(withBoth[a]) \notin {"running", "done", "lost"}
      BY <1>5, <1>8 DEF Refused
    <2> QED
      BY <1>1, <1>2, <2>1, <2>2, NobodyAdmitted
  <1>9. CASE /\ HasRoom(m, SessionKey, s) /\ HasRoom(m, ActorKey, a)
             /\ Verdict(withSession[s]) = "running" /\ Verdict(withBoth[a]) = "running"
    <2> DEFINE half == Charged(withBoth, s)
               full == Charged(half, a)
    <2>1. quota' = full /\ Answer(r, "running") /\ began' = [began EXCEPT ![r] = now]
      BY <1>9 DEF Begin, m, s, a, withSession, withBoth
    <2>2. now \in Nat /\ now' = now /\ began \in [Request -> Nat]
      BY <2>1 DEF RateInv, Answer
    <2>3. /\ \A k : Admitted(k)' = IF k \in {s, a} THEN Admitted(k) \cup {r} ELSE Admitted(k)
          /\ \A k : r \notin Admitted(k) /\ Admitted(k) \subseteq Request
      BY <1>2, <2>1 DEF RateInv, BooksInv, RequestsOK, Answer, Admitted, Of, s, a
    <2>4. /\ began' \in [Request -> Nat] /\ began'[r] = now
          /\ \A k : \A x \in Admitted(k) : began'[x] = began[x]
      BY <2>1, <2>2, <2>3
    <2>5. Len(withBoth[s].recent) < MaxRequests /\ Len(withBoth[a].recent) < MaxRequests
      BY <1>1, <1>3, <1>4, <1>9, VerdictHasRate
    <2>6. withBoth[s].inflight < MaxInflight
      BY <1>1, <1>9, VerdictHasRoom DEF Sound, IsBucket
    <2>7. Sound(half)
      BY <1>1, <2>6, ChargedKeeps
    <2>8. /\ DOMAIN half = DOMAIN withBoth
          /\ \A k \in DOMAIN withBoth : k # s => half[k] = withBoth[k]
          /\ half[s] = [withBoth[s] EXCEPT !.inflight = @ + 1, !.recent = Append(@, now)]
      BY <1>1, ChargedElsewhere
    <2> HIDE DEF half
    <2>9. /\ DOMAIN full = DOMAIN half
          /\ \A k \in DOMAIN half : k # a => full[k] = half[k]
          /\ full[a] = [half[a] EXCEPT !.inflight = @ + 1, !.recent = Append(@, now)]
      BY <1>1, <2>7, <2>8, ChargedElsewhere
    <2> HIDE DEF full
    <2>10. IsLog(full[s], Admitted(s) \cup {r}, began', now)
      <3> DEFINE q == withBoth[s]
                 A == Admitted(s)
                 c == began'
      <3>1. full[s] = [q EXCEPT !.inflight = @ + 1, !.recent = Append(@, now)]
        BY <1>1, <2>8, <2>9
      <3>2. /\ IsLog(q, A, began, now) /\ r \notin A /\ q.touch = now /\ Len(q.recent) < MaxRequests
            /\ c[r] = now /\ \A y \in A : c[y] = began[y]
        BY <1>1, <1>3, <2>3, <2>4, <2>5
      <3> HIDE DEF q, A, c
      <3>3. IsLog([q EXCEPT !.inflight = @ + 1, !.recent = Append(@, now)], A \cup {r}, c, now)
        BY <2>2, <3>2, ChargeIsLog
      <3> QED
        BY <3>1, <3>3 DEF A, c
    <2>11. IsLog(full[a], Admitted(a) \cup {r}, began', now)
      <3> DEFINE q == withBoth[a]
                 A == Admitted(a)
                 c == began'
      <3>1. full[a] = [q EXCEPT !.inflight = @ + 1, !.recent = Append(@, now)]
        BY <1>1, <2>8, <2>9
      <3>2. /\ IsLog(q, A, began, now) /\ r \notin A /\ q.touch = now /\ Len(q.recent) < MaxRequests
            /\ c[r] = now /\ \A y \in A : c[y] = began[y]
        BY <1>1, <1>3, <2>3, <2>4, <2>5
      <3> HIDE DEF q, A, c
      <3>3. IsLog([q EXCEPT !.inflight = @ + 1, !.recent = Append(@, now)], A \cup {r}, c, now)
        BY <2>2, <3>2, ChargeIsLog
      <3> QED
        BY <3>1, <3>3 DEF A, c
    <2>12. ASSUME NEW k \in Name PROVE Logged(full, k, Admitted(k)', began', now)
      <3>1. CASE k = s
        BY <1>1, <2>3, <2>8, <2>9, <2>10, <3>1 DEF Logged
      <3>2. CASE k = a
        BY <1>1, <2>3, <2>8, <2>9, <2>11, <3>2 DEF Logged
      <3>3. CASE k \notin {s, a} /\ k \in DOMAIN withBoth
        <4>1. full[k] = withBoth[k] /\ k \in DOMAIN full
          BY <2>8, <2>9, <3>3
        <4>2. IsLog(withBoth[k], Admitted(k), began, now)
          BY <1>1, <3>3 DEF Logged
        <4>3. IsLog(withBoth[k], Admitted(k), began', now)
          BY <2>2, <2>3, <2>4, <4>2, LogStays
        <4> QED
          BY <2>3, <3>3, <4>1, <4>3 DEF Logged
      <3>4. CASE k \notin {s, a} /\ k \notin DOMAIN withBoth
        <4>1. k \notin DOMAIN full
          BY <2>8, <2>9, <3>4
        <4>2. \A x \in Admitted(k) : ~ (now - began[x] <= Window)
          BY <1>1, <3>4 DEF Logged
        <4> QED
          BY <2>3, <2>4, <3>4, <4>1, <4>2 DEF Logged
      <3> QED
        BY <3>1, <3>2, <3>3, <3>4
    <2> QED
      BY <2>1, <2>2, <2>4, <2>12 DEF RateInv
  <1> QED
    BY <1>6, <1>7, <1>8, <1>9

\* end_with_limits prunes and touches both buckets, then all: the request is no
\* longer counted as running, but it was admitted when it was.
LEMMA EndLogs ==
  ASSUME IdleTtl >= Window, RateInv, BooksInv', NEW r \in Request, End(r)
  PROVE  RateInv'
  <1> DEFINE s == sessionOf[r]
             a == actorOf[r]
             map == [k \in DOMAIN quota |-> IF k \in {s, a} THEN Released(quota[k]) ELSE quota[k]]
  <1>1. state[r] = "running" /\ quota' = PruneMap(map) /\ Answer(r, "done") /\ UNCHANGED began
    BY DEF End
  <1>2. now \in Nat /\ Sound(quota) /\ \A k \in Name : Logged(quota, k, Admitted(k), began, now)
    BY DEF RateInv, BooksInv
  <1>3. DOMAIN map = DOMAIN quota /\ \A k \in DOMAIN quota : map[k] = IF k \in {s, a} THEN Released(quota[k]) ELSE quota[k]
    OBVIOUS
  <1>4. ASSUME NEW q, NEW A, NEW b, IsLog(q, A, b, now) PROVE IsLog(Released(q), A, b, now)
    <2> DEFINE p == Pruned(q)
               i == IF p.inflight > 0 THEN p.inflight - 1 ELSE 0
    <2>1. IsLog(p, A, b, now)
      BY <1>2, <1>4, PrunedIsLog
    <2> HIDE DEF p
    <2>2. p.inflight \in Nat /\ i \in Nat
      BY <2>1 DEF IsLog, Quota
    <2>3. IsLog([p EXCEPT !.inflight = i, !.touch = now], A, b, now)
      BY <1>2, <2>1, <2>2, TouchIsLog
    <2> QED
      BY <2>3 DEF Released, p
  <1> HIDE DEF map, s, a
  <1>5. ASSUME NEW k \in Name PROVE Logged(map, k, Admitted(k), began, now)
    BY <1>2, <1>3, <1>4 DEF Logged
  <1>6. map = [k \in DOMAIN map |-> map[k]]
    BY DEF map
  <1>7. ASSUME NEW k \in Name PROVE Logged(PruneMap(map), k, Admitted(k), began, now)
    BY <1>2, <1>5, PruneMapLogs
  <1> QED
    BY <1>1, <1>7, NobodyAdmitted

\* As time passes, nobody is admitted and less is in the window.
LEMMA TickLogs ==
  ASSUME RateInv, BooksInv', Tick
  PROVE  RateInv'
  <1>1. /\ now \in Nat /\ now' = now + 1 /\ now' \in Nat /\ now <= now' /\ began \in [Request -> Nat]
        /\ UNCHANGED <<quota, began, state, sessionOf, actorOf>>
    BY DEF RateInv, Tick
  <1>2. \A k : Admitted(k)' = Admitted(k) /\ Admitted(k) \subseteq Request
    BY <1>1 DEF Admitted, Of
  <1>3. ASSUME NEW k \in Name PROVE Logged(quota, k, Admitted(k), began, now')
    <2>1. Logged(quota, k, Admitted(k), began, now)
      BY DEF RateInv
    <2>2. CASE k \in DOMAIN quota
      <3>1. IsLog(quota[k], Admitted(k), began, now)
        BY <2>1, <2>2 DEF Logged
      <3>2. IsLog(quota[k], Admitted(k), began, now')
        BY <1>1, <1>2, <3>1, LogStays
      <3> QED
        BY <2>2, <3>2 DEF Logged
    <2>3. CASE k \notin DOMAIN quota
      <3>1. \A r \in Admitted(k) : began[r] \in Nat /\ ~ (now - began[r] <= Window)
        BY <1>1, <1>2, <2>1, <2>3 DEF Logged
      <3>2. \A r \in Admitted(k) : ~ (now' - began[r] <= Window)
        BY <1>1, <3>1
      <3> QED
        BY <2>3, <3>2 DEF Logged
    <2> QED
      BY <2>2, <2>3
  <1> QED
    BY <1>1, <1>2, <1>3 DEF RateInv

\* No request was counted yet.
LEMMA RateInit == LimitsInit => RateInv
  <1> SUFFICES ASSUME LimitsInit PROVE RateInv
    OBVIOUS
  <1>1. BooksInv
    BY BooksInit
  <1>2. DOMAIN quota = {} /\ \A k : Admitted(k) = {}
    BY DEF LimitsInit, Admitted, Of
  <1>3. now \in Nat /\ began \in [Request -> Nat]
    BY DEF LimitsInit
  <1> QED
    BY <1>1, <1>2, <1>3 DEF RateInv, Logged

\* Every step of the requests and of the clock keeps the invariant.
LEMMA RateStep ==
  ASSUME IdleTtl >= Window, RateInv, [LimitsNext]_limitsVars
  PROVE  RateInv'
  <1>1. BooksInv'
    BY BooksStep DEF RateInv
  <1>2. CASE UNCHANGED limitsVars
    <2>1. \A k : Admitted(k)' = Admitted(k)
      BY <1>2 DEF limitsVars, Admitted, Of
    <2>2. now' = now /\ began' = began /\ quota' = quota
      BY <1>2 DEF limitsVars
    <2> QED
      BY <1>1, <2>1, <2>2 DEF RateInv
  <1>3. ASSUME NEW r \in Request, Lose(r) PROVE RateInv'
    <2>1. /\ state[r] = "running" /\ Answer(r, "lost") /\ UNCHANGED began /\ quota' = quota
          /\ \A k \in Name : Logged(quota, k, Admitted(k), began, now)
      BY <1>3 DEF Lose, RateInv
    <2> QED
      BY <1>1, <2>1, NobodyAdmitted
  <1> QED
    BY <1>1, <1>2, <1>3, BeginLogs, EndLogs, TickLogs DEF LimitsNext

\* What a bucket remembers of its admissions is right in every state.
THEOREM RateInvariant ==
  ASSUME IdleTtl >= Window
  PROVE  LimitsSpec => []RateInv
  <1>1. RateInv /\ [LimitsNext]_limitsVars => RateInv'
    BY RateStep
  <1> QED
    BY <1>1, RateInit, PTL DEF LimitsSpec

\* The requests a bucket's log is about can be counted.
LEMMA RecentInWindow ==
  \A k : /\ IsFiniteSet(Admitted(k))
         /\ RecentlyAdmitted(k) = InWindow(Admitted(k), began, now)
         /\ IsFiniteSet(RecentlyAdmitted(k)) /\ Cardinality(RecentlyAdmitted(k)) \in Nat
  <1> TAKE k
  <1>1. Admitted(k) \in SUBSET Request /\ RecentlyAdmitted(k) \in SUBSET Request
    BY DEF Admitted, RecentlyAdmitted, Of
  <1>2. IsFiniteSet(Admitted(k)) /\ IsFiniteSet(RecentlyAdmitted(k))
    BY <1>1, FS_Subset
  <1>3. RecentlyAdmitted(k) = InWindow(Admitted(k), began, now)
    BY DEF RecentlyAdmitted, Admitted, InWindow
  <1> QED
    BY <1>2, <1>3, FS_CardinalityType

\* In any rate window no session and no actor is admitted more often than
\* max_requests_per_window, although idle buckets are forgotten: they are kept at
\* least as long as the window.
LEMMA RateInvCaps == ASSUME RateInv PROVE RateCapped
  <1> SUFFICES ASSUME NEW k \in Name PROVE Cardinality(RecentlyAdmitted(k)) <= MaxRequests
    BY DEF RateCapped
  <1>1. Logged(quota, k, Admitted(k), began, now)
    BY DEF RateInv
  <1>2. CASE k \in DOMAIN quota
    <2>1. IsLog(quota[k], Admitted(k), began, now)
      BY <1>1, <1>2 DEF Logged
    <2>2. Cardinality(RecentlyAdmitted(k)) <= Len(quota[k].recent)
      BY <2>1, RecentInWindow, LogCounts
    <2>3. Len(quota[k].recent) <= MaxRequests /\ Len(quota[k].recent) \in Nat
      BY <2>1 DEF IsLog, Quota
    <2> QED
      BY <2>2, <2>3, RecentInWindow
  <1>3. CASE k \notin DOMAIN quota
    <2>1. RecentlyAdmitted(k) = {}
      BY <1>1, <1>3, RecentInWindow DEF Logged, InWindow
    <2> QED
      BY <2>1, FS_EmptySet
  <1> QED
    BY <1>2, <1>3

\* A refusal names a cause that counting the requests confirms.
LEMMA RefusalsCaused ==
  ASSUME IdleTtl >= Window, RateInv, [LimitsNext]_limitsVars, NEW r \in Request, state[r] = "new"
  PROVE  /\ state'[r] = "refused_inflight" =>
               \E k \in {sessionOf[r], actorOf[r]} : Cardinality(Holding(k)) >= MaxInflight
         /\ state'[r] = "refused_rate" =>
               \E k \in {sessionOf[r], actorOf[r]} : Cardinality(RecentlyAdmitted(k)) >= MaxRequests
         /\ state'[r] = "refused_buckets" =>
               \E kind \in {SessionKey, ActorKey} : Cardinality(DOMAIN quota \cap kind) = MaxBuckets
  <1> DEFINE m == PruneMap(quota)
             s == sessionOf[r]
             a == actorOf[r]
             withSession == Touched(m, s)
             withBoth == Touched(withSession, a)
  <1>1. state \in [Request -> {"new", "running", "done", "lost"} \cup Refused]
    BY DEF RateInv, BooksInv, RequestsOK
  <1>2. CASE ~ Begin(r)
    <2>1. state'[r] = "new"
      <3>1. ASSUME NEW x \in Request, NEW z, x # r, Answer(x, z) PROVE state'[r] = "new"
        BY <1>1, <3>1 DEF Answer
      <3>2. ASSUME NEW x \in Request, Begin(x), x # r PROVE \E z : Answer(x, z)
        BY <3>2 DEF Begin
      <3>3. CASE UNCHANGED state
        BY <3>3
      <3>4. ASSUME NEW x \in Request, End(x) \/ Lose(x) PROVE x # r /\ \E z : Answer(x, z)
        BY <3>4 DEF End, Lose
      <3>5. UNCHANGED limitsVars \/ Tick => UNCHANGED state
        BY DEF limitsVars, Tick
      <3>6. \/ UNCHANGED limitsVars \/ Tick
            \/ \E x \in Request : End(x) \/ Lose(x)
            \/ \E x \in Request : Begin(x) /\ x # r
        BY <1>2 DEF LimitsNext
      <3> QED
        BY <3>1, <3>2, <3>3, <3>4, <3>5, <3>6
    <2> QED
      BY <2>1
  <1>3. CASE Begin(r)
    <2>1. /\ s \in SessionKey /\ a \in ActorKey
          /\ Sound(m) /\ Sound(withSession) /\ Sound(withBoth) /\ DOMAIN m \subseteq DOMAIN quota
          /\ s \in DOMAIN withSession /\ a \in DOMAIN withBoth
          /\ withSession[s].inflight = Count(quota, s) /\ withBoth[a].inflight = Count(quota, a)
          /\ \A k \in Name : /\ Logged(withSession, k, Admitted(k), began, now)
                             /\ Logged(withBoth, k, Admitted(k), began, now)
                             /\ Fresh(withSession, k) /\ Fresh(withBoth, k)
      BY AskedLogs
    <2>2. s \in Name /\ a \in Name
      BY <2>1 DEF Name
    <2>3. /\ IsLog(withSession[s], Admitted(s), began, now)
          /\ \A i \in 1 .. Len(withSession[s].recent) : now - withSession[s].recent[i] <= Window
          /\ IsLog(withBoth[a], Admitted(a), began, now)
          /\ \A i \in 1 .. Len(withBoth[a].recent) : now - withBoth[a].recent[i] <= Window
      BY <2>1, <2>2 DEF Logged, Fresh
    <2>5. /\ Cardinality(RecentlyAdmitted(s)) = Len(withSession[s].recent)
          /\ Cardinality(RecentlyAdmitted(a)) = Len(withBoth[a].recent)
      <3> HIDE DEF m, s, a, withSession, withBoth
      <3>1. /\ Cardinality(InWindow(Admitted(s), began, now)) = Len(withSession[s].recent)
            /\ Cardinality(InWindow(Admitted(a), began, now)) = Len(withBoth[a].recent)
        BY <2>3, RecentInWindow, LogCounts
      <3> QED
        BY <3>1, RecentInWindow
    <2>6. /\ Cardinality(Holding(s)) = withSession[s].inflight
          /\ Cardinality(Holding(a)) = withBoth[a].inflight
      BY <2>1, <2>2 DEF RateInv, BooksInv, InflightExact, Count
    <2>7. \A q : /\ Verdict(q) = "refused_inflight" => q.inflight >= MaxInflight
                 /\ Verdict(q) = "refused_rate" => Len(q.recent) >= MaxRequests
                 /\ Verdict(q) # "refused_buckets"
      BY DEF Verdict
    <2> HIDE DEF m, s, a, withSession, withBoth
    <2>8. \/ /\ ~HasRoom(m, SessionKey, s) \/ ~HasRoom(m, ActorKey, a)
             /\ Answer(r, "refused_buckets")
          \/ Answer(r, Verdict(withSession[s]))
          \/ Answer(r, Verdict(withBoth[a]))
          \/ Answer(r, "running")
      BY <1>3 DEF Begin, m, s, a, withSession, withBoth
    <2>9. \A z : Answer(r, z) => state'[r] = z
      BY <1>1 DEF Answer
    <2>10. ASSUME ~HasRoom(m, SessionKey, s) \/ ~HasRoom(m, ActorKey, a)
           PROVE  \E kind \in {SessionKey, ActorKey} : Cardinality(DOMAIN quota \cap kind) = MaxBuckets
      <3>1. PICK kind \in {SessionKey, ActorKey} : ~ (Cardinality(DOMAIN m \cap kind) < MaxBuckets)
        BY <2>10 DEF HasRoom
      <3>2. IsFiniteSet(DOMAIN quota \cap kind) /\ DOMAIN m \cap kind \subseteq DOMAIN quota \cap kind
        BY <2>1, FS_Subset DEF RateInv, BooksInv, Sound
      <3>3. /\ Cardinality(DOMAIN m \cap kind) <= Cardinality(DOMAIN quota \cap kind)
            /\ IsFiniteSet(DOMAIN m \cap kind)
        BY <3>2, FS_Subset
      <3>4. Cardinality(DOMAIN m \cap kind) \in Nat /\ Cardinality(DOMAIN quota \cap kind) \in Nat
        BY <3>2, <3>3, FS_CardinalityType
      <3>5. Cardinality(DOMAIN quota \cap kind) <= MaxBuckets
        BY DEF RateInv, BooksInv, BucketsBounded
      <3> QED
        BY <3>1, <3>3, <3>4, <3>5
    <2>11. CASE Answer(r, "refused_buckets") /\ (~HasRoom(m, SessionKey, s) \/ ~HasRoom(m, ActorKey, a))
      BY <2>9, <2>10, <2>11
    <2>12. CASE Answer(r, Verdict(withSession[s]))
      BY <2>5, <2>6, <2>7, <2>9, <2>12 DEF s
    <2>13. CASE Answer(r, Verdict(withBoth[a]))
      BY <2>5, <2>6, <2>7, <2>9, <2>13 DEF a
    <2>14. CASE Answer(r, "running")
      BY <2>9, <2>14
    <2> QED
      BY <2>8, <2>11, <2>12, <2>13, <2>14
  <1> QED
    BY <1>2, <1>3

\* The limits are enforced exactly: no request is admitted beyond the in-flight
\* cap or the rate cap and the maps stay bounded, and no request is refused
\* unless one of these limits is reached.
THEOREM LimitsExact ==
  ASSUME IdleTtl >= Window
  PROVE  LimitsSpec => AdmissionIsExact
  <1>1. RateInv => RateCapped /\ BucketsBounded
    BY RateInvCaps DEF RateInv, BooksInv
  <1>2. RateInv /\ [LimitsNext]_limitsVars =>
          [\A r \in Request : state[r] = "new" =>
              /\ state'[r] = "refused_inflight" =>
                    \E k \in {sessionOf[r], actorOf[r]} : Cardinality(Holding(k)) >= MaxInflight
              /\ state'[r] = "refused_rate" =>
                    \E k \in {sessionOf[r], actorOf[r]} :
                        Cardinality(RecentlyAdmitted(k)) >= MaxRequests
              /\ state'[r] = "refused_buckets" =>
                    \E kind \in {SessionKey, ActorKey} : Cardinality(DOMAIN quota \cap kind) = MaxBuckets]_limitsVars
    BY RefusalsCaused
  <1>3. RateCapped /\ BucketsBounded /\ InflightCapped => QuotasHold
    BY DEF QuotasHold
  <1> QED
    BY <1>1, <1>2, <1>3, RateInvariant, CapHolds, PTL
    DEF LimitsSpec, AdmissionIsExact, RefusalsHaveCause

-----------------------------------------------------------------------------
(***************************************************************************)
(* The types of the quotas, whatever the window and the time to live are   *)
(***************************************************************************)
QuotaTyped(map) == \A k \in DOMAIN map : map[k] \in Quota

\* The inductive invariant of the types: what the maps look like, and what is in
\* each of their buckets.
LimitsTypeInv ==
    /\ BooksInv /\ QuotaTyped(quota)
    /\ now \in 0 .. MaxTime /\ began \in [Request -> Nat]

\* Pruning takes entries from a bucket, and nothing else.
LEMMA PrunedTyped ==
  ASSUME NEW q \in Quota, now \in Nat
  PROVE  Pruned(q) \in Quota
  <1> DEFINE l == q.recent
             o == OldestKept(l)
             p == SubSeq(l, o, Len(l))
  <1>1. l \in Seq(Nat) /\ Len(l) \in Nat
    BY DEF Quota
  <1>2. o \in 1 .. Len(l) + 1
    BY <1>1, OldestKeptExists
  <1>3. p \in Seq(Nat)
    <2> HIDE DEF p, o, l
    <2>1. \A i \in 1 .. Len(l) : l[i] \in Nat
      BY <1>1
    <2>2. \A i \in o .. Len(l) : l[i] \in Nat
      BY <1>1, <1>2, <2>1
    <2>3. SubSeq(l, o, Len(l)) \in Seq(Nat)
      BY <1>1, <1>2, <2>2, SubSeqProperties
    <2> QED
      BY <2>3 DEF p
  <1> HIDE DEF p
  <1>4. Pruned(q) = [q EXCEPT !.recent = p]
    BY DEF Pruned, p
  <1> QED
    BY <1>3, <1>4 DEF Quota

\* prune_map prunes the buckets it keeps.
LEMMA PruneMapTyped ==
  ASSUME NEW map, QuotaTyped(map), now \in Nat
  PROVE  QuotaTyped(PruneMap(map))
  <1> DEFINE pruned == [k \in DOMAIN map |-> Pruned(map[k])]
             stay == {n \in DOMAIN map : Retained(pruned[n])}
  <1>1. PruneMap(map) = [k \in stay |-> pruned[k]]
    BY DEF PruneMap
  <1>2. \A k \in DOMAIN map : pruned[k] \in Quota
    BY PrunedTyped DEF QuotaTyped
  <1>3. stay \subseteq DOMAIN map
    OBVIOUS
  <1> HIDE DEF pruned, stay
  <1> QED
    BY <1>1, <1>2, <1>3 DEF QuotaTyped

\* A bucket that is looked at, and made if need be, is one.
LEMMA TouchedTyped ==
  ASSUME NEW map, QuotaTyped(map), NEW k, now \in Nat
  PROVE  QuotaTyped(Touched(map, k))
  <1> DEFINE q == IF k \in DOMAIN map THEN map[k] ELSE [inflight |-> 0, recent |-> <<>>, touch |-> now]
             new == [q EXCEPT !.touch = now]
  <1>1. Touched(map, k) = [n \in DOMAIN map \cup {k} |-> IF n = k THEN new ELSE map[n]]
    BY DEF Touched
  <1>2. q \in Quota
    BY DEF QuotaTyped, Quota
  <1> HIDE DEF q
  <1>3. new \in Quota
    BY <1>2 DEF Quota
  <1> HIDE DEF new
  <1> QED
    BY <1>1, <1>3 DEF QuotaTyped

\* A bucket that is charged has one request and one entry more.
LEMMA ChargedTyped ==
  ASSUME NEW map, QuotaTyped(map), NEW k, now \in Nat
  PROVE  QuotaTyped(Charged(map, k))
  <1> DEFINE new == [map[k] EXCEPT !.inflight = @ + 1, !.recent = Append(@, now)]
  <1>1. CASE k \in DOMAIN map
    <2>1. /\ map[k] \in Quota /\ map[k].inflight \in Nat /\ map[k].recent \in Seq(Nat)
      BY <1>1 DEF QuotaTyped, Quota
    <2>2. \A n \in Nat, a \in Seq(Nat) : [map[k] EXCEPT !.inflight = n, !.recent = a] \in Quota
      BY <2>1 DEF Quota
    <2>3. Append(map[k].recent, now) \in Seq(Nat) /\ map[k].inflight + 1 \in Nat
      BY <2>1
    <2>4. new \in Quota
      <3> DEFINE n == map[k].inflight + 1
                 a == Append(map[k].recent, now)
      <3>1. new = [map[k] EXCEPT !.inflight = n, !.recent = a]
        BY <2>1 DEF Quota
      <3> HIDE DEF n, a
      <3>2. [map[k] EXCEPT !.inflight = n, !.recent = a] \in Quota
        BY <2>2, <2>3 DEF n, a
      <3> HIDE DEF new
      <3> QED
        BY <3>1, <3>2
    <2>5. /\ DOMAIN Charged(map, k) = DOMAIN map
          /\ \A n \in DOMAIN map : Charged(map, k)[n] = IF n = k THEN new ELSE map[n]
      BY DEF Charged
    <2> HIDE DEF new
    <2> QED
      BY <2>4, <2>5 DEF QuotaTyped
  <1>2. CASE k \notin DOMAIN map
    <2>1. /\ DOMAIN Charged(map, k) = DOMAIN map
          /\ \A n \in DOMAIN map : Charged(map, k)[n] = map[n]
      BY <1>2 DEF Charged
    <2> QED
      BY <2>1 DEF QuotaTyped
  <1> QED
    BY <1>1, <1>2

\* Ends give a place back, if there is one.
LEMMA ReleasedTyped ==
  ASSUME NEW q \in Quota, now \in Nat
  PROVE  Released(q) \in Quota
  <1>1. Pruned(q) \in Quota
    BY PrunedTyped
  <1> DEFINE p == Pruned(q)
  <1> HIDE DEF p
  <1>2. PICK i, l, t : /\ p = [inflight |-> i, recent |-> l, touch |-> t]
                       /\ i \in Nat /\ l \in Seq(Nat) /\ t \in Nat
    BY <1>1 DEF Quota, p
  <1>3. Released(q) = [p EXCEPT !.inflight = IF i > 0 THEN i - 1 ELSE 0, !.touch = now]
    BY <1>2 DEF Released, p
  <1>4. Released(q) = [inflight |-> IF i > 0 THEN i - 1 ELSE 0, recent |-> l, touch |-> now]
    BY <1>2, <1>3
  <1>5. (IF i > 0 THEN i - 1 ELSE 0) \in Nat
    BY <1>2
  <1> QED
    BY <1>2, <1>4, <1>5 DEF Quota

\* Every step of the web's admission control keeps the types.
LEMMA LimitsTypesStep ==
  ASSUME LimitsTypeInv, [LimitsNext]_limitsVars
  PROVE  LimitsTypeInv'
  <1>1. BooksInv'
    BY BooksStep DEF LimitsTypeInv
  <1>2. now \in Nat /\ now \in 0 .. MaxTime /\ QuotaTyped(quota) /\ began \in [Request -> Nat]
    BY DEF LimitsTypeInv
  <1>3. CASE UNCHANGED limitsVars
    BY <1>1, <1>2, <1>3 DEF limitsVars, LimitsTypeInv, QuotaTyped
  <1>4. CASE Tick
    BY <1>1, <1>2, <1>4 DEF Tick, LimitsTypeInv, QuotaTyped
  <1>5. ASSUME NEW r \in Request, Begin(r) PROVE LimitsTypeInv'
    <2> DEFINE m == PruneMap(quota)
               s == sessionOf[r]
               a == actorOf[r]
               withSession == Touched(m, s)
               withBoth == Touched(withSession, a)
               charged == Charged(withBoth, s)
               both == Charged(charged, a)
    <2>1. QuotaTyped(m)
      BY <1>2, PruneMapTyped
    <2>2. QuotaTyped(withSession)
      BY <1>2, <2>1, TouchedTyped
    <2>3. QuotaTyped(withBoth)
      <3> HIDE DEF withSession
      <3> QED
        BY <1>2, <2>2, TouchedTyped
    <2>4. QuotaTyped(charged)
      <3> HIDE DEF withBoth
      <3> QED
        BY <1>2, <2>3, ChargedTyped
    <2>5. QuotaTyped(both)
      <3> HIDE DEF charged
      <3> QED
        BY <1>2, <2>4, ChargedTyped
    <2>6. /\ quota' \in {m, withSession, withBoth, both}
          /\ now' = now
          /\ began' = began \/ began' = [began EXCEPT ![r] = now]
      BY <1>5 DEF Begin, Answer
    <2> HIDE DEF m, withSession, withBoth, both
    <2>7. QuotaTyped(quota')
      BY <2>1, <2>2, <2>3, <2>5, <2>6
    <2>8. began' \in [Request -> Nat]
      BY <1>2, <2>6
    <2> QED
      BY <1>1, <1>2, <2>6, <2>7, <2>8 DEF LimitsTypeInv, QuotaTyped
  <1>6. ASSUME NEW r \in Request, End(r) PROVE LimitsTypeInv'
    <2> DEFINE m == [k \in DOMAIN quota |->
                        IF k \in {sessionOf[r], actorOf[r]} THEN Released(quota[k]) ELSE quota[k]]
    <2>1. QuotaTyped(m)
      BY <1>2, ReleasedTyped DEF QuotaTyped
    <2>2. quota' = PruneMap(m) /\ now' = now /\ began' = began
      BY <1>6 DEF End, Answer
    <2> HIDE DEF m
    <2>3. QuotaTyped(PruneMap(m))
      BY <1>2, <2>1, PruneMapTyped
    <2> QED
      BY <1>1, <1>2, <2>2, <2>3 DEF LimitsTypeInv, QuotaTyped
  <1>7. ASSUME NEW r \in Request, Lose(r) PROVE LimitsTypeInv'
    <2>1. quota' = quota /\ now' = now /\ began' = began
      BY <1>7 DEF Lose, Answer
    <2> QED
      BY <1>1, <1>2, <2>1 DEF LimitsTypeInv, QuotaTyped
  <1> QED
    BY <1>3, <1>4, <1>5, <1>6, <1>7 DEF LimitsNext

\* Both maps are empty when the web starts.
LEMMA LimitsTypesInit == LimitsInit => LimitsTypeInv
  <1> SUFFICES ASSUME LimitsInit PROVE LimitsTypeInv
    OBVIOUS
  <1>1. BooksInv
    BY BooksInit
  <1>2. QuotaTyped(quota) /\ now \in 0 .. MaxTime /\ began \in [Request -> Nat]
    BY DEF LimitsInit, QuotaTyped
  <1> QED
    BY <1>1, <1>2 DEF LimitsTypeInv

\* Quotas stay in their types: no counter is below zero and no map has a key
\* that is neither a session nor an actor.
LEMMA LimitsTyped == ASSUME LimitsTypeInv PROVE LimitsTypeOK
  BY DEF LimitsTypeInv, LimitsTypeOK, BooksInv, RequestsOK, Sound, QuotaTyped

\* The web's quotas stay in their types, for any limits and requests.
THEOREM LimitsTypes == LimitsSpec => []LimitsTypeOK
  <1>1. LimitsTypeInv /\ [LimitsNext]_limitsVars => LimitsTypeInv'
    BY LimitsTypesStep
  <1>2. LimitsTypeInv => LimitsTypeOK
    BY LimitsTyped
  <1> QED
    BY <1>1, <1>2, LimitsTypesInit, PTL DEF LimitsSpec

-----------------------------------------------------------------------------
(* The web's sessions: any number of keys, chats and requests. *)

\* A request that works on a chat: a run of it, or a fork into it.
Working == SendSteps \cup ForkSteps
WorksOn(c, i) == call[c].step \in Working /\ call[c].chat = i
KeyOf(c) == IF call[c].step \in ForkSteps THEN call[c].to ELSE call[c].key
Runs(c, i) == call[c].step \in SendSteps /\ call[c].chat = i
Unread(c, i) == Runs(c, i) /\ call[c].step \in {"resolved", "stored"}

\* A chat that sending finds by a key.
Keyed(i) == i \in DOMAIN chats /\ chats[i].external \in WebKey

\* What the record of a request holds.
Fields == {"step", "key", "to", "chat", "seen", "made", "said"}

\* The requests are as they are made, and those that name a chat or a key have one.
CallsTyped ==
    /\ call = [c \in WebCall |-> call[c]]
    /\ \A c \in WebCall :
          /\ DOMAIN call[c] = Fields
          /\ call[c].step = "idle" => call[c].seen = {}
          /\ call[c].step # "idle" => call[c].chat \in ChatId /\ call[c].key \in WebKey
          /\ call[c].step \in ForkSteps \cup {"reading", "targeting"} => call[c].to \in WebKey
          /\ call[c].said \in Nat

\* Rows are from before now, a deleted one is no longer there, and what a
\* session or a run has of a chat are rows of that chat.
RowsOK ==
    /\ DOMAIN chats \subseteq ChatId /\ clock \in Nat
    /\ \A m \in texts \cup forgotten : m.at \in 0 .. clock
    /\ texts \cap forgotten = {}
    /\ \A i \in DOMAIN kept : kept[i].at \in 0 .. clock /\ \A m \in kept[i].has : m.chat = i
    /\ \A c \in WebCall :
          call[c].step \in SendSteps => \A m \in call[c].seen : m.chat = call[c].chat

\* One run of a key at a time.
OneRunOfKey ==
    \A c, d \in WebCall :
        call[c].step \in SendSteps /\ call[d].step \in SendSteps /\ call[c].key = call[d].key => c = d

\* What there is of chat i is of one key.
OfKey(i, k) ==
    /\ Keyed(i) => chats[i].external = k
    /\ \A m \in TextsOf(i) : m.key = k
    /\ i \in DOMAIN kept => \A m \in kept[i].has : m.key = k
    /\ \A c \in WebCall : WorksOn(c, i) => KeyOf(c) = k
    /\ \A c \in WebCall : Runs(c, i) => \A m \in call[c].seen : m.key = k

\* Where a run can still begin, nothing is of before a deletion.
NothingOld(i) ==
    /\ Keyed(i) \/ (\E c \in WebCall : Unread(c, i)) =>
          (i \in DOMAIN kept => kept[i].has \cap forgotten = {})
    /\ Keyed(i) => \A c \in WebCall : Runs(c, i) => call[c].seen \cap forgotten = {}

\* The message of a run that has yet to load is there to be found.
Findable(c) ==
    /\ \E m \in TextsOf(call[c].chat) : m.at = call[c].said /\ ~m.bot
    /\ call[c].chat \in DOMAIN kept =>
          kept[call[c].chat].has = {} \/ kept[call[c].chat].at < call[c].said

\* All of this holds of the chats whose number was not given again too early.
ChatsInv ==
    /\ \A i \in ChatId \ reused : \E k \in WebKey \cup {NoWebKey} : OfKey(i, k)
    /\ \A i \in ChatId \ reused : NothingOld(i)
    /\ \A c \in WebCall :
          call[c].step = "stored" /\ call[c].chat \notin reused /\ c \notin overtaken => Findable(c)

\* The inductive invariant.
WebInv == CallsTyped /\ RowsOK /\ OneRunOfKey /\ ChatsInv

\* Of a request that goes on, only the named fields change.
LEMMA Proceeds ==
  ASSUME CallsTyped, NEW c \in WebCall, NEW r, Proceed(c, r)
  PROVE  /\ call' = [d \in WebCall |-> call'[d]]
         /\ \A d \in WebCall \ {c} : call'[d] = call[d]
         /\ DOMAIN call'[c] = Fields
         /\ \A f \in Fields : call'[c][f] = IF f \in DOMAIN r THEN r[f] ELSE call[c][f]
  BY DEF CallsTyped, Proceed

\* Request c goes on with the work it had, or with none.
GoesOnWith(c) ==
    /\ \A d \in WebCall \ {c} : call'[d] = call[d]
    /\ call'[c].chat = call[c].chat /\ call'[c].key = call[c].key /\ call'[c].to = call[c].to
    /\ call'[c].step \in SendSteps => call[c].step \in SendSteps
    /\ call'[c].step \in ForkSteps => call[c].step \in ForkSteps

\* Who works on a chat then has worked on it before, for the same key.
LEMMA SameWork ==
  ASSUME NEW c \in WebCall, GoesOnWith(c)
  PROVE  /\ \A d \in WebCall, i \in ChatId :
               /\ WorksOn(d, i)' => WorksOn(d, i) /\ KeyOf(d)' = KeyOf(d)
               /\ Runs(d, i)' => Runs(d, i)
         /\ OneRunOfKey => OneRunOfKey'
  <1>1. ASSUME NEW d \in WebCall, NEW i \in ChatId
        PROVE  /\ WorksOn(d, i)' => WorksOn(d, i) /\ KeyOf(d)' = KeyOf(d)
               /\ Runs(d, i)' => Runs(d, i)
    <2>1. CASE d = c
      BY <2>1 DEF GoesOnWith, WorksOn, Working, KeyOf, Runs, SendSteps, ForkSteps
    <2>2. CASE d # c
      BY <2>2 DEF GoesOnWith, WorksOn, Working, KeyOf, Runs
    <2> QED
      BY <2>1, <2>2
  <1>2. \A d \in WebCall : call'[d].step \in SendSteps => call[d].step \in SendSteps /\ call'[d].key = call[d].key
    BY DEF GoesOnWith
  <1>3. OneRunOfKey => OneRunOfKey'
    BY <1>2 DEF OneRunOfKey
  <1> QED
    BY <1>1, <1>3

\* The steps of a request that has begun keep their types.
LEMMA KeepsTypes ==
  ASSUME CallsTyped, NEW c \in WebCall, NEW r, Proceed(c, r),
         call[c].step # "idle", call'[c].step # "idle",
         call'[c].chat \in ChatId, call'[c].key = call[c].key, call'[c].to = call[c].to,
         call'[c].step \in ForkSteps \cup {"reading", "targeting"} =>
            call[c].step \in ForkSteps \cup {"reading", "targeting"},
         call'[c].said \in Nat
  PROVE  CallsTyped'
  <1>1. /\ call' = [d \in WebCall |-> call'[d]]
        /\ \A d \in WebCall \ {c} : call'[d] = call[d]
        /\ DOMAIN call'[c] = Fields
    BY Proceeds
  <1> QED
    BY <1>1 DEF CallsTyped

-----------------------------------------------------------------------------
\* The next id is above all others.
LEMMA LeastOf ==
  ASSUME NEW T \in SUBSET Nat, T # {}
  PROVE  \E i \in T : \A j \in T : i <= j
  <1>1. PICK i \in T : \A j \in T : ~ (<<j, i>> \in OpToRel(<, Nat))
    BY NatLessThanWellFounded, WFMin
  <1>2. \A j \in T : ~ (j < i)
    BY <1>1 DEF OpToRel
  <1> QED
    BY <1>2

\* NextId gives a number that no row has.
LEMMA NextIsNew ==
  ASSUME DOMAIN chats \subseteq ChatId
  PROVE  NextId \notin DOMAIN chats
  <1> DEFINE S == DOMAIN chats \cup {0}
             T == {n \in Nat : \A x \in S : x <= n}
  <1>1. S \subseteq Nat /\ MaxClock \in T
    BY WebAssumption DEF ChatId
  <1>2. PICK n \in T : \A j \in T : n <= j
    BY <1>1, LeastOf
  <1>3. n \in S
    <2>1. SUFFICES ASSUME n \notin S PROVE FALSE
      OBVIOUS
    <2>2. n \in Nat /\ n # 0 /\ \A x \in S : x <= n /\ x # n /\ x \in Nat
      BY <1>1, <2>1
    <2>3. n - 1 \in T
      BY <2>2
    <2> QED
      BY <1>2, <2>2, <2>3
  <1>4. \E m \in S : \A x \in S : m >= x
    BY <1>1, <1>2, <1>3
  <1>5. \A x \in S : Max(S) >= x
    BY <1>4 DEF Max
  <1>6. Max(S) \in S
    BY <1>4 DEF Max
  <1>7. PICK m \in S : m = Max(S) /\ NextId = m + 1
    BY <1>6 DEF NextId
  <1>8. \A x \in S : x <= m
    BY <1>5, <1>7, <1>1
  <1>9. m \in Nat /\ \A x \in DOMAIN chats : x \in Nat /\ x <= m
    BY <1>1, <1>7, <1>8
  <1> QED
    BY ONLY <1>7, <1>9

\* What resolving a key does to the chats: the row is found by the key, or it is
\* new, and then nothing is left of its number unless that is on record.
LEMMA Resolved ==
  ASSUME RowsOK, NEW k \in WebKey, NEW i \in ChatId, ResolveOrCreate(k, i)
  PROVE  /\ DOMAIN chats' = DOMAIN chats \cup {i}
         /\ chats'[i].external = k
         /\ \A j \in DOMAIN chats \ {i} : chats'[j] = chats[j]
         /\ clock' = clock + 1
         /\ reused \subseteq reused'
         /\ i \notin reused' => \/ i \in DOMAIN chats /\ chats[i].external = k
                                \/ i \notin DOMAIN chats /\ ~LeftBehind(i)
  <1>1. \/ i \in DOMAIN chats /\ chats[i].external = k
        \/ i \notin DOMAIN chats
    BY NextIsNew DEF ResolveOrCreate, ByExternalId, RowsOK
  <1>2. i \notin DOMAIN chats /\ i \notin reused' => ~LeftBehind(i)
    BY DEF ResolveOrCreate
  <1>3. reused \subseteq reused'
    BY DEF ResolveOrCreate
  <1>4. chats' = Put(chats, i, [title |-> k, external |-> k, at |-> clock + 1]) /\ clock' = clock + 1
    BY DEF ResolveOrCreate, Stamped
  <1> QED
    BY <1>1, <1>2, <1>3, <1>4 DEF Put

\* Resolving a key, for a run, for a fork or for something else, keeps what is
\* known of the chats.
LEMMA ResolvesKeep ==
  ASSUME WebInv, NEW c \in WebCall, NEW k \in WebKey, NEW i \in ChatId,
         ResolveOrCreate(k, i) \/ UNCHANGED <<chats, clock, reused>>,
         UNCHANGED <<texts, kept, forgotten, overtaken>>,
         \A d \in WebCall \ {c} : call'[d] = call[d],
         call[c].step \notin Working, call'[c].chat = i,
         call'[c].step \in Working =>
            /\ ResolveOrCreate(k, i) /\ KeyOf(c)' = k
            /\ call'[c].step \in {"resolved"} \cup ForkSteps,
         call'[c].step = "resolved" => call'[c].seen = {}
  PROVE  RowsOK' /\ ChatsInv'
  <1>1. /\ DOMAIN chats' \subseteq DOMAIN chats \cup {i} /\ DOMAIN chats \subseteq DOMAIN chats'
        /\ \A j \in DOMAIN chats \ {i} : chats'[j] = chats[j]
        /\ reused \subseteq reused'
        /\ clock \in Nat /\ clock' \in Nat /\ clock <= clock'
    <2>1. CASE ResolveOrCreate(k, i)
      <3>1. RowsOK
        BY DEF WebInv
      <3>2. /\ DOMAIN chats' = DOMAIN chats \cup {i}
            /\ chats'[i].external = k
            /\ \A j \in DOMAIN chats \ {i} : chats'[j] = chats[j]
            /\ clock' = clock + 1
            /\ reused \subseteq reused'
            /\ i \notin reused' => \/ i \in DOMAIN chats /\ chats[i].external = k
                                   \/ i \notin DOMAIN chats /\ ~LeftBehind(i)
        BY ONLY <2>1, <3>1, Resolved
      <3>3. clock \in Nat
        BY <3>1 DEF RowsOK
      <3> QED
        BY <3>2, <3>3
    <2>2. CASE UNCHANGED <<chats, clock, reused>>
      BY <2>2 DEF WebInv, RowsOK
    <2> QED
      BY <2>1, <2>2
  <1>2. \A d \in WebCall : call'[d].step \in SendSteps =>
            \/ d # c /\ call[d].step \in SendSteps /\ call'[d] = call[d]
            \/ d = c /\ call'[d].step = "resolved" /\ call'[d].seen = {}
    BY DEF Working, SendSteps, ForkSteps
  <1>3. RowsOK'
    BY <1>1, <1>2 DEF WebInv, RowsOK
  <1>4. \A j \in ChatId : TextsOf(j)' = TextsOf(j)
    BY DEF TextsOf
  <1>5. \A d \in WebCall, j \in ChatId : (d # c \/ j # i \/ call'[c].step \notin Working) =>
            /\ WorksOn(d, j)' => WorksOn(d, j) /\ KeyOf(d)' = KeyOf(d)
            /\ Runs(d, j)' => Runs(d, j) /\ call'[d].seen = call[d].seen
            /\ Unread(d, j)' => Unread(d, j)
    BY DEF WorksOn, Runs, Unread, KeyOf, Working
  <1>6. ASSUME NEW j \in ChatId \ reused', j # i \/ call'[c].step \notin Working, Keyed(j)' => Keyed(j) /\ chats'[j] = chats[j]
        PROVE  NothingOld(j)' /\ \E q \in WebKey \cup {NoWebKey} : OfKey(j, q)'
    <2>1. PICK q \in WebKey \cup {NoWebKey} : OfKey(j, q)
      BY <1>1, <1>6 DEF WebInv, ChatsInv
    <2>2. OfKey(j, q)'
      BY <1>4, <1>5, <1>6, <2>1 DEF OfKey
    <2>3. NothingOld(j)
      BY <1>1, <1>6 DEF WebInv, ChatsInv
    <2>4. NothingOld(j)'
      BY <1>5, <1>6, <2>3 DEF NothingOld
    <2> QED
      BY <2>2, <2>4
  <1>7. ASSUME ResolveOrCreate(k, i), i \notin reused'
        PROVE  NothingOld(i)' /\ OfKey(i, k)'
    <2>1. /\ Keyed(i)' /\ chats'[i].external = k
          /\ \/ Keyed(i) /\ chats[i].external = k
             \/ i \notin DOMAIN chats /\ ~LeftBehind(i)
      <3>1. RowsOK
        BY DEF WebInv
      <3>2. /\ DOMAIN chats' = DOMAIN chats \cup {i} /\ chats'[i].external = k
            /\ \/ i \in DOMAIN chats /\ chats[i].external = k
               \/ i \notin DOMAIN chats /\ ~LeftBehind(i)
        BY <1>7, <3>1, Resolved
      <3> QED
        BY <3>2 DEF Keyed
    <2>2. \A d \in WebCall : d # c =>
              /\ WorksOn(d, i)' => WorksOn(d, i) /\ KeyOf(d)' = KeyOf(d)
              /\ Runs(d, i)' => Runs(d, i) /\ call'[d].seen = call[d].seen
              /\ Unread(d, i)' => Unread(d, i)
      BY <1>5
    <2>3. /\ WorksOn(c, i)' => KeyOf(c)' = k
          /\ Runs(c, i)' => call'[c].seen = {}
      BY <1>2 DEF WorksOn, Runs
    <2>4. CASE Keyed(i) /\ chats[i].external = k
      <3>1. PICK q \in WebKey \cup {NoWebKey} : OfKey(i, q)
        BY <1>1, <1>7 DEF WebInv, ChatsInv
      <3>2. q = k
        BY <2>4, <3>1 DEF OfKey
      <3>3. OfKey(i, k)'
        BY <1>4, <2>1, <2>2, <2>3, <3>1, <3>2 DEF OfKey
      <3>4. NothingOld(i)
        BY <1>1, <1>7 DEF WebInv, ChatsInv
      <3>5. NothingOld(i)'
        BY <2>2, <2>3, <2>4, <3>4 DEF NothingOld
      <3> QED
        BY <3>3, <3>5
    <2>5. CASE i \notin DOMAIN chats /\ ~LeftBehind(i)
      <3>1. /\ TextsOf(i) = {} /\ i \notin DOMAIN kept
            /\ \A d \in WebCall : ~WorksOn(d, i) /\ ~Runs(d, i)
        BY <2>5 DEF LeftBehind, WorksOn, Runs, Working
      <3>2. OfKey(i, k)'
        BY <1>4, <2>1, <2>2, <2>3, <3>1 DEF OfKey
      <3>3. NothingOld(i)'
        BY <2>2, <2>3, <3>1 DEF NothingOld
      <3> QED
        BY <3>2, <3>3
    <2> QED
      BY <2>1, <2>4, <2>5
  <1>8. ASSUME NEW j \in ChatId \ reused'
        PROVE  NothingOld(j)' /\ \E q \in WebKey \cup {NoWebKey} : OfKey(j, q)'
    <2>1. CASE ResolveOrCreate(k, i) /\ j = i
      BY <1>7, <1>8, <2>1
    <2>2. CASE j # i
      <3>1. Keyed(j)' => Keyed(j) /\ chats'[j] = chats[j]
        BY <1>1, <2>2 DEF Keyed
      <3> QED
        BY <1>6, <2>2, <3>1
    <2>3. CASE ~ResolveOrCreate(k, i)
      <3>1. call'[c].step \notin Working /\ chats' = chats
        BY <2>3
      <3>2. Keyed(j)' => Keyed(j) /\ chats'[j] = chats[j]
        BY <3>1 DEF Keyed
      <3> QED
        BY <1>6, <3>1, <3>2
    <2> QED
      BY <2>1, <2>2, <2>3
  <1>9. ASSUME NEW d \in WebCall,
               call'[d].step = "stored", call'[d].chat \notin reused', d \notin overtaken'
        PROVE  Findable(d)'
    <2>1. d # c
      BY <1>2, <1>9 DEF SendSteps
    <2>2. Findable(d)
      BY <1>1, <1>9, <2>1 DEF WebInv, ChatsInv
    <2> QED
      BY <2>1, <2>2 DEF Findable, TextsOf
  <1> QED
    BY <1>3, <1>8, <1>9 DEF ChatsInv

-----------------------------------------------------------------------------
\* What there is of a chat stays of one key while a request goes on with its
\* work: new rows are of the request's key, and so is what a run takes along.
LEMMA KeysKeep ==
  ASSUME NEW c \in WebCall, GoesOnWith(c), NEW i \in ChatId, NEW q, OfKey(i, q),
         Keyed(i)' => Keyed(i) /\ chats'[i].external = chats[i].external,
         \A m \in TextsOf(i)' : m \in TextsOf(i) \/ (WorksOn(c, i) /\ m.key = KeyOf(c)),
         i \in DOMAIN kept' => \A m \in kept'[i].has :
             \/ i \in DOMAIN kept /\ m \in kept[i].has
             \/ Runs(c, i) /\ m \in call[c].seen,
         Runs(c, i)' => call'[c].seen \subseteq call[c].seen \cup Context(i)
  PROVE  OfKey(i, q)'
  <1>1. \A d \in WebCall : WorksOn(d, i)' => KeyOf(d)' = q
    BY SameWork DEF OfKey
  <1>2. \A m \in TextsOf(i)' : m.key = q
    BY DEF OfKey
  <1>3. i \in DOMAIN kept' => \A m \in kept'[i].has : m.key = q
    BY DEF OfKey
  <1>4. \A m \in Context(i) : m.key = q
    BY DEF OfKey, Context
  <1>5. ASSUME NEW d \in WebCall, Runs(d, i)' PROVE \A m \in call'[d].seen : m.key = q
    <2>1. Runs(d, i) /\ \A m \in call[d].seen : m.key = q
      BY <1>5, SameWork DEF OfKey
    <2>2. CASE d = c
      BY <1>4, <1>5, <2>1, <2>2
    <2>3. CASE d # c
      BY <2>1, <2>3 DEF GoesOnWith
    <2> QED
      BY <2>2, <2>3
  <1>6. Keyed(i)' => chats'[i].external = q
    BY DEF OfKey
  <1> QED
    BY <1>1, <1>2, <1>3, <1>5, <1>6 DEF OfKey

\* A step that neither deletes nor takes rows into a run or a session keeps what
\* is known of the chats.
LEMMA GoesOnKeeps ==
  ASSUME WebInv, NEW c \in WebCall, GoesOnWith(c),
         reused' = reused, forgotten' = forgotten, overtaken \subseteq overtaken',
         texts \subseteq texts',
         \A m \in texts' \ texts : m.chat = call[c].chat /\ m.key = KeyOf(c) /\ call[c].step \in Working,
         \A i \in ChatId : Keyed(i)' => Keyed(i) /\ chats'[i].external = chats[i].external,
         \A i \in DOMAIN kept' :
             kept'[i].has = {} \/ (i \in DOMAIN kept /\ kept'[i].has = kept[i].has),
         \A i \in DOMAIN kept' :
             \/ kept'[i].has = {}
             \/ kept'[i] = kept[i]
             \/ \A d \in WebCall : call[d].step = "stored" /\ call[d].chat = i => d \in overtaken',
         call'[c].step \in SendSteps => call'[c].seen = call[c].seen,
         call'[c].step \in {"resolved", "stored"} => call[c].step \in {"resolved", "stored"},
         call'[c].step = "stored" => Findable(c)'
  PROVE  ChatsInv'
  <1>1. ASSUME NEW i \in ChatId \ reused'
        PROVE  \E q \in WebKey \cup {NoWebKey} : OfKey(i, q)'
    <2>1. PICK q \in WebKey \cup {NoWebKey} : OfKey(i, q)
      BY <1>1 DEF WebInv, ChatsInv
    <2>2. ASSUME NEW m \in TextsOf(i)'
          PROVE  m \in TextsOf(i) \/ (WorksOn(c, i) /\ m.key = KeyOf(c))
      <3>1. m \in texts' /\ m.chat = i
        BY <2>2 DEF TextsOf
      <3>2. CASE m \in texts
        BY <3>1, <3>2 DEF TextsOf
      <3>3. CASE m \notin texts
        BY <3>1, <3>3 DEF WorksOn
      <3> QED
        BY <3>2, <3>3
    <2>3. Runs(c, i)' => call'[c].seen \subseteq call[c].seen \cup Context(i)
      BY DEF Runs
    <2>4. OfKey(i, q)'
      BY <2>1, <2>2, <2>3, KeysKeep
    <2> QED
      BY <2>4
  <1>2. ASSUME NEW i \in ChatId \ reused'
        PROVE  NothingOld(i)'
    <2>1. NothingOld(i)
      BY <1>2 DEF WebInv, ChatsInv
    <2>2. \A d \in WebCall : /\ Unread(d, i)' => Unread(d, i)
                             /\ Runs(d, i)' => Runs(d, i) /\ call'[d].seen = call[d].seen
      BY DEF GoesOnWith, Unread, Runs
    <2>3. i \in DOMAIN kept' =>
             kept'[i].has = {} \/ (i \in DOMAIN kept /\ kept'[i].has = kept[i].has)
      OBVIOUS
    <2> QED
      BY <2>1, <2>2, <2>3 DEF NothingOld
  <1>3. ASSUME NEW d \in WebCall, call'[d].step = "stored",
               call'[d].chat \notin reused', d \notin overtaken'
        PROVE  Findable(d)'
    <2>1. CASE d = c
      BY <1>3, <2>1
    <2>2. CASE d # c
      <3>0. call'[d] = call[d] /\ d \notin overtaken
        BY <1>3, <2>2 DEF GoesOnWith
      <3>1. call'[d] = call[d] /\ Findable(d)
        BY <1>3, <3>0 DEF WebInv, ChatsInv
      <3>2. \A m \in TextsOf(call[d].chat) : m \in TextsOf(call[d].chat)'
        BY <3>0 DEF TextsOf
      <3>3. call[d].chat \in DOMAIN kept' =>
               \/ kept'[call[d].chat].has = {}
               \/ call[d].chat \in DOMAIN kept /\ kept'[call[d].chat] = kept[call[d].chat]
        BY <1>3, <3>1
      <3> QED
        BY <3>1, <3>2, <3>3 DEF Findable, TextsOf
    <2> QED
      BY <2>1, <2>2
  <1> QED
    BY <1>1, <1>2, <1>3 DEF ChatsInv

\* A deletion leaves nothing of its chat but the runs on it, and those that have
\* yet to load are on record.
LEMMA DeletionKeeps ==
  ASSUME WebInv, NEW c \in WebCall, GoesOnWith(c), NEW i \in ChatId,
         DeleteChatData(i), reused' = reused, clock' = clock,
         call'[c].step \notin SendSteps
  PROVE  RowsOK' /\ ChatsInv'
  <1>1. /\ DOMAIN chats' = DOMAIN chats \ {i} /\ \A j \in DOMAIN chats \ {i} : chats'[j] = chats[j]
        /\ DOMAIN kept' = DOMAIN kept \ {i} /\ \A j \in DOMAIN kept \ {i} : kept'[j] = kept[j]
        /\ texts' = texts \ TextsOf(i) /\ forgotten' = forgotten \cup TextsOf(i)
        /\ overtaken \subseteq overtaken'
        /\ \A d \in WebCall : call[d].step = "stored" /\ call[d].chat = i => d \in overtaken'
    BY DEF DeleteChatData
  <1>2. \A d \in WebCall : call'[d].step \in SendSteps => call'[d] = call[d]
    BY DEF GoesOnWith
  <1>3. RowsOK'
    <2>1. texts' \cup forgotten' = texts \cup forgotten /\ texts' \cap forgotten' = {}
      BY <1>1 DEF WebInv, RowsOK, TextsOf
    <2> QED
      BY <1>1, <1>2, <2>1 DEF WebInv, RowsOK
  <1>4. TextsOf(i)' = {} /\ \A j \in ChatId \ {i} : TextsOf(j)' = TextsOf(j)
    BY <1>1 DEF TextsOf
  <1>5. ASSUME NEW j \in ChatId \ reused'
        PROVE  \E q \in WebKey \cup {NoWebKey} : OfKey(j, q)'
    <2>1. PICK q \in WebKey \cup {NoWebKey} : OfKey(j, q)
      BY <1>5 DEF WebInv, ChatsInv
    <2>2. \A m \in TextsOf(j)' : m \in TextsOf(j)
      BY <1>1 DEF TextsOf
    <2>3. Keyed(j)' => Keyed(j) /\ chats'[j].external = chats[j].external
      BY <1>1 DEF Keyed
    <2>4. j \in DOMAIN kept' => \A m \in kept'[j].has : j \in DOMAIN kept /\ m \in kept[j].has
      BY <1>1
    <2>5. ~Runs(c, j)'
      BY DEF Runs
    <2>6. /\ \A m \in TextsOf(j)' : m \in TextsOf(j) \/ (WorksOn(c, j) /\ m.key = KeyOf(c))
          /\ j \in DOMAIN kept' => \A m \in kept'[j].has :
                \/ j \in DOMAIN kept /\ m \in kept[j].has
                \/ Runs(c, j) /\ m \in call[c].seen
          /\ Runs(c, j)' => call'[c].seen \subseteq call[c].seen \cup Context(j)
      BY <2>2, <2>4, <2>5
    <2>7. OfKey(j, q)'
      BY <2>1, <2>3, <2>6, KeysKeep
    <2> QED
      BY <2>7
  <1>6. ASSUME NEW j \in ChatId \ reused'
        PROVE  NothingOld(j)'
    <2>1. CASE j = i
      BY <1>1, <2>1 DEF NothingOld, Keyed
    <2>2. CASE j # i
      <3>1. NothingOld(j)
        BY <1>6 DEF WebInv, ChatsInv
      <3>2. Keyed(j)' => Keyed(j)
        BY <1>1 DEF Keyed
      <3>3. \A d \in WebCall : /\ Unread(d, j)' => Unread(d, j)
                               /\ Runs(d, j)' => Runs(d, j) /\ call'[d].seen = call[d].seen
        BY <1>2 DEF Unread, Runs
      <3>4. j \in DOMAIN kept' => /\ j \in DOMAIN kept /\ kept'[j].has = kept[j].has
                                  /\ kept[j].has \cap TextsOf(i) = {}
        BY <1>1, <2>2 DEF WebInv, RowsOK, TextsOf
      <3>5. \A d \in WebCall : Runs(d, j) => call[d].seen \cap TextsOf(i) = {}
        BY <2>2 DEF WebInv, RowsOK, TextsOf, Runs
      <3> QED
        BY <1>1, <3>1, <3>2, <3>3, <3>4, <3>5 DEF NothingOld
    <2> QED
      BY <2>1, <2>2
  <1>7. ASSUME NEW d \in WebCall, call'[d].step = "stored",
               call'[d].chat \notin reused', d \notin overtaken'
        PROVE  Findable(d)'
    <2>1. call'[d] = call[d] /\ call[d].chat # i /\ Findable(d)
      BY <1>1, <1>2, <1>7 DEF WebInv, ChatsInv, SendSteps
    <2>2. /\ \A m \in TextsOf(call[d].chat) : m \in TextsOf(call[d].chat)'
          /\ call[d].chat \in DOMAIN kept' =>
                call[d].chat \in DOMAIN kept /\ kept'[call[d].chat] = kept[call[d].chat]
      BY <1>1, <2>1 DEF TextsOf
    <2> QED
      BY <2>1, <2>2 DEF Findable, TextsOf
  <1> QED
    BY <1>3, <1>5, <1>6, <1>7 DEF ChatsInv

-----------------------------------------------------------------------------
\* A request that resolves a title to reset, delete, fork or set something.
LEMMA TitleKeeps ==
  ASSUME WebInv, NEW c \in WebCall, NEW k \in WebKey, NEW i \in ChatId,
         ResolveByTitle(k, i), UNCHANGED <<texts, kept, forgotten, overtaken>>,
         CallsTyped', call[c].step = "idle", \A d \in WebCall \ {c} : call'[d] = call[d],
         call'[c].chat = i, call'[c].step \in {"resetting", "deleting", "reading", "setting"}
  PROVE  WebInv'
  <1>1. ResolveOrCreate(k, i) \/ UNCHANGED <<chats, clock, reused>>
    BY DEF ResolveByTitle
  <1>2. call[c].step \notin Working /\ call'[c].step \notin Working
    BY DEF Working, SendSteps, ForkSteps
  <1>3. call'[c].step # "resolved"
    OBVIOUS
  <1>4. RowsOK' /\ ChatsInv'
    BY <1>1, <1>2, <1>3, ResolvesKeep
  <1>5. \A d \in WebCall : call'[d].step \in SendSteps => call[d].step \in SendSteps /\ call'[d].key = call[d].key
    BY <1>2 DEF Working
  <1>6. OneRunOfKey'
    BY <1>5 DEF WebInv, OneRunOfKey
  <1> QED
    BY <1>4, <1>6 DEF WebInv

\* What a request that begins is.
LEMMA BeginTyped ==
  ASSUME WebInv, NEW c \in WebCall, NEW k \in WebKey, NEW i \in ChatId, NEW r, Begins(c),
         Proceed(c, r), {"step", "key", "chat"} \subseteq DOMAIN r, DOMAIN r \subseteq {"step", "key", "chat", "to"},
         r.key = k, r.chat = i, r.step # "idle",
         r.step \in ForkSteps \cup {"reading", "targeting"} => "to" \in DOMAIN r /\ r.to \in WebKey
  PROVE  /\ CallsTyped' /\ call[c].step = "idle"
         /\ \A d \in WebCall \ {c} : call'[d] = call[d]
         /\ call'[c].chat = i /\ call'[c].step = r.step /\ call'[c].key = k /\ call'[c].seen = {}
  <1>1. CallsTyped /\ call[c].step = "idle"
    BY DEF WebInv, Begins
  <1>2. /\ call' = [d \in WebCall |-> call'[d]]
        /\ \A d \in WebCall \ {c} : call'[d] = call[d]
        /\ DOMAIN call'[c] = Fields
        /\ \A f \in Fields : call'[c][f] = IF f \in DOMAIN r THEN r[f] ELSE call[c][f]
    BY <1>1, Proceeds
  <1>3. /\ call'[c].chat = i /\ call'[c].step = r.step /\ call'[c].key = k
        /\ call'[c].seen = call[c].seen /\ call'[c].said = call[c].said
        /\ "to" \in DOMAIN r => call'[c].to = r.to
    BY <1>2 DEF Fields
  <1>4. call[c].seen = {} /\ call[c].said \in Nat
    BY <1>1 DEF CallsTyped
  <1>5. CallsTyped'
    BY <1>1, <1>2, <1>3, <1>4 DEF CallsTyped
  <1> QED
    BY <1>1, <1>2, <1>3, <1>4, <1>5

\* The resolving that a reset begins with keeps the invariant.
LEMMA ResetResolveKeeps ==
  ASSUME WebInv, NEW c \in WebCall, NEW k \in WebKey, ResetResolve(c, k)
  PROVE  WebInv'
  <1>1. PICK i \in ChatId : ResolveByTitle(k, i) /\ Proceed(c, [step |-> "resetting", key |-> k, chat |-> i])
    BY DEF ResetResolve
  <1>2. Begins(c) /\ UNCHANGED <<texts, kept, forgotten, overtaken>>
    BY DEF ResetResolve
  <1>3. /\ CallsTyped' /\ call[c].step = "idle"
        /\ \A d \in WebCall \ {c} : call'[d] = call[d]
        /\ call'[c].chat = i /\ call'[c].step = "resetting"
    BY <1>1, <1>2, BeginTyped DEF ForkSteps
  <1> QED
    BY <1>1, <1>2, <1>3, TitleKeeps

\* So does that of a deletion,
LEMMA DeleteResolveKeeps ==
  ASSUME WebInv, NEW c \in WebCall, NEW k \in WebKey, DeleteResolve(c, k)
  PROVE  WebInv'
  <1>1. PICK i \in ChatId : ResolveByTitle(k, i) /\ Proceed(c, [step |-> "deleting", key |-> k, chat |-> i])
    BY DEF DeleteResolve
  <1>2. Begins(c) /\ UNCHANGED <<texts, kept, forgotten, overtaken>>
    BY DEF DeleteResolve
  <1>3. /\ CallsTyped' /\ call[c].step = "idle"
        /\ \A d \in WebCall \ {c} : call'[d] = call[d]
        /\ call'[c].chat = i /\ call'[c].step = "deleting"
    BY <1>1, <1>2, BeginTyped DEF ForkSteps
  <1> QED
    BY <1>1, <1>2, <1>3, TitleKeeps

\* that of a change of settings,
LEMMA SettingResolveKeeps ==
  ASSUME WebInv, NEW c \in WebCall, NEW k \in WebKey, SettingResolve(c, k)
  PROVE  WebInv'
  <1>1. PICK i \in ChatId : ResolveByTitle(k, i) /\ Proceed(c, [step |-> "setting", key |-> k, chat |-> i])
    BY DEF SettingResolve
  <1>2. Begins(c) /\ UNCHANGED <<texts, kept, forgotten, overtaken>>
    BY DEF SettingResolve
  <1>3. /\ CallsTyped' /\ call[c].step = "idle"
        /\ \A d \in WebCall \ {c} : call'[d] = call[d]
        /\ call'[c].chat = i /\ call'[c].step = "setting"
    BY <1>1, <1>2, BeginTyped DEF ForkSteps
  <1> QED
    BY <1>1, <1>2, <1>3, TitleKeeps

\* that of a fork for its source,
LEMMA ForkResolveKeeps ==
  ASSUME WebInv, NEW c \in WebCall, NEW k \in WebKey, NEW t \in WebKey, ForkResolve(c, k, t)
  PROVE  WebInv'
  <1>1. PICK i \in ChatId : /\ ResolveByTitle(k, i)
                            /\ Proceed(c, [step |-> "reading", key |-> k, to |-> t, chat |-> i])
    BY DEF ForkResolve
  <1>2. Begins(c) /\ UNCHANGED <<texts, kept, forgotten, overtaken>>
    BY DEF ForkResolve
  <1>3. /\ CallsTyped' /\ call[c].step = "idle"
        /\ \A d \in WebCall \ {c} : call'[d] = call[d]
        /\ call'[c].chat = i /\ call'[c].step = "reading"
    BY <1>1, <1>2, BeginTyped DEF ForkSteps
  <1> QED
    BY <1>1, <1>2, <1>3, TitleKeeps

\* that of a message, which begins a run if no other of its key goes on,
LEMMA SendResolveKeeps ==
  ASSUME WebInv, NEW c \in WebCall, NEW k \in WebKey, SendResolve(c, k)
  PROVE  WebInv'
  <1>1. PICK i \in ChatId : ResolveOrCreate(k, i) /\ Proceed(c, [step |-> "resolved", key |-> k, chat |-> i])
    BY DEF SendResolve
  <1>2. /\ Begins(c) /\ UNCHANGED <<texts, kept, forgotten, overtaken>>
        /\ \A d \in WebCall : call[d].step \in SendSteps => call[d].key # k
    BY DEF SendResolve
  <1>3. /\ CallsTyped' /\ call[c].step = "idle"
        /\ \A d \in WebCall \ {c} : call'[d] = call[d]
        /\ call'[c].chat = i /\ call'[c].step = "resolved" /\ call'[c].key = k /\ call'[c].seen = {}
    BY <1>1, <1>2, BeginTyped DEF ForkSteps
  <1>4. /\ call[c].step \notin Working /\ KeyOf(c)' = k
        /\ call'[c].step \in {"resolved"} \cup ForkSteps
    BY <1>3 DEF Working, SendSteps, ForkSteps, KeyOf
  <1>5. RowsOK' /\ ChatsInv'
    BY <1>1, <1>2, <1>3, <1>4, ResolvesKeep
  <1>6. OneRunOfKey'
    BY <1>2, <1>3 DEF WebInv, OneRunOfKey
  <1> QED
    BY <1>3, <1>5, <1>6 DEF WebInv

\* and that of a fork for its target.
LEMMA ForkTargetKeeps ==
  ASSUME WebInv, NEW c \in WebCall, ForkResolvesTarget(c)
  PROVE  WebInv'
  <1>1. PICK i \in ChatId : ResolveOrCreate(call[c].to, i) /\ Proceed(c, [step |-> "clearing", chat |-> i])
    BY DEF ForkResolvesTarget
  <1>2. call[c].step = "targeting" /\ UNCHANGED <<texts, kept, forgotten, overtaken>>
    BY DEF ForkResolvesTarget
  <1>3. CallsTyped /\ call[c].to \in WebKey /\ call[c].said \in Nat
    BY <1>2 DEF WebInv, CallsTyped
  <1>4. /\ \A d \in WebCall \ {c} : call'[d] = call[d]
        /\ \A f \in Fields : call'[c][f] = IF f \in DOMAIN [step |-> "clearing", chat |-> i]
                                           THEN [step |-> "clearing", chat |-> i][f] ELSE call[c][f]
    BY <1>1, <1>3, Proceeds
  <1>5. /\ call'[c].chat = i /\ call'[c].step = "clearing" /\ call'[c].to = call[c].to
        /\ call'[c].key = call[c].key /\ call'[c].said = call[c].said
    BY <1>4 DEF Fields
  <1>6. CallsTyped'
    BY <1>1, <1>2, <1>3, <1>5, KeepsTypes
  <1>7. /\ call[c].step \notin Working /\ KeyOf(c)' = call[c].to
        /\ call'[c].step \in {"resolved"} \cup ForkSteps /\ call'[c].step # "resolved"
    BY <1>2, <1>5 DEF Working, SendSteps, ForkSteps, KeyOf
  <1>8. RowsOK' /\ ChatsInv'
    BY <1>1, <1>2, <1>3, <1>4, <1>5, <1>7, ResolvesKeep
  <1>9. \A d \in WebCall : call'[d].step \in SendSteps => call[d].step \in SendSteps /\ call'[d].key = call[d].key
    BY <1>4, <1>5 DEF SendSteps
  <1>10. OneRunOfKey'
    BY <1>9 DEF WebInv, OneRunOfKey
  <1> QED
    BY <1>6, <1>8, <1>10 DEF WebInv

-----------------------------------------------------------------------------
\* What a request that goes on is.
LEMMA GoOnTyped ==
  ASSUME WebInv, NEW c \in WebCall, NEW r, Proceed(c, r), call[c].step # "idle",
         DOMAIN r \subseteq {"step", "seen", "made", "said"},
         "said" \in DOMAIN r => r.said \in Nat,
         "step" \in DOMAIN r =>
            /\ r.step # "idle"
            /\ r.step \in SendSteps => call[c].step \in SendSteps
            /\ r.step \in ForkSteps => call[c].step \in ForkSteps
            /\ r.step \in {"reading", "targeting"} => call[c].step \in {"reading", "targeting"}
  PROVE  /\ CallsTyped' /\ GoesOnWith(c) /\ OneRunOfKey'
         /\ call'[c].step = IF "step" \in DOMAIN r THEN r.step ELSE call[c].step
         /\ call'[c].seen = IF "seen" \in DOMAIN r THEN r.seen ELSE call[c].seen
         /\ call'[c].said = IF "said" \in DOMAIN r THEN r.said ELSE call[c].said
  <1>1. CallsTyped /\ OneRunOfKey
    BY DEF WebInv
  <1>2. /\ \A d \in WebCall \ {c} : call'[d] = call[d]
        /\ \A f \in Fields : call'[c][f] = IF f \in DOMAIN r THEN r[f] ELSE call[c][f]
    BY <1>1, Proceeds
  <1>3. /\ call'[c].step = IF "step" \in DOMAIN r THEN r.step ELSE call[c].step
        /\ call'[c].seen = IF "seen" \in DOMAIN r THEN r.seen ELSE call[c].seen
        /\ call'[c].said = IF "said" \in DOMAIN r THEN r.said ELSE call[c].said
        /\ call'[c].chat = call[c].chat /\ call'[c].key = call[c].key /\ call'[c].to = call[c].to
    BY <1>2 DEF Fields
  <1>4. call[c].chat \in ChatId /\ call[c].said \in Nat
    BY <1>1 DEF CallsTyped
  <1>5. GoesOnWith(c)
    BY <1>2, <1>3 DEF GoesOnWith
  <1>6. call'[c].step # "idle" /\ call'[c].said \in Nat
    BY <1>3, <1>4
  <1>7. call'[c].step \in ForkSteps \cup {"reading", "targeting"} =>
            call[c].step \in ForkSteps \cup {"reading", "targeting"}
    BY <1>3
  <1>8. CallsTyped'
    BY <1>1, <1>3, <1>4, <1>6, <1>7, KeepsTypes
  <1> QED
    BY <1>1, <1>3, <1>5, <1>8, SameWork

\* The kinds of steps are apart.
LEMMA StepKinds ==
  /\ \A s \in {"resolved", "stored", "loaded", "answered"} : s \in SendSteps /\ s \in Working /\ s \notin ForkSteps
  /\ \A s \in {"clearing", "naming", "copying"} : s \in ForkSteps /\ s \in Working /\ s \notin SendSteps
  /\ \A s \in {"idle", "over", "resetting", "restoring", "deleting", "reading", "targeting", "setting"} :
        s \notin SendSteps /\ s \notin ForkSteps /\ s \notin Working
  BY DEF SendSteps, ForkSteps, Working

\* What GoesOnKeeps asks of sessions and chats that stay as they are.
LEMMA SameRows ==
  ASSUME UNCHANGED <<chats, kept>>
  PROVE  /\ \A i \in ChatId : Keyed(i)' => Keyed(i) /\ chats'[i].external = chats[i].external
         /\ \A i \in DOMAIN kept' : /\ kept'[i].has = {} \/ (i \in DOMAIN kept /\ kept'[i].has = kept[i].has)
                                    /\ kept'[i].has = {} \/ kept'[i] = kept[i]
  BY DEF Keyed

\* A message that is stored can be found by its run.
LEMMA SendStoreKeeps ==
  ASSUME WebInv, NEW c \in WebCall, SendStore(c)
  PROVE  WebInv'
  <1> DEFINE i == call[c].chat
             row == [chat |-> i, at |-> clock + 1, key |-> call[c].key, bot |-> FALSE]
  <1>1. /\ call[c].step = "resolved" /\ clock' = clock + 1 /\ texts' = texts \cup {row}
        /\ Proceed(c, [step |-> "stored", said |-> clock + 1])
        /\ UNCHANGED <<chats, kept, forgotten, reused, overtaken>>
    BY DEF SendStore, Stamped, webGhosts
  <1>2. RowsOK /\ clock \in Nat
    BY DEF WebInv, RowsOK
  <1>3. /\ CallsTyped' /\ GoesOnWith(c) /\ OneRunOfKey'
        /\ call'[c].step = "stored" /\ call'[c].seen = call[c].seen /\ call'[c].said = clock + 1
    BY <1>1, <1>2, GoOnTyped, StepKinds
  <1>4. row \notin forgotten /\ row.at = clock + 1 /\ row.chat = i /\ row.key = call[c].key /\ ~row.bot
    BY <1>2 DEF RowsOK
  <1>5. RowsOK'
    BY <1>1, <1>2, <1>3, <1>4, StepKinds DEF RowsOK, GoesOnWith
  <1>6. Findable(c)'
    BY <1>1, <1>2, <1>3, <1>4 DEF Findable, TextsOf, RowsOK, GoesOnWith
  <1>7. KeyOf(c) = call[c].key /\ call[c].step \in Working
    BY <1>1, StepKinds DEF KeyOf
  <1>8. ChatsInv'
    BY <1>1, <1>3, <1>4, <1>6, <1>7, SameRows, GoesOnKeeps
  <1> QED
    BY <1>3, <1>5, <1>8 DEF WebInv

\* A run reads its chat: what it has seen is of its chat's key.
LEMMA RunLoadsKeeps ==
  ASSUME WebInv, NEW c \in WebCall, RunLoads(c)
  PROVE  WebInv'
  <1> DEFINE i == call[c].chat
             next == IF Context(i) = {} THEN "answered" ELSE "loaded"
  <1>1. /\ call[c].step = "stored" /\ Proceed(c, [step |-> next, seen |-> Context(i)])
        /\ UNCHANGED <<chats, texts, kept, clock, forgotten, reused, overtaken>>
    BY DEF RunLoads, webGhosts
  <1>2. RowsOK /\ i \in ChatId
    BY <1>1 DEF WebInv, RowsOK, CallsTyped
  <1>3. next \in {"answered", "loaded"}
    OBVIOUS
  <1> HIDE DEF next
  <1>4. /\ CallsTyped' /\ GoesOnWith(c) /\ OneRunOfKey'
        /\ call'[c].step = next /\ call'[c].seen = Context(i)
    BY <1>1, <1>3, GoOnTyped, StepKinds
  <1>5. \A m \in Context(i) : m.chat = i
    BY <1>2 DEF Context, RowsOK, TextsOf
  <1>6. RowsOK'
    BY <1>1, <1>2, <1>4, <1>5 DEF RowsOK, GoesOnWith
  <1>7. ASSUME NEW j \in ChatId \ reused'
        PROVE  \E q \in WebKey \cup {NoWebKey} : OfKey(j, q)'
    <2>1. PICK q \in WebKey \cup {NoWebKey} : OfKey(j, q)
      BY <1>1, <1>7 DEF WebInv, ChatsInv
    <2>2. /\ \A m \in TextsOf(j)' : m \in TextsOf(j) \/ (WorksOn(c, j) /\ m.key = KeyOf(c))
          /\ j \in DOMAIN kept' => \A m \in kept'[j].has :
                \/ j \in DOMAIN kept /\ m \in kept[j].has
                \/ Runs(c, j) /\ m \in call[c].seen
          /\ Keyed(j)' => Keyed(j) /\ chats'[j].external = chats[j].external
      BY <1>1 DEF TextsOf, Keyed
    <2>3. Runs(c, j)' => call'[c].seen \subseteq call[c].seen \cup Context(j)
      BY <1>4 DEF Runs, GoesOnWith
    <2>4. OfKey(j, q)'
      BY <1>4, <2>1, <2>2, <2>3, KeysKeep
    <2> QED
      BY <2>4
  <1>8. ASSUME NEW j \in ChatId \ reused'
        PROVE  NothingOld(j)'
    <2>1. NothingOld(j)
      BY <1>1, <1>8 DEF WebInv, ChatsInv
    <2>2. \A d \in WebCall : Unread(d, j)' => Unread(d, j)
      BY <1>3, <1>4 DEF GoesOnWith, Unread, Runs
    <2>3. ASSUME Keyed(j), NEW d \in WebCall, Runs(d, j)'
          PROVE  call'[d].seen \cap forgotten = {}
      <3>1. CASE d # c
        BY <1>4, <2>1, <2>3, <3>1 DEF GoesOnWith, NothingOld, Runs
      <3>2. CASE d = c
        <4>1. j = i /\ Unread(c, i)
          BY <1>1, <1>4, <2>3, <3>2, StepKinds DEF GoesOnWith, Runs, Unread
        <4>2. i \in DOMAIN kept => kept[i].has \cap forgotten = {}
          BY <2>1, <4>1 DEF NothingOld
        <4>3. Context(i) \cap forgotten = {}
          BY <1>2, <4>2 DEF Context, RowsOK, TextsOf
        <4> QED
          BY <1>4, <3>2, <4>3
      <3> QED
        BY <3>1, <3>2
    <2> QED
      BY <1>1, <2>1, <2>2, <2>3 DEF NothingOld, Keyed
  <1>9. ASSUME NEW d \in WebCall, call'[d].step = "stored",
               call'[d].chat \notin reused', d \notin overtaken'
        PROVE  Findable(d)'
    <2>1. d # c /\ call'[d] = call[d]
      BY <1>3, <1>4, <1>9 DEF GoesOnWith
    <2>2. Findable(d)
      BY <1>1, <1>9, <2>1 DEF WebInv, ChatsInv
    <2> QED
      BY <1>1, <2>1, <2>2 DEF Findable, TextsOf
  <1> QED
    BY <1>4, <1>6, <1>7, <1>8, <1>9 DEF WebInv, ChatsInv

\* Two runs of a chat of one key are one.
LEMMA OneRunOfChat ==
  ASSUME WebInv, NEW i \in ChatId \ reused, NEW c \in WebCall, NEW d \in WebCall,
         Runs(c, i), Runs(d, i)
  PROVE  c = d
  <1>1. PICK q \in WebKey \cup {NoWebKey} : OfKey(i, q)
    BY DEF WebInv, ChatsInv
  <1>2. WorksOn(c, i) /\ WorksOn(d, i) /\ KeyOf(c) = call[c].key /\ KeyOf(d) = call[d].key
    BY DEF Runs, WorksOn, Working, KeyOf, SendSteps, ForkSteps
  <1>3. call[c].key = call[d].key
    BY <1>1, <1>2 DEF OfKey
  <1> QED
    BY <1>3 DEF WebInv, OneRunOfKey, Runs

\* A run's save keeps what it has seen, which nobody has deleted if the chat has a row.
LEMMA RunSavesKeeps ==
  ASSUME WebInv, NEW c \in WebCall, RunSaves(c)
  PROVE  WebInv'
  <1> DEFINE i == call[c].chat
  <1>1. /\ call[c].step = "loaded" /\ clock' = clock + 1
        /\ kept' = Put(kept, i, [has |-> call[c].seen, at |-> clock + 1])
        /\ Proceed(c, [step |-> "answered", seen |-> {}])
        /\ UNCHANGED <<chats, texts, forgotten, reused, overtaken>>
    BY DEF RunSaves, Stamped, SaveRow, webGhosts
  <1>2. RowsOK /\ clock \in Nat /\ i \in ChatId
    BY <1>1 DEF WebInv, RowsOK, CallsTyped
  <1>3. /\ CallsTyped' /\ GoesOnWith(c) /\ OneRunOfKey'
        /\ call'[c].step = "answered" /\ call'[c].seen = {}
    BY <1>1, GoOnTyped, StepKinds
  <1>4. /\ DOMAIN kept' = DOMAIN kept \cup {i} /\ kept'[i].has = call[c].seen /\ kept'[i].at = clock + 1
        /\ \A j \in DOMAIN kept \ {i} : kept'[j] = kept[j]
    BY <1>1 DEF Put
  <1>5. \A m \in call[c].seen : m.chat = i
    BY <1>1, <1>2, StepKinds DEF RowsOK
  <1>6. RowsOK'
    <2>1. \A j \in DOMAIN kept' : kept'[j].at \in 0 .. clock' /\ \A m \in kept'[j].has : m.chat = j
      BY <1>1, <1>2, <1>4, <1>5 DEF RowsOK
    <2>2. \A d \in WebCall : call'[d].step \in SendSteps => \A m \in call'[d].seen : m.chat = call'[d].chat
      BY <1>2, <1>3 DEF RowsOK, GoesOnWith
    <2>3. \A m \in texts' \cup forgotten' : m.at \in 0 .. clock'
      BY <1>1, <1>2 DEF RowsOK
    <2> QED
      BY <1>1, <1>2, <2>1, <2>2, <2>3 DEF RowsOK
  <1>7. Runs(c, i)
    BY <1>1, StepKinds DEF Runs
  <1>8. ASSUME NEW j \in ChatId \ reused'
        PROVE  \E q \in WebKey \cup {NoWebKey} : OfKey(j, q)'
    <2>1. PICK q \in WebKey \cup {NoWebKey} : OfKey(j, q)
      BY <1>1, <1>8 DEF WebInv, ChatsInv
    <2>2. j \in DOMAIN kept' => \A m \in kept'[j].has :
                \/ j \in DOMAIN kept /\ m \in kept[j].has
                \/ Runs(c, j) /\ m \in call[c].seen
      BY <1>4, <1>7
    <2>3. /\ \A m \in TextsOf(j)' : m \in TextsOf(j) \/ (WorksOn(c, j) /\ m.key = KeyOf(c))
          /\ Keyed(j)' => Keyed(j) /\ chats'[j].external = chats[j].external
          /\ Runs(c, j)' => call'[c].seen \subseteq call[c].seen \cup Context(j)
      BY <1>1, <1>3 DEF TextsOf, Keyed
    <2>4. OfKey(j, q)'
      BY <1>3, <2>1, <2>2, <2>3, KeysKeep
    <2> QED
      BY <2>4
  <1>9. \A d \in WebCall : d # c /\ i \notin reused => ~Runs(d, i)
    BY <1>2, <1>7, OneRunOfChat
  <1>10. ASSUME NEW j \in ChatId \ reused'
         PROVE  NothingOld(j)'
    <2>1. NothingOld(j)
      BY <1>1, <1>10 DEF WebInv, ChatsInv
    <2>2. \A d \in WebCall : Unread(d, j)' => d # c /\ Unread(d, j)
      BY <1>3 DEF GoesOnWith, Unread, Runs
    <2>3. Keyed(j)' => Keyed(j) /\ \A d \in WebCall : Runs(d, j)' => call'[d].seen \cap forgotten' = {}
      BY <1>1, <1>3, <2>1 DEF NothingOld, Keyed, GoesOnWith, Runs
    <2>4. CASE j # i
      BY <1>1, <1>4, <2>1, <2>2, <2>3, <2>4 DEF NothingOld
    <2>5. CASE j = i
      <3>1. \A d \in WebCall : ~Unread(d, j)'
        BY <1>1, <1>9, <1>10, <2>2, <2>5 DEF Unread
      <3>2. Keyed(j)' => call[c].seen \cap forgotten' = {}
        BY <1>1, <1>7, <2>1, <2>3, <2>5 DEF NothingOld
      <3> QED
        BY <1>4, <2>3, <2>5, <3>1, <3>2 DEF NothingOld
    <2> QED
      BY <2>4, <2>5
  <1>11. ASSUME NEW d \in WebCall, call'[d].step = "stored",
                call'[d].chat \notin reused', d \notin overtaken'
         PROVE  Findable(d)'
    <2>1. d # c /\ call'[d] = call[d]
      BY <1>3, <1>11 DEF GoesOnWith
    <2>2. Findable(d)
      BY <1>1, <1>11, <2>1 DEF WebInv, ChatsInv
    <2>3. call[d].chat # i
      BY <1>1, <1>9, <1>11, <2>1, StepKinds DEF Runs
    <2> QED
      BY <1>1, <1>4, <2>1, <2>2, <2>3 DEF Findable, TextsOf
  <1> QED
    BY <1>3, <1>6, <1>8, <1>10, <1>11 DEF WebInv, ChatsInv

\* A run that fails ends and changes no row.
LEMMA RunFailsKeeps ==
  ASSUME WebInv, NEW c \in WebCall, RunFails(c)
  PROVE  WebInv'
  <1>1. /\ call[c].step = "loaded" /\ Proceed(c, [step |-> "over", seen |-> {}])
        /\ UNCHANGED <<chats, texts, kept, clock, forgotten, reused, overtaken>>
    BY DEF RunFails, webGhosts
  <1>2. /\ CallsTyped' /\ GoesOnWith(c) /\ OneRunOfKey' /\ call'[c].step = "over"
    BY <1>1, GoOnTyped, StepKinds
  <1>3. RowsOK'
    BY <1>1, <1>2, StepKinds DEF WebInv, RowsOK, GoesOnWith
  <1>4. ChatsInv'
    BY <1>1, <1>2, StepKinds, SameRows, GoesOnKeeps
  <1> QED
    BY <1>2, <1>3, <1>4 DEF WebInv

\* The reply is a new text of the chat and of its key.
LEMMA DeliverReplyKeeps ==
  ASSUME WebInv, NEW c \in WebCall, DeliverReply(c)
  PROVE  WebInv'
  <1> DEFINE row == [chat |-> call[c].chat, at |-> clock + 1, key |-> call[c].key, bot |-> TRUE]
  <1>1. /\ call[c].step = "answered" /\ Proceed(c, [step |-> "over"])
        /\ UNCHANGED <<chats, kept, forgotten, reused, overtaken>>
        /\ \/ clock' = clock + 1 /\ texts' = texts \cup {row}
           \/ clock' = clock /\ texts' = texts
    BY DEF DeliverReply, Stamped, webGhosts
  <1>2. RowsOK /\ clock \in Nat
    BY DEF WebInv, RowsOK
  <1>3. /\ CallsTyped' /\ GoesOnWith(c) /\ OneRunOfKey' /\ call'[c].step = "over"
    BY <1>1, GoOnTyped, StepKinds
  <1>4. row \notin forgotten /\ row.at = clock + 1 /\ row.chat = call[c].chat /\ row.key = call[c].key
    BY <1>2 DEF RowsOK
  <1>5. RowsOK'
    BY <1>1, <1>2, <1>3, <1>4, StepKinds DEF RowsOK, GoesOnWith
  <1>6. KeyOf(c) = call[c].key /\ call[c].step \in Working
    BY <1>1, StepKinds DEF KeyOf
  <1>7. texts \subseteq texts' /\ \A m \in texts' \ texts : m = row
    BY <1>1
  <1>8. ChatsInv'
    BY <1>1, <1>3, <1>4, <1>6, <1>7, StepKinds, SameRows, GoesOnKeeps
  <1> QED
    BY <1>3, <1>5, <1>8 DEF WebInv

\* Deleting the data of a chat, by a reset, a deletion or a fork.
LEMMA ClearsKeep ==
  ASSUME WebInv, NEW c \in WebCall, ResetClears(c) \/ Deletes(c) \/ ForkClears(c)
  PROVE  WebInv'
  <1>1. DeleteChatData(call[c].chat) /\ clock' = clock /\ reused' = reused
    BY DEF ResetClears, Deletes, ForkClears
  <1>2. \/ call[c].step = "resetting" /\ Proceed(c, [step |-> "restoring"])
        \/ call[c].step = "deleting" /\ Proceed(c, [step |-> "over"])
        \/ call[c].step = "clearing" /\ Proceed(c, [step |-> "naming"])
    BY DEF ResetClears, Deletes, ForkClears
  <1>3. call[c].chat \in ChatId
    BY <1>2 DEF WebInv, CallsTyped
  <1>4. CallsTyped' /\ GoesOnWith(c) /\ OneRunOfKey' /\ call'[c].step \notin SendSteps
    <2>1. CASE call[c].step = "resetting" /\ Proceed(c, [step |-> "restoring"])
      BY <2>1, GoOnTyped, StepKinds
    <2>2. CASE call[c].step = "deleting" /\ Proceed(c, [step |-> "over"])
      BY <2>2, GoOnTyped, StepKinds
    <2>3. CASE call[c].step = "clearing" /\ Proceed(c, [step |-> "naming"])
      BY <2>3, GoOnTyped, StepKinds
    <2> QED
      BY <1>2, <2>1, <2>2, <2>3
  <1>5. RowsOK' /\ ChatsInv'
    BY <1>1, <1>3, <1>4, DeletionKeeps
  <1> QED
    BY <1>4, <1>5 DEF WebInv

\* A reset that finds no chat ends and changes no row.
LEMMA ResetFindsNoneKeeps ==
  ASSUME WebInv, NEW c \in WebCall, ResetFindsNone(c)
  PROVE  WebInv'
  <1>1. /\ call[c].step = "resetting" /\ Proceed(c, [step |-> "over"])
        /\ kept' = [j \in DOMAIN kept \ {call[c].chat} |-> kept[j]]
        /\ UNCHANGED <<chats, texts, clock, forgotten, reused, overtaken>>
    BY DEF ResetFindsNone, webGhosts
  <1>2. /\ CallsTyped' /\ GoesOnWith(c) /\ OneRunOfKey' /\ call'[c].step = "over"
    BY <1>1, GoOnTyped, StepKinds
  <1>3. DOMAIN kept' \subseteq DOMAIN kept /\ \A j \in DOMAIN kept' : kept'[j] = kept[j]
    BY <1>1
  <1>4. RowsOK'
    BY <1>1, <1>2, <1>3, StepKinds DEF WebInv, RowsOK, GoesOnWith
  <1>5. \A i \in ChatId : Keyed(i)' => Keyed(i) /\ chats'[i].external = chats[i].external
    BY <1>1 DEF Keyed
  <1>6. ChatsInv'
    BY <1>1, <1>2, <1>3, <1>5, StepKinds, GoesOnKeeps
  <1> QED
    BY <1>2, <1>4, <1>6 DEF WebInv

\* A row that is made anew has a number for its external id, which is no key.
LEMMA Upserted ==
  ASSUME RowsOK, NEW i \in ChatId, NEW k, UpsertChat(i, k)
  PROVE  /\ DOMAIN chats' \subseteq ChatId
         /\ \A j \in ChatId : Keyed(j)' => Keyed(j) /\ chats'[j].external = chats[j].external
  <1>1. /\ DOMAIN chats' = DOMAIN chats \cup {i}
        /\ \A j \in DOMAIN chats \ {i} : chats'[j] = chats[j]
        /\ chats'[i].external = IF i \in DOMAIN chats THEN chats[i].external ELSE i
    BY DEF UpsertChat, Put
  <1>2. i \notin WebKey
    BY WebAssumption DEF ChatId
  <1> QED
    BY <1>1, <1>2 DEF RowsOK, Keyed

\* Making the row of a cleared chat anew, by a reset or a fork.
LEMMA NamesKeep ==
  ASSUME WebInv, NEW c \in WebCall, ResetRestores(c) \/ ForkNames(c)
  PROVE  WebInv'
  <1>1. /\ clock' = clock + 1 /\ UNCHANGED <<texts, kept, forgotten, reused, overtaken>>
        /\ \E k : UpsertChat(call[c].chat, k)
    BY DEF ResetRestores, ForkNames, Stamped, webGhosts
  <1>2. \/ call[c].step = "restoring" /\ Proceed(c, [step |-> "over"])
        \/ call[c].step = "naming" /\ Proceed(c, [step |-> "copying"])
    BY DEF ResetRestores, ForkNames
  <1>3. RowsOK /\ clock \in Nat /\ call[c].chat \in ChatId
    BY <1>2 DEF WebInv, RowsOK, CallsTyped
  <1>4. /\ CallsTyped' /\ GoesOnWith(c) /\ OneRunOfKey'
        /\ call'[c].step \notin SendSteps
    <2>1. CASE call[c].step = "restoring" /\ Proceed(c, [step |-> "over"])
      BY <2>1, GoOnTyped, StepKinds
    <2>2. CASE call[c].step = "naming" /\ Proceed(c, [step |-> "copying"])
      BY <2>2, GoOnTyped, StepKinds
    <2> QED
      BY <1>2, <2>1, <2>2
  <1>5. /\ DOMAIN chats' \subseteq ChatId
        /\ \A j \in ChatId : Keyed(j)' => Keyed(j) /\ chats'[j].external = chats[j].external
    BY <1>1, <1>3, Upserted
  <1>6. RowsOK'
    BY <1>1, <1>3, <1>4, <1>5 DEF RowsOK, GoesOnWith
  <1>7. ChatsInv'
    BY <1>1, <1>4, <1>5, StepKinds, GoesOnKeeps
  <1> QED
    BY <1>4, <1>6, <1>7 DEF WebInv

\* A fork reads its source and changes no row.
LEMMA ForkReadsKeeps ==
  ASSUME WebInv, NEW c \in WebCall, ForkReads(c)
  PROVE  WebInv'
  <1>1. /\ call[c].step = "reading"
        /\ UNCHANGED <<chats, texts, kept, clock, forgotten, reused, overtaken>>
    BY DEF ForkReads, webGhosts
  <1>2. PICK s : Proceed(c, [step |-> "targeting", seen |-> s])
    BY DEF ForkReads
  <1>3. /\ CallsTyped' /\ GoesOnWith(c) /\ OneRunOfKey' /\ call'[c].step = "targeting"
    BY <1>1, <1>2, GoOnTyped, StepKinds
  <1>4. RowsOK'
    BY <1>1, <1>3, StepKinds DEF WebInv, RowsOK, GoesOnWith
  <1>5. ChatsInv'
    BY <1>1, <1>3, StepKinds, SameRows, GoesOnKeeps
  <1> QED
    BY <1>3, <1>4, <1>5 DEF WebInv

\* The copies of a fork are new texts of its target's key.
LEMMA ForkCopiesKeeps ==
  ASSUME WebInv, NEW c \in WebCall, ForkCopies(c)
  PROVE  WebInv'
  <1>1. PICK b : LET copy == [chat |-> call[c].chat, at |-> clock + 1, key |-> call[c].to, bot |-> b]
                 IN  /\ texts' = texts \cup {copy}
                     /\ \E s : Proceed(c, [seen |-> s, made |-> call[c].made \cup {copy}])
    BY DEF ForkCopies
  <1> DEFINE row == [chat |-> call[c].chat, at |-> clock + 1, key |-> call[c].to, bot |-> b]
  <1>2. /\ call[c].step = "copying" /\ clock' = clock + 1 /\ texts' = texts \cup {row}
        /\ UNCHANGED <<chats, kept, forgotten, reused, overtaken>>
    BY <1>1 DEF ForkCopies, Stamped, webGhosts
  <1>3. RowsOK /\ clock \in Nat
    BY DEF WebInv, RowsOK
  <1>4. PICK s, t : Proceed(c, [seen |-> s, made |-> t])
    BY <1>1
  <1>5. /\ CallsTyped' /\ GoesOnWith(c) /\ OneRunOfKey' /\ call'[c].step = "copying"
    BY <1>2, <1>4, GoOnTyped, StepKinds
  <1>6. row \notin forgotten /\ row.at = clock + 1 /\ row.chat = call[c].chat /\ row.key = call[c].to
    BY <1>3 DEF RowsOK
  <1>7. RowsOK'
    BY <1>2, <1>3, <1>5, <1>6, StepKinds DEF RowsOK, GoesOnWith
  <1>8. KeyOf(c) = call[c].to /\ call[c].step \in Working
    BY <1>2, StepKinds DEF KeyOf
  <1>9. ChatsInv'
    BY <1>2, <1>5, <1>6, <1>8, StepKinds, SameRows, GoesOnKeeps
  <1> QED
    BY <1>5, <1>7, <1>9 DEF WebInv

\* The fork's last step saves the session of the chat it has filled.
LEMMA ForkSavesKeeps ==
  ASSUME WebInv, NEW c \in WebCall, ForkSaves(c)
  PROVE  WebInv'
  <1>1. /\ call[c].step = "copying" /\ clock' = clock + 1
        /\ kept' = Put(kept, call[c].chat, [has |-> {}, at |-> clock + 1])
        /\ Proceed(c, [step |-> "over", made |-> {}])
        /\ UNCHANGED <<chats, texts, forgotten, reused, overtaken>>
    BY DEF ForkSaves, SaveRow, Stamped
  <1>2. /\ CallsTyped' /\ GoesOnWith(c) /\ OneRunOfKey' /\ call'[c].step = "over"
    BY <1>1, GoOnTyped, StepKinds
  <1>3. RowsOK /\ clock \in Nat
    BY DEF WebInv, RowsOK
  <1>4. \A j \in DOMAIN kept' : \/ kept'[j].has = {} /\ kept'[j].at = clock + 1
                                \/ j \in DOMAIN kept /\ kept'[j] = kept[j]
    BY <1>1 DEF Put
  <1>5. RowsOK'
    <2>0. clock' = clock + 1 /\ UNCHANGED <<chats, texts, forgotten>>
      BY <1>1
    <2>1. \A j \in DOMAIN kept' : kept'[j].at \in 0 .. clock' /\ \A m \in kept'[j].has : m.chat = j
      BY <1>3, <1>4, <2>0 DEF RowsOK
    <2>2. \A d \in WebCall : call'[d].step \in SendSteps => \A m \in call'[d].seen : m.chat = call'[d].chat
      BY <1>2, <1>3, StepKinds DEF RowsOK, GoesOnWith
    <2>3. \A m \in texts' \cup forgotten' : m.at \in 0 .. clock'
      BY <1>3, <2>0 DEF RowsOK
    <2> QED
      BY <1>3, <2>0, <2>1, <2>2, <2>3 DEF RowsOK
  <1>6. \A i \in ChatId : Keyed(i)' => Keyed(i) /\ chats'[i].external = chats[i].external
    BY <1>1 DEF Keyed
  <1>7. ChatsInv'
    BY <1>1, <1>2, <1>4, <1>6, StepKinds, GoesOnKeeps
  <1> QED
    BY <1>2, <1>5, <1>7 DEF WebInv

\* Saving a setting makes or stamps the session's row.
LEMMA SettingSavesKeeps ==
  ASSUME WebInv, NEW c \in WebCall, SettingSaves(c)
  PROVE  WebInv'
  <1> DEFINE i == call[c].chat
             has == IF i \in DOMAIN kept THEN kept[i].has ELSE {}
  <1>1. /\ call[c].step = "setting" /\ clock' = clock + 1
        /\ kept' = Put(kept, i, [has |-> has, at |-> clock + 1])
        /\ overtaken' = overtaken \cup {d \in WebCall : call[d].step = "stored" /\ call[d].chat = i}
        /\ Proceed(c, [step |-> "over"])
        /\ UNCHANGED <<chats, texts, forgotten, reused>>
    BY DEF SettingSaves, SaveRow, Stamped
  <1>2. /\ CallsTyped' /\ GoesOnWith(c) /\ OneRunOfKey' /\ call'[c].step = "over"
    BY <1>1, GoOnTyped, StepKinds
  <1>3. RowsOK /\ clock \in Nat
    BY DEF WebInv, RowsOK
  <1>4. \A j \in DOMAIN kept' :
            \/ j = i /\ kept'[j].has = has /\ kept'[j].at = clock + 1
            \/ j \in DOMAIN kept /\ kept'[j] = kept[j]
    BY <1>1 DEF Put
  <1>5. has = {} \/ (i \in DOMAIN kept /\ has = kept[i].has)
    OBVIOUS
  <1>6. \A m \in has : m.chat = i
    BY <1>3, <1>5 DEF RowsOK
  <1>7. RowsOK'
    <2>0. clock' = clock + 1 /\ UNCHANGED <<chats, texts, forgotten>>
      BY <1>1
    <2>1. \A j \in DOMAIN kept' : kept'[j].at \in 0 .. clock' /\ \A m \in kept'[j].has : m.chat = j
      <3> HIDE DEF has
      <3> QED
        BY <1>3, <1>4, <1>6, <2>0 DEF RowsOK
    <2>2. \A d \in WebCall : call'[d].step \in SendSteps => \A m \in call'[d].seen : m.chat = call'[d].chat
      BY <1>2, <1>3, StepKinds DEF RowsOK, GoesOnWith
    <2>3. \A m \in texts' \cup forgotten' : m.at \in 0 .. clock'
      BY <1>3, <2>0 DEF RowsOK
    <2> QED
      BY <1>3, <2>0, <2>1, <2>2, <2>3 DEF RowsOK
  <1>8. \A j \in DOMAIN kept' : kept'[j].has = {} \/ (j \in DOMAIN kept /\ kept'[j].has = kept[j].has)
    BY <1>4, <1>5
  <1>9. \A j \in DOMAIN kept' :
            \/ kept'[j].has = {}
            \/ kept'[j] = kept[j]
            \/ \A d \in WebCall : call[d].step = "stored" /\ call[d].chat = j => d \in overtaken'
    BY <1>1, <1>4
  <1>10. \A j \in ChatId : Keyed(j)' => Keyed(j) /\ chats'[j].external = chats[j].external
    BY <1>1 DEF Keyed
  <1>11. ChatsInv'
    BY <1>1, <1>2, <1>8, <1>9, <1>10, StepKinds, GoesOnKeeps
  <1> QED
    BY <1>2, <1>7, <1>11 DEF WebInv

-----------------------------------------------------------------------------
\* There are no chats and no requests.
LEMMA WebInitially == WebInit => WebInv
  <1> SUFFICES ASSUME WebInit PROVE WebInv
    OBVIOUS
  <1>1. \A c \in WebCall : call[c].step = "idle" /\ call[c].seen = {} /\ call[c].said = 0 /\ DOMAIN call[c] = Fields
    BY DEF WebInit, IdleCall, Fields
  <1>2. \A c \in WebCall : call[c].step \notin SendSteps /\ call[c].step \notin Working /\ call[c].step \notin ForkSteps
    BY <1>1, StepKinds
  <1>3. CallsTyped
    BY <1>1, <1>2 DEF CallsTyped, WebInit
  <1>4. DOMAIN chats = {} /\ DOMAIN kept = {} /\ texts = {} /\ forgotten = {} /\ clock = 0
    BY DEF WebInit, NoRows
  <1>5. RowsOK /\ OneRunOfKey
    BY <1>2, <1>4 DEF RowsOK, OneRunOfKey
  <1>6. \A i \in ChatId : OfKey(i, NoWebKey) /\ NothingOld(i)
    BY <1>2, <1>4 DEF OfKey, NothingOld, Keyed, TextsOf, WorksOn, Runs, Unread
  <1>7. ChatsInv
    BY <1>1, <1>6 DEF ChatsInv
  <1> QED
    BY <1>3, <1>5, <1>7 DEF WebInv

\* Every step keeps the invariant.
LEMMA WebStays == WebInv /\ [WebNext]_webVars => WebInv'
  <1> SUFFICES ASSUME WebInv, [WebNext]_webVars PROVE WebInv'
    OBVIOUS
  <1>1. CASE UNCHANGED webVars
    BY <1>1 DEF webVars, WebInv, CallsTyped, RowsOK, OneRunOfKey, ChatsInv, OfKey, NothingOld,
                Findable, Keyed, TextsOf, WorksOn, Runs, Unread, KeyOf
  <1>2. ASSUME NEW c \in WebCall, NEW k \in WebKey,
               \/ SendResolve(c, k) \/ ResetResolve(c, k) \/ DeleteResolve(c, k)
               \/ SettingResolve(c, k) \/ \E t \in WebKey : ForkResolve(c, k, t)
        PROVE  WebInv'
    BY <1>2, SendResolveKeeps, ResetResolveKeeps, DeleteResolveKeeps, SettingResolveKeeps,
       ForkResolveKeeps
  <1>3. ASSUME NEW c \in WebCall,
               SendStore(c) \/ RunLoads(c) \/ RunSaves(c) \/ RunFails(c) \/ DeliverReply(c)
        PROVE  WebInv'
    BY <1>3, SendStoreKeeps, RunLoadsKeeps, RunSavesKeeps, RunFailsKeeps, DeliverReplyKeeps
  <1>4. ASSUME NEW c \in WebCall,
               ResetClears(c) \/ ResetFindsNone(c) \/ ResetRestores(c) \/ Deletes(c)
        PROVE  WebInv'
    BY <1>4, ClearsKeep, ResetFindsNoneKeeps, NamesKeep
  <1>5. ASSUME NEW c \in WebCall,
               \/ ForkReads(c) \/ ForkResolvesTarget(c) \/ ForkClears(c) \/ ForkNames(c)
               \/ ForkCopies(c) \/ ForkSaves(c)
        PROVE  WebInv'
    BY <1>5, ForkReadsKeeps, ForkTargetKeeps, ClearsKeep, NamesKeep, ForkCopiesKeeps, ForkSavesKeeps
  <1>6. ASSUME NEW c \in WebCall, SettingSaves(c)
        PROVE  WebInv'
    BY <1>6, SettingSavesKeeps
  <1> QED
    BY <1>1, <1>2, <1>3, <1>4, <1>5, <1>6 DEF WebNext

\* What is known of chats, requests and rows is right in every state: what there
\* is of a chat is of one key, and a chat that can be sent to has nothing of what
\* was deleted.
THEOREM WebInvariant == WebSpec => []WebInv
  <1> QED
    BY WebInitially, WebStays, PTL DEF WebSpec

\* A request loads its context in no other step than RunLoads.
LEMMA OnlyRunsLoad ==
  ASSUME WebInv, [WebNext]_webVars, NEW c \in WebCall, Loads(c)
  PROVE  RunLoads(c)
  <1>1. call[c].step = "stored" /\ call'[c] # call[c]
    BY DEF Loads
  <1>2. PICK d \in WebCall :
            \/ \E k \in WebKey : \/ SendResolve(d, k) \/ ResetResolve(d, k) \/ DeleteResolve(d, k)
                                 \/ SettingResolve(d, k) \/ \E t \in WebKey : ForkResolve(d, k, t)
            \/ SendStore(d) \/ RunLoads(d) \/ RunSaves(d) \/ RunFails(d) \/ DeliverReply(d)
            \/ ResetClears(d) \/ ResetFindsNone(d) \/ ResetRestores(d) \/ Deletes(d)
            \/ ForkReads(d) \/ ForkResolvesTarget(d) \/ ForkClears(d) \/ ForkNames(d)
            \/ ForkCopies(d) \/ ForkSaves(d) \/ SettingSaves(d)
    BY <1>1 DEF WebNext, webVars
  <1>3. \E r : Proceed(d, r)
    <2>1. CASE \E k \in WebKey : \/ SendResolve(d, k) \/ ResetResolve(d, k) \/ DeleteResolve(d, k)
                                 \/ SettingResolve(d, k) \/ \E t \in WebKey : ForkResolve(d, k, t)
      BY <2>1 DEF SendResolve, ResetResolve, DeleteResolve, SettingResolve, ForkResolve
    <2>2. CASE \/ SendStore(d) \/ RunLoads(d) \/ RunSaves(d) \/ RunFails(d) \/ DeliverReply(d)
               \/ ResetClears(d) \/ ResetFindsNone(d) \/ ResetRestores(d) \/ Deletes(d)
      BY <2>2 DEF SendStore, RunLoads, RunSaves, RunFails, DeliverReply,
                  ResetClears, ResetFindsNone, ResetRestores, Deletes
    <2>3. CASE \/ ForkReads(d) \/ ForkResolvesTarget(d) \/ ForkClears(d) \/ ForkNames(d)
               \/ ForkCopies(d) \/ ForkSaves(d) \/ SettingSaves(d)
      BY <2>3 DEF ForkReads, ForkResolvesTarget, ForkClears, ForkNames, ForkCopies, ForkSaves, SettingSaves
    <2> QED
      BY <1>2, <2>1, <2>2, <2>3
  <1>4. d = c
    <2>1. CallsTyped
      BY DEF WebInv
    <2> QED
      BY <1>1, <1>3, <2>1, Proceeds
  <1> QED
    BY <1>1, <1>2, <1>4 DEF SendResolve, ResetResolve, DeleteResolve, SettingResolve, ForkResolve, Begins,
       SendStore, RunSaves, RunFails, DeliverReply, ResetClears, ResetFindsNone, ResetRestores,
       Deletes, ForkReads, ForkResolvesTarget, ForkClears, ForkNames, ForkCopies, ForkSaves, SettingSaves

\* What a run loads is of its own key and was not deleted, and the message it
\* answers is among it.
LEMMA LoadsOwn ==
  ASSUME WebInv, NEW c \in WebCall, RunLoads(c), call[c].chat \notin reused
  PROVE  /\ \A m \in call'[c].seen : m.key = call[c].key /\ m \notin forgotten
         /\ c \in overtaken \/ \E m \in call'[c].seen : m.at = call[c].said
  <1> DEFINE i == call[c].chat
             next == IF Context(i) = {} THEN "answered" ELSE "loaded"
  <1>1. /\ call[c].step = "stored" /\ Proceed(c, [step |-> next, seen |-> Context(i)])
    BY DEF RunLoads
  <1> HIDE DEF next
  <1>2. CallsTyped /\ RowsOK
    BY DEF WebInv
  <1>3. call'[c].seen = Context(i)
    BY <1>1, <1>2, Proceeds DEF Fields
  <1>4. i \in ChatId \ reused /\ Unread(c, i) /\ WorksOn(c, i) /\ KeyOf(c) = call[c].key
    BY <1>1, <1>2, StepKinds DEF CallsTyped, Unread, Runs, WorksOn, KeyOf
  <1>5. PICK q \in WebKey \cup {NoWebKey} : OfKey(i, q)
    BY <1>4 DEF WebInv, ChatsInv
  <1>6. \A m \in Context(i) : m.key = call[c].key
    BY <1>4, <1>5 DEF OfKey, Context
  <1>7. NothingOld(i)
    BY <1>4 DEF WebInv, ChatsInv
  <1>8. i \in DOMAIN kept => kept[i].has \cap forgotten = {}
    BY <1>4, <1>7 DEF NothingOld
  <1>9. Context(i) \cap forgotten = {}
    BY <1>2, <1>8 DEF Context, TextsOf, RowsOK
  <1>10. c \notin overtaken => \E m \in Context(i) : m.at = call[c].said
    <2>1. SUFFICES ASSUME c \notin overtaken PROVE \E m \in Context(i) : m.at = call[c].said
      OBVIOUS
    <2>2. Findable(c)
      BY <1>1, <1>4, <2>1 DEF WebInv, ChatsInv
    <2>3. PICK m \in TextsOf(i) : m.at = call[c].said /\ ~m.bot
      BY <2>2 DEF Findable
    <2>4. i \in DOMAIN kept => kept[i].has = {} \/ m.at > kept[i].at
      <3>1. call[c].said \in Nat /\ (i \in DOMAIN kept => kept[i].at \in 0 .. clock)
        BY <1>2 DEF CallsTyped, RowsOK
      <3>2. i \in DOMAIN kept => kept[i].has = {} \/ kept[i].at < call[c].said
        BY <2>2 DEF Findable
      <3>3. clock \in Nat
        BY <1>2 DEF RowsOK
      <3> QED
        BY <2>3, <3>1, <3>2, <3>3
    <2> QED
      BY <2>3, <2>4 DEF Context
  <1> QED
    BY <1>3, <1>6, <1>9, <1>10

\* One step of ContextsAreOwn.
LoadsWhatIsOwn ==
    \A c \in WebCall :
        Loads(c) /\ call[c].chat \notin reused =>
           /\ \A m \in call[c]'.seen : m.key = call[c].key /\ m \notin forgotten
           /\ c \in overtaken \/ \E m \in call[c]'.seen : m.at = call[c].said

\* Runs begin with what is theirs: messages of their own session that nobody has
\* deleted, the one they answer among them, whatever resets, deletions, forks and
\* settings come between their steps. What is excused is what the property names.
THEOREM ContextsOwn == WebSpec => ContextsAreOwn
  <1>1. WebInv /\ [WebNext]_webVars => [LoadsWhatIsOwn]_webVars
    BY OnlyRunsLoad, LoadsOwn DEF LoadsWhatIsOwn
  <1> QED
    BY <1>1, WebInvariant, PTL DEF WebSpec, ContextsAreOwn, LoadsWhatIsOwn

-----------------------------------------------------------------------------
(***************************************************************************)
(* The types of the web's sessions                                         *)
(***************************************************************************)
\* What each field of a request holds.
FieldType ==
    [step |-> WebStep, key |-> WebKey \cup {NoWebKey}, to |-> WebKey \cup {NoWebKey},
     chat |-> ChatId \cup {0}, seen |-> SUBSET WebText, made |-> SUBSET WebText, said |-> Time]

ChatRow == [title : WebKey, external : WebKey \cup ChatId, at : Time]

CallTypes == \A c \in WebCall : \A f \in Fields : call[c][f] \in FieldType[f]
ChatTypes ==
    /\ DOMAIN chats \subseteq ChatId /\ \A i \in DOMAIN chats : chats[i] \in ChatRow
    /\ clock \in Time /\ reused \subseteq ChatId
TextTypes == texts \subseteq WebText /\ forgotten \subseteq WebText
KeptTypes ==
    /\ DOMAIN kept \subseteq ChatId
    /\ \A i \in DOMAIN kept : kept[i].has \subseteq WebText /\ kept[i].at \in Time
ForkTypes == DOMAIN forked = WebKey /\ \A k \in WebKey : forked[k] \subseteq texts

\* The inductive invariant of the types.
WebTypeInv ==
    /\ WebInv /\ CallTypes /\ ChatTypes /\ TextTypes /\ KeptTypes /\ ForkTypes
    /\ overtaken \subseteq WebCall

\* A request that goes on with fields of their types has them all.
LEMMA ProceedTyped ==
  ASSUME CallsTyped, CallTypes, NEW c \in WebCall, NEW r, Proceed(c, r),
         \A f \in DOMAIN r : r[f] \in FieldType[f]
  PROVE  CallTypes'
  <1>1. /\ \A d \in WebCall \ {c} : call'[d] = call[d]
        /\ \A f \in Fields : call'[c][f] = IF f \in DOMAIN r THEN r[f] ELSE call[c][f]
    BY Proceeds
  <1>2. ASSUME NEW d \in WebCall, NEW f \in Fields PROVE call'[d][f] \in FieldType[f]
    <2>1. call[d][f] \in FieldType[f]
      BY DEF CallTypes
    <2> QED
      BY <1>1, <2>1
  <1> QED
    BY <1>2 DEF CallTypes

\* What a request has by its fields.
LEMMA CallHas ==
  ASSUME CallTypes, NEW c \in WebCall
  PROVE  call[c].seen \subseteq WebText /\ call[c].made \subseteq WebText
  <1>1. call[c].seen \in FieldType["seen"] /\ call[c].made \in FieldType["made"]
    BY DEF CallTypes, Fields
  <1> QED
    BY <1>1 DEF FieldType

\* A timestamp that can be given is one.
LEMMA StampTyped ==
  ASSUME clock \in Time, Stamped
  PROVE  clock + 1 \in Time /\ clock' = clock + 1 /\ clock' \in Time
  BY WebAssumption DEF Stamped, Time

\* Finding or making a chat leaves rows of the table.
LEMMA ResolveTyped ==
  ASSUME ChatTypes, NEW k \in WebKey, NEW i \in ChatId, ResolveOrCreate(k, i) \/ ResolveByTitle(k, i)
  PROVE  ChatTypes'
  <1>1. CASE UNCHANGED <<chats, clock, reused>>
    BY <1>1 DEF ChatTypes
  <1>2. CASE ResolveOrCreate(k, i)
    <2>1. clock + 1 \in Time /\ clock' \in Time
      BY <1>2, StampTyped DEF ChatTypes, ResolveOrCreate
    <2>2. chats' = Put(chats, i, [title |-> k, external |-> k, at |-> clock + 1])
      BY <1>2 DEF ResolveOrCreate
    <2>3. [title |-> k, external |-> k, at |-> clock + 1] \in ChatRow
      BY <2>1 DEF ChatRow
    <2>4. DOMAIN chats' \subseteq ChatId /\ \A j \in DOMAIN chats' : chats'[j] \in ChatRow
      BY <2>2, <2>3 DEF ChatTypes, Put
    <2>5. reused' \subseteq ChatId
      BY <1>2 DEF ResolveOrCreate, ChatTypes
    <2> QED
      BY <2>1, <2>4, <2>5 DEF ChatTypes
  <1> QED
    BY <1>1, <1>2 DEF ResolveByTitle

\* A row that is made anew or touched is one of the table.
LEMMA UpsertTyped ==
  ASSUME ChatTypes, NEW k \in WebKey, NEW i \in ChatId, UpsertChat(i, k), Stamped, reused' = reused
  PROVE  ChatTypes'
  <1> DEFINE row == [title |-> k, external |-> IF i \in DOMAIN chats THEN chats[i].external ELSE i,
                     at |-> clock + 1]
  <1>1. clock + 1 \in Time /\ clock' \in Time
    BY StampTyped DEF ChatTypes
  <1>2. row \in ChatRow
    BY <1>1 DEF ChatRow, ChatTypes
  <1>3. chats' = Put(chats, i, row)
    BY DEF UpsertChat
  <1> HIDE DEF row
  <1>4. DOMAIN chats' \subseteq ChatId /\ \A j \in DOMAIN chats' : chats'[j] \in ChatRow
    BY <1>2, <1>3 DEF ChatTypes, Put
  <1> QED
    BY <1>1, <1>4 DEF ChatTypes

\* Deleting a chat's data deletes it from what a fork has copied, too.
LEMMA DeletionTyped ==
  ASSUME ChatTypes, TextTypes, KeptTypes, ForkTypes, overtaken \subseteq WebCall,
         NEW i \in ChatId, DeleteChatData(i), UNCHANGED <<clock, reused>>
  PROVE  ChatTypes' /\ TextTypes' /\ KeptTypes' /\ ForkTypes' /\ overtaken' \subseteq WebCall
  <1>1. ChatTypes'
    BY DEF DeleteChatData, ChatTypes
  <1>2. TextTypes'
    BY DEF DeleteChatData, TextTypes, TextsOf
  <1>3. KeptTypes'
    BY DEF DeleteChatData, KeptTypes
  <1>4. ForkTypes'
    BY DEF DeleteChatData, ForkTypes
  <1>5. overtaken' \subseteq WebCall
    BY DEF DeleteChatData
  <1> QED
    BY <1>1, <1>2, <1>3, <1>4, <1>5

\* A message that is stored is a row of messages.
LEMMA StoredTyped ==
  ASSUME ChatTypes, TextTypes, ForkTypes, NEW i \in ChatId, NEW k \in WebKey, NEW b \in BOOLEAN,
         Stamped, UNCHANGED <<chats, reused, forgotten, forked>>,
         texts' = texts \cup {[chat |-> i, at |-> clock + 1, key |-> k, bot |-> b]}
  PROVE  ChatTypes' /\ TextTypes' /\ ForkTypes'
  <1>1. clock + 1 \in Time /\ clock' \in Time
    BY StampTyped DEF ChatTypes
  <1>2. [chat |-> i, at |-> clock + 1, key |-> k, bot |-> b] \in WebText
    BY <1>1 DEF WebText
  <1> QED
    BY <1>1, <1>2 DEF ChatTypes, TextTypes, ForkTypes

\* A session that is saved is a row of sessions.
LEMMA SavedTyped ==
  ASSUME ChatTypes, KeptTypes, NEW i \in ChatId, NEW has \in SUBSET WebText, SaveRow(i, has), Stamped,
         UNCHANGED <<chats, reused>>
  PROVE  ChatTypes' /\ KeptTypes'
  <1>1. clock + 1 \in Time /\ clock' \in Time
    BY StampTyped DEF ChatTypes
  <1>2. kept' = Put(kept, i, [has |-> has, at |-> clock + 1])
    BY DEF SaveRow
  <1>3. KeptTypes'
    BY <1>1, <1>2 DEF KeptTypes, Put
  <1> QED
    BY <1>1, <1>3 DEF ChatTypes

\* What a run begins with are messages.
LEMMA ContextTyped ==
  ASSUME TextTypes, KeptTypes, NEW i
  PROVE  Context(i) \subseteq WebText
  BY DEF TextTypes, KeptTypes, Context, TextsOf

\* The first statement of a request.
LEMMA BeginningTyped ==
  ASSUME WebTypeInv, NEW c \in WebCall, NEW k \in WebKey,
         \/ SendResolve(c, k) \/ ResetResolve(c, k) \/ DeleteResolve(c, k) \/ SettingResolve(c, k)
         \/ \E t \in WebKey : ForkResolve(c, k, t)
  PROVE  /\ CallTypes' /\ ChatTypes' /\ TextTypes' /\ KeptTypes' /\ ForkTypes'
         /\ overtaken' \subseteq WebCall
  <1> DEFINE Typed(r) == \A f \in DOMAIN r : r[f] \in FieldType[f]
  <1>1. PICK i \in ChatId : /\ ResolveOrCreate(k, i) \/ ResolveByTitle(k, i)
                            /\ \E r : Proceed(c, r) /\ Typed(r)
    <2>1. ASSUME NEW s \in {"resolved", "resetting", "deleting", "setting"}, NEW i \in ChatId
          PROVE  Typed([step |-> s, key |-> k, chat |-> i])
      BY <2>1 DEF FieldType, WebStep, SendSteps
    <2>2. ASSUME NEW t \in WebKey, NEW i \in ChatId
          PROVE  Typed([step |-> "reading", key |-> k, to |-> t, chat |-> i])
      BY <2>2 DEF FieldType, WebStep
    <2> HIDE DEF Typed
    <2>3. CASE SendResolve(c, k)
      <3>1. PICK i \in ChatId : /\ ResolveOrCreate(k, i)
                                /\ Proceed(c, [step |-> "resolved", key |-> k, chat |-> i])
        BY <2>3 DEF SendResolve
      <3> QED
        BY <2>1, <3>1
    <2>4. CASE ResetResolve(c, k)
      <3>1. PICK i \in ChatId : /\ ResolveByTitle(k, i)
                                /\ Proceed(c, [step |-> "resetting", key |-> k, chat |-> i])
        BY <2>4 DEF ResetResolve
      <3> QED
        BY <2>1, <3>1
    <2>5. CASE DeleteResolve(c, k)
      <3>1. PICK i \in ChatId : /\ ResolveByTitle(k, i)
                                /\ Proceed(c, [step |-> "deleting", key |-> k, chat |-> i])
        BY <2>5 DEF DeleteResolve
      <3> QED
        BY <2>1, <3>1
    <2>6. CASE SettingResolve(c, k)
      <3>1. PICK i \in ChatId : /\ ResolveByTitle(k, i)
                                /\ Proceed(c, [step |-> "setting", key |-> k, chat |-> i])
        BY <2>6 DEF SettingResolve
      <3> QED
        BY <2>1, <3>1
    <2>7. ASSUME NEW t \in WebKey, ForkResolve(c, k, t)
          PROVE  \E i \in ChatId : /\ ResolveOrCreate(k, i) \/ ResolveByTitle(k, i)
                                   /\ \E r : Proceed(c, r) /\ Typed(r)
      <3>1. PICK i \in ChatId : /\ ResolveByTitle(k, i)
                                /\ Proceed(c, [step |-> "reading", key |-> k, to |-> t, chat |-> i])
        BY <2>7 DEF ForkResolve
      <3> QED
        BY <2>2, <3>1
    <2> QED
      BY <2>3, <2>4, <2>5, <2>6, <2>7
  <1>2. UNCHANGED <<texts, kept, forgotten, forked, overtaken>>
    BY DEF SendResolve, ResetResolve, DeleteResolve, SettingResolve, ForkResolve
  <1>3. CallTypes'
    BY <1>1, ProceedTyped DEF WebTypeInv, WebInv
  <1>4. ChatTypes'
    BY <1>1, ResolveTyped DEF WebTypeInv
  <1> QED
    BY <1>2, <1>3, <1>4 DEF WebTypeInv, TextTypes, KeptTypes, ForkTypes

\* A run's statements: storing, loading, saving or failing, and answering.
LEMMA RunTyped ==
  ASSUME WebTypeInv, NEW c \in WebCall,
         SendStore(c) \/ RunLoads(c) \/ RunSaves(c) \/ RunFails(c) \/ DeliverReply(c)
  PROVE  /\ CallTypes' /\ ChatTypes' /\ TextTypes' /\ KeptTypes' /\ ForkTypes'
         /\ overtaken' \subseteq WebCall
  <1>0. /\ CallsTyped /\ CallTypes /\ ChatTypes /\ TextTypes /\ KeptTypes /\ ForkTypes
        /\ overtaken \subseteq WebCall
    BY DEF WebTypeInv, WebInv
  <1> DEFINE i == call[c].chat
             k == call[c].key
  <1>1. call[c].step # "idle" => i \in ChatId /\ k \in WebKey
    BY <1>0 DEF CallsTyped
  <1>2. call[c].seen \subseteq WebText
    BY <1>0, CallHas
  <1> HIDE DEF i, k
  <1>3. CASE SendStore(c)
    <2>1. /\ i \in ChatId /\ k \in WebKey /\ Stamped
          /\ UNCHANGED <<chats, kept, reused, forgotten, forked, overtaken>>
          /\ texts' = texts \cup {[chat |-> i, at |-> clock + 1, key |-> k, bot |-> FALSE]}
          /\ Proceed(c, [step |-> "stored", said |-> clock + 1])
      BY <1>1, <1>3 DEF SendStore, webGhosts, i, k
    <2>2. ChatTypes' /\ TextTypes' /\ ForkTypes'
      BY <1>0, <2>1, StoredTyped
    <2>3. clock + 1 \in Time
      BY <1>0, <2>1, StampTyped DEF ChatTypes
    <2>4. CallTypes'
      <3> DEFINE r == [step |-> "stored", said |-> clock + 1]
      <3>1. \A f \in DOMAIN r : r[f] \in FieldType[f]
        BY <2>3 DEF FieldType, WebStep, SendSteps
      <3> HIDE DEF r
      <3> QED
        BY <1>0, <2>1, <3>1, ProceedTyped DEF r
    <2> QED
      BY <1>0, <2>1, <2>2, <2>4 DEF KeptTypes
  <1>4. CASE RunLoads(c)
    <2> DEFINE r == [step |-> IF Context(i) = {} THEN "answered" ELSE "loaded", seen |-> Context(i)]
    <2>1. UNCHANGED <<chats, texts, kept, clock, webGhosts>> /\ Proceed(c, r)
      BY <1>4 DEF RunLoads, i
    <2>2. Context(i) \subseteq WebText
      BY <1>0, ContextTyped
    <2>3. \A f \in DOMAIN r : r[f] \in FieldType[f]
      BY <2>2 DEF FieldType, WebStep, SendSteps
    <2> HIDE DEF r
    <2>4. CallTypes'
      BY <1>0, <2>1, <2>3, ProceedTyped
    <2> QED
      BY <1>0, <2>1, <2>4 DEF webGhosts, ChatTypes, TextTypes, KeptTypes, ForkTypes
  <1>5. CASE RunSaves(c)
    <2> DEFINE r == [step |-> "answered", seen |-> {}]
    <2>1. /\ i \in ChatId /\ Stamped /\ SaveRow(i, call[c].seen) /\ Proceed(c, r)
          /\ UNCHANGED <<chats, texts, reused, forgotten, forked, overtaken>>
      BY <1>1, <1>5 DEF RunSaves, webGhosts, i
    <2>2. ChatTypes' /\ KeptTypes'
      BY <1>0, <1>2, <2>1, SavedTyped
    <2>3. \A f \in DOMAIN r : r[f] \in FieldType[f]
      BY DEF FieldType, WebStep, SendSteps
    <2> HIDE DEF r
    <2>4. CallTypes'
      BY <1>0, <2>1, <2>3, ProceedTyped
    <2> QED
      BY <1>0, <2>1, <2>2, <2>4 DEF TextTypes, ForkTypes
  <1>6. CASE RunFails(c)
    <2> DEFINE r == [step |-> "over", seen |-> {}]
    <2>1. UNCHANGED <<chats, texts, kept, clock, webGhosts>> /\ Proceed(c, r)
      BY <1>6 DEF RunFails
    <2>3. \A f \in DOMAIN r : r[f] \in FieldType[f]
      BY DEF FieldType, WebStep
    <2> HIDE DEF r
    <2>4. CallTypes'
      BY <1>0, <2>1, <2>3, ProceedTyped
    <2> QED
      BY <1>0, <2>1, <2>4 DEF webGhosts, ChatTypes, TextTypes, KeptTypes, ForkTypes
  <1>7. CASE DeliverReply(c)
    <2> DEFINE r == [step |-> "over"]
    <2>1. /\ i \in ChatId /\ k \in WebKey /\ Proceed(c, r)
          /\ UNCHANGED <<chats, kept, reused, forgotten, forked, overtaken>>
          /\ \/ Stamped /\ texts' = texts \cup {[chat |-> i, at |-> clock + 1, key |-> k, bot |-> TRUE]}
             \/ UNCHANGED <<clock, texts>>
      BY <1>1, <1>7 DEF DeliverReply, webGhosts, i, k
    <2>2. ChatTypes' /\ TextTypes' /\ ForkTypes'
      <3>1. CASE UNCHANGED <<clock, texts>>
        BY <1>0, <2>1, <3>1 DEF ChatTypes, TextTypes, ForkTypes
      <3>2. CASE Stamped /\ texts' = texts \cup {[chat |-> i, at |-> clock + 1, key |-> k, bot |-> TRUE]}
        BY <1>0, <2>1, <3>2, StoredTyped
      <3> QED
        BY <2>1, <3>1, <3>2
    <2>3. \A f \in DOMAIN r : r[f] \in FieldType[f]
      BY DEF FieldType, WebStep
    <2> HIDE DEF r
    <2>4. CallTypes'
      BY <1>0, <2>1, <2>3, ProceedTyped
    <2> QED
      BY <1>0, <2>1, <2>2, <2>4 DEF KeptTypes
  <1> QED
    BY <1>3, <1>4, <1>5, <1>6, <1>7

\* Resets and deletions.
LEMMA ResetTyped ==
  ASSUME WebTypeInv, NEW c \in WebCall,
         ResetClears(c) \/ ResetFindsNone(c) \/ ResetRestores(c) \/ Deletes(c) \/ ForkClears(c)
         \/ ForkNames(c)
  PROVE  /\ CallTypes' /\ ChatTypes' /\ TextTypes' /\ KeptTypes' /\ ForkTypes'
         /\ overtaken' \subseteq WebCall
  <1>0. /\ CallsTyped /\ CallTypes /\ ChatTypes /\ TextTypes /\ KeptTypes /\ ForkTypes
        /\ overtaken \subseteq WebCall
    BY DEF WebTypeInv, WebInv
  <1> DEFINE i == call[c].chat
  <1>1. /\ call[c].step # "idle" => i \in ChatId /\ call[c].key \in WebKey
        /\ call[c].step = "naming" => call[c].to \in WebKey
    BY <1>0 DEF CallsTyped, ForkSteps
  <1> HIDE DEF i
  <1>2. ASSUME NEW s \in WebStep, Proceed(c, [step |-> s]) PROVE CallTypes'
    <2> DEFINE r == [step |-> s]
    <2>1. \A f \in DOMAIN r : r[f] \in FieldType[f]
      BY DEF FieldType
    <2> HIDE DEF r
    <2> QED
      BY <1>0, <1>2, <2>1, ProceedTyped DEF r
  <1>3. CASE ResetClears(c) \/ Deletes(c) \/ ForkClears(c)
    <2>1. /\ i \in ChatId /\ DeleteChatData(i) /\ UNCHANGED <<clock, reused>>
          /\ \E s \in WebStep : Proceed(c, [step |-> s])
      BY <1>1, <1>3 DEF ResetClears, Deletes, ForkClears, WebStep, ForkSteps, i
    <2>2. CallTypes'
      BY <1>2, <2>1
    <2> QED
      BY <1>0, <2>1, <2>2, DeletionTyped
  <1>4. CASE ResetFindsNone(c)
    <2>1. /\ kept' = [j \in DOMAIN kept \ {i} |-> kept[j]] /\ Proceed(c, [step |-> "over"])
          /\ UNCHANGED <<chats, texts, clock, webGhosts>>
      BY <1>4 DEF ResetFindsNone, i
    <2>2. CallTypes'
      BY <1>2, <2>1 DEF WebStep
    <2>3. KeptTypes'
      BY <1>0, <2>1 DEF KeptTypes
    <2> QED
      BY <1>0, <2>1, <2>2, <2>3 DEF webGhosts, ChatTypes, TextTypes, ForkTypes
  <1>5. CASE ResetRestores(c) \/ ForkNames(c)
    <2>1. /\ i \in ChatId /\ Stamped /\ UNCHANGED <<texts, kept, webGhosts>>
          /\ \E k \in WebKey : UpsertChat(i, k)
          /\ \E s \in WebStep : Proceed(c, [step |-> s])
      BY <1>1, <1>5 DEF ResetRestores, ForkNames, WebStep, ForkSteps, i
    <2>2. CallTypes'
      BY <1>2, <2>1
    <2>3. ChatTypes'
      BY <1>0, <2>1, UpsertTyped DEF webGhosts
    <2> QED
      BY <1>0, <2>1, <2>2, <2>3 DEF webGhosts, TextTypes, KeptTypes, ForkTypes
  <1> QED
    BY <1>3, <1>4, <1>5

\* The other statements of a fork, and a setting's.
LEMMA ForkTyped ==
  ASSUME WebTypeInv, NEW c \in WebCall,
         ForkReads(c) \/ ForkResolvesTarget(c) \/ ForkCopies(c) \/ ForkSaves(c) \/ SettingSaves(c)
  PROVE  /\ CallTypes' /\ ChatTypes' /\ TextTypes' /\ KeptTypes' /\ ForkTypes'
         /\ overtaken' \subseteq WebCall
  <1>0. /\ CallsTyped /\ CallTypes /\ ChatTypes /\ TextTypes /\ KeptTypes /\ ForkTypes
        /\ overtaken \subseteq WebCall
    BY DEF WebTypeInv, WebInv
  <1> DEFINE i == call[c].chat
             t == call[c].to
  <1>1. /\ call[c].step # "idle" => i \in ChatId
        /\ call[c].step \in ForkSteps \cup {"targeting"} => t \in WebKey
    BY <1>0 DEF CallsTyped
  <1>2. call[c].seen \subseteq WebText /\ call[c].made \subseteq WebText
    BY <1>0, CallHas
  <1> HIDE DEF i, t
  <1>3. CASE ForkReads(c)
    <2>1. PICK n : Proceed(c, [step |-> "targeting",
                       seen |-> {m \in TextsOf(i) :
                                    Cardinality({x \in TextsOf(i) : x.at <= m.at}) <= n}])
      BY <1>3 DEF ForkReads, i
    <2> DEFINE some == {m \in TextsOf(i) : Cardinality({x \in TextsOf(i) : x.at <= m.at}) <= n}
               r == [step |-> "targeting", seen |-> some]
    <2>2. some \subseteq WebText
      BY <1>0 DEF TextTypes, TextsOf
    <2>3. Proceed(c, r)
      BY <2>1
    <2> HIDE DEF some
    <2>4. \A f \in DOMAIN r : r[f] \in FieldType[f]
      BY <2>2 DEF FieldType, WebStep
    <2> HIDE DEF r
    <2>5. CallTypes'
      BY <1>0, <2>3, <2>4, ProceedTyped
    <2>6. UNCHANGED <<chats, texts, kept, clock, webGhosts>>
      BY <1>3 DEF ForkReads
    <2> QED
      BY <1>0, <2>5, <2>6 DEF webGhosts, ChatTypes, TextTypes, KeptTypes, ForkTypes
  <1>4. CASE ForkResolvesTarget(c)
    <2>1. t \in WebKey /\ UNCHANGED <<texts, kept, forgotten, forked, overtaken>>
      BY <1>1, <1>4 DEF ForkResolvesTarget
    <2>2. PICK j \in ChatId : ResolveOrCreate(t, j) /\ Proceed(c, [step |-> "clearing", chat |-> j])
      BY <1>4 DEF ForkResolvesTarget, t
    <2> DEFINE r == [step |-> "clearing", chat |-> j]
    <2>3. \A f \in DOMAIN r : r[f] \in FieldType[f]
      BY DEF FieldType, WebStep, ForkSteps
    <2> HIDE DEF r
    <2>4. CallTypes'
      BY <1>0, <2>2, <2>3, ProceedTyped DEF r
    <2>5. ChatTypes'
      BY <1>0, <2>1, <2>2, ResolveTyped
    <2> QED
      BY <1>0, <2>1, <2>4, <2>5 DEF TextTypes, KeptTypes, ForkTypes
  <1>5. CASE ForkCopies(c)
    <2>1. /\ i \in ChatId /\ t \in WebKey /\ Stamped
          /\ UNCHANGED <<chats, kept, reused, forgotten, forked, overtaken>>
      BY <1>1, <1>5 DEF ForkCopies, webGhosts, ForkSteps
    <2>2. PICK m \in call[c].seen :
             LET copy == [chat |-> i, at |-> clock + 1, key |-> t, bot |-> m.bot]
             IN  /\ texts' = texts \cup {copy}
                 /\ Proceed(c, [seen |-> call[c].seen \ {m}, made |-> call[c].made \cup {copy}])
      BY <1>5 DEF ForkCopies, i, t
    <2> DEFINE copy == [chat |-> i, at |-> clock + 1, key |-> t, bot |-> m.bot]
               r == [seen |-> call[c].seen \ {m}, made |-> call[c].made \cup {copy}]
    <2>3. m.bot \in BOOLEAN
      BY <1>2 DEF WebText
    <2>4. clock + 1 \in Time
      BY <1>0, <2>1, StampTyped DEF ChatTypes
    <2>5. copy \in WebText
      BY <2>1, <2>3, <2>4 DEF WebText
    <2>6. texts' = texts \cup {copy} /\ Proceed(c, r)
      BY <2>2
    <2>7. ChatTypes' /\ TextTypes' /\ ForkTypes'
      BY <1>0, <2>1, <2>3, <2>6, StoredTyped
    <2> HIDE DEF copy
    <2>8. \A f \in DOMAIN r : r[f] \in FieldType[f]
      BY <1>2, <2>5 DEF FieldType
    <2> HIDE DEF r
    <2>9. CallTypes'
      BY <1>0, <2>6, <2>8, ProceedTyped
    <2> QED
      BY <1>0, <2>1, <2>7, <2>9 DEF KeptTypes
  <1>6. CASE ForkSaves(c)
    <2> DEFINE r == [step |-> "over", made |-> {}]
    <2>1. /\ i \in ChatId /\ t \in WebKey /\ Stamped /\ SaveRow(i, {}) /\ Proceed(c, r)
          /\ forked' = [forked EXCEPT ![t] = call[c].made \cap texts]
          /\ UNCHANGED <<chats, texts, forgotten, reused, overtaken>>
      BY <1>1, <1>6 DEF ForkSaves, ForkSteps, i, t
    <2>2. ChatTypes' /\ KeptTypes'
      BY <1>0, <2>1, SavedTyped
    <2>3. ForkTypes'
      BY <1>0, <2>1 DEF ForkTypes
    <2>4. \A f \in DOMAIN r : r[f] \in FieldType[f]
      BY DEF FieldType, WebStep
    <2> HIDE DEF r
    <2>5. CallTypes'
      BY <1>0, <2>1, <2>4, ProceedTyped
    <2> QED
      BY <1>0, <2>1, <2>2, <2>3, <2>5 DEF TextTypes
  <1>7. CASE SettingSaves(c)
    <2> DEFINE r == [step |-> "over"]
               has == IF i \in DOMAIN kept THEN kept[i].has ELSE {}
    <2>1. /\ i \in ChatId /\ Stamped /\ SaveRow(i, has) /\ Proceed(c, r)
          /\ overtaken' = overtaken \cup {d \in WebCall : call[d].step = "stored" /\ call[d].chat = i}
          /\ UNCHANGED <<chats, texts, forgotten, forked, reused>>
      BY <1>1, <1>7 DEF SettingSaves, i
    <2>2. has \in SUBSET WebText
      BY <1>0 DEF KeptTypes
    <2> HIDE DEF has
    <2>3. ChatTypes' /\ KeptTypes'
      BY <1>0, <2>1, <2>2, SavedTyped
    <2>4. \A f \in DOMAIN r : r[f] \in FieldType[f]
      BY DEF FieldType, WebStep
    <2> HIDE DEF r
    <2>5. CallTypes'
      BY <1>0, <2>1, <2>4, ProceedTyped
    <2>6. overtaken' \subseteq WebCall
      BY <1>0, <2>1
    <2> QED
      BY <1>0, <2>1, <2>3, <2>5, <2>6 DEF TextTypes, ForkTypes
  <1> QED
    BY <1>3, <1>4, <1>5, <1>6, <1>7

\* Every statement of the web's requests keeps the types.
LEMMA WebTypesStep ==
  ASSUME WebTypeInv, [WebNext]_webVars
  PROVE  WebTypeInv'
  <1>1. WebInv'
    BY WebStays DEF WebTypeInv
  <1>2. CASE UNCHANGED webVars
    BY <1>1, <1>2 DEF WebTypeInv, webVars, CallTypes, ChatTypes, TextTypes, KeptTypes, ForkTypes
  <1>3. CASE WebNext
    <2>1. PICK c \in WebCall :
             \/ \E k \in WebKey : \/ SendResolve(c, k) \/ ResetResolve(c, k) \/ DeleteResolve(c, k)
                                  \/ SettingResolve(c, k) \/ \E t \in WebKey : ForkResolve(c, k, t)
             \/ SendStore(c) \/ RunLoads(c) \/ RunSaves(c) \/ RunFails(c) \/ DeliverReply(c)
             \/ ResetClears(c) \/ ResetFindsNone(c) \/ ResetRestores(c) \/ Deletes(c)
             \/ ForkReads(c) \/ ForkResolvesTarget(c) \/ ForkClears(c) \/ ForkNames(c)
             \/ ForkCopies(c) \/ ForkSaves(c) \/ SettingSaves(c)
      BY <1>3 DEF WebNext
    <2>2. /\ CallTypes' /\ ChatTypes' /\ TextTypes' /\ KeptTypes' /\ ForkTypes'
          /\ overtaken' \subseteq WebCall
      BY <2>1, BeginningTyped, RunTyped, ResetTyped, ForkTyped
    <2> QED
      BY <1>1, <2>2 DEF WebTypeInv
  <1> QED
    BY <1>2, <1>3

\* There are no rows and no requests at first.
LEMMA WebTypesInit == WebInit => WebTypeInv
  <1> SUFFICES ASSUME WebInit PROVE WebTypeInv
    OBVIOUS
  <1>1. WebInv
    BY WebInitially
  <1>2. 0 \in Time
    BY WebAssumption DEF Time
  <1>3. CallTypes
    BY <1>2 DEF WebInit, CallTypes, IdleCall, Fields, FieldType, WebStep
  <1>4. ChatTypes /\ TextTypes /\ KeptTypes
    BY <1>2 DEF WebInit, NoRows, ChatTypes, TextTypes, KeptTypes
  <1>5. ForkTypes /\ overtaken \subseteq WebCall
    BY DEF WebInit, ForkTypes
  <1> QED
    BY <1>1, <1>3, <1>4, <1>5 DEF WebTypeInv

\* Rows and requests have their types.
LEMMA WebTyped == ASSUME WebTypeInv PROVE WebTypeOK
  <1>1. /\ CallTypes /\ ChatTypes /\ TextTypes /\ KeptTypes /\ ForkTypes
        /\ overtaken \subseteq WebCall
    BY DEF WebTypeInv
  <1>2. ASSUME NEW c \in WebCall
        PROVE  /\ call[c].step \in WebStep
               /\ call[c].key \in WebKey \cup {NoWebKey} /\ call[c].to \in WebKey \cup {NoWebKey}
               /\ call[c].chat \in ChatId \cup {0}
               /\ call[c].seen \subseteq WebText /\ call[c].made \subseteq WebText
               /\ call[c].said \in Time
    <2>1. \A f \in Fields : call[c][f] \in FieldType[f]
      BY <1>1 DEF CallTypes
    <2> QED
      BY <2>1 DEF Fields, FieldType
  <1> QED
    BY <1>1, <1>2 DEF WebTypeOK, ChatTypes, TextTypes, KeptTypes, ForkTypes, ChatRow

\* The rows of chats, messages and sessions and the requests stay in their types,
\* for any keys, requests and clock.
THEOREM WebTypes == WebSpec => []WebTypeOK
  <1>1. WebTypeInv /\ [WebNext]_webVars => WebTypeInv'
    BY WebTypesStep
  <1>2. WebTypeInv => WebTypeOK
    BY WebTyped
  <1> QED
    BY <1>1, <1>2, WebTypesInit, PTL DEF WebSpec

=============================================================================
