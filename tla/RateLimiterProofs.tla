-------------------------- MODULE RateLimiterProofs --------------------------
(***************************************************************************)
(* The counts of RateLimiter are exact, for any keys, limits and windows,  *)
(* and its map is bounded.                                                 *)
(*                                                                         *)
(* The inductive invariant: of a key that has not been raced, the times    *)
(* the filter of allow would keep are exactly the hits let through since   *)
(* the last reset; and an untouched slice of the sweeper is still the      *)
(* slice in the map, so that storing it back loses nothing that counts.    *)
(***************************************************************************)
EXTENDS RateLimiter, FiniteSetTheorems, TLAPS

Exact == \A k \in Key \ raced : Fresh(k, hits[k], now) = granted[k]

SweepAhead ==
    /\ sweep.now <= now
    /\ sweep.key # NoKey =>
         /\ sweep.torn => sweep.key \in raced
         /\ ~sweep.torn => sweep.slice = hits[sweep.key]

IInv == TypeOK /\ Exact /\ SweepAhead /\ LimitHolds /\ MapIsBounded

USE DEF Time

\* A set of times is finite, the clock being bounded.
LEMMA TimesAreFinite ==
    ASSUME NEW S, S \subseteq Time
    PROVE  IsFiniteSet(S)
<1>1. IsFiniteSet(0..MaxTime)
  BY RateAssumption, FS_Interval
<1> QED
  BY <1>1, FS_Subset

\* A set of keys is finite.
LEMMA KeysAreFinite ==
    ASSUME NEW S, S \subseteq Key
    PROVE  IsFiniteSet(S)
BY RateAssumption, FS_Subset

\* A subset of at most n keys has at most n keys.
LEMMA StaysBounded ==
    ASSUME NEW S \in SUBSET Key, NEW T \in SUBSET S, NEW n \in Nat,
           Cardinality(S) <= n
    PROVE  Cardinality(T) <= n
<1>1. /\ IsFiniteSet(S) /\ IsFiniteSet(T)
      /\ Cardinality(T) <= Cardinality(S)
  BY KeysAreFinite, FS_Subset
<1> QED
  BY <1>1, FS_CardinalityType

\* The empty map and the resting sweep are well typed.
LEMMA TypeInit == Init => TypeOK
BY RateAssumption DEF Init, TypeOK, Resting

\* What the filter of allow keeps are times, raced or not.
LEMMA KeptIsTime ==
    ASSUME TypeOK, NEW k \in Key, NEW kept \in Kept(k)
    PROVE  kept \subseteq Time
BY DEF TypeOK, Kept, RacedCopy, Fresh

\* Every request, step of the sweep, tick and restart keeps the types.
LEMMA TypeStep == TypeOK /\ [Next]_vars => TypeOK'
<1> SUFFICES ASSUME TypeOK, [Next]_vars PROVE TypeOK'
  OBVIOUS
<1>1. ASSUME NEW k \in Key, Refuse(k) PROVE TypeOK'
  <2>1. PICK kept \in Kept(k) : hits' = [hits EXCEPT ![k] = kept]
    BY <1>1 DEF Refuse
  <2>2. kept \subseteq Time
    BY KeptIsTime
  <2>3. hits' \in [Key -> SUBSET Time]
    BY <2>1, <2>2 DEF TypeOK
  <2>4. sweep' = [sweep EXCEPT !.torn = @ \/ sweep.key \in {k}]
    BY <1>1 DEF Refuse, Touched
  <2>5. granted' = Emptied(granted, raced')
    BY <1>1 DEF Refuse
  <2>6. granted' \in [Key -> SUBSET Time]
    BY <2>5 DEF TypeOK, Emptied
  <2>7. raced' \subseteq Key /\ now' \in Time
    BY <1>1 DEF TypeOK, Refuse, Touched
  <2> QED
    BY <2>3, <2>4, <2>6, <2>7 DEF TypeOK
<1>2. ASSUME NEW k \in Key, NEW victim \in Key \cup {NoKey}, Grant(k, victim)
      PROVE  TypeOK'
  <2>1. PICK kept \in Kept(k) :
           hits' = [Emptied(hits, {victim}) EXCEPT ![k] = kept \cup {now}]
    BY <1>2 DEF Grant
  <2>2. kept \subseteq Time
    BY KeptIsTime
  <2>3. hits' \in [Key -> SUBSET Time]
    BY <2>1, <2>2 DEF TypeOK, Emptied
  <2>4. sweep' = [sweep EXCEPT !.torn = @ \/ sweep.key \in ({k, victim} \cap Key)]
    BY <1>2 DEF Grant, Touched
  <2>5. granted' = Emptied([granted EXCEPT ![k] = @ \cup {now}], raced' \cup {victim})
    BY <1>2 DEF Grant
  <2>6. [granted EXCEPT ![k] = @ \cup {now}] \in [Key -> SUBSET Time]
    BY DEF TypeOK
  <2>7. granted' \in [Key -> SUBSET Time]
    BY <2>5, <2>6 DEF Emptied
  <2>8. raced' \subseteq Key /\ now' \in Time
    BY <1>2 DEF TypeOK, Grant, Touched
  <2> QED
    BY <2>3, <2>4, <2>7, <2>8 DEF TypeOK
<1>3. ASSUME NEW k \in Key, Reset(k) PROVE TypeOK'
  <2>1. hits' \in [Key -> SUBSET Time] /\ raced' \subseteq Key /\ now' \in Time
    BY <1>3 DEF TypeOK, Reset, Touched
  <2>2. sweep' = [sweep EXCEPT !.torn = @ \/ sweep.key \in {k}]
    BY <1>3 DEF Reset, Touched
  <2>3. granted' \in [Key -> SUBSET Time]
    BY <1>3 DEF TypeOK, Reset, Emptied
  <2> QED
    BY <2>1, <2>2, <2>3 DEF TypeOK
<1>4. CASE SweepStarts
  <2>1. PICK created \in SUBSET (Key \ Present) :
           sweep' = [Resting EXCEPT !.on = TRUE, !.now = now, !.todo = Present \cup created]
    BY <1>4 DEF SweepStarts
  <2>2. Present \cup created \subseteq Key
    BY DEF Present
  <2> QED
    BY <1>4, <2>1, <2>2, RateAssumption DEF TypeOK, SweepStarts, Resting
<1>5. ASSUME NEW k \in Key, SweepReads(k) PROVE TypeOK'
  BY <1>5 DEF TypeOK, SweepReads
<1>6. CASE SweepWrites
  <2>1. PICK S : S \subseteq Time /\ hits' = [hits EXCEPT ![sweep.key] = S]
    <3>1. CASE sweep.torn
      BY <1>6, <3>1 DEF TypeOK, SweepWrites, RacedCopy
    <3>2. CASE ~sweep.torn
      BY <1>6, <3>2 DEF TypeOK, SweepWrites, SweptSlice
    <3> QED
      BY <3>1, <3>2
  <2> QED
    BY <1>6, <2>1 DEF TypeOK, SweepWrites
<1>7. CASE SweepEnds
  BY <1>7, RateAssumption DEF TypeOK, SweepEnds, Resting
<1>8. CASE Tick
  BY <1>8, RateAssumption DEF TypeOK, Tick, Fresh
<1>9. CASE Restart
  BY <1>9, RateAssumption DEF TypeOK, Restart, Resting
<1>10. CASE UNCHANGED vars
  BY <1>10 DEF TypeOK, vars
<1> QED
  BY <1>1, <1>2, <1>3, <1>4, <1>5, <1>6, <1>7, <1>8, <1>9, <1>10 DEF Next

\* allow on a key the sweeper is not at filters the slice that is in the map.
LEMMA KeptAlone ==
    ASSUME NEW k \in Key, NEW kept \in Kept(k), sweep.key # k
    PROVE  kept = Fresh(k, hits[k], now)
BY DEF Kept

-----------------------------------------------------------------------------
\* The filter keeps counting what was let through: neither a cut at SweepWindow
\* nor a slice stored back changes what is fresh for a key.
LEMMA ExactStep == IInv /\ [Next]_vars => Exact'
<1> SUFFICES ASSUME IInv, [Next]_vars, NEW k \in Key, k \notin raced'
             PROVE  Fresh(k, hits[k], now)' = granted'[k]
  BY DEF Exact, Fresh
<1> USE DEF IInv
<1>0. Window[k] \in 1..SweepWindow /\ SweepWindow \in Nat
  BY RateAssumption
<1>1. ASSUME NEW j \in Key, Refuse(j) PROVE Fresh(k, hits[k], now)' = granted'[k]
  <2>1. PICK kept \in Kept(j) : hits' = [hits EXCEPT ![j] = kept]
    BY <1>1 DEF Refuse
  <2>2. k \notin raced /\ granted'[k] = granted[k] /\ now' = now /\ (k = j => sweep.key # k)
    BY <1>1 DEF Refuse, Touched, TypeOK, Emptied
  <2>3. CASE k = j
    BY <2>1, <2>2, <2>3, KeptAlone DEF Exact, Fresh, TypeOK
  <2> QED
    BY <2>1, <2>2, <2>3 DEF Exact, Fresh, TypeOK
<1>2. ASSUME NEW j \in Key, NEW victim \in Key \cup {NoKey}, Grant(j, victim)
      PROVE  Fresh(k, hits[k], now)' = granted'[k]
  <2>1. PICK kept \in Kept(j) :
           /\ hits' = [Emptied(hits, {victim}) EXCEPT ![j] = kept \cup {now}]
           /\ granted' = Emptied([granted EXCEPT ![j] = @ \cup {now}], raced' \cup {victim})
           /\ victim # NoKey => victim \in Stalest(j)
    BY <1>2 DEF Grant
  <2>2. k \notin raced /\ now' = now /\ (k \in {j, victim} => sweep.key # k) /\ now \in Nat
    BY <1>2 DEF Grant, Touched, TypeOK
  <2>3. victim # j
    BY <2>1, RateAssumption DEF Stalest
  <2>4. CASE k = j
    <3>1. kept = granted[k]
      BY <2>2, <2>4, KeptAlone DEF Exact
    <3>2. hits'[k] = granted[k] \cup {now} /\ granted'[k] = granted[k] \cup {now}
      BY <2>1, <2>3, <2>4, <3>1 DEF Emptied, TypeOK
    <3>3. granted[k] = Fresh(k, hits[k], now)
      BY <2>2 DEF Exact
    <3> QED
      BY <3>2, <3>3, <2>2, <1>0 DEF Fresh
  <2>5. CASE k = victim
    BY <2>1, <2>3, <2>5 DEF Emptied, TypeOK, Fresh
  <2>6. CASE k # j /\ k # victim
    BY <2>1, <2>2, <2>6 DEF Emptied, TypeOK, Fresh, Exact
  <2> QED
    BY <2>4, <2>5, <2>6
<1>3. ASSUME NEW j \in Key, Reset(j) PROVE Fresh(k, hits[k], now)' = granted'[k]
  BY <1>3 DEF Reset, Touched, Emptied, TypeOK, Exact, Fresh
<1>4. CASE SweepStarts
  BY <1>4 DEF SweepStarts, Exact, Fresh
<1>5. ASSUME NEW j \in Key, SweepReads(j) PROVE Fresh(k, hits[k], now)' = granted'[k]
  BY <1>5 DEF SweepReads, Exact, Fresh
<1>6. CASE SweepWrites
  <2>1. k \notin raced /\ now' = now /\ granted' = granted
    BY <1>6 DEF SweepWrites
  <2>2. CASE k = sweep.key
    <3>1. ~sweep.torn /\ sweep.slice = hits[k] /\ hits'[k] = SweptSlice
      BY <1>6, <2>1, <2>2 DEF SweepWrites, SweepAhead, TypeOK
    <3>2. sweep.now <= now /\ sweep.now \in Nat /\ now \in Nat
      BY DEF SweepAhead, TypeOK
    <3>3. ASSUME NEW t \in hits[k], now - t < Window[k]
          PROVE  sweep.now - t < SweepWindow
      <4>1. t \in Nat
        BY DEF TypeOK
      <4> QED
        BY <4>1, <3>2, <3>3, <1>0
    <3> QED
      BY <2>1, <3>1, <3>3 DEF SweptSlice, Fresh, Exact
  <2>3. CASE k # sweep.key
    BY <1>6, <2>1, <2>3 DEF SweepWrites, Exact, Fresh, TypeOK
  <2> QED
    BY <2>2, <2>3
<1>7. CASE SweepEnds
  BY <1>7 DEF SweepEnds, Exact, Fresh
<1>8. CASE Tick
  <2>1. ASSUME NEW t \in hits[k] PROVE (now + 1) - t < Window[k] => now - t < Window[k]
    BY <1>0 DEF TypeOK
  <2>2. k \notin raced /\ hits' = hits /\ now' = now + 1 /\ granted'[k] = Fresh(k, granted[k], now + 1)
    BY <1>8 DEF Tick
  <2>3. granted[k] = Fresh(k, hits[k], now)
    BY <2>2 DEF Exact
  <2>4. Fresh(k, hits[k], now + 1) = Fresh(k, granted[k], now + 1)
    <3>1. granted[k] = {t \in hits[k] : now - t < Window[k]}
      BY <2>3 DEF Fresh
    <3>2. {t \in hits[k] : (now + 1) - t < Window[k]} \subseteq granted[k]
      BY <2>1, <3>1
    <3>3. {t \in hits[k] : (now + 1) - t < Window[k]} = {t \in granted[k] : (now + 1) - t < Window[k]}
      BY <3>1, <3>2, Zenon
    <3> QED
      BY <3>3 DEF Fresh
  <2> QED
    BY <2>2, <2>4 DEF Fresh
<1>9. CASE Restart
  BY <1>9 DEF Restart, Fresh
<1>10. CASE UNCHANGED vars
  BY <1>10 DEF vars, Exact, Fresh
<1> QED
  BY <1>1, <1>2, <1>3, <1>4, <1>5, <1>6, <1>7, <1>8, <1>9, <1>10 DEF Next

\* A slice the sweep holds is that of the map until a request touches the key.
LEMMA SweepStep == IInv /\ [Next]_vars => SweepAhead'
<1> SUFFICES ASSUME IInv, [Next]_vars PROVE SweepAhead'
  OBVIOUS
<1> USE DEF IInv
<1>1. ASSUME NEW j \in Key, Refuse(j) PROVE SweepAhead'
  BY <1>1 DEF Refuse, Touched, SweepAhead, TypeOK
<1>2. ASSUME NEW j \in Key, NEW victim \in Key \cup {NoKey}, Grant(j, victim)
      PROVE  SweepAhead'
  <2>1. /\ sweep' = [sweep EXCEPT !.torn = @ \/ sweep.key \in ({j, victim} \cap Key)]
        /\ raced' = raced \cup (({j, victim} \cap Key) \cap {sweep.key})
        /\ now' = now
    BY <1>2 DEF Grant, Touched
  <2>2. ASSUME NEW k \in Key, k # j, k # victim PROVE hits'[k] = hits[k]
    BY <1>2, <2>2 DEF Grant, Emptied, TypeOK
  <2> QED
    BY <2>1, <2>2 DEF SweepAhead, TypeOK
<1>3. ASSUME NEW j \in Key, Reset(j) PROVE SweepAhead'
  BY <1>3 DEF Reset, Touched, SweepAhead, TypeOK
<1>4. CASE SweepStarts
  BY <1>4 DEF SweepStarts, SweepAhead, TypeOK, Resting
<1>5. ASSUME NEW j \in Key, SweepReads(j) PROVE SweepAhead'
  BY <1>5 DEF SweepReads, SweepAhead, TypeOK
<1>6. CASE SweepWrites
  BY <1>6 DEF SweepWrites, SweepAhead, TypeOK
<1>7. CASE SweepEnds
  BY <1>7 DEF SweepEnds, SweepAhead, TypeOK, Resting
<1>8. CASE Tick
  BY <1>8 DEF Tick, SweepAhead, TypeOK
<1>9. CASE Restart
  BY <1>9 DEF Restart, SweepAhead, TypeOK, Resting
<1>10. CASE UNCHANGED vars
  BY <1>10 DEF vars, SweepAhead
<1> QED
  BY <1>1, <1>2, <1>3, <1>4, <1>5, <1>6, <1>7, <1>8, <1>9, <1>10 DEF Next

-----------------------------------------------------------------------------
\* A smaller set of times keeps the limit.
LEMMA FewerTimes ==
    ASSUME NEW S \in SUBSET Time, NEW T \in SUBSET S, NEW n \in Nat,
           Cardinality(S) <= n
    PROVE  Cardinality(T) <= n
<1>1. IsFiniteSet(S) /\ IsFiniteSet(T)
  BY TimesAreFinite
<1>2. Cardinality(T) <= Cardinality(S)
  BY <1>1, FS_Subset
<1> QED
  BY <1>1, <1>2, FS_CardinalityType

\* A key whose granted hits do not grow keeps its limit.
LEMMA LimitKept ==
    ASSUME TypeOK, LimitHolds, NEW k \in Key, k \notin raced,
           granted'[k] \subseteq granted[k]
    PROVE  Cardinality(granted'[k]) <= Limit[k]
<1>1. granted[k] \in SUBSET Time /\ Limit[k] \in Nat
  BY RateAssumption DEF TypeOK
<1> QED
  BY <1>1, FewerTimes DEF LimitHolds

\* allow lets nobody through who has used up the limit.
LEMMA LimitStep == IInv /\ [Next]_vars => LimitHolds'
<1> SUFFICES ASSUME IInv, [Next]_vars, NEW k \in Key, k \notin raced'
             PROVE  Cardinality(granted'[k]) <= Limit[k]
  BY DEF LimitHolds
<1> USE DEF IInv
<1>1. ASSUME NEW j \in Key, Refuse(j) PROVE Cardinality(granted'[k]) <= Limit[k]
  BY <1>1, LimitKept DEF Refuse, Touched, Emptied, TypeOK
<1>2. ASSUME NEW j \in Key, NEW victim \in Key \cup {NoKey}, Grant(j, victim)
      PROVE  Cardinality(granted'[k]) <= Limit[k]
  <2>1. PICK kept \in Kept(j) :
           /\ Cardinality(kept) < Limit[j]
           /\ granted' = Emptied([granted EXCEPT ![j] = @ \cup {now}], raced' \cup {victim})
    BY <1>2 DEF Grant
  <2>2. k \notin raced /\ (k = j => sweep.key # k)
    BY <1>2 DEF Grant, Touched, TypeOK
  <2>3. CASE k # j
    BY <2>1, <2>2, <2>3, LimitKept DEF Emptied, TypeOK
  <2>4. CASE k = j
    <3>1. kept = granted[k]
      BY <2>2, <2>4, KeptAlone DEF Exact
    <3>2. granted'[k] \subseteq granted[k] \cup {now} /\ granted[k] \cup {now} \subseteq Time
      BY <2>1, <2>4 DEF Emptied, TypeOK
    <3>3. IsFiniteSet(granted[k]) /\ Cardinality(granted[k]) \in Nat
      BY <3>2, TimesAreFinite, FS_CardinalityType
    <3>4. Cardinality(granted[k] \cup {now}) <= Cardinality(granted[k]) + 1
      <4>1. Cardinality(granted[k] \cup {now}) =
               IF now \in granted[k] THEN Cardinality(granted[k]) ELSE Cardinality(granted[k]) + 1
        BY <3>3, FS_AddElement
      <4> QED
        BY <3>3, <4>1
    <3>5. Limit[k] \in Nat /\ Cardinality(granted[k] \cup {now}) <= Limit[k]
      <4>1. IsFiniteSet(granted[k] \cup {now})
        BY <3>2, TimesAreFinite
      <4>2. Cardinality(granted[k] \cup {now}) \in Nat
        BY <4>1, FS_CardinalityType
      <4> QED
        BY <2>1, <2>4, <3>1, <3>3, <3>4, <4>2, RateAssumption
    <3> QED
      BY <3>2, <3>5, FewerTimes
  <2> QED
    BY <2>3, <2>4
<1>3. ASSUME NEW j \in Key, Reset(j) PROVE Cardinality(granted'[k]) <= Limit[k]
  BY <1>3, LimitKept DEF Reset, Touched, Emptied, TypeOK
<1>4. CASE SweepStarts
  BY <1>4, LimitKept DEF SweepStarts
<1>5. ASSUME NEW j \in Key, SweepReads(j) PROVE Cardinality(granted'[k]) <= Limit[k]
  BY <1>5, LimitKept DEF SweepReads
<1>6. CASE SweepWrites
  BY <1>6, LimitKept DEF SweepWrites
<1>7. CASE SweepEnds
  BY <1>7, LimitKept DEF SweepEnds
<1>8. CASE Tick
  <2>1. k \notin raced /\ granted'[k] = Fresh(k, granted[k], now + 1)
    BY <1>8 DEF Tick
  <2> QED
    BY <2>1, LimitKept DEF Fresh
<1>9. CASE Restart
  BY <1>9, FS_EmptySet, RateAssumption DEF Restart
<1>10. CASE UNCHANGED vars
  BY <1>10, LimitKept DEF vars
<1> QED
  BY <1>1, <1>2, <1>3, <1>4, <1>5, <1>6, <1>7, <1>8, <1>9, <1>10 DEF Next

-----------------------------------------------------------------------------
\* A new key enters a full map only in the place of another.
LEMMA BoundStep == IInv /\ [Next]_vars => MapIsBounded'
<1> SUFFICES ASSUME IInv, [Next]_vars, raced' = {}
             PROVE  Cardinality(Present') <= MaxKeys
  BY DEF MapIsBounded
<1> USE DEF IInv
<1>a. Present \subseteq Key /\ MaxKeys \in Nat /\ MaxKeys >= 1
  BY RateAssumption DEF Present
<1>b. ASSUME raced = {}, Present' \subseteq Present
      PROVE  Cardinality(Present') <= MaxKeys
  BY <1>a, <1>b, StaysBounded DEF MapIsBounded
<1>1. ASSUME NEW j \in Key, Refuse(j) PROVE Cardinality(Present') <= MaxKeys
  <2>1. PICK kept \in Kept(j) :
           hits' = [hits EXCEPT ![j] = kept] /\ Cardinality(kept) >= Limit[j]
    BY <1>1 DEF Refuse
  <2>2. raced = {} /\ sweep.key # j
    BY <1>1 DEF Refuse, Touched
  <2>3. kept \subseteq hits[j]
    BY <2>2, KeptAlone DEF Fresh
  <2> QED
    BY <1>b, <2>1, <2>2, <2>3 DEF Present, TypeOK
<1>2. ASSUME NEW j \in Key, NEW victim \in Key \cup {NoKey}, Grant(j, victim)
      PROVE  Cardinality(Present') <= MaxKeys
  <2>1. PICK kept \in Kept(j) :
           /\ hits' = [Emptied(hits, {victim}) EXCEPT ![j] = kept \cup {now}]
           /\ IF Room(j, kept) THEN victim = NoKey ELSE victim \in Stalest(j)
    BY <1>2 DEF Grant
  <2>2. raced = {} /\ sweep.key # j
    BY <1>2 DEF Grant, Touched
  <2>3. Present' \subseteq ((Present \ {j}) \ {victim}) \cup {j}
    BY <2>1 DEF Present, Emptied, TypeOK
  <2>4. /\ IsFiniteSet(Present) /\ IsFiniteSet(Present \ {j})
        /\ IsFiniteSet((Present \ {j}) \ {victim})
    BY <1>a, KeysAreFinite
  <2>5. /\ Cardinality(Present) \in Nat /\ Cardinality(Present \ {j}) \in Nat
        /\ Cardinality((Present \ {j}) \ {victim}) \in Nat
    BY <2>4, FS_CardinalityType
  <2>6. Cardinality(Present) <= MaxKeys
    BY <2>2 DEF MapIsBounded
  <2>7. Cardinality((Present \ {j}) \ {victim}) + 1 <= MaxKeys
    <3>1. CASE kept # {}
      <4>1. j \in Present
        BY <2>2, <3>1, KeptAlone DEF Present, Fresh
      <4>2. Cardinality(Present \ {j}) = Cardinality(Present) - 1
        BY <2>4, <4>1, FS_RemoveElement
      <4>3. Cardinality((Present \ {j}) \ {victim}) <= Cardinality(Present \ {j})
        BY <2>4, FS_Subset
      <4> QED
        BY <1>a, <2>5, <2>6, <4>2, <4>3
    <3>2. CASE kept = {} /\ Room(j, kept)
      <4>1. Cardinality(Present \ {j}) < MaxKeys
        BY <3>2 DEF Room
      <4>2. Cardinality((Present \ {j}) \ {victim}) <= Cardinality(Present \ {j})
        BY <2>4, FS_Subset
      <4> QED
        BY <1>a, <2>5, <4>1, <4>2
    <3>3. CASE ~Room(j, kept)
      <4>1. victim \in Present \ {j}
        BY <2>1, <3>3 DEF Stalest
      <4>2. Cardinality((Present \ {j}) \ {victim}) = Cardinality(Present \ {j}) - 1
        BY <2>4, <4>1, FS_RemoveElement
      <4>3. Cardinality(Present \ {j}) <= Cardinality(Present)
        BY <2>4, FS_Subset
      <4> QED
        BY <1>a, <2>5, <2>6, <4>2, <4>3
    <3> QED
      BY <3>1, <3>2, <3>3
  <2>8. /\ ((Present \ {j}) \ {victim}) \cup {j} \subseteq Key
        /\ Cardinality(((Present \ {j}) \ {victim}) \cup {j})
             = Cardinality((Present \ {j}) \ {victim}) + 1
    BY <1>a, <2>4, FS_AddElement
  <2>9. Cardinality(((Present \ {j}) \ {victim}) \cup {j}) <= MaxKeys
    BY <2>7, <2>8
  <2> QED
    BY <1>a, <2>3, <2>8, <2>9, StaysBounded
<1>3. ASSUME NEW j \in Key, Reset(j) PROVE Cardinality(Present') <= MaxKeys
  BY <1>b, <1>3 DEF Reset, Touched, Present, TypeOK
<1>4. CASE SweepStarts
  BY <1>b, <1>4 DEF SweepStarts, Present
<1>5. ASSUME NEW j \in Key, SweepReads(j) PROVE Cardinality(Present') <= MaxKeys
  BY <1>b, <1>5 DEF SweepReads, Present
<1>6. CASE SweepWrites
  <2>1. raced = {} /\ ~sweep.torn /\ sweep.slice = hits[sweep.key] /\ sweep.key \in Key
    BY <1>6 DEF SweepWrites, SweepAhead, TypeOK
  <2>2. hits' = [hits EXCEPT ![sweep.key] = SweptSlice] /\ SweptSlice \subseteq sweep.slice
    BY <1>6, <2>1 DEF SweepWrites, SweptSlice
  <2> QED
    BY <1>b, <2>1, <2>2 DEF Present, TypeOK
<1>7. CASE SweepEnds
  BY <1>b, <1>7 DEF SweepEnds, Present
<1>8. CASE Tick
  BY <1>b, <1>8 DEF Tick, Present
<1>9. CASE Restart
  <2>1. Present' = {}
    BY <1>9 DEF Restart, Present
  <2> QED
    BY <1>a, <2>1, FS_EmptySet
<1>10. CASE UNCHANGED vars
  BY <1>b, <1>10 DEF vars, Present
<1> QED
  BY <1>1, <1>2, <1>3, <1>4, <1>5, <1>6, <1>7, <1>8, <1>9, <1>10 DEF Next

-----------------------------------------------------------------------------
\* Nothing has been let through, and nothing is in the map.
LEMMA InvInit == Init => IInv
<1> SUFFICES ASSUME Init PROVE IInv
  OBVIOUS
<1>1. TypeOK
  BY TypeInit
<1>2. Exact /\ SweepAhead
  BY RateAssumption DEF Init, Exact, Fresh, SweepAhead, Resting
<1>3. LimitHolds
  BY FS_EmptySet, RateAssumption DEF Init, LimitHolds
<1>4. Present = {}
  BY DEF Init, Present
<1>5. MapIsBounded
  BY <1>4, FS_EmptySet, RateAssumption DEF MapIsBounded
<1> QED
  BY <1>1, <1>2, <1>3, <1>5 DEF IInv

\* The inductive invariant holds of every execution of the limiter.
THEOREM Invariance == Spec => []IInv
<1>1. IInv /\ [Next]_vars => IInv'
  BY TypeStep, ExactStep, SweepStep, LimitStep, BoundStep DEF IInv
<1> QED
  BY <1>1, InvInit, PTL DEF Spec

\* The types of the clock, the map and the sweeper.
THEOREM TypeCorrect == Spec => []TypeOK
<1>1. IInv => TypeOK
  BY DEF IInv
<1> QED
  BY <1>1, Invariance, PTL

\* No window sees more attempts let through than its limit, whatever the
\* sweeper and the eviction of other keys do.
THEOREM LimitsHold == Spec => []LimitHolds
<1>1. IInv => LimitHolds
  BY DEF IInv
<1> QED
  BY <1>1, Invariance, PTL

\* Who is refused has used up the limit since the last success.
THEOREM RefusalsAreEarned == Spec => []BlockedForCause
<1>1. IInv => BlockedForCause
  <2> SUFFICES ASSUME IInv, NEW k \in Key, k \notin raced, Blocked(k)
               PROVE  Cardinality(granted[k]) = Limit[k]
    BY DEF BlockedForCause
  <2>1. granted[k] \subseteq Time /\ Limit[k] \in Nat
    BY RateAssumption DEF IInv, TypeOK
  <2>2. Cardinality(granted[k]) \in Nat
    BY <2>1, TimesAreFinite, FS_CardinalityType
  <2> QED
    BY <2>1, <2>2 DEF IInv, Exact, LimitHolds, Blocked
<1> QED
  BY <1>1, Invariance, PTL

\* The map of the limiter never holds more than rlMaxKeys keys while the
\* sweeper has not written a key under a request.
THEOREM MapBound == Spec => []MapIsBounded
<1>1. IInv => MapIsBounded
  BY DEF IInv
<1> QED
  BY <1>1, Invariance, PTL
=============================================================================
