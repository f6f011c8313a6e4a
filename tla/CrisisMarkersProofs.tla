------------------------- MODULE CrisisMarkersProofs -------------------------
(***************************************************************************)
(* The detector of CrisisMarkers never lags behind the table by more than  *)
(* the life of a copy and the time of a refill, for any dictionary.        *)
(*                                                                         *)
(* The inductive invariant dates the lists in force: unless they are the   *)
(* built-in ones, taken at most that long ago, they and the table differ   *)
(* only in markers changed since they were read.                           *)
(***************************************************************************)
EXTENDS CrisisMarkers, TLAPS

\* The lists have been read at most age ticks ago.
ReadAt(lists, age) ==
    \/ lists = BuiltIn /\ fellBack <= age
    \/ \A m \in Known : steady[m] > age => (m \in lists <=> m \in table)

Dated ==
    /\ caches["applicant"].age < TTL =>
          ReadAt(caches["applicant"].lists, caches["applicant"].age + MaxFill)
    /\ fill.on => ReadAt(fill.lists, fill.age)

IInv == TypeOK /\ Dated

\* What the assumptions say of the numbers.
LEMMA Constants == /\ TTL \in Nat /\ TTL >= 1 /\ MaxFill \in Nat /\ Horizon \in Nat
                   /\ Horizon = TTL + MaxFill /\ BuiltIn \subseteq Known
BY MarkersAssumption DEF Horizon, Known

USE DEF Server, Ages

\* The first start is well typed.
LEMMA TypeInit == Init => TypeOK
BY Constants DEF Init, TypeOK, NoLists, NoFill

\* Every edit, refill, tick and restart keeps the types.
LEMMA TypeStep == TypeOK /\ [Next]_vars => TypeOK'
<1> SUFFICES ASSUME TypeOK, [Next]_vars PROVE TypeOK'
  OBVIOUS
<1> USE Constants
<1>1. ASSUME NEW entry \in Entries, AddMarker(Stored(entry)) PROVE TypeOK'
  <2>1. Stored(entry) \in Known
    BY DEF Known
  <2> QED
    BY <1>1, <2>1 DEF TypeOK, AddMarker, Changed, InvalidateCrisisCache
<1>2. ASSUME NEW m \in table, DeleteMarker(m) PROVE TypeOK'
  BY <1>2 DEF TypeOK, DeleteMarker, Changed, InvalidateCrisisCache
<1>3. CASE FillReads
  BY <1>3 DEF TypeOK, FillReads, ListsRead
<1>4. CASE FillStores
  BY <1>4 DEF TypeOK, FillStores, NoFill
<1>5. CASE Tick
  <2>1. steady' \in [Known -> Ages] /\ fellBack' \in Ages
    BY <1>5 DEF TypeOK, Tick, Older
  <2>2. caches' \in [Server -> [lists : SUBSET Known, age : 0..TTL]]
    BY <1>5 DEF TypeOK, Tick
  <2>3. fill' \in [on : BOOLEAN, lists : SUBSET Known, age : 0..MaxFill]
    BY <1>5 DEF TypeOK, Tick
  <2> QED
    BY <1>5, <2>1, <2>2, <2>3 DEF TypeOK, Tick
<1>6. CASE Restart
  BY <1>6 DEF TypeOK, Restart, Seeded, NoLists, NoFill
<1>7. CASE UNCHANGED vars
  BY <1>7 DEF TypeOK, vars
<1> QED
  BY <1>1, <1>2, <1>3, <1>4, <1>5, <1>6, <1>7 DEF Next, AdminNext

\* A change of the table counts as younger than any list.
LEMMA StillDated ==
    ASSUME TypeOK, NEW lists, NEW age \in Nat, ReadAt(lists, age),
           fellBack' = fellBack,
           \A m \in Known : \/ steady'[m] = 0
                            \/ /\ steady'[m] = steady[m]
                               /\ m \in table' <=> m \in table
    PROVE  ReadAt(lists, age)'
BY DEF ReadAt

\* Time makes lists older.
LEMMA GrowOlder ==
    ASSUME TypeOK, NEW lists, NEW age \in Nat, ReadAt(lists, age), Tick
    PROVE  \/ lists = BuiltIn /\ fellBack' <= age + 1
           \/ \A m \in Known : steady'[m] > age + 1 => (m \in lists <=> m \in table')
<1>1. CASE lists = BuiltIn /\ fellBack <= age
  <2>1. fellBack' <= age + 1
    BY <1>1, Constants DEF Tick, Older, TypeOK
  <2> QED
    BY <1>1, <2>1
<1>2. CASE \A m \in Known : steady[m] > age => (m \in lists <=> m \in table)
  <2>1. ASSUME NEW m \in Known, steady'[m] > age + 1 PROVE steady[m] > age
    BY <2>1, Constants DEF Tick, Older, TypeOK
  <2>2. table' = table
    BY DEF Tick
  <2> QED
    BY <1>2, <2>1, <2>2
<1> QED
  BY <1>1, <1>2 DEF ReadAt

\* The lists in force stay dated: an edit makes its marker new, a tick ages all.
LEMMA DatedStep == IInv /\ [Next]_vars => Dated'
<1> SUFFICES ASSUME TypeOK, Dated, [Next]_vars PROVE Dated'
  BY DEF IInv
<1> USE Constants
<1> DEFINE copy == caches["applicant"]
<1>t. /\ copy.age \in Nat /\ copy.age + MaxFill \in Nat /\ fill.age \in Nat
      /\ fill.age <= MaxFill
  BY DEF TypeOK
<1>s. ASSUME fellBack' = fellBack, caches'["applicant"] = copy, fill' = fill,
             \A m \in Known : \/ steady'[m] = 0
                              \/ /\ steady'[m] = steady[m]
                                 /\ m \in table' <=> m \in table
      PROVE  Dated'
  BY <1>s, <1>t, StillDated DEF Dated
<1>1. ASSUME NEW n \in Known, AddMarker(n) PROVE Dated'
  <2>1. /\ fellBack' = fellBack /\ caches'["applicant"] = copy /\ fill' = fill
        /\ \A m \in Known : \/ steady'[m] = 0
                            \/ /\ steady'[m] = steady[m]
                               /\ m \in table' <=> m \in table
    BY <1>1 DEF AddMarker, Changed, InvalidateCrisisCache, TypeOK
  <2> QED
    BY <1>s, <2>1
<1>2. ASSUME NEW n \in table, DeleteMarker(n) PROVE Dated'
  <2>1. /\ fellBack' = fellBack /\ caches'["applicant"] = copy /\ fill' = fill
        /\ \A m \in Known : \/ steady'[m] = 0
                            \/ /\ steady'[m] = steady[m]
                               /\ m \in table' <=> m \in table
    BY <1>2 DEF DeleteMarker, Changed, InvalidateCrisisCache, TypeOK
  <2> QED
    BY <1>s, <2>1
<1>3. CASE FillReads
  <2>1. PICK rows \in {table, {}} :
           /\ fill' = [on |-> TRUE, lists |-> ListsRead(rows), age |-> 0]
           /\ fellBack' = IF rows = {} THEN 0 ELSE fellBack
    BY <1>3 DEF FillReads
  <2>2. ~Valid("applicant") /\ caches' = caches /\ table' = table /\ steady' = steady
    BY <1>3 DEF FillReads
  <2>3. ReadAt(fill.lists, fill.age)'
    BY <2>1, <2>2 DEF ReadAt, ListsRead
  <2>4. copy.age < TTL => ReadAt(copy.lists, copy.age + MaxFill)'
    <3>1. fellBack' <= fellBack
      BY <2>1 DEF TypeOK
    <3>2. fellBack' \in Nat /\ fellBack \in Nat
      BY <2>1 DEF TypeOK
    <3> QED
      BY <1>t, <2>2, <3>1, <3>2 DEF Dated, ReadAt
  <2> QED
    BY <2>2, <2>3, <2>4 DEF Dated
<1>4. CASE FillStores
  <2>1. /\ caches'["applicant"] = [lists |-> fill.lists, age |-> 0]
        /\ ~fill'.on /\ table' = table /\ steady' = steady /\ fellBack' = fellBack
    BY <1>4 DEF FillStores, NoFill, TypeOK
  <2>2. ReadAt(fill.lists, fill.age)
    BY <1>4 DEF FillStores, Dated
  <2>3. ReadAt(fill.lists, 0 + MaxFill)
    <3>1. fellBack \in Nat /\ \A m \in Known : steady[m] \in Nat
      BY DEF TypeOK
    <3> QED
      BY <1>t, <2>2, <3>1 DEF ReadAt
  <2> QED
    BY <2>1, <2>3 DEF Dated, ReadAt
<1>5. CASE Tick
  <2>1. /\ caches'["applicant"].lists = copy.lists
        /\ caches'["applicant"].age = IF copy.age < TTL THEN copy.age + 1 ELSE copy.age
        /\ fill'.on = fill.on /\ fill'.lists = fill.lists
        /\ fill.on => fill'.age = fill.age + 1
    BY <1>5 DEF Tick, TypeOK
  <2>2. ASSUME caches'["applicant"].age < TTL
        PROVE  ReadAt(caches["applicant"].lists, caches["applicant"].age + MaxFill)'
    <3>1. copy.age < TTL /\ caches'["applicant"].age = copy.age + 1
      BY <2>1, <2>2, <1>t
    <3>2. ReadAt(copy.lists, copy.age + MaxFill)
      BY <3>1 DEF Dated
    <3>3. PICK lists, age : lists = copy.lists /\ age = copy.age + MaxFill
      OBVIOUS
    <3>4. \/ lists = BuiltIn /\ fellBack' <= age + 1
          \/ \A m \in Known : steady'[m] > age + 1 => (m \in lists <=> m \in table')
      <4>1. age \in Nat /\ ReadAt(lists, age)
        BY <1>t, <3>2, <3>3
      <4> QED
        BY <1>5, <4>1, GrowOlder
    <3>5. caches'["applicant"].age + MaxFill = age + 1
      BY <1>t, <3>1, <3>3
    <3> QED
      BY <2>1, <3>3, <3>4, <3>5 DEF ReadAt
  <2>3. ASSUME fill'.on PROVE ReadAt(fill.lists, fill.age)'
    <3>1. ReadAt(fill.lists, fill.age)
      BY <2>1, <2>3 DEF Dated
    <3>2. PICK lists, age : lists = fill.lists /\ age = fill.age
      OBVIOUS
    <3>3. \/ lists = BuiltIn /\ fellBack' <= age + 1
          \/ \A m \in Known : steady'[m] > age + 1 => (m \in lists <=> m \in table')
      <4>1. age \in Nat /\ ReadAt(lists, age)
        BY <1>t, <3>1, <3>2
      <4> QED
        BY <1>5, <4>1, GrowOlder
    <3>4. fill'.age = age + 1
      BY <2>1, <2>3, <3>2
    <3> QED
      BY <2>1, <3>2, <3>3, <3>4 DEF ReadAt
  <2> QED
    BY <2>2, <2>3 DEF Dated
<1>6. CASE Restart
  BY <1>6 DEF Restart, Dated, NoLists, NoFill
<1>7. CASE UNCHANGED vars
  BY <1>7 DEF Dated, ReadAt, vars
<1>8. ASSUME NEW entry \in Entries PROVE Stored(entry) \in Known
  BY DEF Known
<1> QED
  BY <1>1, <1>2, <1>3, <1>4, <1>5, <1>6, <1>7, <1>8 DEF Next, AdminNext

\* The inductive invariant holds of every execution.
THEOREM Invariance == Spec => []IInv
<1>1. Init => IInv
  BY TypeInit, Constants DEF IInv, Init, Dated, NoLists, NoFill
<1>2. IInv /\ [Next]_vars => IInv'
  BY TypeStep, DatedStep DEF IInv
<1> QED
  BY <1>1, <1>2, PTL DEF Spec

\* The table, the copies of both servers and the refill stay well typed.
THEOREM TypeCorrect == Spec => []TypeOK
<1>1. IInv => TypeOK
  BY DEF IInv
<1> QED
  BY <1>1, Invariance, PTL

\* A marker is of one of the two kinds.
LEMMA Kinds == \A m \in Known : m.kind \in {"substring", "word"}
<1>1. ASSUME NEW m \in BuiltIn PROVE m.kind \in {"substring", "word"}
  BY MarkersAssumption DEF Marker
<1>2. ASSUME NEW entry \in Entries PROVE Stored(entry).kind \in {"substring", "word"}
  <2>1. entry.kind \in {"substring", "word"}
    BY MarkersAssumption DEF Entry
  <2> QED
    BY <2>1 DEF Stored
<1> QED
  BY <1>1, <1>2 DEF Known

\* Lists in force are younger than Horizon.
LEMMA InForceIsDated ==
    ASSUME IInv, NEW lists \in InForce
    PROVE  /\ lists \subseteq Known
           /\ \E age \in Nat : age < Horizon /\ ReadAt(lists, age)
<1>1. CASE Valid("applicant") /\ lists = caches["applicant"].lists
  <2>1. caches["applicant"].age < TTL
    BY <1>1 DEF Valid
  <2>2. /\ caches["applicant"].age + MaxFill \in Nat
        /\ caches["applicant"].age + MaxFill < Horizon
    BY <2>1, Constants DEF IInv, TypeOK
  <2> QED
    BY <1>1, <2>1, <2>2 DEF IInv, Dated, TypeOK
<1>2. CASE fill.on /\ lists = fill.lists
  <2>1. fill.age \in Nat /\ fill.age < Horizon
    BY Constants DEF IInv, TypeOK
  <2> QED
    BY <1>2, <2>1 DEF IInv, Dated, TypeOK
<1> QED
  BY <1>1, <1>2 DEF InForce

\* A marker in the table flags its texts within the life of a copy; a built-in
\* one even when the table cannot be read.
THEOREM MarkedIsFlagged == Spec => []MarkedTextIsFlagged
<1>1. IInv => MarkedTextIsFlagged
  <2> SUFFICES ASSUME IInv, NEW lists \in InForce, NEW m \in table, NEW o \in Occurrence,
                      TableWasRead \/ m \in BuiltIn,
                      Settled(m), Findable(m), Meant(m, o)
               PROVE  DetectCrisisWith(lists, {o})
    BY DEF MarkedTextIsFlagged
  <2>1. PICK age \in Nat : age < Horizon /\ ReadAt(lists, age)
    BY InForceIsDated
  <2>2. m \in Known /\ steady[m] \in Nat /\ fellBack \in Nat
    BY Constants DEF IInv, TypeOK
  <2>3. m \in lists
    <3>1. CASE lists = BuiltIn /\ fellBack <= age
      BY <2>1, <2>2, <3>1, Constants DEF TableWasRead
    <3>2. CASE \A n \in Known : steady[n] > age => (n \in lists <=> n \in table)
      BY <2>1, <2>2, <3>2, Constants DEF Settled
    <3> QED
      BY <2>1, <3>1, <3>2 DEF ReadAt
  <2>4. m.kind \in {"substring", "word"}
    BY <2>2, Kinds
  <2>5. Matches(m, o)
    BY <2>4 DEF Matches, MatchesWord, Findable, Meant
  <2> QED
    BY <2>3, <2>5 DEF DetectCrisisWith
<1> QED
  BY <1>1, Invariance, PTL

\* What no marker of the table is meant for is not flagged, once the copies
\* older than the last change are gone.
THEOREM UnmarkedIsNot == Spec => []UnmarkedTextIsNot
<1>1. IInv => UnmarkedTextIsNot
  <2> SUFFICES ASSUME IInv, NEW lists \in InForce, NEW o \in Occurrence,
                      TableWasRead, \A m \in Known : Settled(m),
                      \A m \in table : ~Meant(m, o)
               PROVE  ~DetectCrisisWith(lists, {o})
    BY DEF UnmarkedTextIsNot
  <2>1. PICK age \in Nat : age < Horizon /\ ReadAt(lists, age)
    BY InForceIsDated
  <2>2. fellBack \in Nat /\ lists \subseteq Known /\ \A m \in Known : steady[m] \in Nat
    BY InForceIsDated DEF IInv, TypeOK
  <2>3. ~(lists = BuiltIn /\ fellBack <= age)
    BY <2>1, <2>2, Constants DEF TableWasRead
  <2>4. \A m \in Known : m \in lists <=> m \in table
    BY <2>1, <2>2, <2>3, Constants DEF ReadAt, Settled
  <2>5. ASSUME NEW m \in lists, Matches(m, o) PROVE FALSE
    <3>1. m.kind \in {"substring", "word"}
      BY <2>2, Kinds
    <3>2. Meant(m, o)
      BY <2>5, <3>1 DEF Matches, MatchesWord, Meant
    <3> QED
      BY <2>2, <2>4, <3>2
  <2> QED
    BY <2>5 DEF DetectCrisisWith
<1> QED
  BY <1>1, Invariance, PTL
=============================================================================
