---------------------------- MODULE CrisisMarkers ----------------------------
(***************************************************************************)
(* The dictionary of crisis markers: the table the admin edits, the copy   *)
(* of it that the detector uses for a minute (httpapi/crisis_admin.go),    *)
(* the seed of a start (store/crisis_markers.go) and the matching of a     *)
(* text (domain/crisis.go).                                                *)
(*                                                                         *)
(* Both HTTP servers are values of one type and each has such a copy; the  *)
(* texts of applicants come to one of them, the admin to the other.  The   *)
(* copy is refilled under a mutex, by a query that may take its time or    *)
(* fail: reading and storing are two actions.                              *)
(*                                                                         *)
(* A text is a set of occurrences of the words the dictionary is about: is *)
(* the occurrence the beginning of a word, and how many letters follow it. *)
(*                                                                         *)
(* A definition named ..._Fault is no part of the model: see AppealStore.  *)
(***************************************************************************)
EXTENDS Integers

CONSTANTS
    Stem,      \* what markers are made of, up to case and the letter yo
    Phrases,   \* the stems of more than one word
    BuiltIn,   \* domain.CrisisMarkers and domain.CrisisWordMarkers
    Entries,   \* what the admin may type in
    TTL,       \* crisisCacheTTL, in ticks
    MaxFill    \* bound of the model: ticks the query of a refill may take

Server == {"applicant", "staff"}

\* Letters of a marker as the table keeps them: "yo" if one is left.
Marker == [kind : {"substring", "word"}, stem : Stem, spelling : {"e", "yo"}]

Entry == [kind : {"substring", "word"}, stem : Stem,
          typed : {"e", "small yo", "capital yo"}]

\* handleAdminAddCrisisMarker: ReplaceAll of the small yo comes before ToLower,
\* so that a capital one is left, as a small one.
Stored(entry) ==
    [kind |-> entry.kind, stem |-> entry.stem,
     spelling |-> IF entry.typed = "capital yo" THEN "yo" ELSE "e"]

\* The markers that can come up.
Known == BuiltIn \cup {Stored(entry) : entry \in Entries}

ASSUME MarkersAssumption ==
    /\ Phrases \subseteq Stem
    /\ Entries \subseteq Entry
    /\ BuiltIn \subseteq Marker
    /\ \E m \in BuiltIn : m.kind = "substring"
    /\ TTL \in Nat \ {0} /\ MaxFill \in Nat

VARIABLES
    table,   \* table crisis_markers
    caches,  \* per server crisisSubs and crisisWords, and the ticks since
    fill,    \* the refill that holds crisisMu, if one does: what it has read
    \* History variables: read by no action, only by properties.
    steady,  \* per marker: ticks since it was added or deleted
    fellBack \* ticks since the built-in lists were last taken for the table

vars == <<table, caches, fill, steady, fellBack>>

\* Longer than any copy in force has been out of the table.
Horizon == TTL + MaxFill

Ages == 0..Horizon

Older(age) == IF age < Horizon THEN age + 1 ELSE age

\* age = TTL: crisisAt is past, or has never been set.
NoLists == [lists |-> {}, age |-> TTL]

NoFill == [on |-> FALSE, lists |-> {}, age |-> 0]

TypeOK ==
    /\ table \subseteq Known
    /\ caches \in [Server -> [lists : SUBSET Known, age : 0..TTL]]
    /\ fill \in [on : BOOLEAN, lists : SUBSET Known, age : 0..MaxFill]
    /\ steady \in [Known -> Ages]
    /\ fellBack \in Ages

\* The first start has seeded the table.
Init ==
    /\ table = BuiltIn
    /\ caches = [s \in Server |-> NoLists]
    /\ fill = NoFill
    /\ steady = [m \in Known |-> 0]
    /\ fellBack = Horizon

-----------------------------------------------------------------------------
(* Matching                                                                *)

\* matchWordMarker: m is compared, as it is, with the beginnings of words of the
\* normalised text, which are chains of letters without a yo.
MatchesWord(m, o) ==
    m.spelling = "e" /\ m.stem \notin Phrases /\ o.start /\ o.tail <= 2

\* A marker of kind substring is normalised like the text.
Matches(m, o) ==
    m.stem = o.stem /\ (m.kind = "substring" \/ MatchesWord(m, o))

DetectCrisisWith(lists, text) == \E m \in lists, o \in text : Matches(m, o)

-----------------------------------------------------------------------------
(* The admin                                                               *)

Changed(m) == steady' = [steady EXCEPT ![m] = 0]

\* The server of the admin forgets its copy.
InvalidateCrisisCache == caches' = [caches EXCEPT !["staff"].age = TTL]

\* AddCrisisMarker; a marker that is there stays there.
AddMarker(m) ==
    /\ table' = table \cup {m}
    /\ IF m \in table THEN UNCHANGED steady ELSE Changed(m)
    /\ InvalidateCrisisCache
    /\ UNCHANGED <<fill, fellBack>>

DeleteMarker(m) ==
    /\ m \in table
    /\ table' = table \ {m}
    /\ Changed(m)
    /\ InvalidateCrisisCache
    /\ UNCHANGED <<fill, fellBack>>

-----------------------------------------------------------------------------
(* The detector                                                            *)

Valid_Fault(s) ==  \* an expired copy is as good as a fresh one
    \E m \in caches[s].lists : m.kind = "substring"

\* A copy without substrings (a nil slice) counts as none.
Valid(s) ==
    /\ caches[s].age < TTL
    /\ \E m \in caches[s].lists : m.kind = "substring"

ListsRead_Fault(rows) == rows  \* an empty table is taken at its word

ListsRead(rows) == IF rows = {} THEN BuiltIn ELSE rows

\* crisisLists up to the answer of the query, which fails when the database
\* does or when the applicant who happened to ask has hung up.
FillReads ==
    /\ ~fill.on
    /\ ~Valid("applicant")
    /\ \E rows \in {table, {}} :
          /\ fill' = [on |-> TRUE, lists |-> ListsRead(rows), age |-> 0]
          /\ fellBack' = IF rows = {} THEN 0 ELSE fellBack
    /\ UNCHANGED <<table, caches, steady>>

FillStores ==
    /\ fill.on
    /\ caches' = [caches EXCEPT !["applicant"] = [lists |-> fill.lists, age |-> 0]]
    /\ fill' = NoFill
    /\ UNCHANGED <<table, steady, fellBack>>

Tick ==
    /\ fill.on => fill.age < MaxFill     \* bound of the model
    /\ fill' = [fill EXCEPT !.age = IF fill.on THEN @ + 1 ELSE @]
    /\ caches' = [s \in Server |->
                    [caches[s] EXCEPT !.age = IF @ < TTL THEN @ + 1 ELSE @]]
    /\ steady' = [m \in Known |-> Older(steady[m])]
    /\ fellBack' = Older(fellBack)
    /\ UNCHANGED table

\* EnsureCrisisMarkersSeeded: only an empty table is filled.
Seeded == IF table = {} THEN BuiltIn ELSE table

\* A new process: the copies are gone.
Restart ==
    /\ table' = Seeded
    /\ caches' = [s \in Server |-> NoLists]
    /\ fill' = NoFill
    /\ steady' = [m \in Known |-> IF m \in Seeded \ table THEN 0 ELSE steady[m]]
    /\ UNCHANGED fellBack

AdminNext ==
    \/ \E entry \in Entries : AddMarker(Stored(entry))
    \/ \E m \in table : DeleteMarker(m)

Next == AdminNext \/ FillReads \/ FillStores \/ Tick \/ Restart

Spec == Init /\ [][Next]_vars

-----------------------------------------------------------------------------
\* The lists a text may be looked at with now: those of the copy, or those the
\* request that refills it has read.
InForce ==
    (IF Valid("applicant") THEN {caches["applicant"].lists} ELSE {})
        \cup (IF fill.on THEN {fill.lists} ELSE {})

\* For at least as long as any list in force has been out of the table.
Settled(m) == steady[m] >= Horizon

\* Every read of that time has been one of the table.
TableWasRead == fellBack >= Horizon

Occurrence == [stem : Stem, start : BOOLEAN, tail : 0..3]

\* A text as the marker means it: the word, with up to two letters of an ending.
Meant(m, o) ==
    o.stem = m.stem /\ (m.kind = "word" => o.start /\ o.tail <= 2)

\* A marker that a text can match at all: no word of several words, and none
\* with a capital yo.
Findable(m) == m.kind = "word" => m.spelling = "e" /\ m.stem \notin Phrases

\* "A minute's delay is immaterial" (crisisCacheTTL), and no more than that: a
\* marker that has stood in the table for longer than the copy may be old flags
\* every text it is meant for.  "The detector must always work" (detectCrisis):
\* if it is one of the built-in markers, even while the table cannot be read.
MarkedTextIsFlagged ==
    \A lists \in InForce, m \in table, o \in Occurrence :
        /\ TableWasRead \/ m \in BuiltIn
        /\ Settled(m) /\ Findable(m) /\ Meant(m, o)
        => DetectCrisisWith(lists, {o})

\* The other way about: a marker deleted as long ago flags nothing any more, and
\* no text is flagged that no marker is meant for.
UnmarkedTextIsNot ==
    \A lists \in InForce, o \in Occurrence :
        /\ TableWasRead
        /\ \A m \in Known : Settled(m)
        /\ \A m \in table : ~Meant(m, o)
        => ~DetectCrisisWith(lists, {o})
=============================================================================
