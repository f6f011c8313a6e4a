-------------------------- MODULE MCCrisisMarkers --------------------------
(***************************************************************************)
(* A finite instance of CrisisMarkers for TLC: a word and a phrase, both   *)
(* of them built in.                                                       *)
(***************************************************************************)
EXTENDS CrisisMarkers

CONSTANTS knife, phrase

MCBuiltIn ==
    {[kind |-> "word", stem |-> knife, spelling |-> "e"],
     [kind |-> "substring", stem |-> phrase, spelling |-> "yo"]}

\* The word again, the word with a capital letter yo, the word wherever it
\* occurs.
MCEntries ==
    {[kind |-> "word", stem |-> knife, typed |-> "small yo"],
     [kind |-> "word", stem |-> knife, typed |-> "capital yo"],
     [kind |-> "substring", stem |-> knife, typed |-> "e"]}
=============================================================================
