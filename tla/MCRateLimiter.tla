--------------------------- MODULE MCRateLimiter ---------------------------
(***************************************************************************)
(* A finite instance of RateLimiter for TLC: a key with a short window, as *)
(* of a login, and one with the long window, as of the track numbers; and  *)
(* one key more than the map has room for.                                 *)
(***************************************************************************)
EXTENDS RateLimiter

CONSTANTS k1, k2, k3

MCLimit == [k \in Key |-> IF k = k1 THEN 2 ELSE 1]

MCWindow == [k \in Key |-> IF k = k1 THEN 3 ELSE 2]
=============================================================================
