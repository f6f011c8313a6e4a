--------------------------- MODULE MCPushDelivery ---------------------------
(***************************************************************************)
(* A finite instance of PushDelivery for TLC: the janitor and a handler    *)
(* send at the same time; three endpoints, so that two are slow before the *)
(* third; a round of four ticks, of which one request may take two.        *)
(***************************************************************************)
EXTENDS PushDelivery, TLC

Symmetry == Permutations(Appeals) \cup Permutations(Endpoints)

\* Senders meet only in the table: with both at work, one endpoint is enough.
OneOrFew ==
    \/ \E s \in Senders : senders[s] = NotSending
    \/ Cardinality({ep \in Endpoints : rows[ep] # Nowhere} \cup
                   UNION {senders[s].todo \cup senders[s].dead : s \in Senders}) <= 1
=============================================================================
