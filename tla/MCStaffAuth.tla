---------------------------- MODULE MCStaffAuth ----------------------------
(***************************************************************************)
(* Finite instances of StaffAuth for TLC.                                  *)
(***************************************************************************)
EXTENDS StaffAuth, TLC

\* Neither actions nor properties tell two requests, tokens or secrets apart.
Symmetry ==
    Permutations(Workers) \cup Permutations(Tokens) \cup Permutations(Secrets)

\* No action touches two accounts: one changes its password and second factor, is
\* deactivated and activated, while the other, if there is one, is logged in.
\* Passwords and factors meet only in requests that have been admitted: crossed
\* password changes go with no factor, crossed factor changes with one password.
\* No factor is set up any more once the server has another demo password.
OneInTrouble ==
    /\ \E u \in Users : \A v \in Users \ {u} :
          /\ users[v].epoch = 0 /\ users[v].active
          /\ totp[v] = NoFactor
          /\ v \notin changed
          /\ \A w \in Workers : requests[w].user # v
    /\ issued # {} => /\ seed = SeedPwd
                      /\ \A u \in Users : users[u].epoch <= 1
                      /\ \A w \in Workers : requests[w].step \notin {"update", "drop"}
                      /\ spared = {}
=============================================================================
