------------------------------ MODULE KeyedStore ------------------------------
(***************************************************************************)
(* What an arena promises its callers: a map from keys to values in which  *)
(* a key is handed out once.  `issued` holds every key handed out on the   *)
(* present history, `live` the values of those not yet removed, `saved`    *)
(* the history a checkpoint returns to, while the checkpoint is intact.     *)
(***************************************************************************)
CONSTANTS Keys, Values

VARIABLES live, issued, saved

vars == <<live, issued, saved>>

History == [live |-> live, issued |-> issued, intact |-> TRUE]

\* A checkpoint that was never taken returns to the empty history.
Init ==
    /\ live = [k \in {} |-> CHOOSE v \in Values : TRUE]
    /\ issued = {}
    /\ saved = History

Insert ==
    \E k \in Keys \ issued, v \in Values :
        /\ live' = [j \in DOMAIN live \cup {k} |-> IF j = k THEN v ELSE live[j]]
        /\ issued' = issued \cup {k}
        /\ UNCHANGED saved

Write ==
    \E k \in DOMAIN live, v \in Values :
        /\ live' = [live EXCEPT ![k] = v]
        /\ UNCHANGED <<issued, saved>>

Remove ==
    \E k \in DOMAIN live :
        /\ live' = [j \in DOMAIN live \ {k} |-> live[j]]
        /\ UNCHANGED <<issued, saved>>

Save == saved' = History /\ UNCHANGED <<live, issued>>

Restore ==
    /\ saved.intact
    /\ live' = saved.live
    /\ issued' = saved.issued
    /\ UNCHANGED saved

\* A checkpoint may be damaged where it is stored; what is then read back, if
\* it is accepted, starts a history of its own.
Lose ==
    /\ saved' = [saved EXCEPT !.intact = FALSE]
    /\ UNCHANGED <<live, issued>>

Adopt ==
    /\ ~saved.intact
    /\ issued' = DOMAIN live'
    /\ UNCHANGED saved

Next == Insert \/ Write \/ Remove \/ Save \/ Restore \/ Lose \/ Adopt

Spec == Init /\ [][Next]_vars
===============================================================================
