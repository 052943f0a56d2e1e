--------------------------------- MODULE MCServer -------------------------------
(***************************************************************************)
(* Server for TLC: for safety, with symmetry, and for liveness, without it *)
(* and in two kinds of behaviour: several clients that send no more than   *)
(* their request, or a single one that goes on sending.                    *)
(***************************************************************************)
EXTENDS Server, TLC

\* The connections that may break are alike, and those that do not.
Alike == Permutations(Conns \ Resets) \cup Permutations(Resets)

\* Bound of the liveness run: who sends data is the Sender and alone.
Sender == CHOOSE c \in Resets : TRUE
Alone == \A c \in Conns : asked[c] > 1 =>
            c = Sender /\ \A d \in Conns \ {c} : peer[d] = "none"

\* No step of either thread can make it false, so their fairness is as in FairSpec.
LiveSpec == Init /\ [][Next /\ Alone']_vars /\ WF_vars(IoNext) /\ WF_vars(MainNext)
================================================================================
