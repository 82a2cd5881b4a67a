----------------------------- MODULE MCAuthFlow -----------------------------
(***************************************************************************)
(* AuthFlow for TLC.  Requests are interchangeable: the safety runs use a  *)
(* symmetry set; the liveness runs, where symmetry is unsound, number the  *)
(* requests and let the clients issue them in that order.                  *)
(***************************************************************************)
EXTENDS AuthFlow, TLC

Symmetry == Permutations(Requests)

\* Request r is the next to be issued (Requests is a set of numbers).
IsNext(r) == \A s \in Requests : s < r => pc[s] # "idle"

OrderedNext ==
    \/ \E r \in Requests :
          (IsNext(r) /\ ClientCall(r)) \/ RequestStep(r) \/ ClientCancels(r)
    \/ \E g \in Gens : AttemptStep(g) \/ Environment(g)

OrderedFairSpec ==
    /\ Init /\ [][OrderedNext]_vars
    /\ \A r \in Requests : WF_vars(RequestStep(r))
    /\ \A g \in Gens : WF_vars(AttemptStep(g))

=============================================================================
