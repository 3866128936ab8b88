-------------------------------- MODULE MCRuntimes --------------------------------
(***************************************************************************)
(* Instances of Runtimes for TLC.                                          *)
(***************************************************************************)
EXTENDS Runtimes, TLC

\* Search runs with at most MaxCalls calls, warmups and requests together.
CONSTANT MaxCalls

FewCalls ==
    Cardinality({w \in Warmups : wpc[w] # "idle"})
      + Cardinality({r \in Requests : rpc[r] # "idle"}) <= MaxCalls

RuntimeSymmetry == Permutations(Warmups) \cup Permutations(Requests)
===============================================================================
