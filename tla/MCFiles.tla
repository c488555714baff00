------------------------------- MODULE MCFiles -------------------------------
(* The rows, threads, webhooks and items of FileParts are interchangeable. *)
EXTENDS FileParts, TLC

Symmetry == Permutations(Threads) \cup Permutations(Contents)
            \cup Permutations(Items) \cup Permutations(Hooks)
=============================================================================
