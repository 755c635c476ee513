----------------------------- MODULE MCEventLoop -----------------------------
(* EventLoop with interchangeable connections, scripts and listeners. *)
EXTENDS EventLoop, TLC

Symmetry == Permutations(Conns) \cup Permutations(Scripts) \cup Permutations(Listeners)
=============================================================================
