----------------------------- MODULE MCHttpStream -----------------------------
(* A small io_service for TLC: its threads are interchangeable. *)
EXTENDS HttpStream, TLC

ThreadSymmetry == Permutations(Threads)
===============================================================================
