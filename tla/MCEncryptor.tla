---------------------------- MODULE MCEncryptor ----------------------------
(* Instantiation of Encryptor for TLC.                                      *)
EXTENDS Encryptor, TLC

\* Threads are interchangeable: they run the same code on one counter.
ThreadSymmetry == Permutations(Threads)

=============================================================================
