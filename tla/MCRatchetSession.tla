-------------------------- MODULE MCRatchetSession --------------------------
(* Instantiation of RatchetSession for TLC.                                *)
EXTENDS RatchetSession

\* Peer ratchet keys are the parties' own keys: the handshake's and the
\* ones drawn by DH steps.
MCRemoteKeys == 1..MaxDH

=============================================================================
