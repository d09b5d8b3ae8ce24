-------------------------- MODULE MCSessionSystem --------------------------
(* Instances of SessionSystem for TLC. *)
EXTENDS SessionSystem, TLC

\* What guards and the properties of the run session_all read: not what was served, nor
\* which sessions were moved away, nor what clients were told.
DirectoryView == <<socketVars, sessionId, m_client_set, m_allocID, gate, thrown,
                   m_worker_client, requests, asked, sessionNetVars>>

Symmetry == Permutations(Client)
=============================================================================
