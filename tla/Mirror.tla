------------------------------- MODULE Mirror -------------------------------
(***************************************************************************)
(* What the client promises for one file, without stats, chunks, requests  *)
(* or restarts: a server's copy is always some version the file really     *)
(* had, replaced as a whole, and the client calls a version synced only    *)
(* when a server holds exactly that version.                               *)
(***************************************************************************)
CONSTANTS Server, Version, None

VARIABLES
  had,      \* the versions the file had so far
  copy,     \* copy[s]: the version server s holds, or None
  synced    \* the version the client calls synced, or None

vars == <<had, copy, synced>>

Init ==
  /\ had \subseteq Version
  /\ copy = [s \in Server |-> None]
  /\ synced = None

\* The file gets another content.
Write(v) == had' = had \cup {v} /\ UNCHANGED <<copy, synced>>

\* A server replaces its copy by a version of the file.
Publish(s) ==
  /\ \E v \in had : copy' = [copy EXCEPT ![s] = v]
  /\ UNCHANGED <<had, synced>>

\* The client records what a server holds.
Acknowledge ==
  /\ \E s \in Server : copy[s] # None /\ synced' = copy[s]
  /\ UNCHANGED <<had, copy>>

\* The client sets out to sync again.
Doubt == synced' = None /\ UNCHANGED <<had, copy>>

Next ==
  \/ \E v \in Version : Write(v)
  \/ \E s \in Server : Publish(s)
  \/ Acknowledge
  \/ Doubt

Spec == Init /\ [][Next]_vars
=============================================================================
