----------------------------- MODULE ChunkStore -----------------------------
(***************************************************************************)
(* What one sync server promises its clients, without threads, locks or    *)
(* files: chunks are kept for good, a manifest is published only when all  *)
(* its chunks are kept, and a tombstone hides a manifest that exists.      *)
(***************************************************************************)
CONSTANTS Chunk, Path, Manifests, None

VARIABLES
  held,       \* the chunks the server keeps
  manifests   \* manifests[p]: the row of path p, or None

Referenced(m) == {m[i] : i \in DOMAIN m}
Row(m, deleted) == [chunks |-> m, deleted |-> deleted]

Init == held = {} /\ manifests = [p \in Path |-> None]

Keep == \E h \in Chunk : held' = held \cup {h} /\ UNCHANGED manifests

Publish(p) ==
  /\ \E m \in Manifests :
       /\ Referenced(m) \subseteq held
       /\ manifests' = [manifests EXCEPT ![p] = Row(m, FALSE)]
  /\ UNCHANGED held

Retract(p) ==
  /\ manifests[p] # None
  /\ manifests' = [manifests EXCEPT ![p] = Row(@.chunks, TRUE)]
  /\ UNCHANGED held

Next == Keep \/ \E p \in Path : Publish(p) \/ Retract(p)

Spec == Init /\ [][Next]_<<held, manifests>>
=============================================================================
