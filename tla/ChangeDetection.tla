-------------------------- MODULE ChangeDetection --------------------------
(***************************************************************************)
(* The decision kernel and the state store of the client                   *)
(* (src/sync-demo/client/change_detection.py), for one path.               *)
(*                                                                         *)
(* A chunk is identified with its BLAKE3 digest (digests do not collide),  *)
(* a manifest with the sequence of its chunks: offset and length follow    *)
(* from the position, and the file hash, the digest of that sequence, is   *)
(* not stored a second time.  A stat result is the pair the kernel reads,  *)
(* [size, mtime].                                                          *)
(***************************************************************************)
EXTENDS Integers, Sequences

CONSTANTS
  Chunk,      \* chunk contents, each standing for its digest too
  Guard,      \* GUARD_NS, and BOUNDARY_GUARD_NS which must equal it
  None        \* SQL NULL, Python None; also "no file at the path"

ASSUME GuardAssumption == Guard \in Nat
ASSUME NoneAssumption == None \notin Seq(Chunk)

Manifest == Seq(Chunk)
StatResult == [size : Nat, mtime : Nat]
Hashes(manifest) == {manifest[i] : i \in DOMAIN manifest}

(***************************************************************************)
(* The row of a path.  State "absent" is a path without a row.             *)
(***************************************************************************)
FileRec ==
  [ key : StatResult,
    state : {"absent", "dirty", "chunked", "synced"},
    manifest : Manifest \cup {None},
    synced_manifest : Manifest \cup {None},
    verified_at : Nat ]

AbsentRow ==
  [ key |-> [size |-> 0, mtime |-> 0], state |-> "absent", manifest |-> None,
    synced_manifest |-> None, verified_at |-> 0 ]

(***************************************************************************)
(* classify(): "UNCHANGED" is Python's None, the verdict of a file proved  *)
(* unchanged.                                                              *)
(***************************************************************************)
Classify(rec, st) ==
  CASE rec.state = "absent" -> "NEW"
    [] rec.state \in {"dirty", "chunked"} -> "INTERRUPTED"
    [] rec.state = "synced" /\ st # rec.key -> "STAT_CHANGED"
    [] /\ rec.state = "synced" /\ st = rec.key
       /\ st.mtime >= rec.verified_at - Guard -> "BOUNDARY"
    [] OTHER -> "UNCHANGED"

(***************************************************************************)
(* The statements of StateDB, each a function from the row before to the   *)
(* row after.  An UPDATE of an absent row changes nothing.                 *)
(***************************************************************************)
\* Mutant of SaveChunked: the manifest becomes the baseline before its upload.
SaveChunkedAsBaseline(rec, key, manifest, at) ==
  [rec EXCEPT !.key = key, !.state = "chunked", !.manifest = manifest,
              !.synced_manifest = manifest, !.verified_at = at]

SaveChunked(rec, key, manifest, at) ==
  [rec EXCEPT !.key = key, !.state = "chunked", !.manifest = manifest,
              !.verified_at = at]

MarkSynced(rec) ==
  IF rec.state = "absent" THEN rec
  ELSE [rec EXCEPT !.state = "synced", !.synced_manifest = rec.manifest,
                   !.manifest = None]

MarkDirty(rec) ==
  IF rec.state = "absent" THEN rec
  ELSE [rec EXCEPT !.state = "dirty", !.manifest = None]

Forget(rec) == AbsentRow

PrevHashes(rec) ==
  IF rec.synced_manifest = None THEN {} ELSE Hashes(rec.synced_manifest)

(***************************************************************************)
(* What get() returns as the manifest.  The manifest of an empty file is   *)
(* stored as an empty blob, which get() turns into None like a NULL.       *)
(***************************************************************************)
ResumeManifest(rec) ==
  IF rec.manifest = <<>> THEN None ELSE rec.manifest
=============================================================================
