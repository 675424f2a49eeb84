--------------------------- MODULE TransferMirror ---------------------------
(***************************************************************************)
(* SingleFileTransfer implements Mirror, as long as no two writes carry    *)
(* the same mtime and no commit is applied after its client gave up; and   *)
(* what it does to each server is within ChunkStore.                       *)
(***************************************************************************)
EXTENDS SingleFileTransfer

Copy ==
  [s \in Server |-> IF published[s] = None THEN None ELSE published[s].chunks]

Synced == IF row.state = "synced" THEN row.synced_manifest ELSE None

M == INSTANCE Mirror
       WITH Version <- Contents, had <- past, copy <- Copy, synced <- Synced

\* Every step of the transfer, with its interrupted uploads, resumed manifests
\* and changes of server, publishes a whole version the file had, records what
\* a server holds, or changes nothing the server or the user can see.
ImplementsMirror == M!Spec

ServerOf(s) ==
  INSTANCE ChunkStore
    WITH Path <- {"path"}, Manifests <- Contents, held <- store[s],
         manifests <- [p \in {"path"} |-> published[s]]

\* The transfer takes a server for what SyncServer implements.  Whatever a call
\* asks, uploads and commits, and wherever it moves on to, each server is given
\* chunks, which it keeps, and whole contents whose chunks it has.
ServersAreStores ==
  /\ \A s \in Server : ServerOf(s)!Init
  /\ [][\A s \in Server : [ServerOf(s)!Next]_<<store[s], published[s]>>]_vars
=============================================================================
