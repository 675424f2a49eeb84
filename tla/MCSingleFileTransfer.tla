------------------------ MODULE MCSingleFileTransfer ------------------------
(***************************************************************************)
(* Values of the constants of SingleFileTransfer for TLC.  A content has   *)
(* two chunks, so that a chunking can be overtaken half way; no content is *)
(* a mix of two others, so that a torn manifest is recognised as such.     *)
(***************************************************************************)
EXTENDS TransferMirror

MCChunk == {"a", "b", "c", "d"}
TwoContents == {<<"a", "b">>, <<"c", "d">>}
AllContents == {<<"a", "b">>, <<"c", "d">>, <<"a">>, <<>>}
WithEmpty == {<<"a", "b">>, <<>>}
=============================================================================
