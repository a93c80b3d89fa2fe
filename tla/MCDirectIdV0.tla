---------------------------- MODULE MCDirectIdV0 ----------------------------
(***************************************************************************)
(* DirectIdV0 on pairs of short files, against a server whose model may be *)
(* another one at every call, and which may send its two-byte characters   *)
(* as escapes in two halves.                                               *)
(***************************************************************************)
EXTENDS DirectIdV0, NativeServer

CONSTANT MaxLen  \* the longest file

ShortFiles == SeqOf({1, 2, Lead, Trail}, MaxLen)
MCWide == {Lead, Trail}
MCFixtures == [fixture : ShortFiles, restored : ShortFiles, server : {Swapping}]
=============================================================================
