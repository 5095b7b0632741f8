-------------------------- MODULE MCDownloadChain --------------------------
(* An instance of DownloadChain for TLC.                                   *)
EXTENDS DownloadChain

\* A SONCA box has the lists that a status may fetch, too; a SMARTK box the one that is
\* the last of its chain.
MCFilesOf == [SONCA |-> {"offline", "hidden"}, SMARTK |-> {"samba"}]
MCChanging == {"hidden"}
=============================================================================
