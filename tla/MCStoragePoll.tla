--------------------------- MODULE MCStoragePoll ----------------------------
(* Three commands: one whose interrupt is being handled, one that the poll *)
(* callback sees, and one that is posted in between.                       *)
EXTENDS StoragePoll

NoPoll == {"none"}
MsixAndMsiIo == {"msix", "msiIo"}
MsiAdmin == {"msiAdmin"}
AnyPoll == {"none", "idle"}
=============================================================================
