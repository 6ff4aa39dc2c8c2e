--------------------------- MODULE MCPolicyClient ---------------------------
(* PolicyClient for TLC.  Calls may race, on a disk whose directory may    *)
(* fail to sync; or they follow one another, with more bundles, more       *)
(* faults and a controller restored from a backup.                         *)
EXTENDS PolicyClient, TLC

Racing == [serial |-> FALSE, restores |-> FALSE, syncFails |-> TRUE, bundles |-> 3, faults |-> 1]
Serial == [serial |-> TRUE, restores |-> TRUE, syncFails |-> FALSE, bundles |-> 3, faults |-> 2]

RacingOrSerial == {Racing, Serial}
RacingOnly == {[Racing EXCEPT !.syncFails = FALSE, !.faults = 0]}
=============================================================================
