-------------------------------- MODULE Clock --------------------------------
(* The clock that the parts of one process read.                           *)
VARIABLE now    \* Date.now(), taken to be monotonic
=============================================================================
