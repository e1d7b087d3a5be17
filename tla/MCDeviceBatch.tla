--------------------------- MODULE MCDeviceBatch ---------------------------
(* TLC instances of DeviceBatch.                                           *)
EXTENDS DeviceBatch

\* Every batch of up to three commands, among them batches that name a device
\* twice or an action that does not fit.
SmallBatches ==
    UNION {[1..n -> [device : Devices, fits : {TRUE}]] : n \in 0..3}
        \cup {<<[device |-> d, fits |-> FALSE]>> : d \in Devices}
=============================================================================
