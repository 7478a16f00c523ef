--------------------------- MODULE MCMultiDevice ---------------------------
(* Instances of MultiDevice for TLC: two devices, of one worker each.       *)
EXTENDS MultiDevice, TLC

CONSTANTS cpu, gpu, w1, w2

MCDeviceOf == w1 :> cpu @@ w2 :> gpu

AllSelections == {{}, {cpu}, {gpu}, {cpu, gpu}}
=============================================================================
