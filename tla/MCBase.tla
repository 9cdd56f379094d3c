------------------------------- MODULE MCBase -------------------------------
(* Base on two slots: slot 1 preset to the shock sensor, as at boot, and slot
   4 free, as for a sensor added later. *)
EXTENDS Base

MCSlot == {1, 4}
MCPresetType == [i \in MCSlot |-> IF i = 1 THEN SENSOR_CHOCK ELSE SENSOR_NONE]

(* A shock sensor says its type, a PIR sensor none. *)
MCReportedType == {SENSOR_NONE, SENSOR_CHOCK}
=============================================================================
