---------------------------- MODULE MCSetupData ----------------------------
(***************************************************************************)
(* An instance of SetupData for TLC.  Which firmware is linked is chosen   *)
(* first; the requests name the endpoints that tell the branches of        *)
(* ep_addr apart, and those that carry data.                               *)
(***************************************************************************)
EXTENDS SetupData

All == {Hid, BlinkyFw, FifoSlave, Bulkloop, DebugDevice, FullDuplexDevice, UsbMon, Eeprom,
        Generic, FirstBlinky}

\* 3 does not exist; 129 has a register of its own and carries data in Hid only.
EndpointsNamed(f) == {0, 2, 3} \cup f.endpoints \cup (IF f = Bulkloop THEN {129} ELSE {})
=============================================================================
