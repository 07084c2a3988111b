-------------------------- MODULE MCDeviceServices --------------------------
(***************************************************************************)
(* Two devices, of one transport or of two.                               *)
(***************************************************************************)
EXTENDS DeviceServices

CONSTANTS d1, d2

MCDevices == {d1, d2}
Pair(a, b) == [d \in MCDevices |-> IF d = d1 THEN a ELSE b]
Pairs == {Pair("usb", "usb"), Pair("nfc", "nfc"), Pair("ble", "ble"), Pair("usb", "ble")}
Cards == {Pair("nfc", "nfc")}
=============================================================================
