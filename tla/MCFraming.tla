------------------------------ MODULE MCFraming ------------------------------
(* Small payloads for TLC: 64 - 7 and 64 - 5 bytes on usb, 20 - 3 and 20 - 1 *)
(* on ble and 0x80 on nfc in the code.                                       *)
EXTENDS Framing

SmallFirst == [usb |-> 2, ble |-> 1, nfc |-> 3]
SmallRest == [usb |-> 3, ble |-> 2, nfc |-> 3]
SmallSizes == 0..20
=============================================================================
