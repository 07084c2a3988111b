------------------------ MODULE DeviceServicesProofs ------------------------
(***************************************************************************)
(* Proofs about the discovery services, for any number of devices,         *)
(* enumerations and handlers.                                              *)
(***************************************************************************)
EXTENDS DeviceServices, TLAPS

(* One tick source while the usb service is on, none otherwise; it is on as long
   as somebody listens. *)
UsbInv ==
    /\ usb.on => listening # {}
    /\ usb.polls = IF usb.on THEN 1 ELSE 0
    /\ usb.known \subseteq Of("usb")
    /\ ~scanFailed /\ listening # {} => usb.on

NfcInv == /\ nfc.polls <= begun
          /\ nfc.known \subseteq Of("nfc")

(* If handlers end with the link, a peripheral has one at most, and none when it
   is on the map. *)
BleInv ==
    \A d \in Devices :
        /\ ble.handlers[d] > 0 => kind[d] = "ble"
        /\ HandlersEnd /\ ble.handlers[d] > 0 =>
             ble.link[d] = "connecting" /\ d \notin ble.known /\ ble.handlers[d] = 1
        /\ d \in ble.known => kind[d] = "ble" /\ ble.link[d] \in {"connected", "closing"}

(* Who waits for the adapter has been told to, or has given up.  Without a failed
   scan all who wait for a device listen, and a service that is on with
   nobody listening is about to be stopped by a start that is still pending. *)
StartInv ==
    /\ \A e \in Enumerations : bleStart[e] = "none" <=> e > begun
    /\ \A e \in waiters : bleStart[e] \in {"power", "done"}
    /\ ~scanFailed =>
         /\ awaiting = listening
         /\ \A e \in Enumerations : bleStart[e] # "failed"
         /\ listening = {} /\ ble.on =>
              \E e \in Enumerations : bleStart[e] \in {"power", "scan", "poweredScan"}

(* What was announced is on a map, and its withdrawal will be heard. *)
ToldInv ==
    ~scanFailed => \A d \in Devices :
        /\ HandlersEnd => told[d] # "twice"
        /\ listening # {} /\ told[d] \in {"attach", "twice"} =>
             d \in Known /\ (kind[d] = "ble" => Subscribed # {})

(* In a smooth wait no start but those of the listeners is pending, and until
   one of them has brought up the scan it is still under way. *)
SmoothInv ==
    smooth => /\ ~scanFailed
              /\ listening # {} =>
                   /\ adapter /\ ble.on
                   /\ \A e \in Enumerations :
                        bleStart[e] \in {"none", "done"} \/ (e \in listening /\ bleStart[e] = "scan")
                   /\ ble.scanning \/ \E e \in listening : bleStart[e] = "scan"

IInv == TypeOK /\ UsbInv /\ NfcInv /\ BleInv /\ StartInv /\ ToldInv /\ SmoothInv

(* A usb service keeps its type when it is stopped or released, and when it is
   started, if it has a poll just when it is on. *)
LEMMA UsbFields ==
    ASSUME NEW s \in UsbStates, NEW b \in BOOLEAN, NEW p \in 0..1,
           NEW K \in SUBSET Devices, NEW M \in SUBSET Devices
    PROVE  /\ [s EXCEPT !.polls = p, !.known = K, !.missed = M] \in UsbStates
           /\ [s EXCEPT !.known = K, !.missed = M] \in UsbStates
           /\ [s EXCEPT !.on = b, !.polls = p] \in UsbStates
           /\ [s EXCEPT !.on = b] \in UsbStates
  BY DEF UsbStates

LEMMA UsbTypes ==
    ASSUME NEW s \in UsbStates
    PROVE  /\ UsbStop(s) \in UsbStates
           /\ UsbRelease(s) \in UsbStates
           /\ s.polls = (IF s.on THEN 1 ELSE 0) => UsbStart(s) \in UsbStates
<1>1. UsbRelease(s) \in UsbStates
  <2>1. 0 \in 0..1
    OBVIOUS
  <2> QED  BY <2>1, UsbFields DEF UsbRelease
<1>2. UsbStop(s) \in UsbStates
  BY <1>1 DEF UsbStop, UsbStates
<1>3. ASSUME s.polls = (IF s.on THEN 1 ELSE 0) PROVE UsbStart(s) \in UsbStates
  <2>1. CASE s.on
    BY <2>1 DEF UsbStart
  <2>2. CASE ~s.on
    <3>1. s.polls + 1 \in 0..1
      BY <1>3, <2>2
    <3>2. UsbStart(s) = [s EXCEPT !.on = TRUE, !.polls = s.polls + 1]
      BY <2>2 DEF UsbStart, UsbStates
    <3> QED  BY <3>1, <3>2, UsbFields
  <2> QED  BY <2>1, <2>2
<1> QED  BY <1>1, <1>2, <1>3

(* The same of an nfc service, as long as its polls do not outnumber the
   enumerations. *)
LEMMA NfcFields ==
    ASSUME NEW s \in NfcStates, NEW b \in BOOLEAN, NEW c \in BOOLEAN,
           NEW p \in 0..MaxEnumerations, NEW K \in SUBSET Devices
    PROVE  /\ [s EXCEPT !.on = b, !.polls = p, !.known = K] \in NfcStates
           /\ [s EXCEPT !.on = b, !.polls = p] \in NfcStates
           /\ [s EXCEPT !.known = K, !.newCards = b] \in NfcStates
           /\ [s EXCEPT !.newCards = b, !.oldCards = c] \in NfcStates
           /\ [s EXCEPT !.on = b] \in NfcStates
  BY DEF NfcStates

LEMMA NfcTypes ==
    ASSUME NEW s \in NfcStates
    PROVE  /\ NfcStop(s) \in NfcStates
           /\ NfcRelease(s) \in NfcStates
           /\ s.polls + 1 \in 0..MaxEnumerations => NfcStart(s) \in NfcStates
<1>1. NfcStop(s) \in NfcStates
  <2>1. 0 \in 0..MaxEnumerations
    BY ConstantsAssumption
  <2> QED  BY <2>1, NfcFields DEF NfcStop
<1>2. NfcRelease(s) \in NfcStates
  BY DEF NfcRelease, NfcStates
<1>3. ASSUME s.polls + 1 \in 0..MaxEnumerations PROVE NfcStart(s) \in NfcStates
  <2>1. CASE s.on
    BY <2>1 DEF NfcStart
  <2>2. CASE ~s.on
    <3>1. NfcStart(s) = [s EXCEPT !.on = TRUE, !.polls = s.polls + 1]
      BY <2>2 DEF NfcStart
    <3> QED  BY <3>1, <1>3, NfcFields
  <2> QED  BY <2>1, <2>2
<1> QED  BY <1>1, <1>2, <1>3

(* The same of a ble service, and of the changes to one peripheral. *)
LEMMA BleFields ==
    ASSUME NEW s \in BleStates, NEW b \in BOOLEAN, NEW K \in SUBSET Devices,
           NEW d \in Devices, NEW n \in 0..MaxHandlers,
           NEW l \in {"off", "connecting", "connected", "closing"}
    PROVE  /\ [s EXCEPT !.link[d] = l, !.handlers[d] = n, !.known = K] \in BleStates
           /\ [s EXCEPT !.link[d] = l, !.handlers[d] = n] \in BleStates
  BY DEF BleStates

LEMMA BleTypes ==
    ASSUME NEW s \in BleStates, NEW b \in BOOLEAN
    PROVE  /\ BleStop(s) \in BleStates
           /\ BleRelease(s) \in BleStates
           /\ [s EXCEPT !.scanning = b] \in BleStates
           /\ [s EXCEPT !.on = b] \in BleStates
  BY DEF BleStates, BleStop, BleRelease

(* Events turn reports into reports. *)
LEMMA ToldTypes ==
    ASSUME told \in [Devices -> Reports], NEW I, NEW O
    PROVE  Detach(Attach(I), O) \in [Devices -> Reports]
  BY DEF Attach, Detach, Reports

-----------------------------------------------------------------------------
(* Every action preserves the invariant: one lemma each, with one step for each
   part of it. *)

LEMMA EnumerateStep ==
    ASSUME IInv, Enumerate
    PROVE  IInv'
<1>1. TypeOK'
  <2>1. usb' \in UsbStates
    BY UsbTypes DEF IInv, TypeOK, UsbInv, Enumerate
  <2>2. nfc' \in NfcStates
    <3>1. nfc.polls + 1 \in 0..MaxEnumerations
      BY ConstantsAssumption DEF IInv, TypeOK, NfcInv, NfcStates, Enumerate, Enumerations
    <3> QED  BY <3>1, NfcTypes DEF IInv, TypeOK, Enumerate
  <2>3. ble' \in BleStates
    BY BleTypes DEF IInv, TypeOK, Enumerate
  <2>4. /\ begun' \in 0..MaxEnumerations
        /\ listening' \subseteq awaiting'
        /\ awaiting' \subseteq 1..begun'
        /\ waiters' \subseteq Enumerations
    BY ConstantsAssumption DEF IInv, TypeOK, Enumerate, Enumerations
  <2>5. bleStart' \in [Enumerations -> {"none", "power", "poweredScan", "scan", "done", "failed"}]
    <3>1. begun + 1 \in Enumerations
      BY DEF Enumerate
    <3>2. \E how \in {"done", "scan", "power"} :
             bleStart' = [bleStart EXCEPT ![begun + 1] = how]
      BY DEF IInv, TypeOK, BleStates, Enumerate
    <3> QED  BY <3>1, <3>2 DEF IInv, TypeOK
  <2>6. told' \in [Devices -> Reports]
    BY DEF IInv, TypeOK, Enumerate, Untold, Reports
  <2>7. smooth' \in BOOLEAN
    BY DEF IInv, TypeOK, Enumerate, Undisturbed
  <2>8. UNCHANGED <<world, opened, scanFailed>>
    BY DEF Enumerate
  <2> QED
    BY <2>1, <2>2, <2>3, <2>4, <2>5, <2>6, <2>7, <2>8 DEF IInv, TypeOK, world
<1>2. UsbInv'
  BY DEF IInv, Enumerate, UsbStart, UsbInv, Of, client, world, starts
<1>3. NfcInv'
  BY DEF IInv, Enumerate, NfcStart, TypeOK, NfcInv, NfcStates, Of, client, world, starts
<1>4. BleInv'
  BY DEF IInv, Enumerate, BleInv, Of, client, world, starts
<1>5. StartInv'
  BY DEF IInv, Enumerate, TypeOK, StartInv, Subscribed, Enumerations, client, world, starts
<1>6. ToldInv'
  BY DEF IInv, Enumerate, UsbStart, NfcStart, Untold, TypeOK, StartInv, ToldInv, Known,
      Subscribed, client, world, starts
<1>7. SmoothInv'
  <2>0. /\ begun + 1 \in Enumerations /\ listening' = listening \cup {begun + 1}
        /\ ble'.on = TRUE /\ ble'.scanning = ble.scanning
        /\ bleStart' = [bleStart EXCEPT ![begun + 1] =
               IF ble.on THEN "done" ELSE IF adapter THEN "scan" ELSE "power"]
        /\ UNCHANGED <<adapter, scanFailed>>
        /\ bleStart \in [Enumerations -> {"none", "power", "poweredScan", "scan", "done", "failed"}]
    BY DEF IInv, TypeOK, BleStates, Enumerate, world
  <2>1. CASE awaiting = {}
    <3>1. smooth' = Undisturbed /\ listening = {}
      BY <2>1 DEF Enumerate, IInv, TypeOK
    <3>2. ASSUME Undisturbed PROVE ~ble.on
      BY <3>1, <3>2 DEF Undisturbed, IInv, StartInv
    <3> QED
      BY <2>0, <3>1, <3>2 DEF SmoothInv, Undisturbed
  <2>2. CASE awaiting # {}
    <3>1. smooth' = smooth
      BY <2>2 DEF Enumerate
    <3>2. ASSUME smooth PROVE listening # {}
      BY <2>2, <3>2 DEF IInv, SmoothInv, StartInv
    <3>3. bleStart[begun + 1] = "none"
      BY <2>0, ConstantsAssumption DEF IInv, TypeOK, StartInv
    <3>4. ASSUME smooth
          PROVE  /\ \A e \in Enumerations :
                        bleStart'[e] \in {"none", "done"} \/ (e \in listening' /\ bleStart'[e] = "scan")
                 /\ ble'.scanning \/ \E e \in listening' : bleStart'[e] = "scan"
      <4>1. listening \subseteq Enumerations
        BY ConstantsAssumption DEF IInv, TypeOK, Enumerations
      <4>2. ble.on
        BY <3>2, <3>4 DEF IInv, SmoothInv
      <4>3. bleStart'[begun + 1] = "done" /\ \A e \in Enumerations \ {begun + 1} : bleStart'[e] = bleStart[e]
        BY <2>0, <4>2
      <4> QED
        BY <2>0, <3>2, <3>3, <3>4, <4>1, <4>3 DEF IInv, SmoothInv
    <3> QED
      BY <2>0, <3>1, <3>2, <3>4 DEF IInv, SmoothInv
  <2> QED  BY <2>1, <2>2
<1> QED  BY <1>1, <1>2, <1>3, <1>4, <1>5, <1>6, <1>7 DEF IInv

LEMMA SelectStep ==
    ASSUME IInv, NEW d \in Devices, Select(d)
    PROVE  IInv'
<1>1. TypeOK'
  <2>1. usb' \in UsbStates /\ nfc' \in NfcStates
    BY UsbTypes, NfcTypes DEF IInv, TypeOK, Select
  <2>2. ble' \in BleStates
    BY BleTypes DEF IInv, TypeOK, Select, BleStopFor
  <2>3. opened' \in [Enumerations -> {"none", "opened", "failed"}]
    BY DEF IInv, TypeOK, Select
  <2>4. /\ listening' = {} /\ awaiting' = {}
        /\ UNCHANGED <<begun, told, world, starts, scanFailed, smooth>>
    BY DEF Select
  <2> QED
    BY <2>1, <2>2, <2>3, <2>4 DEF IInv, TypeOK, world, starts
<1>2. UsbInv'
  BY DEF IInv, Select, UsbStop, UsbRelease, UsbInv, Of, world
<1>3. NfcInv'
  BY DEF IInv, Select, NfcStop, TypeOK, NfcInv, Of, world
<1>4. BleInv'
  BY DEF IInv, Select, BleStopFor, BleStop, BleInv, world
<1>5. StartInv'
  BY ConstantsAssumption
  DEF IInv, Select, BleStopFor, BleStop, TypeOK, StartInv, Enumerations, starts
<1>6. ToldInv'
  BY DEF IInv, Select, ToldInv
<1>7. SmoothInv'
  BY DEF IInv, Select, SmoothInv
<1> QED  BY <1>1, <1>2, <1>3, <1>4, <1>5, <1>6, <1>7 DEF IInv

LEMMA SettleStep ==
    ASSUME IInv, Settle
    PROVE  IInv'
<1>1. TypeOK'
  <2>1. usb' \in UsbStates /\ nfc' \in NfcStates
    BY UsbTypes, NfcTypes DEF IInv, TypeOK, Settle
  <2>2. ble' \in BleStates
    BY BleTypes DEF IInv, TypeOK, Settle, BleStopFor
  <2>3. /\ listening' = {} /\ awaiting' = {}
        /\ UNCHANGED <<begun, told, opened, world, starts, scanFailed, smooth>>
    BY DEF Settle
  <2> QED
    BY <2>1, <2>2, <2>3 DEF IInv, TypeOK, world, starts
<1>2. UsbInv'
  BY DEF IInv, Settle, UsbStop, UsbRelease, UsbInv
<1>3. NfcInv'
  BY DEF IInv, Settle, NfcStop, NfcRelease, NfcInv, Of, world
<1>4. BleInv'
  BY DEF IInv, Settle, BleStopFor, BleStop, BleRelease, BleInv, world
<1>5. StartInv'
  <2>1. /\ listening' = {} /\ awaiting' = {}
        /\ UNCHANGED <<begun, bleStart, waiters, scanFailed>>
        /\ ble'.on => ble.on /\ ~\E e \in listening : bleStart[e] = "done"
    BY DEF IInv, TypeOK, BleStates, Settle, BleStopFor, BleStop, BleRelease, starts
  <2>2. ASSUME ~scanFailed, ble'.on
        PROVE  \E e \in Enumerations : bleStart[e] \in {"power", "scan", "poweredScan"}
    <3>1. CASE listening = {}
      BY <2>1, <2>2, <3>1 DEF IInv, StartInv
    <3>2. CASE listening # {}
      <4>1. PICK e \in listening : bleStart[e] # "done"
        BY <2>1, <2>2, <3>2
      <4>2. e \in Enumerations /\ e \in 1..begun /\ begun \in Nat
        BY ConstantsAssumption DEF IInv, TypeOK, Enumerations
      <4>3. bleStart[e] \notin {"none", "failed", "done"}
        BY <2>2, <4>1, <4>2 DEF IInv, StartInv
      <4> QED  BY <4>2, <4>3 DEF IInv, TypeOK
    <3> QED  BY <3>1, <3>2
  <2> QED
    BY <2>1, <2>2 DEF IInv, StartInv
<1>6. ToldInv'
  BY DEF IInv, Settle, ToldInv
<1>7. SmoothInv'
  BY DEF IInv, Settle, SmoothInv
<1> QED  BY <1>1, <1>2, <1>3, <1>4, <1>5, <1>6, <1>7 DEF IInv

LEMMA UsbPollStep ==
    ASSUME IInv, UsbPoll
    PROVE  IInv'
<1>1. TypeOK'
  <2>1. usb' \in UsbStates
    <3>1. PICK out \in SUBSET (usb.known \ (present \cap Of("usb"))) :
             usb' = [usb EXCEPT !.known = (usb.known \cup (present \cap Of("usb"))) \ out,
                                !.missed = (usb.known \ (present \cap Of("usb"))) \ out]
      BY DEF UsbPoll, IInv, TypeOK, UsbStates
    <3>2. usb.known \subseteq Devices /\ usb \in UsbStates
      BY DEF IInv, TypeOK, UsbStates
    <3> DEFINE K == (usb.known \cup (present \cap Of("usb"))) \ out
               M == (usb.known \ (present \cap Of("usb"))) \ out
    <3>3. K \in SUBSET Devices /\ M \in SUBSET Devices
      BY <3>2 DEF Of
    <3>4. usb' = [usb EXCEPT !.known = K, !.missed = M]
      BY <3>1
    <3>5. 0 \in 0..1
      OBVIOUS
    <3> HIDE DEF K, M
    <3> QED  BY <3>2, <3>3, <3>4, <3>5, UsbFields
  <2>2. told' \in [Devices -> Reports]
    BY ToldTypes DEF IInv, TypeOK, UsbPoll, Events
  <2>3. UNCHANGED <<begun, listening, awaiting, opened, world, nfc, ble, starts, scanFailed, smooth>>
    BY DEF UsbPoll
  <2> QED
    BY <2>1, <2>2, <2>3 DEF IInv, TypeOK, world, starts
<1>2. UsbInv'
  BY DEF IInv, UsbPoll, UsbInv, Of, world
<1>3. NfcInv'
  BY DEF IInv, UsbPoll, NfcInv, Of, world
<1>4. BleInv'
  BY DEF IInv, UsbPoll, BleInv, world
<1>5. StartInv'
  BY DEF IInv, UsbPoll, StartInv, starts
<1>6. ToldInv'
  BY DEF IInv, UsbPoll, Events, Attach, Detach, NfcInv, BleInv, ToldInv, Known,
      Subscribed, Of, client, world, starts
<1>7. SmoothInv'
  BY DEF IInv, UsbPoll, SmoothInv, client, world, starts
<1> QED  BY <1>1, <1>2, <1>3, <1>4, <1>5, <1>6, <1>7 DEF IInv

LEMMA NfcPollStep ==
    ASSUME IInv, NfcPoll
    PROVE  IInv'
<1>1. TypeOK'
  <2>1. nfc' \in NfcStates
    <3>0. nfc.known \subseteq Devices /\ Of("nfc") \subseteq Devices /\ nfc.newCards \in BOOLEAN
      BY DEF IInv, TypeOK, NfcStates, Of
    <3>1. PICK I \in SUBSET Devices : \E a \in BOOLEAN : \E O :
             nfc' = [nfc EXCEPT !.known = (@ \cup I) \ O, !.newCards = @ /\ a]
      BY <3>0, Zenon DEF NfcPoll
    <3>a. PICK a \in BOOLEAN : \E O :
             nfc' = [nfc EXCEPT !.known = (@ \cup I) \ O, !.newCards = @ /\ a]
      BY <3>1
    <3>b. PICK O : nfc' = [nfc EXCEPT !.known = (@ \cup I) \ O, !.newCards = @ /\ a]
      BY <3>a
    <3> DEFINE b == nfc.newCards /\ a
    <3> DEFINE K == (nfc.known \cup I) \ O
    <3>2. K \in SUBSET Devices
      BY <3>0
    <3>3. nfc' = [nfc EXCEPT !.known = K, !.newCards = b]
      BY <3>b
    <3>5. b \in BOOLEAN
      OBVIOUS
    <3>4. 0 \in 0..MaxEnumerations
      BY ConstantsAssumption
    <3> HIDE DEF K, b
    <3> QED  BY <3>2, <3>3, <3>4, <3>5, NfcFields DEF IInv, TypeOK
  <2>2. told' \in [Devices -> Reports]
    BY ToldTypes DEF IInv, TypeOK, NfcPoll, Events
  <2>3. UNCHANGED <<begun, listening, awaiting, opened, world, usb, ble, starts, scanFailed, smooth>>
    BY DEF NfcPoll
  <2> QED
    BY <2>1, <2>2, <2>3 DEF IInv, TypeOK, world, starts
<1>2. UsbInv'
  BY DEF IInv, NfcPoll, UsbInv, Of, world
<1>3. NfcInv'
  BY DEF IInv, NfcPoll, NfcInv, Of, world
<1>4. BleInv'
  BY DEF IInv, NfcPoll, BleInv, world
<1>5. StartInv'
  BY DEF IInv, NfcPoll, StartInv, starts
<1>6. ToldInv'
  BY DEF IInv, NfcPoll, Events, Attach, Detach, UsbInv, BleInv, ToldInv, Known,
      Subscribed, Of, client, world, starts
<1>7. SmoothInv'
  BY DEF IInv, NfcPoll, SmoothInv, client, world, starts
<1> QED  BY <1>1, <1>2, <1>3, <1>4, <1>5, <1>6, <1>7 DEF IInv

LEMMA NfcPollThrowsStep ==
    ASSUME IInv, NfcPollThrows
    PROVE  IInv'
<1>1. TypeOK'
  BY DEF IInv, NfcPollThrows, TypeOK, NfcStates, client, world, starts
<1>2. UsbInv'
  BY DEF IInv, NfcPollThrows, UsbInv, Of, client, world
<1>3. NfcInv'
  BY DEF IInv, NfcPollThrows, NfcInv, Of, client, world
<1>4. BleInv'
  BY DEF IInv, NfcPollThrows, BleInv, world
<1>5. StartInv'
  BY DEF IInv, NfcPollThrows, StartInv, client, starts
<1>6. ToldInv'
  BY DEF IInv, NfcPollThrows, ToldInv, Known, Subscribed, client, world, starts
<1>7. SmoothInv'
  BY DEF IInv, NfcPollThrows, SmoothInv, client, world, starts
<1> QED  BY <1>1, <1>2, <1>3, <1>4, <1>5, <1>6, <1>7 DEF IInv

LEMMA PowerTimeoutStep ==
    ASSUME IInv, NEW e \in Enumerations, PowerTimeout(e)
    PROVE  IInv'
<1>1. TypeOK'
  BY DEF IInv, PowerTimeout, Resolve, BleStop, TypeOK, BleStates, client, world, starts
<1>2. UsbInv'
  BY DEF IInv, PowerTimeout, UsbInv, Of, client, world, starts
<1>3. NfcInv'
  BY DEF IInv, PowerTimeout, NfcInv, Of, client, world, starts
<1>4. BleInv'
  BY DEF IInv, PowerTimeout, Resolve, BleStop, BleInv, world, starts
<1>5. StartInv'
  BY DEF IInv, PowerTimeout, Resolve, BleStop, StartInv, client, starts
<1>6. ToldInv'
  BY DEF IInv, PowerTimeout, Resolve, BleStop, ToldInv, Known, Subscribed, client, world,
      starts
<1>7. SmoothInv'
  BY DEF IInv, PowerTimeout, SmoothInv, client, starts
<1> QED  BY <1>1, <1>2, <1>3, <1>4, <1>5, <1>6, <1>7 DEF IInv

LEMMA ScanStartsStep ==
    ASSUME IInv, NEW e \in Enumerations, ScanStarts(e)
    PROVE  IInv'
<1>1. TypeOK'
  BY DEF IInv, ScanStarts, Resolve, BleStop, TypeOK, BleStates, client, world, starts
<1>2. UsbInv'
  BY DEF IInv, ScanStarts, UsbInv, Of, client, world, starts
<1>3. NfcInv'
  BY DEF IInv, ScanStarts, NfcInv, Of, client, world, starts
<1>4. BleInv'
  BY DEF IInv, ScanStarts, Resolve, BleStop, BleInv, world, starts
<1>5. StartInv'
  BY DEF IInv, ScanStarts, Resolve, BleStop, StartInv, client, starts
<1>6. ToldInv'
  BY DEF IInv, ScanStarts, Resolve, BleStop, ToldInv, Known, Subscribed, client, world,
      starts
<1>7. SmoothInv'
  BY DEF IInv, ScanStarts, Resolve, SmoothInv, client, world, starts
<1> QED  BY <1>1, <1>2, <1>3, <1>4, <1>5, <1>6, <1>7 DEF IInv

LEMMA ScanFailsStep ==
    ASSUME IInv, NEW e \in Enumerations, ScanFails(e)
    PROVE  IInv'
<1>0. /\ \/ listening' = listening /\ usb' = usb /\ nfc' = nfc
         \/ listening' = listening \ {e} /\ usb' = UsbStop(usb) /\ nfc' = NfcStop(nfc)
      /\ bleStart' = [bleStart EXCEPT ![e] = "failed"]
      /\ scanFailed' = TRUE /\ smooth' = FALSE
      /\ UNCHANGED <<begun, awaiting, told, opened, world, ble, waiters>>
  BY DEF ScanFails
<1>1. TypeOK'
  <2>1. usb' \in UsbStates /\ nfc' \in NfcStates
    BY <1>0, UsbTypes, NfcTypes DEF IInv, TypeOK
  <2>2. bleStart' \in [Enumerations -> {"none", "power", "poweredScan", "scan", "done", "failed"}]
    BY <1>0 DEF IInv, TypeOK
  <2>3. listening' \subseteq awaiting'
    BY <1>0 DEF IInv, TypeOK
  <2> QED  BY <1>0, <2>1, <2>2, <2>3 DEF IInv, TypeOK, world
<1>2. UsbInv'
  <2>1. CASE listening' = listening /\ usb' = usb
    BY <2>1, <1>0 DEF IInv, UsbInv, Of, world
  <2>2. CASE usb' = UsbStop(usb)
    BY <2>2, <1>0 DEF IInv, TypeOK, UsbInv, UsbStates, UsbStop, UsbRelease, Of, world
  <2> QED  BY <1>0, <2>1, <2>2
<1>3. NfcInv'
  <2>1. CASE nfc' = nfc
    BY <2>1, <1>0 DEF IInv, NfcInv, Of, world
  <2>2. CASE nfc' = NfcStop(nfc)
    BY <2>2, <1>0 DEF IInv, TypeOK, NfcInv, NfcStates, NfcStop, Of, world
  <2> QED  BY <1>0, <2>1, <2>2
<1>4. BleInv'
  BY DEF IInv, ScanFails, BleInv, Of, client, world, starts
<1>5. StartInv'
  BY DEF IInv, ScanFails, StartInv, starts
<1>6. ToldInv'
  BY DEF ScanFails, ToldInv, starts
<1>7. SmoothInv'
  BY DEF ScanFails, SmoothInv, starts
<1> QED  BY <1>1, <1>2, <1>3, <1>4, <1>5, <1>6, <1>7 DEF IInv

LEMMA AdapterOnStep ==
    ASSUME IInv, AdapterOn
    PROVE  IInv'
<1>1. TypeOK'
  BY DEF IInv, AdapterOn, TypeOK, BleStates, client, world, starts
<1>2. UsbInv'
  BY DEF IInv, AdapterOn, UsbInv, Of, client, world, starts
<1>3. NfcInv'
  BY DEF IInv, AdapterOn, NfcInv, Of, client, world, starts
<1>4. BleInv'
  BY DEF IInv, AdapterOn, BleInv, world, starts
<1>0. /\ bleStart \in [Enumerations -> {"none", "power", "poweredScan", "scan", "done", "failed"}]
      /\ bleStart' = [e \in Enumerations |->
             IF e \in waiters \ {f \in waiters : bleStart[f] = "done"}
             THEN "poweredScan" ELSE bleStart[e]]
      /\ ble'.on = ble.on /\ ble'.known = ble.known
      /\ UNCHANGED <<client, kind, usb, nfc, scanFailed, smooth>>
  BY DEF IInv, TypeOK, BleStates, AdapterOn
<1>5. StartInv'
  <2>1. /\ waiters' = {} /\ awaiting' = awaiting /\ listening' = listening /\ begun' = begun
        /\ scanFailed' = scanFailed /\ waiters \subseteq Enumerations
    BY DEF IInv, TypeOK, AdapterOn, client
  <2>2. ASSUME NEW f \in Enumerations
        PROVE  /\ bleStart'[f] = "none" <=> bleStart[f] = "none"
               /\ bleStart'[f] = "failed" <=> bleStart[f] = "failed"
               /\ bleStart[f] \in {"power", "scan", "poweredScan"}
                    => bleStart'[f] \in {"power", "scan", "poweredScan"}
    BY <1>0 DEF IInv, StartInv
  <2> QED
    BY <1>0, <2>1, <2>2 DEF IInv, StartInv
<1>6. ToldInv'
  <2>1. Subscribed' = Subscribed
    <3>1. listening \subseteq Enumerations /\ listening' = listening
      BY <1>0, ConstantsAssumption DEF IInv, TypeOK, Enumerations, client
    <3>2. \A e \in Enumerations : bleStart'[e] = "done" <=> bleStart[e] = "done"
      BY <1>0
    <3> QED  BY <3>1, <3>2 DEF Subscribed
  <2>2. Known' = Known
    BY <1>0 DEF Known
  <2> QED
    BY <1>0, <2>1, <2>2 DEF IInv, ToldInv, client
<1>7. SmoothInv'
  BY DEF IInv, AdapterOn, SmoothInv, client, world, starts
<1> QED  BY <1>1, <1>2, <1>3, <1>4, <1>5, <1>6, <1>7 DEF IInv

LEMMA AdapterOffStep ==
    ASSUME IInv, AdapterOff
    PROVE  IInv'
<1>1. TypeOK'
  BY DEF IInv, AdapterOff, TypeOK, BleStates, client, world, starts
<1>2. UsbInv'
  BY DEF IInv, AdapterOff, UsbInv, Of, client
<1>3. NfcInv'
  BY DEF IInv, AdapterOff, NfcInv, Of, client
<1>4. BleInv'
  BY DEF IInv, AdapterOff, BleInv
<1>5. StartInv'
  BY DEF IInv, AdapterOff, StartInv, client, world, starts
<1>6. ToldInv'
  BY DEF IInv, AdapterOff, ToldInv, Known, Subscribed, client, world, starts
<1>7. SmoothInv'
  BY DEF AdapterOff, SmoothInv
<1> QED  BY <1>1, <1>2, <1>3, <1>4, <1>5, <1>6, <1>7 DEF IInv

LEMMA DiscoverStep ==
    ASSUME IInv, NEW d \in Devices, Discover(d)
    PROVE  IInv'
<1> DEFINE n == ble.handlers[d] + 1
<1>a. n \in 0..MaxHandlers /\ (HandlersEnd => n = 1)
  BY ConstantsAssumption DEF IInv, TypeOK, BleInv, BleStates, Discover
<1>0. ble' = [ble EXCEPT !.link[d] = "connecting", !.handlers[d] = n]
  BY DEF Discover
<1> HIDE DEF n
<1>1. TypeOK'
  <2>1. ble' \in BleStates
    BY <1>a, <1>0, BleFields DEF IInv, TypeOK
  <2>2. UNCHANGED <<client, world, usb, nfc, starts, scanFailed, smooth>>
    BY DEF Discover
  <2> QED
    BY <2>1, <2>2 DEF IInv, TypeOK, client, world, starts
<1>2. UsbInv'
  BY DEF IInv, Discover, UsbInv, Of, client, world
<1>3. NfcInv'
  BY DEF IInv, Discover, NfcInv, Of, client, world
<1>4. BleInv'
  BY <1>a, <1>0 DEF IInv, Discover, TypeOK, BleInv, BleStates, Of, world
<1>5. StartInv'
  BY DEF IInv, Discover, StartInv, client, starts
<1>6. ToldInv'
  BY DEF IInv, Discover, ToldInv, Known, Subscribed, client, world, starts
<1>7. SmoothInv'
  BY DEF IInv, Discover, SmoothInv, client, world, starts
<1> QED  BY <1>1, <1>2, <1>3, <1>4, <1>5, <1>6, <1>7 DEF IInv

LEMMA ExaminedStep ==
    ASSUME IInv, NEW d \in Devices, Examined(d)
    PROVE  IInv'
<1> DEFINE n == ble.handlers[d] - 1
           l == IF ble.link[d] = "connecting" THEN "connected" ELSE ble.link[d]
<1>a. /\ n \in 0..MaxHandlers /\ (HandlersEnd => n = 0)
      /\ l \in {"connected", "closing"}
  BY ConstantsAssumption DEF IInv, TypeOK, BleInv, BleStates, Examined
<1>0. ble' = [ble EXCEPT !.link[d] = l, !.handlers[d] = n, !.known = ble.known \cup {d}]
  BY DEF Examined
<1> HIDE DEF n, l
<1>1. TypeOK'
  <2>1. ble' \in BleStates
    <3> DEFINE K == ble.known \cup {d}
    <3>1. K \in SUBSET Devices
      BY DEF IInv, TypeOK, BleStates
    <3>2. ble' = [ble EXCEPT !.link[d] = l, !.handlers[d] = n, !.known = K]
      BY <1>0
    <3> HIDE DEF K
    <3> QED  BY <1>a, <3>1, <3>2, BleFields DEF IInv, TypeOK
  <2>2. told' \in [Devices -> Reports]
    BY ToldTypes DEF IInv, TypeOK, Examined, BleEvents
  <2>3. UNCHANGED <<begun, listening, awaiting, opened, world, usb, nfc, starts, scanFailed, smooth>>
    BY DEF Examined
  <2> QED
    BY <2>1, <2>2, <2>3 DEF IInv, TypeOK, world, starts
<1>2. UsbInv'
  BY DEF IInv, Examined, UsbInv, Of, world
<1>3. NfcInv'
  BY DEF IInv, Examined, NfcInv, Of, world
<1>4. BleInv'
  BY <1>a, <1>0 DEF IInv, Examined, TypeOK, BleInv, BleStates, world
<1>5. StartInv'
  BY DEF IInv, Examined, StartInv, starts
<1>6. ToldInv'
  BY DEF IInv, Examined, BleEvents, Attach, Detach, UsbInv, NfcInv, BleInv, ToldInv,
      Known, Subscribed, Of, client, world, starts
<1>7. SmoothInv'
  BY DEF IInv, Examined, SmoothInv, client, world, starts
<1> QED  BY <1>1, <1>2, <1>3, <1>4, <1>5, <1>6, <1>7 DEF IInv

LEMMA IncompatibleStep ==
    ASSUME IInv, NEW d \in Devices, Incompatible(d)
    PROVE  IInv'
<1> DEFINE n == ble.handlers[d] - 1
<1>a. n \in 0..MaxHandlers /\ (HandlersEnd => n = 0)
  BY ConstantsAssumption DEF IInv, TypeOK, BleInv, BleStates, Incompatible
<1>0. ble' = [ble EXCEPT !.link[d] = "off", !.handlers[d] = n]
  BY DEF Incompatible
<1> HIDE DEF n
<1>1. TypeOK'
  <2>1. ble' \in BleStates
    BY <1>a, <1>0, BleFields DEF IInv, TypeOK
  <2>2. UNCHANGED <<client, world, usb, nfc, starts, scanFailed, smooth>>
    BY DEF Incompatible
  <2> QED
    BY <2>1, <2>2 DEF IInv, TypeOK, client, world, starts
<1>2. UsbInv'
  BY DEF IInv, Incompatible, UsbInv, Of, client, world
<1>3. NfcInv'
  BY DEF IInv, Incompatible, NfcInv, Of, client, world
<1>4. BleInv'
  BY <1>a, <1>0 DEF IInv, Incompatible, TypeOK, BleInv, BleStates, world
<1>5. StartInv'
  BY DEF IInv, Incompatible, StartInv, client, starts
<1>6. ToldInv'
  BY DEF IInv, Incompatible, ToldInv, Known, Subscribed, client, world, starts
<1>7. SmoothInv'
  BY DEF IInv, Incompatible, SmoothInv, client, world, starts
<1> QED  BY <1>1, <1>2, <1>3, <1>4, <1>5, <1>6, <1>7 DEF IInv

LEMMA LinkDropsStep ==
    ASSUME IInv, NEW d \in Devices, LinkDrops(d)
    PROVE  IInv'
<1> DEFINE n == Awaiting(d)
<1>a. n \in 0..MaxHandlers /\ (HandlersEnd => n = 0) /\ (n > 0 => ble.handlers[d] > 0)
  BY ConstantsAssumption DEF IInv, TypeOK, BleStates, Awaiting
<1>0. ble' = [ble EXCEPT !.link[d] = "off", !.handlers[d] = n, !.known = ble.known \ {d}]
  BY DEF LinkDrops
<1> HIDE DEF n
<1>1. TypeOK'
  <2>1. ble' \in BleStates
    <3> DEFINE K == ble.known \ {d}
    <3>1. K \in SUBSET Devices
      BY DEF IInv, TypeOK, BleStates
    <3>2. ble' = [ble EXCEPT !.link[d] = "off", !.handlers[d] = n, !.known = K]
      BY <1>0
    <3> HIDE DEF K
    <3> QED  BY <1>a, <3>1, <3>2, BleFields DEF IInv, TypeOK
  <2>2. told' \in [Devices -> Reports]
    BY ToldTypes DEF IInv, TypeOK, LinkDrops, BleEvents
  <2>3. UNCHANGED <<begun, listening, awaiting, opened, world, usb, nfc, starts, scanFailed, smooth>>
    BY DEF LinkDrops
  <2> QED
    BY <2>1, <2>2, <2>3 DEF IInv, TypeOK, world, starts
<1>2. UsbInv'
  BY DEF IInv, LinkDrops, UsbInv, Of, world
<1>3. NfcInv'
  BY DEF IInv, LinkDrops, NfcInv, Of, world
<1>4. BleInv'
  <2>1. kind' = kind
    BY DEF LinkDrops, world
  <2>2. \A e \in Devices :
          /\ ble'.handlers[e] = IF e = d THEN n ELSE ble.handlers[e]
          /\ ble'.link[e] = IF e = d THEN "off" ELSE ble.link[e]
          /\ e \in ble'.known <=> e \in ble.known /\ e # d
    BY <1>0 DEF IInv, TypeOK, BleStates
  <2> QED  BY <1>a, <2>1, <2>2 DEF IInv, TypeOK, BleInv, BleStates
<1>5. StartInv'
  BY DEF IInv, LinkDrops, StartInv, starts
<1>6. ToldInv'
  BY DEF IInv, LinkDrops, BleEvents, Attach, Detach, BleInv, ToldInv, Known, Subscribed,
      client, world, starts
<1>7. SmoothInv'
  BY DEF IInv, LinkDrops, SmoothInv, client, world, starts
<1> QED  BY <1>1, <1>2, <1>3, <1>4, <1>5, <1>6, <1>7 DEF IInv

LEMMA ArriveStep ==
    ASSUME IInv, NEW d \in Devices, Arrive(d)
    PROVE  IInv'
<1>1. TypeOK'
  BY DEF IInv, Arrive, TypeOK, client, world, starts
<1>2. UsbInv'
  BY DEF IInv, Arrive, UsbInv, Of, client
<1>3. NfcInv'
  BY DEF IInv, Arrive, NfcInv, Of, client
<1>4. BleInv'
  BY DEF IInv, Arrive, BleInv
<1>5. StartInv'
  BY DEF IInv, Arrive, StartInv, client, world, starts
<1>6. ToldInv'
  BY DEF IInv, Arrive, ToldInv, Known, Subscribed, client, world, starts
<1>7. SmoothInv'
  BY DEF IInv, Arrive, SmoothInv, client, world, starts
<1> QED  BY <1>1, <1>2, <1>3, <1>4, <1>5, <1>6, <1>7 DEF IInv

LEMMA LeaveStep ==
    ASSUME IInv, NEW d \in Devices, Leave(d)
    PROVE  IInv'
<1>1. TypeOK'
  BY DEF IInv, Leave, TypeOK, client, world, starts
<1>2. UsbInv'
  BY DEF IInv, Leave, UsbInv, Of, client
<1>3. NfcInv'
  BY DEF IInv, Leave, NfcInv, Of, client
<1>4. BleInv'
  BY DEF IInv, Leave, BleInv
<1>5. StartInv'
  BY DEF IInv, Leave, StartInv, client, world, starts
<1>6. ToldInv'
  BY DEF IInv, Leave, ToldInv, Known, Subscribed, client, world, starts
<1>7. SmoothInv'
  BY DEF IInv, Leave, SmoothInv, client, world, starts
<1> QED  BY <1>1, <1>2, <1>3, <1>4, <1>5, <1>6, <1>7 DEF IInv

(* The invariant holds to begin with. *)
LEMMA InitInvariant == Init => IInv
<1> SUFFICES ASSUME Init PROVE IInv
  OBVIOUS
<1>1. /\ kind \in Kinds /\ present = {} /\ adapter \in BOOLEAN /\ begun = 0
      /\ listening = {} /\ awaiting = {} /\ told = [d \in Devices |-> "none"]
      /\ opened = [e \in Enumerations |-> "none"]
      /\ bleStart = [e \in Enumerations |-> "none"]
      /\ waiters = {} /\ scanFailed = FALSE /\ smooth = FALSE
      /\ usb = [on |-> FALSE, polls |-> 0, known |-> {}, missed |-> {}]
      /\ nfc = [on |-> FALSE, polls |-> 0, known |-> {}, newCards |-> TRUE, oldCards |-> TRUE]
      /\ ble = [on |-> FALSE, scanning |-> FALSE, known |-> {},
                link |-> [d \in Devices |-> "off"], handlers |-> [d \in Devices |-> 0]]
  BY DEF Init, Untold
<1>2. 0 \in 0..1 /\ 0 \in 0..MaxEnumerations /\ 0 \in 0..MaxHandlers
  BY ConstantsAssumption
<1>3. usb \in UsbStates /\ nfc \in NfcStates
  BY <1>1, <1>2 DEF UsbStates, NfcStates
<1>4. ble \in BleStates
  BY <1>1, <1>2 DEF BleStates
<1>5. TypeOK
  BY <1>1, <1>2, <1>3, <1>4 DEF TypeOK, Reports
<1>6. UsbInv /\ NfcInv /\ BleInv
  BY <1>1, ConstantsAssumption DEF UsbInv, NfcInv, BleInv
<1>7. StartInv /\ ToldInv /\ SmoothInv
  BY <1>1, ConstantsAssumption DEF StartInv, ToldInv, SmoothInv, Enumerations
<1> QED  BY <1>5, <1>6, <1>7 DEF IInv

(* Every step, and every stutter, preserves it. *)
LEMMA StepInvariant == IInv /\ [Next]_vars => IInv'
<1> SUFFICES ASSUME IInv, [Next]_vars PROVE IInv'
  OBVIOUS
<1>1. CASE UNCHANGED vars
  <2>1. UNCHANGED <<kind, present, adapter, begun, listening, awaiting, told, opened,
                    usb, nfc, ble, bleStart, waiters, scanFailed, smooth>>
    BY <1>1 DEF vars, client, world, starts
  <2>2. TypeOK' /\ UsbInv' /\ NfcInv' /\ BleInv'
    BY <2>1 DEF IInv, TypeOK, UsbInv, NfcInv, BleInv, Of
  <2>3. StartInv' /\ ToldInv' /\ SmoothInv'
    BY <2>1 DEF IInv, StartInv, ToldInv, SmoothInv, Known, Subscribed
  <2> QED  BY <2>2, <2>3 DEF IInv
<1>2. CASE Next
  <2>1. \/ Enumerate \/ Settle \/ UsbPoll \/ NfcPoll \/ NfcPollThrows \/ AdapterOn \/ AdapterOff
        \/ \E d \in Devices : \/ Select(d) \/ Discover(d) \/ Examined(d) \/ Incompatible(d)
                              \/ LinkDrops(d) \/ Arrive(d) \/ Leave(d)
        \/ \E e \in Enumerations : PowerTimeout(e) \/ ScanStarts(e) \/ ScanFails(e)
    BY <1>2 DEF Next
  <2> QED
    BY <2>1, EnumerateStep, SelectStep, SettleStep, UsbPollStep, NfcPollStep,
       NfcPollThrowsStep,
       PowerTimeoutStep, AdapterOnStep, AdapterOffStep, ScanStartsStep, ScanFailsStep,
       DiscoverStep, ExaminedStep, IncompatibleStep, LinkDropsStep, ArriveStep, LeaveStep
<1> QED  BY <1>1, <1>2

-----------------------------------------------------------------------------
(* The conjunction above is an invariant of the services. *)
THEOREM Invariant == Spec => []IInv
  BY InitInvariant, StepInvariant, PTL DEF Spec

(* The services' states have their types: in particular there is at most one usb
   poll, not more nfc polls than enumerations, and as many handlers of a
   peripheral as are awaited (usb, nfc and ble service.ts). *)
THEOREM TypeCorrect == Spec => []TypeOK
<1>1. IInv => TypeOK
  BY DEF IInv
<1> QED  BY <1>1, Invariant, PTL

(* As long as no start of a scan has failed, a device the client was told of and
   not told to have gone is on the map of its service. *)
THEOREM ToldIsKnownHolds == Spec => []ToldIsKnown
<1>1. IInv => ToldIsKnown
  BY DEF IInv, ToldInv, ToldIsKnown
<1> QED  BY <1>1, Invariant, PTL

(* As long as no start of a scan has failed, no device is announced twice without
   a withdrawal between: one usb poll, for any number of enumerations, and one
   'discover' handler per peripheral (ble/service.ts:64), if noble lets none go on
   that has lost its peripheral (HandlersEnd). *)
THEOREM AttachOnceHolds == Spec => []AttachOnce
<1>1. IInv => AttachOnce
  BY DEF IInv, ToldInv, AttachOnce
<1> QED  BY <1>1, Invariant, PTL

(* As long as no start of a scan has failed, usb is polled by one interval while
   somebody listens and by none when nobody does (usb/service.ts:35-128). *)
THEOREM UsbServedHolds == Spec => []UsbServed
<1>1. IInv => UsbServed
  BY DEF IInv, UsbInv, UsbServed
<1> QED  BY <1>1, Invariant, PTL

(* A client that began to wait undisturbed has its ble scan on once all its
   enumerations have their ble observable. *)
THEOREM BleServedHolds == Spec => []BleServed
<1>1. IInv => BleServed
  <2>1. ASSUME IInv, smooth, listening # {}, Subscribed = listening
        PROVE  ble.on /\ ble.scanning
    <3>1. \A e \in listening : bleStart[e] = "done"
      BY <2>1 DEF Subscribed
    <3>2. ble.on /\ (ble.scanning \/ \E e \in listening : bleStart[e] = "scan")
      BY <2>1 DEF IInv, SmoothInv
    <3> QED  BY <3>1, <3>2
  <2> QED  BY <2>1 DEF BleServed
<1> QED  BY <1>1, Invariant, PTL

(* A device selected while it is announced and there is opened by the request that
   waits longest (client.ts:422-427): the map it is looked up in is cleared only by
   the end of an enumeration, and that of the first one comes after its open(). *)
THEOREM SelectionOpensHolds == Spec => SelectionOpens
<1> DEFINE Opened == \A d \in Devices : \A e \in listening :
                        /\ Select(d)
                        /\ told[d] = "attach" /\ d \in present /\ ~scanFailed
                        /\ \A f \in listening : e <= f
                        => opened'[e] = "opened"
<1>1. IInv /\ [Next]_vars => [Opened]_vars
  <2> SUFFICES ASSUME IInv, NEW d \in Devices, NEW e \in listening, Select(d),
                      told[d] = "attach", d \in present, ~scanFailed,
                      \A f \in listening : e <= f
               PROVE  opened'[e] = "opened"
    OBVIOUS
  <2>1. e \in awaiting /\ e \in Enumerations /\ listening \subseteq Int
    BY ConstantsAssumption DEF IInv, TypeOK, Enumerations
  <2>2. d \in usb.known \cup nfc.known \cup ble.known
    BY DEF IInv, ToldInv, Known
  <2>3. /\ kind[d] = "nfc" => d \in nfc.known
        /\ kind[d] = "ble" => d \in ble.known
        /\ kind[d] \in {"usb", "nfc", "ble"}
    BY <2>2, ConstantsAssumption DEF IInv, TypeOK, UsbInv, NfcInv, BleInv, Of, Transports
  <2>4. \A f \in listening : ~(f < e)
    BY <2>1
  <2>5. {f \in listening : f < e} = {}
    BY <2>4
  <2>6. Opens(e, d)
    BY <2>3, <2>5 DEF Opens
  <2> QED  BY <2>1, <2>6 DEF Select
<1> QED  BY <1>1, Invariant, PTL DEF Spec, SelectionOpens
=============================================================================
