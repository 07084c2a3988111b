---------------------------- MODULE MCFido2Client ----------------------------
(***************************************************************************)
(* Values for the Authenticators of Fido2Client.                           *)
(***************************************************************************)
EXTENDS Fido2Client

(* Every combination of the options getPinUvAuthToken looks at. *)
AllAuthenticators == AuthenticatorOptions

(* Security keys of FIDO 2.0 without built-in verification: a PIN is set, or can be. *)
PinReady ==
  {[uv |-> "absent", clientPin |-> "on", pinUvAuthToken |-> FALSE, fido20 |-> TRUE]}
PinCapable ==
  {[uv |-> "absent", clientPin |-> c, pinUvAuthToken |-> FALSE, fido20 |-> TRUE] :
     c \in {"on", "off"}}
=============================================================================
