---------------------------- MODULE MCRFCoreRadio ---------------------------
(* Two frames to send, so that a new one may follow a cancelled one, one   *)
(* buffer to receive into and as many entries as the driver has.           *)
EXTENDS RFCoreRadio
=============================================================================
