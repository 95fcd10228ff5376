-------------------------------- MODULE MCXMAC ------------------------------
(* Two frames to send and the control frame, and the buffers to receive    *)
(* into of each configuration.                                             *)
EXTENDS XMAC
=============================================================================
