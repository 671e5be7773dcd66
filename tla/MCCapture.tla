----------------------------- MODULE MCCapture ------------------------------
(***************************************************************************)
(* The captures of one device.  MCCapture.cfg: one per mode, with a stop   *)
(* request racing them.  MCCaptureLive.cfg: one mode, restarted.           *)
(* MCCaptureState.cfg: as MCCapture.cfg, for the displayed state.          *)
(***************************************************************************)
EXTENDS Capture
=============================================================================
