------------------------------ MODULE MCQrCodes ------------------------------
(***************************************************************************)
(* Small instances of the dynamic QR code.                                 *)
(***************************************************************************)
EXTENDS QrCodes

CONSTANTS s1, r1, r2

\* A screen that may reconnect, or two scans.
ScreenOrScans == {{s1}, {r1, r2}}

=============================================================================
