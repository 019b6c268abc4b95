--------------------------- MODULE MCDesktopShell ---------------------------
(***************************************************************************)
(* Instances of DesktopShell for TLC.  Two processes are enough to see two *)
(* backends at once; identities of reaped processes are reused.            *)
(***************************************************************************)
EXTENDS DesktopShell

CONSTANTS p1, p2

TwoProcs == {p1, p2}
=============================================================================
