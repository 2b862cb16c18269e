--------------------------- MODULE MCBrowserSession ---------------------------
(***************************************************************************)
(* Instances of BrowserSession for TLC.                                    *)
(***************************************************************************)
EXTENDS BrowserSession

CONSTANTS u1, u2, boot1, form1, form2, form3, call1, call2
==============================================================================
