------------------------- MODULE MCBrowserExtension -------------------------
(* A small instance of BrowserExtension for TLC. *)
EXTENDS BrowserExtension
=============================================================================
