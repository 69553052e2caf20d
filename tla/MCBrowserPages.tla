--------------------------- MODULE MCBrowserPages ---------------------------
(* Instances of BrowserPages for TLC. *)
EXTENDS BrowserPages

=============================================================================
