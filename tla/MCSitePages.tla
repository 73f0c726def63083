---------------------------- MODULE MCSitePages -----------------------------
(***************************************************************************)
(* An instance of SitePages for TLC: its constants are in SitePages.cfg.   *)
(***************************************************************************)
EXTENDS SitePages
=============================================================================
