---------------------------- MODULE MCMobileJobs ----------------------------
(* Small instances of the mobile job queue.                                *)
EXTENDS MobileJobs
=============================================================================
