---------------------------- MODULE MCOneDriveShare ----------------------------
(* A small instance of OneDriveShare.                                      *)
EXTENDS OneDriveShare

CONSTANTS link1, invite1, ann, bob

OneLink       == {link1}
OneInvite     == {invite1}
TwoRecipients == {ann, bob}
=============================================================================
