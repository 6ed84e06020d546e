--------------------------- MODULE MCBootSentinel ---------------------------
(* Instances of BootSentinel for TLC.                                      *)
EXTENDS BootSentinel

WithConfirm == Operation \cup {"confirm"}
StageWithDrift == {"stage", "drift"}

=============================================================================
