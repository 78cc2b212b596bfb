--------------------------- MODULE MCJournalQuota ---------------------------
(* Model-checking instances of JournalQuota.                                *)
EXTENDS JournalQuota

CONSTANTS j1, j2

(* A limit that holds one issued attempt and little else, and one below     *)
(* what such a job needs.                                                   *)
MCLimits == {12, 40}
=============================================================================
