--------------------------- MODULE MCSshSessions ---------------------------
(* Instances of SshSessions for TLC. *)
EXTENDS SshSessions, TLC

CONSTANTS h1, h2, v1, v2, e1, k1

=============================================================================
