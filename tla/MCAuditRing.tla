---------------------------- MODULE MCAuditRing ----------------------------
(* Every constant gets its value in the cfg files. *)
EXTENDS AuditRing

=============================================================================
