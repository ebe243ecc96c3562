------------------------------ MODULE MCAudit ------------------------------
EXTENDS Audit
CONSTANTS t1, t2
=============================================================================
