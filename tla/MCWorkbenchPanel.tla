-------------------------- MODULE MCWorkbenchPanel ---------------------------
(* The root, two pages of targets and two malformed ones; two catalogs.    *)
EXTENDS WorkbenchPanel

CONSTANTS t1, t2, m1, m2, f1, f2

Pages == {t1, t2}
BadPages == {m1, m2}
TwoCatalogs == {f1, f2}

=============================================================================
