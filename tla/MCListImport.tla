------------------------------ MODULE MCListImport ------------------------------
EXTENDS ListImport, TLC

CONSTANTS i1, i2, i3, a, b

\* Lists that overlap, differ and are empty.
MCList == (i1 :> {a, b}) @@ (i2 :> {b}) @@ (i3 :> {})
=================================================================================
