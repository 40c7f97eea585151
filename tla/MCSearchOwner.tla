---------------------------- MODULE MCSearchOwner ----------------------------
EXTENDS SearchOwner

CONSTANTS i1, i2, d1, d2

TwoIndexes == <<i1, i2>>
OneIndex == <<i1>>

\* An id in small letters, and one whose query finds no id.
OnePlain == [d \in {d1, d2} |-> IF d = d1 THEN d1 ELSE None]

\* An id in small letters alone.
AllPlain == [d \in {d1} |-> d1]
===============================================================================
