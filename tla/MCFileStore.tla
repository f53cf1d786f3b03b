---------------------------- MODULE MCFileStore ----------------------------
(* Two updates and one more through another store object, and a lookup.     *)
EXTENDS FileStore

CONSTANTS w1, w2, w3, r1, o1, o2

MCObjectOf == [r \in {w1, w2, w3, r1} |-> IF r \in {w1, w2} THEN o1 ELSE o2]
=============================================================================
