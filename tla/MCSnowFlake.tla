---------------------------- MODULE MCSnowFlake ----------------------------
(* Two generators whose identities differ in both fields, fields of two    *)
(* values each; a's process may restart, b's clock may be set back.        *)
EXTENDS SnowFlake

MCNodes == {"a", "b"}
MCWorkerId == [n \in MCNodes |-> IF n = "a" THEN 0 ELSE 1]
MCDatacenterId == [n \in MCNodes |-> IF n = "a" THEN 1 ELSE 0]
=============================================================================
