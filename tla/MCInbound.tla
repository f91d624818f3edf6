------------------------------ MODULE MCInbound ------------------------------
(* A text and a message of any kind, for model checking Inbound. *)
EXTENDS Inbound

CONSTANTS m1, m2

TextAndAny == {[m \in {m1, m2} |-> IF m = m1 THEN "text" ELSE k] : k \in Kind}
==============================================================================
