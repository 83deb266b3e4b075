---------------------------- MODULE MCProgCache ----------------------------
EXTENDS ProgCache

(* A full cache, a read-only one and a child that declares nothing. *)
Declared == {{"get", "put", "close"}, {"get"}, {}}
=============================================================================
