------------------------------ MODULE MCJArray ------------------------------
(* Vectors of up to four elements over two values. *)
EXTENDS JArray

MCValues == {1, 2}
=============================================================================
