---------------------------- MODULE MCExRegister ----------------------------
(* A registrar that wants at least five minutes and may grant four. *)
EXTENDS ExRegister
McAsks == {150, 300}
McGrants == {240, 300}
=============================================================================
