---------------------------- MODULE MCMiniBitmap ----------------------------
(***************************************************************************)
(* Small MiniBitmaps for TLC: words of two bits.                           *)
(***************************************************************************)
EXTENDS MiniBitmap

(* Two words, the last one half used: 3 positions. *)
CapConRelleno == [o \in Objetos |-> 3]

(* Two words, all of it used: position cap is past the last word. *)
CapExacta == [o \in Objetos |-> 4]

(* Positions below 0, at cap and beyond it are passed too. *)
PosicionesConRelleno == -1 .. 4

PosicionesExactas == -1 .. 5

=============================================================================
