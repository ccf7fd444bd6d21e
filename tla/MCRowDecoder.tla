----------------------------- MODULE MCRowDecoder -----------------------------
(* Instances of RowDecoder for TLC.                                          *)
EXTENDS RowDecoder

(* Four rows; crops that start and end on, just before and just after the    *)
(* edge of a row, and the whole picture.                                     *)
Crops == {<<0, 64>>, <<0, 40>>, <<14, 32>>, <<16, 41>>, <<18, 33>>, <<30, 47>>, <<32, 48>>}

AllPictures ==
  {[method |-> m, filter |-> f, mbh |-> 4, top |-> c[1], bottom |-> c[2]] :
     m \in 0..2, f \in 0..2, c \in Crops}
===============================================================================
