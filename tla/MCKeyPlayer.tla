---------------------------- MODULE MCKeyPlayer ----------------------------
(* KeyPlayer on a matrix of two columns, swept in order.  SHIFT shares the *)
(* first with a key it can modify, READ is alone in the last, and one key  *)
(* is not on this keyboard at all.                                         *)
EXTENDS KeyPlayer, TLC

CONSTANTS Shift, Read, Letter, Unknown

Keys == {Shift, Read, Letter}
ColumnOf == Shift :> 0 @@ Letter :> 0 @@ Read :> 1
Chord(mods, key) == [mods |-> mods, key |-> key]
Plain == Chord({}, Letter)
Strokes == {Plain, Chord({Shift, Read}, Letter), Chord({Shift}, Unknown)}
Letters == {Plain}
NoStrokes == {}
Typed == << Plain >>
NoScript == << >>
=============================================================================
