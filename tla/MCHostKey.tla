----------------------------- MODULE MCHostKey -----------------------------
(* HostKey with two shift keys, with FUNCTION on one of them or on a key   *)
(* of its own, and a letter; the keys of the chords are letters as well.   *)
EXTENDS HostKey, TLC

CONSTANTS LShift, RShift, Fn, A

TwoShifts == {LShift, RShift}
AllOthers == {LShift, RShift, Fn, A}
Everything == Keys
Nothing == {}
Shifts == LShift :> "shift" @@ RShift :> "shift"
=============================================================================
