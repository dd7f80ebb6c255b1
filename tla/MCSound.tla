------------------------------- MODULE MCSound -------------------------------
(* Sound with a chain of two buffers of two words on the higher of two     *)
(* channels, a copy of two words on the lower, and a device that plays     *)
(* three frames for every two of the guest's.                              *)
EXTENDS Sound

Both == {0, 1}
Desc(following, ends, source, target, words) ==
    [next |-> following, stop |-> ends, from |-> source, to |-> target, len |-> words,
     irqs |-> IF ends \/ target = Codec THEN {"end"} ELSE {}]
Descriptors ==
    [d \in 11 .. 14 |->
        CASE d = 11 -> Desc(12, FALSE, 1, Codec, 2)
          [] d = 12 -> Desc(11, FALSE, 3, Codec, 2)
          [] d = 13 -> Desc(14, FALSE, 5, 7, 1)
          [] d = 14 -> Desc(13, TRUE, 6, 8, 1)]
Cells == 1 .. 8
FirstWords == << "a1", "a2", "b1", "b2", "c1", "c2", "none", "none" >>
Rates == [link |-> 3, dac |-> 2]
TwoBuffers == << {1, 2}, {3, 4} >>
Target == {7, 8}
OneOrThree == {1, 3}
NoneOrOne == {0, 1}
=============================================================================
