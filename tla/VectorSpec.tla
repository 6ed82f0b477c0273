----------------------------- MODULE VectorSpec -----------------------------
(***************************************************************************)
(* What a Julia program sees of a Vector: a sequence of elements that can  *)
(* be stored to, copied within, extended by elements of unknown value and  *)
(* cut short.                                                              *)
(***************************************************************************)
EXTENDS Integers, Sequences

CONSTANTS Values, Undef     \* an element is a value or has never been written
VARIABLE vec

Element == Values \cup {Undef}

Store(i, v) == i \in 1 .. Len(vec) /\ vec' = [vec EXCEPT ![i] = v]
Move(d, s, n) ==
    /\ d + n - 1 <= Len(vec) /\ s + n - 1 <= Len(vec)
    /\ vec' = [i \in 1 .. Len(vec) |->
                  IF i \in d .. d + n - 1 THEN vec[s + i - d] ELSE vec[i]]
Extend(n) ==
    /\ n >= Len(vec)
    /\ Len(vec') = n /\ \A i \in 1 .. n : vec'[i] \in Element
    /\ SubSeq(vec', 1, Len(vec)) = vec
Cut(n) == n \in 0 .. Len(vec) /\ vec' = SubSeq(vec, 1, n)

Init == vec \in Seq(Element)
Next == \/ Extend(Len(vec')) \/ Cut(Len(vec'))
        \/ \E i \in 1 .. Len(vec), v \in Values : Store(i, v)
        \/ \E d, s, n \in 1 .. Len(vec) : Move(d, s, n)
Spec == Init /\ [][Next]_vec
=============================================================================
