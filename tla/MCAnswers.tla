----------------------------- MODULE MCAnswers -----------------------------
(* Lists that are unsorted or overlap with each other; two make one chunk  *)
(* or two, or a little more.                                               *)
EXTENDS Answers

MCFirst == <<2, 1>>
MCTexts == {MCFirst, <<1>>}

(* Nothing in the code tells one request from another.                     *)
Symmetry == Permutations(Requests)
=============================================================================
