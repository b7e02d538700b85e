------------------------------ MODULE MCDetect ------------------------------
(* Four chunks, two of them similar: they share an indicator in the first  *)
(* scheme and not in the second; in the third, and as far as features go,  *)
(* all four are alike. So every column differs from its neighbours.        *)
EXTENDS Detection, TLC

CONSTANTS a1, a2, b, c

MCIndicator == (a1 :> "p") @@ (a2 :> "p") @@ (b :> "q") @@ (c :> "r")

View(h, f, p) == [hash |-> h, feature |-> f, prefix |-> p]

MCDescribe ==
  (a1 :> View(a1, [i \in Scheme |-> "f"], (0 :> "p") @@ (1 :> "r") @@ (2 :> "u")))
  @@ (a2 :> View(a2, [i \in Scheme |-> "f"], (0 :> "p") @@ (1 :> "s") @@ (2 :> "u")))
  @@ (b :> View(b, [i \in Scheme |-> "f"], (0 :> "q") @@ (1 :> "t") @@ (2 :> "u")))
  @@ (c :> View(c, [i \in Scheme |-> "f"], (0 :> "r") @@ (1 :> "v") @@ (2 :> "u")))
=============================================================================
