---------------------------- MODULE MC_EpubReader ----------------------------
(* A book of two chapters, whose pages change from one layout to the other.    *)
EXTENDS EpubReader, TLC

TwoChapters ==
  [l \in Layouts |->
     IF l = "portrait" THEN 0 :> 2 @@ 1 :> 1
     ELSE 0 :> 1 @@ 1 :> 1]

Halfway == {<<1, 2>>}
=============================================================================
