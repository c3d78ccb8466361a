------------------------------ MODULE MCFat32 -------------------------------
(* Files of no, one and two clusters, told apart by what is in them, and   *)
(* names that no rule tells apart.                                         *)
EXTENDS Fat32, TLC

MCContents == {<<>>, <<"x">>, <<"x", "y">>}
NameSymmetry == Permutations(Names)

(* What a free cluster holds is left to it by its last owner.  Until the   *)
(* volume is crossed no call reads it before it is written again, nor is a *)
(* cluster that was free then read after it; so states that differ only    *)
(* there are taken as one.  On a crossed volume, followed from one of      *)
(* them, only TypeOK has something to say, and that is proved for all.     *)
InUse == <<fat, crossed, [c \in IF Crossed THEN Clusters ELSE Allocated |-> disk[c]]>>
=============================================================================
