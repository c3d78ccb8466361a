----------------------------- MODULE FileStore ------------------------------
(***************************************************************************)
(* What kernel/fs/fat32.c promises its callers: a tree of directories, in  *)
(* each a map from names to files and directories.  A call that fails      *)
(* leaves the tree alone, with one exception the code does not avoid: a    *)
(* file that was being overwritten when the volume ran full is lost.  That *)
(* can cost the whole tree: while a lost file has been neither deleted nor *)
(* overwritten, a call that needs room may ruin the others.                *)
(*                                                                         *)
(* An action relates the tree t before the call to the tree u after it.    *)
(***************************************************************************)
EXTENDS Naturals

CONSTANTS Names, Contents, DirIds, Root

File(content) == <<"file", content>>
Dir(d) == <<"dir", d>>
Lost == <<"lost">>

VARIABLE tree   \* [existing directories -> [names in use -> nodes]]

Ruins == [d \in {} |-> d]   \* no directory is what it was
Empty == [n \in {} |-> Lost]
Has(t, d, n) == n \in DOMAIN t[d]
HasFile(t, d, n) == Has(t, d, n) /\ t[d][n][1] # "dir"
HasDir(t, d, n) == Has(t, d, n) /\ t[d][n][1] = "dir"
Bind(dir, n, node) ==
  [m \in DOMAIN dir \cup {n} |-> IF m = n THEN node ELSE dir[m]]
Unbind(dir, n) == [m \in DOMAIN dir \ {n} |-> dir[m]]

Init == tree = [d \in {Root} |-> Empty]

Write(t, u, d, n, content) ==
  /\ ~HasDir(t, d, n)
  /\ u = [t EXCEPT ![d] = Bind(t[d], n, File(content))]

Lose(t, u, d, n) ==
  /\ HasFile(t, d, n)
  /\ u = [t EXCEPT ![d] = Bind(t[d], n, Lost)]

Delete(t, u, d, n) ==
  /\ HasFile(t, d, n)
  /\ u = [t EXCEPT ![d] = Unbind(t[d], n)]

MakeDir(t, u, d, n) ==
  /\ ~Has(t, d, n)
  /\ \E new \in DirIds \ DOMAIN t :
       u = [e \in DOMAIN t \cup {new} |->
              IF e = new THEN Empty
              ELSE IF e = d THEN Bind(t[d], n, Dir(new)) ELSE t[e]]

RemoveDir(t, u, d, n) ==
  /\ HasDir(t, d, n)
  /\ LET old == t[d][n][2]
     IN  /\ t[old] = Empty
         /\ u = [e \in DOMAIN t \ {old} |->
                   IF e = d THEN Unbind(t[d], n) ELSE t[e]]

(* A file is written or a directory made, other than over the lost file.   *)
Ruin(t, u, d, n) ==
  /\ \E e \in DOMAIN t : \E m \in DOMAIN t[e] : <<e, m>> # <<d, n>> /\ t[e][m] = Lost
  /\ u = Ruins

Step(t, u) ==
  \E d \in DOMAIN t, n \in Names :
    \/ \E content \in Contents : Write(t, u, d, n, content)
    \/ Lose(t, u, d, n)
    \/ Delete(t, u, d, n)
    \/ MakeDir(t, u, d, n)
    \/ RemoveDir(t, u, d, n)
    \/ Ruin(t, u, d, n)

(* t and u are bound, not substituted, so that TLC evaluates a refinement  *)
(* mapping once for the state before a step and once for the one after.    *)
Next == \E t \in {tree}, u \in {tree'} : Step(t, u)
Spec == Init /\ [][Next]_tree
=============================================================================
