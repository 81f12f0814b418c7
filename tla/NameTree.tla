------------------------------ MODULE NameTree ------------------------------
(***************************************************************************)
(* What the name operations promise: a tree of names, with no blocks, no   *)
(* records and no link counts.  Every operation changes one name (rename:  *)
(* two) and an object lives as long as it has a name.  An operation that   *)
(* runs out of space breaks the promise (intact becomes FALSE) and nothing *)
(* is said of what follows.                                                *)
(***************************************************************************)
EXTENDS Integers

CONSTANTS Objects, AllNames, Root

VARIABLES
  entry,     \* set of <<directory, name, object>>
  kind,      \* [Objects -> mode, "none" when the object does not exist]
  intact

treeVars == <<entry, kind, intact>>

Free(d, n) == \A e \in entry : ~(e[1] = d /\ e[2] = n)

\* kind once the names in gone are removed and those in new added.
Survivors(gone, new) ==
  [i \in Objects |->
     IF /\ \E e \in gone : e[3] = i
        /\ ~\E e \in (entry \ gone) \cup new : e[3] = i
       THEN "none" ELSE kind[i]]

Empty(i) == \A e \in entry : e[1] # i

TreeInit ==
  /\ entry = {}
  /\ kind = [i \in Objects |-> IF i = Root THEN "dir" ELSE "none"]
  /\ intact = TRUE

Make(d, n, i, k) ==
  /\ kind[d] = "dir" /\ Free(d, n) /\ kind[i] = "none"
  /\ entry' = entry \cup {<<d, n, i>>}
  /\ kind' = [kind EXCEPT ![i] = k]

Link(d, n, i) ==
  /\ kind[d] = "dir" /\ Free(d, n) /\ kind[i] \notin {"none", "dir"}
  /\ entry' = entry \cup {<<d, n, i>>}
  /\ kind' = kind

Unlink(e) ==
  /\ Empty(e[3])
  /\ entry' = entry \ {e}
  /\ kind' = Survivors({e}, {})

\* e is renamed to n in directory d; what had that name goes.
Rename(e, d, n) ==
  LET gone == {f \in entry : f[1] = d /\ f[2] = n}
      new  == {<<d, n, e[3]>>}
  IN  /\ kind[d] = "dir"
      /\ \A f \in gone : Empty(f[3]) /\ f[3] # e[3]
                         /\ (kind[f[3]] = "dir" <=> kind[e[3]] = "dir")
      /\ entry' = (entry \ (gone \cup {e})) \cup new
      /\ kind' = Survivors(gone, new)

TreeNext ==
  \/ /\ intact /\ intact'
     /\ \/ \E i \in Objects : kind'[i] # kind[i] /\
             \E d \in Objects, n \in AllNames : Make(d, n, i, kind'[i])
        \/ \E d \in Objects, n \in AllNames, i \in Objects : Link(d, n, i)
        \/ \E e \in entry : Unlink(e)
        \/ \E e \in entry, d \in Objects, n \in AllNames : Rename(e, d, n)
  \/ ~intact'

TreeSpec == TreeInit /\ [][TreeNext]_treeVars

============================================================================
