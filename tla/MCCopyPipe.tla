---------------------------- MODULE MCCopyPipe ----------------------------
(* Instances of CopyPipe for TLC: trees of a top, a child and a grandchild. *)
EXTENDS CopyPipe

CONSTANTS top, sub, leaf, none

Walk3 == <<top, sub, leaf>>
Parent3 == [p \in {top, sub, leaf} |->
              CASE p = top -> none [] p = sub -> top [] p = leaf -> sub]

\* Every tree: what has a child is a directory.
Grown == {t \in Tree : t[top] # None /\ \A p \in {sub, leaf} : t[p] # None => t[Parent[p]] \in Dirs}
Bare == [p \in Path |-> None]
OnHost == {t \in Grown : \A p \in Path : t[p] # "other"} \cup {Bare}
AllFaults == Fault
===========================================================================
