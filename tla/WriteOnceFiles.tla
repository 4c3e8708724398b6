---------------------------- MODULE WriteOnceFiles ----------------------------
(***************************************************************************)
(* What evaluation/gold.py and benchmark/splits.py promise of every file   *)
(* they keep: it is published whole under its name, at most once, and      *)
(* nobody changes it afterwards.                                           *)
(***************************************************************************)
CONSTANTS Names, Contents, None

VARIABLE content    \* what is published under each name

Init == content = [n \in Names |-> None]

Publish(n) ==
    /\ content[n] = None
    /\ content'[n] \in Contents
    /\ content' = [content EXCEPT ![n] = content'[n]]

Spec == Init /\ [][\E n \in Names : Publish(n)]_content
===============================================================================
