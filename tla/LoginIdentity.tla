--------------------------- MODULE LoginIdentity ---------------------------
(***************************************************************************)
(* What login forwarding promises, without the table that implements it:   *)
(* every account has one identity that its owner ends up logged in as, and *)
(* forwarding an account moves it, together with every account that lived  *)
(* under it, to the identity of the target.  There are no chains.          *)
(***************************************************************************)
CONSTANT Users

VARIABLE identity      \* identity[u]: the account a login as u ends up in

Init == identity = [u \in Users |-> u]

\* Forwarding s to t.  When t currently lives under s, s and t swap roles:
\* t becomes the identity of the whole group (the circular case).
Forward(s, t) ==
    LET root == IF identity[t] = s THEN t ELSE identity[t]
    IN  identity' = [u \in Users |-> IF u = s \/ identity[u] = s
                                     THEN root ELSE identity[u]]

Next == \E s, t \in Users : s # t /\ Forward(s, t)

Spec == Init /\ [][Next]_identity
=============================================================================
