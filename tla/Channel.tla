-------------------------------- MODULE Channel --------------------------------
(***************************************************************************)
(* What two peers promise each other when they set up a connection: the    *)
(* answering side decides first, the dialling side can only agree, and     *)
(* what they agree on is allowed by the policies of both.  Nothing decided *)
(* is changed.  Mse.tla is shown to implement this specification.          *)
(***************************************************************************)
CONSTANT Modes   \* the ways bytes may travel: as they are, or enciphered

VARIABLES allowed,  \* the modes both policies accept
          dialler,  \* "pending", "failed" or a mode
          answerer

vars == <<allowed, dialler, answerer>>

Init == allowed \in SUBSET Modes /\ dialler = "pending" /\ answerer = "pending"

\* The answering side is up, in a mode both accept.
Answer(m) == /\ m \in allowed
             /\ answerer = "pending" /\ answerer' = m
             /\ UNCHANGED <<allowed, dialler>>

\* The dialling side is up, in the mode the answering side has chosen.
Agree(m) == /\ answerer = m
            /\ dialler = "pending" /\ dialler' = m
            /\ UNCHANGED <<allowed, answerer>>

Fail == /\ UNCHANGED allowed
        /\ \/ dialler = "pending" /\ dialler' = "failed" /\ UNCHANGED answerer
           \/ answerer = "pending" /\ answerer' = "failed" /\ UNCHANGED dialler

Next == Fail \/ \E m \in Modes : Answer(m) \/ Agree(m)

Spec == Init /\ [][Next]_vars
=============================================================================
