------------------------------ MODULE MCMessages ----------------------------
(* The instances of Messages that TLC checks: what the messages say, with   *)
(* which limits they are read; the configurations give the other constants. *)
(* Calls of one kind are alike.                                             *)
EXTENDS Messages, TLC

CONSTANTS ann, here, image

Alike == Permutations(Sends) \cup Permutations(Edits)

Plain == {[content |-> {}, files |-> {}]}

AnyBody == {[content |-> {ann}, files |-> {}],
            [content |-> {here}, files |-> {}],
            [content |-> {here}, files |-> {image}],
            [content |-> NoContent, files |-> {image}]}

NoBody     == {}
NoLimits   == {}
SomeLimits == {-1, 0, 2}
=============================================================================
