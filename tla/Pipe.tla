-------------------------------- MODULE Pipe --------------------------------
(***************************************************************************)
(* What a one-way connection between two tasks promises: what one side     *)
(* sends is delivered to the other once and in order, and the receiver is  *)
(* told of the end, after which nothing is delivered.                      *)
(***************************************************************************)
EXTENDS Naturals, Sequences

CONSTANT Items

VARIABLES sent,       \* everything the sender has sent
          delivered,  \* everything the receiver was given
          ended       \* the receiver has seen the end

vars == <<sent, delivered, ended>>

Init ==
    /\ sent = <<>>
    /\ delivered = <<>>
    /\ ended = FALSE

Send ==
    /\ \E x \in Items : sent' = Append(sent, x)
    /\ UNCHANGED <<delivered, ended>>

Deliver ==
    /\ ~ended
    /\ Len(delivered) < Len(sent)
    /\ delivered' = Append(delivered, sent[Len(delivered) + 1])
    /\ UNCHANGED <<sent, ended>>

End ==
    /\ ended' = TRUE
    /\ UNCHANGED <<sent, delivered>>

Next == Send \/ Deliver \/ End

Spec == Init /\ [][Next]_vars
=============================================================================
