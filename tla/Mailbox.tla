------------------------------ MODULE Mailbox ------------------------------
(***************************************************************************)
(* What a dispatch queue promises: ids go in one by one, the owner of the  *)
(* mailbox takes everything there is in one batch and handles the batch in *)
(* order.  FairSpec adds that nothing stays in the mailbox for ever.       *)
(***************************************************************************)
EXTENDS Sequences

CONSTANT Ids

VARIABLES pending,  \* ids pushed and not taken, oldest first
          batch     \* ids taken and not handled yet

vars == <<pending, batch>>

Init == pending = <<>> /\ batch = <<>>

Push(id) == pending' = Append(pending, id) /\ UNCHANGED batch

Take ==
    /\ batch = <<>>
    /\ pending # <<>>
    /\ batch' = pending
    /\ pending' = <<>>

Handle ==
    /\ batch # <<>>
    /\ batch' = Tail(batch)
    /\ UNCHANGED pending

Next == Take \/ Handle \/ \E id \in Ids : Push(id)

Spec == Init /\ [][Next]_vars

FairSpec == Spec /\ WF_vars(Take) /\ WF_vars(Handle)
=============================================================================
