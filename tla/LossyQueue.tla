------------------------------ MODULE LossyQueue ------------------------------
(***************************************************************************)
(* What a ring buffer without a test for full amounts to (abstract): a     *)
(* first-in first-out queue that forgets all it holds when the byte comes  *)
(* that would fill it.  Only a reader that had already found the queue     *)
(* ready when that happens can get something that is not its head.         *)
(***************************************************************************)
EXTENDS Naturals, Sequences

CONSTANTS Size, Byte
VARIABLES
  q,     \* what the queue holds
  got,   \* what the last step took: <<byte>> or <<>>
  torn   \* it forgot everything under a reader

queue == <<q, got, torn>>

QueueInit == q = <<>> /\ got = <<>> /\ torn = FALSE

Arrive(b) ==
  /\ got' = <<>>
  /\ \/ /\ Len(q) + 1 < Size
        /\ q' = Append(q, b)
        /\ UNCHANGED torn
     \/ /\ Len(q) + 1 = Size
        /\ q' = <<>>
        /\ torn' \in {torn, TRUE}

Take ==
  /\ ~torn /\ q # <<>>
  /\ got' = <<Head(q)>>
  /\ q' = Tail(q)
  /\ UNCHANGED torn

TakeTorn ==
  /\ torn
  /\ got' \in {<<b>> : b \in Byte \cup {0}}
  /\ q' = IF q = <<>> THEN q ELSE Tail(q)
  /\ torn' = FALSE

Idle == got' = <<>> /\ UNCHANGED <<q, torn>>

QueueNext == Take \/ TakeTorn \/ Idle \/ \E b \in Byte : Arrive(b)

QueueSpec == QueueInit /\ [][QueueNext]_queue
=============================================================================
