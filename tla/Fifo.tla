-------------------------------- MODULE Fifo --------------------------------
(***************************************************************************)
(* What a queue of the pipeline promises its callers: what is put comes    *)
(* out once, in the order it was put, and nothing else comes out.          *)
(* Concrete counterpart: the class QueueArray of src/util/queue.           *)
(***************************************************************************)
EXTENDS Sequences

CONSTANT Elements       \* what can be put, each at most once

VARIABLES queue,        \* what was put and not taken, oldest first
          taken         \* what was taken, oldest first

fvars == <<queue, taken>>

\* the elements of a sequence
Items(s) == {s[i] : i \in DOMAIN s}

FInit == queue = <<>> /\ taken = <<>>

Put(e) ==
    /\ e \notin Items(queue) \cup Items(taken)
    /\ queue' = Append(queue, e)
    /\ UNCHANGED taken

Take ==
    /\ queue # <<>>
    /\ taken' = Append(taken, Head(queue))
    /\ queue' = Tail(queue)

FNext == Take \/ \E e \in Elements : Put(e)

FSpec == FInit /\ [][FNext]_fvars
=============================================================================
