------------------------------ MODULE PipeFifo ------------------------------
(* What a pipe promises: a bounded queue of bytes with two ends.  Bytes come *)
(* out in the order they went in; none goes in once the read end is closed;  *)
(* an end that is closed stays closed.                                       *)
EXTENDS Naturals, Sequences

CONSTANTS Bytes, Size

VARIABLES queue, readopen, writeopen

Init ==
  /\ queue = <<>>
  /\ readopen = TRUE
  /\ writeopen = TRUE

Put(b) ==
  /\ readopen /\ writeopen
  /\ Len(queue) < Size
  /\ queue' = Append(queue, b)
  /\ UNCHANGED <<readopen, writeopen>>

Get ==
  /\ readopen
  /\ queue # <<>>
  /\ queue' = Tail(queue)
  /\ UNCHANGED <<readopen, writeopen>>

CloseRead == readopen /\ readopen' = FALSE /\ UNCHANGED <<queue, writeopen>>
CloseWrite == writeopen /\ writeopen' = FALSE /\ UNCHANGED <<queue, readopen>>

Next == (\E b \in Bytes : Put(b)) \/ Get \/ CloseRead \/ CloseWrite

Spec == Init /\ [][Next]_<<queue, readopen, writeopen>>
=============================================================================
