----------------------------- MODULE CfilQueue ------------------------------
(***************************************************************************)
(* The byte-range queue "struct cfil_queue" of bsd/net/content_filter.c:   *)
(* a FIFO of mbuf chains with the absolute stream offsets q_start (first   *)
(* byte queued) and q_end (one past the last byte queued).                 *)
(*                                                                         *)
(* An mbuf chain is abstracted to a span record [off, len]: len is what    *)
(* cfil_data_length() returns for it, off is a ghost field holding the     *)
(* true stream offset of its first byte, which the code does not store     *)
(* and which the properties use to check that q_start/q_end stay aligned   *)
(* with the data actually queued.                                          *)
(***************************************************************************)
EXTENDS Naturals, Sequences, SequencesExt

\* cfil_queue_init(): both cursors at 0, no mbuf.
QInit == [start |-> 0, end |-> 0, q |-> << >>]

\* cfil_queue_empty() tests the mbuf list, not the cursors.
QEmpty(Q) == Q.q = << >>

\* cfil_queue_len()
QLen(Q) == Q.end - Q.start

\* cfil_queue_first()
QFirst(Q) == Head(Q.q)

\* cfil_queue_enqueue(): append the chain and advance q_end by the length
\* passed by the caller.
QEnqueue(Q, m) == [Q EXCEPT !.q = Append(@, m), !.end = @ + m.len]

\* cfil_queue_remove(): every caller removes the first chain (the one
\* returned by cfil_queue_first()) and advances q_start by its length.
QRemoveFirst(Q) == [Q EXCEPT !.q = Tail(@), !.start = @ + Head(Q.q).len]

\* cfil_queue_drain(): drop every chain and reset both cursors to 0.
QDrain(Q) == QInit

\* Sum of the lengths of a sequence of chains.
RECURSIVE SpanBytes(_)
SpanBytes(s) == IF s = << >> THEN 0 ELSE Head(s).len + SpanBytes(Tail(s))

\* cfil_queue_remove() applied to the first k chains in turn.
QRemoveN(Q, k) == [Q EXCEPT !.q = SubSeq(@, k + 1, Len(@)),
                            !.start = @ + SpanBytes(SubSeq(Q.q, 1, k))]

\* Sum of the lengths of the queued chains (the debug check in
\* cfil_queue_verify() recomputes it from the mbuf list).
QBytes(Q) == SpanBytes(Q.q)

(***************************************************************************)
(* cfil_queue_verify(): q_start <= q_end, the queue is empty iff the       *)
(* cursors are equal, and the cursors span exactly the bytes queued.       *)
(***************************************************************************)
QVerify(Q) ==
    /\ Q.start <= Q.end
    /\ QEmpty(Q) <=> Q.start = Q.end
    /\ QBytes(Q) = Q.end - Q.start

\* Ghost check: the chains sit back to back in the stream, the first one
\* at q_start.
QAligned(Q) ==
    \A i \in 1..Len(Q.q) :
        Q.q[i].off = IF i = 1 THEN Q.start ELSE Q.q[i-1].off + Q.q[i-1].len
=============================================================================
