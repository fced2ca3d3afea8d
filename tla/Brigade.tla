------------------------------ MODULE Brigade ------------------------------
(***************************************************************************)
(* The bucket brigades of APR as the two input filters of the harness use  *)
(* them.  A filter keeps what is still to be read in a brigade of its own: *)
(* one heap bucket with the bytes, then an end-of-stream bucket.  Each     *)
(* read moves a first part of it to the brigade of the caller.             *)
(* APR is a library: its functions are modelled from what the filters do   *)
(* with their results.                                                     *)
(***************************************************************************)
EXTENDS Sequences, Integers

CONSTANTS
    Byte,         \* what an input is made of
    LF,           \* the byte that ends a line
    HugeString    \* HUGE_STRING_LEN, the longest line httpd asks for

ASSUME ByteAssumption == LF \in Byte
ASSUME HugeStringAssumption == HugeString \in Nat \ {0}

\* A brigade: the bytes of its data bucket, and whether an EOS bucket follows.
Brigades == [data : Seq(Byte), eos : BOOLEAN]

NoBuckets == [data |-> <<>>, eos |-> FALSE]
BufferOf(d) == [data |-> d, eos |-> TRUE]

(***************************************************************************)
(* What a filter answers to a read: a status, the buckets it puts in the   *)
(* brigade of the caller and the buckets it keeps.                         *)
(***************************************************************************)
Statuses == {"SUCCESS", "EOF", "INCOMPLETE", "ENOTIMPL"}

Answer(rv, out, bb) == [rv |-> rv, out |-> out, bb |-> bb]

Unmoved(rv, bb) == Answer(rv, NoBuckets, bb)
MovedAll(rv, bb) == Answer(rv, bb, NoBuckets)
MovedBytes(bb, k) ==
    Answer("SUCCESS",
           [data |-> SubSeq(bb.data, 1, k), eos |-> FALSE],
           [data |-> SubSeq(bb.data, k + 1, Len(bb.data)), eos |-> bb.eos])

\* The positions at which a line of d ends.
LineEnds(d) == {i \in 1 .. Len(d) : d[i] = LF}

\* apr_brigade_split_line moves the buckets up to and including the first
\* line feed.  Without one it moves whole buckets, EOS included, and stops
\* after the bucket that makes the longest line full.
SplitLine(bb) ==
    IF LineEnds(bb.data) # {}
    THEN MovedBytes(bb, CHOOSE i \in LineEnds(bb.data) : \A j \in LineEnds(bb.data) : i <= j)
    ELSE IF Len(bb.data) >= HugeString THEN MovedBytes(bb, Len(bb.data))
    ELSE MovedAll("SUCCESS", bb)

\* apr_brigade_partition(n), n > 0, finds the bucket that starts n bytes into
\* the brigade, splitting one if it must.  It finds none, and answers
\* APR_INCOMPLETE, when fewer than n bytes are there.
EnoughFor(bb, n) == n <= Len(bb.data)
=============================================================================
