----------------------------- MODULE ByteStream -----------------------------
(***************************************************************************)
(* What a connection promises to the filters above it, whatever carries    *)
(* the bytes: those of its input, in order and each once, then the end.    *)
(* The end is announced only after the last byte and nothing follows it.   *)
(* A reader may stop at any time.                                          *)
(***************************************************************************)
EXTENDS Sequences, SequencesExt

CONSTANT Byte

VARIABLES
    open,        \* a connection is being served
    input,       \* the bytes it carries
    delivered,   \* the bytes its reader was given so far
    ended        \* the reader was told that there are no more

vars == <<open, input, delivered, ended>>

Init == open = FALSE /\ input = <<>> /\ delivered = <<>> /\ ended = FALSE

Open ==
    /\ ~open
    /\ open' = TRUE
    /\ input' \in Seq(Byte)
    /\ delivered' = <<>>
    /\ ended' = FALSE

\* Some more bytes of the input, and the end if they are the last.
Deliver ==
    /\ open
    /\ ~ended
    /\ IsPrefix(delivered, delivered')
    /\ IsPrefix(delivered', input)
    /\ ended' \in BOOLEAN
    /\ ended' => delivered' = input
    /\ UNCHANGED <<open, input>>

Close ==
    /\ open
    /\ open' = FALSE
    /\ UNCHANGED <<input, delivered, ended>>

Next == Open \/ Deliver \/ Close

Spec == Init /\ [][Next]_vars
=============================================================================
