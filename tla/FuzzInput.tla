----------------------------- MODULE FuzzInput -----------------------------
(***************************************************************************)
(* The client side of the fuzz harness (fuzz_common.c, mod_fuzzy.c,        *)
(* mod_fuzzy_multi.c): a test case becomes one request, or several, each   *)
(* served by httpd on a connection of its own that reads from memory.      *)
(*                                                                         *)
(* fuzz_one_input points two globals at the bytes of the request, opens a  *)
(* connection and runs it.  The first read through the input filter moves  *)
(* the bytes to a brigade of the connection and clears the globals; later  *)
(* reads consume the brigade.  The reader is httpd with its modules: it    *)
(* may issue any reads in any order and stop at any time, since the test   *)
(* case decides what it does.                                              *)
(***************************************************************************)
EXTENDS Brigade, SequencesExt

CONSTANTS
    TestCases,     \* the test cases libFuzzer may try
    Splits,        \* whether a harness is mod_fuzzy_multi: the values to try
    MaxRequests,   \* MAX_REQUESTS_PER_INPUT
    Counts,        \* the values of readbytes a reader asks for
    MaxCases       \* bound: the test cases of one run of the process

ASSUME TestCasesAssumption == TestCases \subseteq Seq(Byte)
ASSUME SplitsAssumption == Splits \subseteq BOOLEAN
ASSUME MaxRequestsAssumption == MaxRequests \in Nat \ {0}
ASSUME CountsAssumption == Counts \subseteq Int
ASSUME MaxCasesAssumption == MaxCases \in Nat

VARIABLES
    splits,     \* whether the harness that runs is mod_fuzzy_multi
    phase,      \* where the process is: see Phases
    case,       \* the test case being processed
    p,          \* how many bytes of it became requests
    count,      \* how many requests it became
    g_input,    \* g_input_data and g_input_size; <<>> is NULL, 0
    net,        \* fuzz_net_rec: the brigade bb and eos_sent
    reply,      \* the last answer of the input filter
    cases,      \* how many test cases were started
    \* What the properties speak of:
    input,      \* the bytes of the last request
    got,        \* those of them that its reader was given
    ended       \* whether its reader was told that there are no more

server == <<splits, phase, case, p, count, cases>>
stream == <<input, got, ended>>
vars == <<server, g_input, net, reply, stream>>

Phases == {"fresh", "ready", "requests", "serving", "dead"}
Modes == {"INIT", "GETLINE", "READBYTES", "SPECULATIVE", "EXHAUSTIVE", "EATCRLF"}

NewNet == [bb |-> NoBuckets, eos_sent |-> FALSE]
NoReply == [mode |-> "INIT", rv |-> "SUCCESS", out |-> NoBuckets]

Init ==
    /\ splits \in Splits
    /\ phase = "fresh"
    /\ case = <<>> /\ p = 0 /\ count = 0 /\ cases = 0
    /\ g_input = <<>>
    /\ net = NewNet
    /\ reply = NoReply
    /\ input = <<>> /\ got = <<>> /\ ended = FALSE

-----------------------------------------------------------------------------
(***************************************************************************)
(* The process and its test cases.                                         *)
(***************************************************************************)

\* fuzz_init succeeds, or the harness prints an error and leaves by _exit(1).
FuzzInit ==
    /\ phase = "fresh"
    /\ phase' \in {"ready", "dead"}
    /\ UNCHANGED <<splits, case, p, count, cases, g_input, net, reply, stream>>

TestOneInput(data) ==
    /\ phase = "ready"
    /\ cases < MaxCases
    /\ phase' = "requests"
    /\ case' = data
    /\ p' = 0
    /\ count' = 0
    /\ cases' = cases + 1
    /\ UNCHANGED <<splits, g_input, net, reply, stream>>

\* Where the blank lines that start after the first q bytes of d end.
BlankLines(d, q) == {i \in q + 2 .. Len(d) : d[i] = LF /\ d[i-1] = LF}

\* The request that starts after the first q bytes goes up to the end of the
\* first blank line, or of the test case if there is none.
RequestEnd(d, q) ==
    IF splits /\ BlankLines(d, q) # {}
    THEN CHOOSE i \in BlankLines(d, q) : \A j \in BlankLines(d, q) : i <= j
    ELSE Len(d)

\* Mutant: the separator is left to the next request.
RequestWithoutBlankLine ==
    SubSeq(case, p + 1, IF BlankLines(case, p) = {} THEN Len(case) ELSE RequestEnd(case, p) - 1)

Request == SubSeq(case, p + 1, RequestEnd(case, p))

\* Mutant: a last byte is taken for the end.
MoreRequestsBeforeLast ==
    IF splits THEN p < Len(case) - 1 /\ count < MaxRequests ELSE count = 0

MoreRequests ==
    IF splits THEN p < Len(case) /\ count < MaxRequests ELSE count = 0

\* fuzz_one_input returns at once when it is given no bytes.
NothingToServe ==
    /\ phase = "requests"
    /\ MoreRequests
    /\ Request = <<>>
    /\ count' = count + 1
    /\ UNCHANGED <<splits, phase, case, p, cases, g_input, net, reply, stream>>

\* fuzz_one_input sets the globals and opens a connection; the hook
\* fuzz_pre_connection gives it a filter with an empty brigade.
FuzzOneInput ==
    /\ phase = "requests"
    /\ MoreRequests
    /\ Request # <<>>
    /\ phase' = "serving"
    /\ g_input' = Request
    /\ net' = NewNet
    /\ p' = p + Len(Request)
    /\ count' = count + 1
    /\ reply' = NoReply
    /\ input' = Request
    /\ got' = <<>>
    /\ ended' = FALSE
    /\ UNCHANGED <<splits, case, cases>>

\* ap_run_process_connection returns (or was not called: a module aborted the
\* connection), the pool is destroyed and the globals cleared.
EndRequest ==
    /\ phase = "serving"
    /\ phase' = "requests"
    /\ g_input' = <<>>
    /\ net' = NewNet
    /\ reply' = NoReply
    /\ UNCHANGED <<splits, case, p, count, cases, stream>>

TestCaseDone ==
    /\ phase = "requests"
    /\ ~MoreRequests
    /\ phase' = "ready"
    /\ UNCHANGED <<splits, case, p, count, cases, g_input, net, reply, stream>>

\* A test case that crashes httpd ends the process.
Crash ==
    /\ phase = "serving"
    /\ phase' = "dead"
    /\ UNCHANGED <<splits, case, p, count, cases, g_input, net, reply, stream>>

-----------------------------------------------------------------------------
(***************************************************************************)
(* The input filter.                                                       *)
(***************************************************************************)

\* The first read turns the globals into a data bucket and an EOS bucket.
Populates == g_input # <<>> /\ net.bb = NoBuckets
Populated == IF Populates THEN BufferOf(g_input) ELSE net.bb

\* Mutant: the globals are not cleared.
KeptInput == g_input

LeftInput == IF Populates THEN <<>> ELSE g_input

\* The answer in each mode, for a brigade that is not empty.
ReadBytes(bb, n) ==
    IF n <= 0 THEN MovedAll("SUCCESS", bb)
    ELSE IF EnoughFor(bb, n) THEN MovedBytes(bb, n)
    ELSE Unmoved("INCOMPLETE", bb)

\* Mutant: the data bucket is moved, not copied.
SpeculateAndDrop(bb) == Answer("SUCCESS", bb, [bb EXCEPT !.data = <<>>])

\* Bucket copies, up to the EOS bucket: all of it, whatever readbytes says.
Speculate(bb) == Answer("SUCCESS", bb, bb)

\* Mutant: a line is read as a block of the longest length.
ReadLongLine(bb) == ReadBytes(bb, HugeString)

ReadLine(bb) == SplitLine(bb)

AnswerTo(mode, n, bb) ==
    CASE mode = "GETLINE" -> ReadLine(bb)
      [] mode = "READBYTES" -> ReadBytes(bb, n)
      [] mode = "SPECULATIVE" -> Speculate(bb)
      [] mode = "EXHAUSTIVE" -> MovedAll("SUCCESS", bb)
      [] OTHER -> Unmoved("ENOTIMPL", bb)

Replied(mode, rv, out) == reply' = [mode |-> mode, rv |-> rv, out |-> out]

\* Nothing to read: before the first read of data, after the end.
ReadInit ==
    /\ phase = "serving"
    /\ Replied("INIT", "SUCCESS", NoBuckets)
    /\ UNCHANGED <<server, g_input, net, stream>>

ReadAfterEnd(mode) ==
    /\ phase = "serving"
    /\ mode # "INIT"
    /\ net.eos_sent
    /\ Replied(mode, "EOF", NoBuckets)
    /\ UNCHANGED <<server, g_input, net, stream>>

ReadEnd(mode) ==
    /\ phase = "serving"
    /\ mode # "INIT"
    /\ ~net.eos_sent
    /\ Populated = NoBuckets
    /\ net' = [net EXCEPT !.eos_sent = TRUE]
    /\ Replied(mode, "EOF", NoBuckets)
    /\ ended' = TRUE
    /\ UNCHANGED <<server, g_input, input, got>>

\* The brigade is populated, if it must, and a part of it moved.
ReadSome(mode, n) ==
    /\ phase = "serving"
    /\ mode # "INIT"
    /\ ~net.eos_sent
    /\ Populated # NoBuckets
    /\ g_input' = LeftInput
    /\ LET a == AnswerTo(mode, n, Populated) IN
       /\ net' = [net EXCEPT !.bb = a.bb]
       /\ Replied(mode, a.rv, a.out)
       /\ IF mode = "SPECULATIVE" THEN UNCHANGED <<got, ended>>
          ELSE got' = got \o a.out.data /\ ended' = a.out.eos
    /\ UNCHANGED <<server, input>>

Read(mode, n) == ReadAfterEnd(mode) \/ ReadEnd(mode) \/ ReadSome(mode, n)

-----------------------------------------------------------------------------
Next ==
    \/ FuzzInit
    \/ \E data \in TestCases : TestOneInput(data)
    \/ NothingToServe
    \/ FuzzOneInput
    \/ EndRequest
    \/ TestCaseDone
    \/ Crash
    \/ ReadInit
    \/ \E mode \in Modes, n \in Counts : Read(mode, n)

Spec == Init /\ [][Next]_vars

\* A reader that keeps asking for lines until it is told of the end, as httpd
\* does for the requests of a connection it keeps alive.
LineReaderSpec == Spec /\ WF_vars(Read("GETLINE", 0))

\* A reader that keeps asking for bytes, as httpd does for a body.
ByteReaderSpec ==
    Spec /\ \A n \in Counts : n > 0 => WF_vars(Read("READBYTES", n))

-----------------------------------------------------------------------------
(***************************************************************************)
(* Properties.                                                             *)
(***************************************************************************)

\* The types of the variables.
TypeOK ==
    /\ splits \in Splits
    /\ phase \in Phases
    /\ case \in Seq(Byte)
    /\ p \in 0 .. Len(case)
    /\ count \in 0 .. MaxRequests
    /\ cases \in 0 .. MaxCases
    /\ g_input \in Seq(Byte)
    /\ net \in [bb : Brigades, eos_sent : BOOLEAN]
    /\ reply \in [mode : Modes, rv : Statuses, out : Brigades]
    /\ input \in Seq(Byte)
    /\ got \in Seq(Byte)
    /\ ended \in BOOLEAN

\* The globals point at the bytes of a request only while that request is
\* served and nothing of it was read: they never outlive it, and no
\* connection finds the bytes of another one (fuzz_common.c:301-310, 754).
BufferOwned ==
    g_input # <<>> =>
        /\ phase \in {"serving", "dead"}
        /\ g_input = input
        /\ net = NewNet
        /\ got = <<>> /\ ~ended

\* A look ahead shows bytes that the next reads deliver, and shows the end
\* only if there are no others (fuzz_common.c:345-358).
PeekIsNext ==
    phase = "serving" /\ reply.mode = "SPECULATIVE" /\ reply.rv = "SUCCESS" =>
        /\ IsPrefix(got \o reply.out.data, input)
        /\ reply.out.eos => got \o reply.out.data = input

\* Each request mod_fuzzy_multi makes is a part of the test case that ends
\* with its only blank line, but for the last, which may have none
\* (mod_fuzzy_multi.c:37-52).
RequestsAreWhole ==
    phase = "serving" =>
        /\ input = SubSeq(case, p - Len(input) + 1, p)
        /\ splits => BlankLines(input, 0) \subseteq {Len(input)}
        /\ splits /\ p < Len(case) => BlankLines(input, 0) # {}

\* A test case is done when all of its bytes were served, or as many requests
\* as the harness allows (mod_fuzzy_multi.c:37).
EveryByteServed ==
    phase = "ready" => p = Len(case) \/ (splits /\ count = MaxRequests)

\* The inductive invariant of the proofs: the properties above with what the
\* steps between them establish.

\* What a reader was given and what its brigade holds make up the request,
\* and the EOS bucket is there until the reader was told of the end.
NothingLost ==
    phase = "serving" /\ g_input = <<>> =>
        /\ got \o net.bb.data = input
        /\ net.bb.eos = ~ended
        /\ ended => net.bb.data = <<>>
        /\ net.eos_sent => ended

NetIsNew == phase \in {"fresh", "ready", "requests"} => net = NewNet

\* The last look ahead showed what the brigade still holds.
PeekIsBrigade ==
    phase = "serving" /\ reply.mode = "SPECULATIVE" /\ reply.rv = "SUCCESS" =>
        g_input = <<>> /\ reply.out = net.bb

\* A harness that does not split takes all of a test case for its request.
NothingSkipped == phase = "fresh" \/ (~splits /\ count # 0) => p = Len(case)

IInv ==
    /\ TypeOK
    /\ BufferOwned /\ NothingLost /\ NetIsNew
    /\ PeekIsBrigade
    /\ RequestsAreWhole
    /\ NothingSkipped /\ EveryByteServed

\* The connection is a byte stream: its reader is given the bytes of the
\* request in order, each once, then the end, and nothing more.
Stream == INSTANCE ByteStream WITH
    open <- phase = "serving", delivered <- got

IsAStream == Stream!Spec

\* A reader that goes on reading is told of the end.  Under LineReaderSpec the
\* reader asks for lines (fuzz_common.c:317-322), under ByteReaderSpec for
\* bytes (harness-design.md:163, "Subsequent reads consume from this internal
\* brigade until it's empty").
EndIsReached == phase = "serving" ~> ended \/ phase # "serving"
=============================================================================
