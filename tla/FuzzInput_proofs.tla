-------------------------- MODULE FuzzInput_proofs --------------------------
(***************************************************************************)
(* Proofs about FuzzInput: the safety properties of the client side of the *)
(* harness, and that each connection implements ByteStream, for any test   *)
(* cases, any number of requests and any reader.                           *)
(***************************************************************************)
EXTENDS FuzzInput, SequenceTheorems, WellFoundedInduction, TLAPS

-----------------------------------------------------------------------------
(* Positions in test cases.                                                *)

\* A set of positions has a first one.
LEMMA First ==
  ASSUME NEW T, T \subseteq Nat, T # {}
  PROVE  \E x \in T : \A y \in T : x <= y
<1>1. \E x \in T : \A y \in T : ~(<<y, x>> \in OpToRel(<, Nat))
  BY WFMin, NatLessThanWellFounded, Zenon
<1>2. PICK x \in T : \A y \in T : ~(<<y, x>> \in OpToRel(<, Nat))
  BY <1>1
<1>3. \A y \in T : ~(y < x)
  BY <1>2, Zenon DEF OpToRel
<1> QED
  BY <1>3

\* A request ends with its first blank line, or with the test case.
LEMMA RequestEndIsFirst ==
  ASSUME NEW d \in Seq(Byte), NEW q \in 0 .. Len(d)
  PROVE  /\ RequestEnd(d, q) \in q .. Len(d)
         /\ ~splits => RequestEnd(d, q) = Len(d)
         /\ splits /\ RequestEnd(d, q) < Len(d) => RequestEnd(d, q) \in BlankLines(d, q)
         /\ splits => \A i \in BlankLines(d, q) : RequestEnd(d, q) <= i
<1> DEFINE B == BlankLines(d, q)
<1>1. Len(d) \in Nat /\ B \subseteq q + 2 .. Len(d) /\ B \subseteq Nat
  BY DEF BlankLines
<1>2. CASE splits /\ B # {}
  <2>1. \E x \in B : \A y \in B : x <= y
    BY <1>1, <1>2, First
  <2>2. RequestEnd(d, q) = CHOOSE i \in B : \A j \in B : i <= j
    BY <1>2 DEF RequestEnd
  <2>3. RequestEnd(d, q) \in B /\ \A j \in B : RequestEnd(d, q) <= j
    BY <2>1, <2>2
  <2> HIDE DEF B
  <2> QED
    BY <1>1, <1>2, <2>3 DEF B
<1>3. CASE ~(splits /\ B # {})
  <2>1. RequestEnd(d, q) = Len(d)
    BY <1>3 DEF RequestEnd
  <2> QED
    BY <1>1, <1>3, <2>1
<1> QED
  BY <1>2, <1>3

LEMMA RequestType ==
  ASSUME TypeOK
  PROVE  /\ Request \in Seq(Byte)
         /\ RequestEnd(case, p) \in p .. Len(case)
         /\ Len(Request) = RequestEnd(case, p) - p
         /\ \A i \in 1 .. Len(Request) : Request[i] = case[p + i]
<1> DEFINE e == RequestEnd(case, p)
<1>1. case \in Seq(Byte) /\ p \in 0 .. Len(case) /\ Len(case) \in Nat
  BY DEF TypeOK
<1>2. e \in p .. Len(case)
  BY <1>1, RequestEndIsFirst
<1> HIDE DEF e
<1>3. \A i \in p + 1 .. e : case[i] \in Byte
  BY <1>1, <1>2
<1>4. /\ SubSeq(case, p + 1, e) \in Seq(Byte)
      /\ Len(SubSeq(case, p + 1, e)) = IF p + 1 <= e THEN e - (p + 1) + 1 ELSE 0
      /\ \A i \in 1 .. e - (p + 1) + 1 : SubSeq(case, p + 1, e)[i] = case[p + 1 + i - 1]
  BY <1>1, <1>2, <1>3, SubSeqProperties
<1>5. Request = SubSeq(case, p + 1, e)
  BY DEF Request, e
<1>6. Len(Request) = e - p
  BY <1>1, <1>2, <1>4, <1>5
<1> QED
  BY <1>1, <1>2, <1>4, <1>5, <1>6 DEF e

-----------------------------------------------------------------------------
(* Answers of the filter.                                                  *)

\* No byte is lost between what is moved to the caller and what is kept, and
\* the EOS bucket goes with the last of them.
Keeps(a, bb) ==
  /\ a.rv \in Statuses /\ a.out \in Brigades /\ a.bb \in Brigades
  /\ a.out.data \o a.bb.data = bb.data
  /\ IF a.out.eos THEN bb.eos /\ a.bb = NoBuckets ELSE a.bb.eos = bb.eos

LEMMA BrigadesType ==
  /\ NoBuckets \in Brigades
  /\ \A d \in Seq(Byte) : BufferOf(d) \in Brigades /\ BufferOf(d) # NoBuckets
  /\ NewNet \in [bb : Brigades, eos_sent : BOOLEAN]
  /\ NoReply \in [mode : Modes, rv : Statuses, out : Brigades]
BY EmptySeq DEF NoBuckets, Brigades, BufferOf, NewNet, NoReply, Modes, Statuses

LEMMA UnmovedKeeps ==
  ASSUME NEW bb \in Brigades, NEW rv \in Statuses
  PROVE  Keeps(Unmoved(rv, bb), bb)
<1>1. <<>> \o bb.data = bb.data
  BY ConcatEmptySeq DEF Brigades
<1> QED
  BY <1>1, BrigadesType DEF Keeps, Unmoved, Answer, NoBuckets

LEMMA MovedAllKeeps ==
  ASSUME NEW bb \in Brigades, NEW rv \in Statuses
  PROVE  Keeps(MovedAll(rv, bb), bb)
<1>1. bb.data \o <<>> = bb.data
  BY ConcatEmptySeq DEF Brigades
<1> QED
  BY <1>1, BrigadesType DEF Keeps, MovedAll, Answer, NoBuckets, Brigades

LEMMA MovedBytesKeeps ==
  ASSUME NEW bb \in Brigades, NEW k \in 0 .. Len(bb.data)
  PROVE  Keeps(MovedBytes(bb, k), bb)
<1> DEFINE d == bb.data
<1>1. d \in Seq(Byte) /\ Len(d) \in Nat /\ bb.eos \in BOOLEAN
  BY DEF Brigades
<1> HIDE DEF d
<1>2. k \in 0 .. Len(d)
  BY DEF d
<1>3. (\A i \in 1 .. k : d[i] \in Byte) /\ (\A i \in k + 1 .. Len(d) : d[i] \in Byte)
  BY <1>1, <1>2
<1>4. SubSeq(d, 1, k) \in Seq(Byte)
  BY <1>1, <1>2, <1>3, SubSeqProperties
<1>5. SubSeq(d, k + 1, Len(d)) \in Seq(Byte)
  BY <1>1, <1>2, <1>3, SubSeqProperties
<1>6. SubSeq(d, 1, k) \o SubSeq(d, k + 1, Len(d)) = SubSeq(d, 1, Len(d))
  <2>1. 1 \in 1 .. Len(d) + 1 /\ k \in 1 - 1 .. Len(d) /\ Len(d) \in k .. Len(d)
    BY <1>1, <1>2
  <2> QED
    BY <1>1, <2>1, ConcatAdjacentSubSeq
<1>7. SubSeq(d, 1, Len(d)) = d
  BY <1>1, SubSeqFull
<1> QED
  BY <1>1, <1>4, <1>5, <1>6, <1>7 DEF Keeps, MovedBytes, Answer, d, Brigades, Statuses

LEMMA SplitLineKeeps ==
  ASSUME NEW bb \in Brigades
  PROVE  Keeps(SplitLine(bb), bb)
<1> DEFINE L == LineEnds(bb.data)
<1>1. bb.data \in Seq(Byte) /\ Len(bb.data) \in Nat
  BY DEF Brigades
<1>2. L \subseteq 1 .. Len(bb.data) /\ L \subseteq Nat
  BY <1>1 DEF LineEnds
<1>3. CASE L # {}
  <2> DEFINE k == CHOOSE i \in L : \A j \in L : i <= j
  <2>1. k \in L
    BY <1>2, <1>3, First
  <2>2. k \in 0 .. Len(bb.data)
    BY <1>1, <1>2, <2>1
  <2>3. SplitLine(bb) = MovedBytes(bb, k)
    BY <1>3 DEF SplitLine
  <2> QED
    BY <2>2, <2>3, MovedBytesKeeps
<1>4. CASE L = {} /\ Len(bb.data) >= HugeString
  <2>1. SplitLine(bb) = MovedBytes(bb, Len(bb.data))
    BY <1>4 DEF SplitLine
  <2> QED
    BY <1>1, <2>1, MovedBytesKeeps
<1>5. CASE L = {} /\ ~(Len(bb.data) >= HugeString)
  BY <1>5, MovedAllKeeps DEF SplitLine, Statuses
<1> QED
  BY <1>3, <1>4, <1>5

\* Every read but a look ahead keeps the stream.
LEMMA AnswerKeeps ==
  ASSUME NEW mode \in Modes, mode # "SPECULATIVE", NEW n \in Int, NEW bb \in Brigades
  PROVE  Keeps(AnswerTo(mode, n, bb), bb)
<1>1. CASE mode = "GETLINE"
  BY <1>1, SplitLineKeeps DEF AnswerTo, ReadLine
<1>2. CASE mode = "READBYTES"
  <2>1. CASE n <= 0
    BY <1>2, <2>1, MovedAllKeeps DEF AnswerTo, ReadBytes, Statuses
  <2>2. CASE n > 0 /\ EnoughFor(bb, n)
    <3>1. n \in 0 .. Len(bb.data)
      BY <2>2 DEF EnoughFor, Brigades
    <3> QED
      BY <1>2, <2>2, <3>1, MovedBytesKeeps DEF AnswerTo, ReadBytes
  <2>3. CASE n > 0 /\ ~EnoughFor(bb, n)
    BY <1>2, <2>3, UnmovedKeeps DEF AnswerTo, ReadBytes, Statuses
  <2> QED
    BY <2>1, <2>2, <2>3
<1>3. CASE mode = "EXHAUSTIVE"
  BY <1>3, MovedAllKeeps DEF AnswerTo, Statuses
<1>4. CASE mode \in {"INIT", "EATCRLF"}
  BY <1>4, UnmovedKeeps DEF AnswerTo, Statuses
<1> QED
  BY <1>1, <1>2, <1>3, <1>4 DEF Modes

LEMMA PeekAnswer ==
  ASSUME NEW n, NEW bb \in Brigades
  PROVE  AnswerTo("SPECULATIVE", n, bb) = Answer("SUCCESS", bb, bb)
BY DEF AnswerTo, Speculate

-----------------------------------------------------------------------------
(* Types.                                                                  *)

LEMMA PopulatedType ==
  ASSUME TypeOK
  PROVE  Populated \in Brigades
BY BrigadesType DEF TypeOK, Populated

\* What an answer consists of, whatever the mode.
LEMMA AnswerType ==
  ASSUME NEW mode \in Modes, NEW n \in Int, NEW bb \in Brigades
  PROVE  /\ AnswerTo(mode, n, bb).rv \in Statuses
         /\ AnswerTo(mode, n, bb).out \in Brigades
         /\ AnswerTo(mode, n, bb).bb \in Brigades
<1>1. CASE mode = "SPECULATIVE"
  BY <1>1, PeekAnswer DEF Answer, Statuses
<1>2. CASE mode # "SPECULATIVE"
  BY <1>2, AnswerKeeps DEF Keeps
<1> QED
  BY <1>1, <1>2

LEMMA ReadSomeType ==
  ASSUME TypeOK, NEW mode \in Modes, NEW n \in Counts, ReadSome(mode, n)
  PROVE  TypeOK'
<1> DEFINE a == AnswerTo(mode, n, Populated)
<1>1. a.rv \in Statuses /\ a.out \in Brigades /\ a.bb \in Brigades
  BY PopulatedType, AnswerType, CountsAssumption
<1> HIDE DEF a
<1>2. g_input' \in Seq(Byte)
  BY EmptySeq DEF ReadSome, LeftInput, TypeOK
<1>3. net' \in [bb : Brigades, eos_sent : BOOLEAN]
  BY <1>1 DEF ReadSome, TypeOK, a
<1>4. reply' \in [mode : Modes, rv : Statuses, out : Brigades]
  BY <1>1 DEF ReadSome, Replied, a
<1>5. got' \in Seq(Byte) /\ ended' \in BOOLEAN
  <2>1. got \o a.out.data \in Seq(Byte) /\ a.out.eos \in BOOLEAN
    BY <1>1, ConcatProperties DEF TypeOK, Brigades
  <2> QED
    BY <2>1 DEF ReadSome, TypeOK, stream, a
<1> QED
  BY <1>2, <1>3, <1>4, <1>5 DEF TypeOK, ReadSome, server

LEMMA TypeStep ==
  ASSUME TypeOK, [Next]_vars
  PROVE  TypeOK'
<1> USE DEF TypeOK
<1>1. CASE FuzzInit
  BY <1>1 DEF FuzzInit, Phases, stream
<1>2. ASSUME NEW data \in TestCases, TestOneInput(data)
      PROVE  TypeOK'
  <2>1. data \in Seq(Byte) /\ Len(data) \in Nat
    BY TestCasesAssumption
  <2>2. cases' \in 0 .. MaxCases
    BY <1>2, MaxCasesAssumption DEF TestOneInput
  <2>3. p' \in 0 .. Len(case') /\ count' \in 0 .. MaxRequests
    BY <1>2, <2>1, MaxRequestsAssumption DEF TestOneInput
  <2> QED
    BY <1>2, <2>1, <2>2, <2>3 DEF TestOneInput, Phases, stream
<1>3. CASE NothingToServe
  <2>1. count' \in 0 .. MaxRequests
    BY <1>3, MaxRequestsAssumption DEF NothingToServe, MoreRequests
  <2> QED
    BY <1>3, <2>1 DEF NothingToServe, stream
<1>4. CASE FuzzOneInput
  <2>1. count' \in 0 .. MaxRequests
    BY <1>4, MaxRequestsAssumption DEF FuzzOneInput, MoreRequests
  <2>2. Request \in Seq(Byte)
    BY RequestType
  <2>3. p' \in 0 .. Len(case')
    BY <1>4, RequestType DEF FuzzOneInput
  <2> QED
    BY <1>4, <2>1, <2>2, <2>3, BrigadesType, EmptySeq DEF FuzzOneInput, Phases
<1>5. CASE EndRequest
  BY <1>5, BrigadesType, EmptySeq DEF EndRequest, Phases, stream
<1>6. CASE TestCaseDone
  BY <1>6 DEF TestCaseDone, Phases, stream
<1>7. CASE Crash
  BY <1>7 DEF Crash, Phases, stream
<1>8. CASE ReadInit
  BY <1>8, BrigadesType DEF ReadInit, Replied, Modes, Statuses, server, stream
<1>9. ASSUME NEW mode \in Modes, NEW n \in Counts, Read(mode, n)
      PROVE  TypeOK'
  <2>1. CASE ReadAfterEnd(mode)
    BY <2>1, BrigadesType DEF ReadAfterEnd, Replied, Statuses, server, stream
  <2>2. CASE ReadEnd(mode)
    BY <2>2, BrigadesType DEF ReadEnd, Replied, Statuses, server
  <2>3. CASE ReadSome(mode, n)
    BY <2>3, ReadSomeType
  <2> QED
    BY <1>9, <2>1, <2>2, <2>3 DEF Read
<1>10. CASE UNCHANGED vars
  BY <1>10 DEF vars, server, stream
<1> QED
  BY <1>1, <1>2, <1>3, <1>4, <1>5, <1>6, <1>7, <1>8, <1>9, <1>10 DEF Next

LEMMA InitType == Init => TypeOK
<1> SUFFICES ASSUME Init PROVE TypeOK
  OBVIOUS
<1>1. <<>> \in Seq(Byte) /\ Len(<<>>) = 0
  BY EmptySeq
<1>2. p \in 0 .. Len(case)
  BY <1>1 DEF Init
<1>3. count \in 0 .. MaxRequests /\ cases \in 0 .. MaxCases
  BY MaxCasesAssumption, MaxRequestsAssumption DEF Init
<1>4. net \in [bb : Brigades, eos_sent : BOOLEAN]
  BY BrigadesType DEF Init
<1>5. reply \in [mode : Modes, rv : Statuses, out : Brigades]
  BY BrigadesType DEF Init
<1> QED
  BY <1>1, <1>2, <1>3, <1>4, <1>5 DEF Init, TypeOK, Phases

\* Every reachable state has the declared types.
THEOREM TypeCorrect == Spec => []TypeOK
<1>1. Init => TypeOK
  BY InitType
<1>2. TypeOK /\ [Next]_vars => TypeOK'
  BY TypeStep
<1> QED
  BY <1>1, <1>2, PTL DEF Spec

-----------------------------------------------------------------------------
(* The stream of a connection.                                             *)

\* What a read finds: the request is what the reader was given with what the
\* brigade holds once it is populated, and only the end is left to tell if
\* that is nothing.
LEMMA BeforeRead ==
  ASSUME IInv, phase = "serving"
  PROVE  /\ LeftInput = <<>>
         /\ got \o Populated.data = input
         /\ Populated.eos = ~ended
         /\ ended => Populated.data = <<>>
         /\ Populated = NoBuckets => g_input = <<>>
<1>1. TypeOK /\ BufferOwned /\ NothingLost
  BY DEF IInv
<1>2. CASE g_input # <<>>
  <2>1. g_input = input /\ net = NewNet /\ got = <<>> /\ ~ended
    BY <1>1, <1>2 DEF BufferOwned
  <2>2. Populates /\ Populated = BufferOf(g_input)
    BY <1>2, <2>1 DEF Populates, Populated, NewNet
  <2>3. got \o g_input = input
    BY <1>1, <2>1, ConcatEmptySeq DEF TypeOK
  <2>4. g_input \in Seq(Byte)
    BY <1>1 DEF TypeOK
  <2> QED
    BY <2>1, <2>2, <2>3, <2>4, BrigadesType DEF LeftInput, BufferOf
<1>3. CASE g_input = <<>>
  BY <1>1, <1>3 DEF Populates, Populated, LeftInput, NothingLost
     , TypeOK
<1> QED
  BY <1>2, <1>3

LEMMA ReadSomeStream ==
  ASSUME IInv, NEW mode \in Modes, NEW n \in Counts, ReadSome(mode, n)
  PROVE  BufferOwned' /\ NothingLost' /\ NetIsNew' /\ PeekIsBrigade'
<1> DEFINE bb == Populated
           a == AnswerTo(mode, n, bb)
<1>1. TypeOK /\ phase = "serving" /\ phase' = "serving" /\ bb # NoBuckets /\ ~net.eos_sent
  BY DEF IInv, ReadSome, server
<1>2. /\ g_input' = <<>> /\ input' = input
      /\ got \o bb.data = input
      /\ bb.eos = ~ended
      /\ ended => bb.data = <<>>
  BY <1>1, BeforeRead DEF ReadSome
<1>3. bb \in Brigades
  BY <1>1, PopulatedType
<1>4. ~ended
  BY <1>1, <1>2, <1>3 DEF Brigades, NoBuckets
<1>5. net' = [net EXCEPT !.bb = a.bb] /\ reply' = [mode |-> mode, rv |-> a.rv, out |-> a.out]
  BY DEF ReadSome, Replied
<1>6. net'.bb = a.bb /\ net'.eos_sent = FALSE
  BY <1>1, <1>5 DEF TypeOK
<1> HIDE DEF bb
<1>7. CASE mode = "SPECULATIVE"
  <2>1. a = Answer("SUCCESS", bb, bb)
    BY <1>3, <1>7, PeekAnswer
  <2>2. got' = got /\ ended' = ended
    BY <1>7 DEF ReadSome
  <2>3. net'.bb = bb /\ reply'.out = bb
    BY <1>5, <1>6, <2>1 DEF Answer
  <2> QED
    BY <1>1, <1>2, <1>4, <1>6, <2>2, <2>3
    DEF BufferOwned, NothingLost, NetIsNew, PeekIsBrigade
<1>8. CASE mode # "SPECULATIVE"
  <2>1. Keeps(a, bb)
    BY <1>3, <1>8, AnswerKeeps, CountsAssumption
  <2> DEFINE out == a.out.data
             kept == a.bb.data
  <2>2. out \in Seq(Byte) /\ kept \in Seq(Byte) /\ out \o kept = bb.data
    BY <2>1 DEF Keeps, Brigades
  <2>3. got' = got \o out /\ ended' = a.out.eos
    BY <1>8 DEF ReadSome, bb
  <2>4. (got \o out) \o kept = got \o (out \o kept)
    <3>1. got \in Seq(Byte)
      BY <1>1 DEF TypeOK
    <3>2. \A x, y \in Seq(Byte) : (got \o x) \o y = got \o (x \o y)
      BY <3>1, ConcatAssociative
    <3> QED
      BY <2>2, <3>2
  <2>5. got' \o net'.bb.data = input'
    BY <1>2, <1>6, <2>2, <2>3, <2>4
  <2>6. net'.bb.eos = ~ended' /\ (ended' => net'.bb.data = <<>>)
    BY <1>2, <1>4, <1>6, <2>1, <2>3 DEF Keeps, NoBuckets, Brigades
  <2> QED
    BY <1>1, <1>2, <1>5, <1>6, <1>8, <2>5, <2>6
    DEF BufferOwned, NothingLost, NetIsNew, PeekIsBrigade
<1> QED
  BY <1>7, <1>8

LEMMA ReadEndStream ==
  ASSUME IInv, NEW mode \in Modes, ReadEnd(mode)
  PROVE  BufferOwned' /\ NothingLost' /\ NetIsNew' /\ PeekIsBrigade'
<1>1. TypeOK /\ phase = "serving" /\ phase' = "serving" /\ Populated = NoBuckets
  BY DEF IInv, ReadEnd, server
<1>2. g_input = <<>> /\ got \o Populated.data = input
  BY <1>1, BeforeRead
<1>3. net.bb = NoBuckets
  BY <1>1, <1>2 DEF Populated, Populates
<1>4. net'.bb = NoBuckets /\ ended' = TRUE /\ g_input' = g_input /\ got' = got /\ input' = input
  BY <1>1, <1>3 DEF ReadEnd, TypeOK
<1>5. reply'.rv = "EOF"
  BY DEF ReadEnd, Replied
<1>6. net'.bb.data = <<>> /\ net'.bb.eos = FALSE
  BY <1>4 DEF NoBuckets
<1>7. NothingLost'
  BY <1>1, <1>2, <1>4, <1>6 DEF NothingLost, NoBuckets
<1> QED
  BY <1>1, <1>2, <1>4, <1>5, <1>7 DEF BufferOwned, NetIsNew, PeekIsBrigade

LEMMA StreamStep ==
  ASSUME IInv, [Next]_vars
  PROVE  BufferOwned' /\ NothingLost' /\ NetIsNew' /\ PeekIsBrigade'
<1> USE DEF BufferOwned, NothingLost, NetIsNew, PeekIsBrigade
<1>0. BufferOwned /\ NothingLost /\ NetIsNew /\ PeekIsBrigade /\ TypeOK
  BY DEF IInv
<1>1. CASE FuzzInit
  BY <1>0, <1>1 DEF FuzzInit, stream
<1>2. ASSUME NEW data \in TestCases, TestOneInput(data)
      PROVE  BufferOwned' /\ NothingLost' /\ NetIsNew' /\ PeekIsBrigade'
  BY <1>0, <1>2 DEF TestOneInput, stream
<1>3. CASE NothingToServe
  BY <1>0, <1>3 DEF NothingToServe, stream
<1>4. CASE FuzzOneInput
  BY <1>0, <1>4 DEF FuzzOneInput, NoReply
<1>5. CASE EndRequest
  BY <1>5 DEF EndRequest, NoReply
<1>6. CASE TestCaseDone
  BY <1>0, <1>6 DEF TestCaseDone, stream
<1>7. CASE Crash
  BY <1>0, <1>7 DEF Crash, stream
<1>8. CASE ReadInit
  BY <1>0, <1>8 DEF ReadInit, Replied, server, stream
<1>9. ASSUME NEW mode \in Modes, NEW n \in Counts, Read(mode, n)
      PROVE  BufferOwned' /\ NothingLost' /\ NetIsNew' /\ PeekIsBrigade'
  <2>1. CASE ReadAfterEnd(mode)
    BY <1>0, <2>1 DEF ReadAfterEnd, Replied, server, stream
  <2>2. CASE ReadEnd(mode)
    BY <2>2, ReadEndStream
  <2>3. CASE ReadSome(mode, n)
    BY <2>3, ReadSomeStream
  <2> QED
    BY <1>9, <2>1, <2>2, <2>3 DEF Read
<1>10. CASE UNCHANGED vars
  BY <1>0, <1>10 DEF vars, server, stream
<1> QED
  BY <1>1, <1>2, <1>3, <1>4, <1>5, <1>6, <1>7, <1>8, <1>9, <1>10 DEF Next

-----------------------------------------------------------------------------
(* The requests of a test case.                                            *)

LEMMA RequestIsWhole ==
  ASSUME TypeOK, FuzzOneInput
  PROVE  RequestsAreWhole'
<1> DEFINE e == RequestEnd(case, p)
<1>1. /\ case \in Seq(Byte) /\ p \in 0 .. Len(case) /\ Len(case) \in Nat
      /\ case' = case /\ splits' = splits /\ input' = Request /\ p' = p + Len(Request)
  BY DEF TypeOK, FuzzOneInput
<1>2. /\ e \in p .. Len(case) /\ Len(input') = e - p
      /\ \A i \in 1 .. e - p : input'[i] = case[p + i]
  BY <1>1, RequestType
<1>3. /\ splits /\ e < Len(case) => e \in BlankLines(case, p)
      /\ splits => \A i \in BlankLines(case, p) : e <= i
  BY <1>1, RequestEndIsFirst
<1>4. input' = SubSeq(case, p + 1, e)
  BY <1>1 DEF Request
<1> HIDE DEF e
<1>5. p' = e /\ p' - Len(input') + 1 = p + 1
  BY <1>1, <1>2
<1>6. ASSUME splits, NEW i \in BlankLines(input', 0)
      PROVE  i = Len(input')
  <2>1. i \in 2 .. e - p /\ input'[i] = LF /\ input'[i - 1] = LF
    BY <1>2, <1>6 DEF BlankLines
  <2>2. i - 1 \in 1 .. e - p /\ p + (i - 1) = p + i - 1
    BY <1>1, <1>2, <2>1
  <2>3. case[p + i] = LF /\ case[p + i - 1] = LF
    BY <1>2, <2>1, <2>2
  <2>4. p + i \in BlankLines(case, p)
    BY <1>1, <1>2, <2>1, <2>3 DEF BlankLines
  <2>5. e <= p + i
    BY <1>3, <1>6, <2>4
  <2> QED
    BY <1>1, <1>2, <2>1, <2>5
<1>7. ASSUME splits, e < Len(case)
      PROVE  e - p \in BlankLines(input', 0)
  <2>1. e \in p + 2 .. Len(case) /\ case[e] = LF /\ case[e - 1] = LF
    BY <1>3, <1>7 DEF BlankLines
  <2>2. e - p \in 2 .. e - p /\ p + (e - p) = e /\ p + (e - p - 1) = e - 1
    BY <1>1, <2>1
  <2>3. input'[e - p] = LF /\ input'[e - p - 1] = LF
    BY <1>1, <1>2, <2>1, <2>2
  <2> QED
    BY <1>2, <2>2, <2>3 DEF BlankLines
<1> QED
  BY <1>1, <1>4, <1>5, <1>6, <1>7 DEF RequestsAreWhole

LEMMA SplitStep ==
  ASSUME IInv, [Next]_vars
  PROVE  RequestsAreWhole' /\ NothingSkipped' /\ EveryByteServed'
<1> USE DEF RequestsAreWhole, NothingSkipped, EveryByteServed
<1>0. RequestsAreWhole /\ NothingSkipped /\ EveryByteServed /\ TypeOK
  BY DEF IInv
<1>1. CASE FuzzInit
  BY <1>0, <1>1 DEF FuzzInit, stream
<1>2. ASSUME NEW data \in TestCases, TestOneInput(data)
      PROVE  RequestsAreWhole' /\ NothingSkipped' /\ EveryByteServed'
  BY <1>2 DEF TestOneInput
<1>3. CASE NothingToServe
  <2>1. RequestEnd(case, p) = p
    BY <1>0, <1>3, RequestType DEF NothingToServe, TypeOK
  <2>2. ~splits => p = Len(case)
    BY <1>0, <2>1, RequestEndIsFirst DEF TypeOK
  <2> QED
    BY <1>0, <1>3, <2>2 DEF NothingToServe
<1>4. CASE FuzzOneInput
  <2>1. RequestsAreWhole'
    BY <1>0, <1>4, RequestIsWhole
  <2>2. ~splits => p' = Len(case)
    <3>1. ~splits => RequestEnd(case, p) = Len(case)
      BY <1>0, RequestEndIsFirst DEF TypeOK
    <3>2. Len(Request) = RequestEnd(case, p) - p /\ p' = p + Len(Request)
      BY <1>0, <1>4, RequestType DEF FuzzOneInput
    <3>3. p \in Nat /\ Len(case) \in Nat
      BY <1>0 DEF TypeOK
    <3> QED
      BY <3>1, <3>2, <3>3
  <2> QED
    BY <1>4, <2>1, <2>2 DEF FuzzOneInput
<1>5. CASE EndRequest
  BY <1>0, <1>5 DEF EndRequest, stream
<1>6. CASE TestCaseDone
  <2>1. p = Len(case) \/ (splits /\ count = MaxRequests)
    BY <1>0, <1>6, MaxRequestsAssumption DEF TestCaseDone, MoreRequests, TypeOK
  <2> QED
    BY <1>0, <1>6, <2>1 DEF TestCaseDone, stream
<1>7. CASE Crash
  BY <1>0, <1>7 DEF Crash, stream
<1>8. CASE ReadInit
  BY <1>0, <1>8 DEF ReadInit, server, stream
<1>9. ASSUME NEW mode \in Modes, NEW n \in Counts, Read(mode, n)
      PROVE  RequestsAreWhole' /\ NothingSkipped' /\ EveryByteServed'
  <2>1. UNCHANGED <<server, input>>
    BY <1>9 DEF Read, ReadAfterEnd, ReadEnd, ReadSome, stream
  <2> QED
    BY <1>0, <2>1 DEF server
<1>10. CASE UNCHANGED vars
  BY <1>0, <1>10 DEF vars, server, stream
<1> QED
  BY <1>1, <1>2, <1>3, <1>4, <1>5, <1>6, <1>7, <1>8, <1>9, <1>10 DEF Next

-----------------------------------------------------------------------------
\* The inductive invariant holds in every reachable state.
THEOREM Invariance == Spec => []IInv
<1>1. Init => IInv
  <2> SUFFICES ASSUME Init PROVE IInv
    OBVIOUS
  <2>1. TypeOK
    BY InitType
  <2>2. Len(<<>>) = 0
    BY EmptySeq
  <2> QED
    BY <2>1, <2>2 DEF Init, IInv, BufferOwned, NothingLost, NetIsNew, PeekIsBrigade,
                      RequestsAreWhole, NothingSkipped, EveryByteServed
<1>2. IInv /\ [Next]_vars => IInv'
  <2> SUFFICES ASSUME IInv, [Next]_vars PROVE IInv'
    OBVIOUS
  <2>1. TypeOK'
    BY TypeStep DEF IInv
  <2> QED
    BY <2>1, StreamStep, SplitStep DEF IInv
<1> QED
  BY <1>1, <1>2, PTL DEF Spec

\* The bytes of a request never outlive it, nor reach another connection.
THEOREM BufferIsOwned == Spec => []BufferOwned
<1>1. IInv => BufferOwned
  BY DEF IInv
<1> QED
  BY <1>1, Invariance, PTL

\* Requests of mod_fuzzy_multi are cut behind blank lines and nowhere else.
THEOREM RequestsAreWholeParts == Spec => []RequestsAreWhole
<1>1. IInv => RequestsAreWhole
  BY DEF IInv
<1> QED
  BY <1>1, Invariance, PTL

\* A test case is served to its end, or to the limit of requests.
THEOREM AllBytesServed == Spec => []EveryByteServed
<1>1. IInv => EveryByteServed
  BY DEF IInv
<1> QED
  BY <1>1, Invariance, PTL

\* A look ahead shows what the next reads deliver.
THEOREM PeeksAreNext == Spec => []PeekIsNext
<1>1. ASSUME IInv PROVE PeekIsNext
  <2> SUFFICES ASSUME phase = "serving", reply.mode = "SPECULATIVE", reply.rv = "SUCCESS"
               PROVE  got \o reply.out.data = input
    BY DEF IsPrefix, PeekIsNext
  <2> QED
    BY <1>1 DEF IInv, PeekIsBrigade, NothingLost
<1> QED
  BY <1>1, Invariance, PTL

-----------------------------------------------------------------------------
(* Each connection is a ByteStream.                                        *)

LEMMA PrefixOfConcat ==
  ASSUME NEW s \in Seq(Byte), NEW t \in Seq(Byte)
  PROVE  Stream!IsPrefix(s, s \o t)
<1>1. Len(s) \in Nat /\ Len(t) \in Nat /\ Len(s \o t) = Len(s) + Len(t)
  BY ConcatProperties
<1>2. SubSeq(s \o t, 1, Len(s)) = SubSeq(s, 1, Len(s))
  <2>1. CASE Len(s) = 0
    BY <2>1, SubSeqEmpty
  <2>2. CASE Len(s) # 0
    <3>1. 1 \in 1 .. Len(s) /\ Len(s) \in 1 .. Len(s)
      BY <1>1, <2>2
    <3> QED
      BY <3>1, SubSeqOfConcat1
  <2> QED
    BY <2>1, <2>2
<1> QED
  BY <1>1, <1>2 DEF Stream!IsPrefix

\* A read that moves something delivers it, and the end with the last byte.
LEMMA ReadSomeDelivers ==
  ASSUME IInv, NEW mode \in Modes, NEW n \in Counts, ReadSome(mode, n)
  PROVE  Stream!Deliver \/ UNCHANGED Stream!vars
<1> DEFINE bb == Populated
           a == AnswerTo(mode, n, bb)
<1>1. TypeOK /\ phase = "serving" /\ phase' = "serving" /\ input' = input /\ bb # NoBuckets
  BY DEF IInv, ReadSome, server
<1>2. got \o bb.data = input /\ bb.eos = ~ended /\ (ended => bb.data = <<>>)
  BY <1>1, BeforeRead
<1>3. bb \in Brigades
  BY <1>1, PopulatedType
<1>4. ~ended
  BY <1>1, <1>2, <1>3 DEF Brigades, NoBuckets
<1>5. CASE mode = "SPECULATIVE"
  BY <1>1, <1>5 DEF ReadSome, Stream!vars
<1>6. CASE mode # "SPECULATIVE"
  <2> DEFINE out == a.out.data
             kept == a.bb.data
  <2>1. Keeps(a, bb)
    BY <1>3, <1>6, AnswerKeeps, CountsAssumption
  <2>2. out \in Seq(Byte) /\ kept \in Seq(Byte) /\ out \o kept = bb.data
        /\ a.out.eos \in BOOLEAN
    BY <2>1 DEF Keeps, Brigades
  <2>3. got' = got \o out /\ ended' = a.out.eos
    BY <1>6 DEF ReadSome
  <2>4. ended' => kept = <<>>
    BY <2>1, <2>3 DEF Keeps, NoBuckets
  <2> HIDE DEF a, bb
  <2>5. got \in Seq(Byte)
    BY <1>1 DEF TypeOK
  <2>6. \A x, y \in Seq(Byte) : (got \o x) \o y = got \o (x \o y) /\ got \o x \in Seq(Byte)
    BY <2>5, ConcatAssociative, ConcatProperties
  <2>7. got' \in Seq(Byte) /\ got' \o kept = input
    BY <1>2, <2>2, <2>3, <2>6
  <2>8. Stream!IsPrefix(got, got')
    BY <2>2, <2>3, <2>5, PrefixOfConcat
  <2>9. Stream!IsPrefix(got', input)
    BY <2>2, <2>7, PrefixOfConcat
  <2>10. ended' => got' = input
    BY <2>4, <2>7, ConcatEmptySeq
  <2> QED
    BY <1>1, <1>4, <2>2, <2>3, <2>8, <2>9, <2>10 DEF Stream!Deliver
<1> QED
  BY <1>5, <1>6

LEMMA StreamNext ==
  ASSUME IInv, [Next]_vars
  PROVE  [Stream!Next]_(Stream!vars)
<1>1. CASE FuzzInit
  BY <1>1 DEF FuzzInit, stream, Stream!vars
<1>2. ASSUME NEW data \in TestCases, TestOneInput(data)
      PROVE  UNCHANGED Stream!vars
  BY <1>2 DEF TestOneInput, stream, Stream!vars
<1>3. CASE NothingToServe
  BY <1>3 DEF NothingToServe, stream, Stream!vars
<1>4. CASE FuzzOneInput
  <2>1. Request \in Seq(Byte)
    BY RequestType DEF IInv
  <2> QED
    BY <1>4, <2>1 DEF FuzzOneInput, Stream!Open, Stream!Next
<1>5. CASE EndRequest
  BY <1>5 DEF EndRequest, stream, Stream!Close, Stream!Next
<1>6. CASE TestCaseDone
  BY <1>6 DEF TestCaseDone, stream, Stream!vars
<1>7. CASE Crash
  BY <1>7 DEF Crash, stream, Stream!Close, Stream!Next
<1>8. CASE ReadInit
  BY <1>8 DEF ReadInit, server, stream, Stream!vars
<1>9. ASSUME NEW mode \in Modes, NEW n \in Counts, Read(mode, n)
      PROVE  Stream!Deliver \/ UNCHANGED Stream!vars
  <2>1. CASE ReadAfterEnd(mode)
    BY <2>1 DEF ReadAfterEnd, server, stream, Stream!vars
  <2>2. CASE ReadEnd(mode)
    <3>1. phase = "serving" /\ phase' = phase /\ input' = input /\ got' = got
          /\ ended' = TRUE /\ Populated = NoBuckets
      BY <2>2 DEF ReadEnd, server
    <3>2. Populated.eos = ~ended /\ ended \in BOOLEAN
      BY <3>1, BeforeRead DEF IInv, TypeOK
    <3>3. ended = TRUE
      BY <3>1, <3>2 DEF NoBuckets
    <3> QED
      BY <3>1, <3>3 DEF Stream!vars
  <2>3. CASE ReadSome(mode, n)
    BY <2>3, ReadSomeDelivers
  <2> QED
    BY <1>9, <2>1, <2>2, <2>3 DEF Read
<1>10. CASE UNCHANGED vars
  BY <1>10 DEF vars, server, stream, Stream!vars
<1> QED
  BY <1>1, <1>2, <1>3, <1>4, <1>5, <1>6, <1>7, <1>8, <1>9, <1>10 DEF Next, Stream!Next

\* A connection delivers the bytes of its request in order, each once, then
\* the end, and nothing more: FuzzInput implements ByteStream.
THEOREM Refinement == Spec => IsAStream
<1>1. Init => Stream!Init
  BY DEF Init, Stream!Init
<1>2. IInv /\ [Next]_vars => [Stream!Next]_(Stream!vars)
  BY StreamNext
<1> QED
  BY <1>1, <1>2, Invariance, PTL DEF Spec, IsAStream, Stream!Spec
=============================================================================
