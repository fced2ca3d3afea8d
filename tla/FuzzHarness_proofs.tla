------------------------- MODULE FuzzHarness_proofs -------------------------
(***************************************************************************)
(* Proofs about FuzzHarness and its upstream side, FuzzBackend: whatever   *)
(* the responses, the transport and the reads, a connection carries the    *)
(* response of its own test case; and a proxy harness is a client side and *)
(* an upstream side, each of which keeps what it promises alone.           *)
(***************************************************************************)
EXTENDS FuzzHarness, FuzzInput_proofs

-----------------------------------------------------------------------------
(***************************************************************************)
(* The inductive invariant of the upstream side.                           *)
(***************************************************************************)
BackendTypeOK ==
    /\ transport \in {"filter", "socket"}
    /\ g_backend \in Seq(Byte)
    /\ g_backend_fd \in Workers \union {NoWorker}
    /\ back \in [open : BOOLEAN, bb : Brigades, is_eos : BOOLEAN]
    /\ worker \in Workers \union {NoWorker}
    /\ pool \in [Workers -> [open : BOOLEAN, bb : Brigades, is_eos : BOOLEAN]]
    /\ response \in Seq(Byte)
    /\ binput \in Seq(Byte)
    /\ bgot \in Seq(Byte)
    /\ bended \in BOOLEAN
    /\ served \in Seq(Byte)

ClosedIsEmpty == ~back.open => back.bb = NoBuckets

\* What readers were given and what the open connection still holds is a first
\* part of the response.
RestOf(given) == \E rest \in Seq(Byte) : given \o rest = response

\* The globals hold the response until the first read of data takes it.
FilterInv ==
    /\ g_backend # <<>> => g_backend = response /\ served = <<>> /\ back.bb = NoBuckets
    /\ RestOf(served \o back.bb.data)
    /\ back.open =>
         /\ binput \in {response, <<>>}
         /\ IF g_backend # <<>>
            THEN binput = g_backend /\ bgot = <<>> /\ ~bended
            ELSE bgot \o back.bb.data = binput /\ (bended => back.bb = NoBuckets)

\* A pair of sockets holds all of the response at once, and the globals keep it.
\* What the workers keep need not be of this response, and no one reads it.
SocketInv ==
    /\ g_backend = response
    /\ back.open =>
         /\ g_backend_fd = worker
         /\ binput = response
         /\ bgot \o back.bb.data = binput
         /\ bended => back.bb.data = <<>>

BackendInv ==
    /\ BackendTypeOK
    /\ ClosedIsEmpty
    /\ transport = "filter" => FilterInv
    /\ transport = "socket" => SocketInv

\* An upstream connection is in use inside one request.
InUseWhileServing == back.open => phase \in {"serving", "dead"}

-----------------------------------------------------------------------------
(***************************************************************************)
(* Answers and reads of the upstream filter.                               *)
(***************************************************************************)

\* Byte strings under concatenation.
LEMMA Joined ==
  /\ <<>> \in Seq(Byte)
  /\ \A x \in Seq(Byte) : x \o <<>> = x /\ <<>> \o x = x
  /\ \A x, y \in Seq(Byte) : x \o y \in Seq(Byte)
  /\ \A x, y, z \in Seq(Byte) : (x \o y) \o z = x \o (y \o z)
<1>1. ASSUME NEW x \in Seq(Byte), NEW y \in Seq(Byte), NEW z \in Seq(Byte)
      PROVE  (x \o y) \o z = x \o (y \o z)
  BY ConcatAssociative
<1>2. ASSUME NEW x \in Seq(Byte), NEW y \in Seq(Byte)
      PROVE  x \o y \in Seq(Byte)
  BY ConcatProperties
<1> QED
  BY <1>1, <1>2, EmptySeq, ConcatEmptySeq

\* A string begins what it is joined to, as either side of the harness says it.
LEMMA StartOfJoined ==
  ASSUME NEW x \in Seq(Byte), NEW y \in Seq(Byte)
  PROVE  IsPrefix(x, x \o y) /\ BackendStream!IsPrefix(x, x \o y)
<1>1. Stream!IsPrefix(x, x \o y)
  BY PrefixOfConcat
<1>2. Len(x) <= Len(x \o y) /\ SubSeq(x, 1, Len(x)) = SubSeq(x \o y, 1, Len(x))
  BY <1>1 DEF Stream!IsPrefix
<1> QED
  BY <1>2 DEF IsPrefix, BackendStream!IsPrefix

\* Each read keeps the stream, those the filter does not know included.
LEMMA BackAnswerKeeps ==
  ASSUME NEW mode \in FilterModes, NEW n \in Int, NEW bb \in Brigades
  PROVE  Keeps(BackAnswerTo(mode, n, bb), bb)
<1>1. CASE mode = "GETLINE"
  BY <1>1, SplitLineKeeps DEF BackAnswerTo, BackReadLine
<1>2. CASE mode = "READBYTES"
  <2>1. CASE n <= 0
    BY <1>2, <2>1, UnmovedKeeps DEF BackAnswerTo, BackReadBytes, Statuses
  <2>2. CASE n > 0 /\ EnoughFor(bb, n)
    <3>1. n \in 0 .. Len(bb.data)
      BY <2>2 DEF EnoughFor, Brigades
    <3> QED
      BY <1>2, <2>2, <3>1, MovedBytesKeeps DEF BackAnswerTo, BackReadBytes
  <2>3. CASE n > 0 /\ ~EnoughFor(bb, n)
    BY <1>2, <2>3, MovedAllKeeps DEF BackAnswerTo, BackReadBytes, Statuses
  <2> QED
    BY <2>1, <2>2, <2>3
<1>3. CASE mode \in {"SPECULATIVE", "EXHAUSTIVE"}
  BY <1>3, UnmovedKeeps DEF BackAnswerTo, Statuses
<1> QED
  BY <1>1, <1>2, <1>3 DEF FilterModes

\* What a read of the filter finds: the rest of what the connection carries.
LEMMA BeforeFilterRead ==
  ASSUME BackendInv, transport = "filter", back.open
  PROVE  /\ BackLeft = <<>>
         /\ BackPopulated \in Brigades
         /\ bgot \o BackPopulated.data = binput
         /\ bended => BackPopulated = NoBuckets
         /\ RestOf(served \o BackPopulated.data)
         /\ BackPopulated = NoBuckets => g_backend = <<>> /\ back.bb = NoBuckets
<1>1. BackendTypeOK /\ FilterInv
  BY DEF BackendInv
<1>2. CASE g_backend # <<>>
  <2>1. /\ g_backend = response /\ served = <<>> /\ back.bb = NoBuckets
        /\ binput = g_backend /\ bgot = <<>> /\ ~bended
    BY <1>1, <1>2 DEF FilterInv
  <2>2. BackPopulated = BufferOf(g_backend) /\ BackLeft = <<>>
    BY <1>2, <2>1 DEF BackPopulates, BackPopulated, BackLeft
  <2>3. g_backend \in Seq(Byte) /\ <<>> \in Seq(Byte)
    BY <1>1, EmptySeq DEF BackendTypeOK
  <2>4. <<>> \o g_backend = g_backend /\ g_backend \o <<>> = g_backend
    BY <2>3, ConcatEmptySeq
  <2>5. BackPopulated.data = g_backend /\ BackPopulated \in Brigades /\ BackPopulated # NoBuckets
    BY <2>2, <2>3, BrigadesType DEF BufferOf
  <2>6. RestOf(served \o BackPopulated.data)
    BY <2>1, <2>3, <2>4, <2>5 DEF RestOf
  <2> QED
    BY <2>1, <2>2, <2>4, <2>5, <2>6
<1>3. CASE g_backend = <<>>
  <2>1. BackPopulated = back.bb /\ BackLeft = <<>>
    BY <1>3 DEF BackPopulates, BackPopulated, BackLeft
  <2> QED
    BY <1>1, <1>3, <2>1 DEF FilterInv, BackendTypeOK
<1> QED
  BY <1>2, <1>3

-----------------------------------------------------------------------------
(***************************************************************************)
(* Each step of the upstream side.  GoodStep is what is proved of it: the  *)
(* invariant after it, and what it is to a byte stream.                    *)
(***************************************************************************)
GoodStep == BackendInv' /\ [BackendStream!Next]_(BackendStream!vars)

\* A read of the filter with bytes left serves the next of them, and is a step of the stream.
LEMMA FilterReadSomeStep ==
  ASSUME BackendInv, NEW mode \in FilterModes, NEW n \in ReadCounts, FilterReadSome(mode, n)
  PROVE  GoodStep
<1> DEFINE bb == BackPopulated
           a == BackAnswerTo(mode, n, bb)
           out == a.out.data
           kept == a.bb.data
<1>1. BackendTypeOK /\ transport = "filter" /\ back.open /\ bb # NoBuckets
  BY DEF BackendInv, FilterReadSome
<1>2. /\ BackLeft = <<>> /\ bb \in Brigades /\ bgot \o bb.data = binput
      /\ ~bended /\ RestOf(served \o bb.data)
  BY <1>1, BeforeFilterRead
<1>3. Keeps(a, bb)
  BY <1>2, BackAnswerKeeps, ReadCountsAssumption
<1>4. /\ g_backend' = <<>> /\ back' = [back EXCEPT !.bb = a.bb]
      /\ bgot' = bgot \o out /\ served' = served \o out /\ bended' = a.out.eos
      /\ UNCHANGED <<g_backend_fd, worker, pool, transport, response, binput>>
  BY <1>2 DEF FilterReadSome, Given, setup, keptVars
<1> HIDE DEF bb, a
<1>5. /\ out \in Seq(Byte) /\ kept \in Seq(Byte) /\ out \o kept = bb.data
      /\ a.out.eos \in BOOLEAN /\ a.bb \in Brigades
      /\ a.out.eos => a.bb = NoBuckets
  BY <1>3 DEF Keeps, Brigades
<1> HIDE DEF out, kept
<1>6. /\ back' \in [open : BOOLEAN, bb : Brigades, is_eos : BOOLEAN]
      /\ back'.open /\ back'.bb = a.bb /\ back'.bb.data = kept
  BY <1>1, <1>4, <1>5 DEF BackendTypeOK, kept
<1>7. bgot \in Seq(Byte) /\ served \in Seq(Byte) /\ response \in Seq(Byte) /\ <<>> \in Seq(Byte)
  BY <1>1, EmptySeq DEF BackendTypeOK
<1>8. bgot' \in Seq(Byte) /\ bgot' \o kept = binput'
  <2>1. (bgot \o out) \o kept = bgot \o (out \o kept) /\ bgot \o out \in Seq(Byte)
    BY <1>5, <1>7, Joined
  <2> QED
    BY <1>2, <1>4, <1>5, <2>1
<1>9. served' \in Seq(Byte) /\ served' \o kept = served \o bb.data
  <2>1. (served \o out) \o kept = served \o (out \o kept) /\ served \o out \in Seq(Byte)
    BY <1>5, <1>7, Joined
  <2> QED
    BY <1>4, <1>5, <2>1
<1>10. RestOf(served \o back.bb.data)'
  BY <1>2, <1>4, <1>6, <1>9 DEF RestOf
<1>11. BackendTypeOK'
  BY <1>1, <1>4, <1>5, <1>6, <1>7, <1>8, <1>9 DEF BackendTypeOK
<1>12. binput \in {response, <<>>}
  BY <1>1 DEF BackendInv, FilterInv
<1>13. BackendInv'
  BY <1>1, <1>4, <1>5, <1>6, <1>8, <1>10, <1>11, <1>12
     DEF BackendInv, ClosedIsEmpty, FilterInv
<1>14. BackendStream!Deliver
  <2>1. BackendStream!IsPrefix(bgot, bgot')
    BY <1>4, <1>5, <1>7, StartOfJoined
  <2>2. BackendStream!IsPrefix(bgot', binput)
    BY <1>4, <1>5, <1>8, StartOfJoined
  <2>3. bended' => kept = <<>>
    BY <1>4, <1>5 DEF kept, NoBuckets
  <2>4. bended' => bgot' = binput
    BY <1>4, <1>8, <2>3, Joined
  <2> QED
    BY <1>1, <1>2, <1>4, <1>5, <1>6, <2>1, <2>2, <2>4 DEF BackendStream!Deliver
<1> QED
  BY <1>13, <1>14 DEF GoodStep, BackendStream!Next

\* A read of the filter with no bytes left serves the end.
LEMMA FilterReadEndStep ==
  ASSUME BackendInv, FilterReadEnd
  PROVE  GoodStep
<1>1. BackendTypeOK /\ FilterInv /\ transport = "filter" /\ back.open /\ BackPopulated = NoBuckets
  BY DEF BackendInv, FilterReadEnd
<1>2. g_backend = <<>> /\ back.bb = NoBuckets /\ bgot \o <<>> = binput
  BY <1>1, BeforeFilterRead DEF NoBuckets
<1>3. bgot = binput
  BY <1>1, <1>2, Joined DEF BackendTypeOK
<1>4. /\ back' = [back EXCEPT !.is_eos = TRUE] /\ bended' = TRUE
      /\ UNCHANGED <<g_backend, g_backend_fd, worker, pool, transport, response, binput, bgot, served>>
  BY DEF FilterReadEnd, setup, keptVars
<1>5. /\ back' \in [open : BOOLEAN, bb : Brigades, is_eos : BOOLEAN]
      /\ back'.open /\ back'.bb = back.bb
  BY <1>1, <1>4 DEF BackendTypeOK
<1>6. BackendTypeOK'
  BY <1>1, <1>4, <1>5 DEF BackendTypeOK
<1>7. BackendInv'
  BY <1>1, <1>2, <1>4, <1>5, <1>6 DEF BackendInv, ClosedIsEmpty, FilterInv, RestOf
<1>8. BackendStream!Deliver \/ UNCHANGED BackendStream!vars
  <2>1. CASE bended
    BY <1>1, <1>4, <1>5, <2>1 DEF BackendTypeOK, BackendStream!vars
  <2>2. CASE ~bended
    <3>1. bgot \in Seq(Byte) /\ <<>> \in Seq(Byte) /\ bgot \o <<>> = bgot
      BY <1>1, Joined DEF BackendTypeOK
    <3>2. BackendStream!IsPrefix(bgot, bgot)
      BY <3>1, StartOfJoined
    <3> QED
      BY <1>1, <1>3, <1>4, <1>5, <2>2, <3>2 DEF BackendStream!Deliver
  <2> QED
    BY <2>1, <2>2
<1> QED
  BY <1>7, <1>8 DEF GoodStep, BackendStream!Next

\* A socket gives some of its bytes, or the end when it has none left.
LEMMA SocketReadStep ==
  ASSUME BackendInv, SocketRead
  PROVE  GoodStep
<1>1. BackendTypeOK /\ SocketInv /\ transport = "socket" /\ back.open
  BY DEF BackendInv, SocketRead
<1>2. /\ g_backend = response /\ g_backend_fd = worker /\ binput = response
      /\ bgot \o back.bb.data = binput /\ (bended => back.bb.data = <<>>)
  BY <1>1 DEF SocketInv
<1>3. UNCHANGED <<g_backend, g_backend_fd, worker, pool, transport, response, binput>>
  BY DEF SocketRead, setup, keptVars
<1>4. bgot \in Seq(Byte) /\ served \in Seq(Byte) /\ back.bb \in Brigades /\ bended \in BOOLEAN
  BY <1>1 DEF BackendTypeOK
<1>5. ASSUME NEW k \in 1 .. Len(back.bb.data),
             back' = [back EXCEPT !.bb = MovedBytes(back.bb, k).bb],
             Given(MovedBytes(back.bb, k).out)
      PROVE  GoodStep
  <2> DEFINE a == MovedBytes(back.bb, k)
             out == a.out.data
             kept == a.bb.data
  <2>1. k \in 0 .. Len(back.bb.data) /\ Len(back.bb.data) \in Nat /\ back.bb.data # <<>>
    <3>1. back.bb.data \in Seq(Byte)
      BY <1>4 DEF Brigades
    <3>2. Len(back.bb.data) \in Nat /\ back.bb.data # <<>>
      BY <1>5, <3>1, EmptySeq
    <3> QED
      BY <1>5, <3>2
  <2>2. Keeps(a, back.bb)
    BY <1>4, <2>1, MovedBytesKeeps
  <2>3. a.out.eos = FALSE
    BY DEF MovedBytes, Answer
  <2>4. bgot' = bgot \o out /\ served' = served \o out /\ bended' = FALSE /\ back' = [back EXCEPT !.bb = a.bb]
    BY <1>5, <2>3 DEF Given
  <2> HIDE DEF a
  <2>5. /\ out \in Seq(Byte) /\ kept \in Seq(Byte) /\ out \o kept = back.bb.data
        /\ a.bb \in Brigades
    BY <2>2 DEF Keeps, Brigades
  <2> HIDE DEF out, kept
  <2>6. /\ back' \in [open : BOOLEAN, bb : Brigades, is_eos : BOOLEAN]
        /\ back'.open /\ back'.bb = a.bb /\ back'.bb.data = kept
    BY <1>1, <2>4, <2>5 DEF BackendTypeOK, kept
  <2>7. (bgot \o out) \o kept = bgot \o (out \o kept) /\ bgot \o out \in Seq(Byte) /\ served \o out \in Seq(Byte)
    BY <1>4, <2>5, Joined
  <2>8. bgot' \o kept = binput /\ bgot' \in Seq(Byte) /\ served' \in Seq(Byte)
    BY <1>2, <2>4, <2>5, <2>7
  <2>9. BackendTypeOK'
    BY <1>1, <1>3, <2>4, <2>6, <2>8 DEF BackendTypeOK
  <2>10. BackendInv'
    BY <1>1, <1>2, <1>3, <2>4, <2>6, <2>8, <2>9 DEF BackendInv, ClosedIsEmpty, SocketInv
  <2>11. BackendStream!Deliver
    <3>1. BackendStream!IsPrefix(bgot, bgot')
      BY <1>4, <2>4, <2>5, StartOfJoined
    <3>2. BackendStream!IsPrefix(bgot', binput)
      BY <2>5, <2>8, StartOfJoined
    <3> QED
      BY <1>1, <1>2, <1>3, <2>1, <2>4, <2>6, <3>1, <3>2 DEF BackendStream!Deliver
  <2> QED
    BY <2>10, <2>11 DEF GoodStep, BackendStream!Next
<1>6. ASSUME back.bb.data = <<>>, back' = [back EXCEPT !.bb = NoBuckets],
             bended' = TRUE, UNCHANGED <<bgot, served>>
      PROVE  GoodStep
  <2>1. /\ back' \in [open : BOOLEAN, bb : Brigades, is_eos : BOOLEAN]
        /\ back'.open /\ back'.bb.data = <<>>
    BY <1>1, <1>6, BrigadesType DEF BackendTypeOK, NoBuckets
  <2>2. bgot \o <<>> = bgot /\ bgot = binput /\ <<>> \in Seq(Byte)
    BY <1>2, <1>4, <1>6, Joined
  <2>3. BackendTypeOK'
    BY <1>1, <1>3, <1>6, <2>1 DEF BackendTypeOK
  <2>4. BackendInv'
    BY <1>1, <1>2, <1>3, <1>6, <2>1, <2>2, <2>3 DEF BackendInv, ClosedIsEmpty, SocketInv
  <2>5. BackendStream!Deliver \/ UNCHANGED BackendStream!vars
    <3>1. CASE bended
      BY <1>1, <1>3, <1>4, <1>6, <2>1, <3>1 DEF BackendStream!vars
    <3>2. CASE ~bended
      <4>1. BackendStream!IsPrefix(bgot, bgot)
        BY <1>4, <2>2, StartOfJoined
      <4> QED
        BY <1>1, <1>3, <1>6, <2>1, <2>2, <3>2, <4>1 DEF BackendStream!Deliver
    <3> QED
      BY <3>1, <3>2
  <2> QED
    BY <2>4, <2>5 DEF GoodStep, BackendStream!Next
<1> QED
  BY <1>5, <1>6 DEF SocketRead

-----------------------------------------------------------------------------
(***************************************************************************)
(* Opening and closing connections.                                        *)
(***************************************************************************)
LEMMA PreConnectionStep ==
  ASSUME BackendInv, PreConnection
  PROVE  GoodStep
<1>1. BackendTypeOK /\ FilterInv /\ transport = "filter" /\ ~back.open /\ back.bb = NoBuckets
  BY DEF BackendInv, ClosedIsEmpty, PreConnection
<1>2. /\ back' = [open |-> TRUE, bb |-> NoBuckets, is_eos |-> FALSE]
      /\ binput' = g_backend /\ bgot' = <<>> /\ bended' = FALSE
      /\ UNCHANGED <<g_backend, g_backend_fd, worker, pool, transport, response, served>>
  BY DEF PreConnection, Opened, NewStream, setup, keptVars
<1>3. /\ back' \in [open : BOOLEAN, bb : Brigades, is_eos : BOOLEAN]
      /\ back'.open /\ back'.bb = back.bb /\ back'.bb.data = <<>>
  BY <1>1, <1>2, BrigadesType DEF NoBuckets
<1>4. BackendTypeOK'
  BY <1>1, <1>2, <1>3, EmptySeq DEF BackendTypeOK
<1>5. binput' \in {response, <<>>} /\ (g_backend = <<>> => bgot' \o <<>> = binput')
  BY <1>1, <1>2, Joined DEF FilterInv
<1>6. BackendInv'
  BY <1>1, <1>2, <1>3, <1>4, <1>5 DEF BackendInv, ClosedIsEmpty, FilterInv, RestOf
<1>7. BackendStream!Open
  BY <1>1, <1>2, <1>3 DEF BackendTypeOK, BackendStream!Open
<1> QED
  BY <1>6, <1>7 DEF GoodStep, BackendStream!Next

LEMMA ClosedType == Closed \in [open : BOOLEAN, bb : Brigades, is_eos : BOOLEAN]
BY BrigadesType DEF Closed, NoBuckets

\* A connection by socket has all of the response from the start.
LEMMA ConnectBackendStep ==
  ASSUME BackendInv, NEW w \in Workers, ConnectBackend(w)
  PROVE  GoodStep
<1>1. BackendTypeOK /\ SocketInv /\ transport = "socket" /\ ~back.open
  BY DEF BackendInv, ConnectBackend, Connecting
<1>2. UNCHANGED <<g_backend, transport, response, served>>
  BY DEF ConnectBackend, Connecting, setup
<1>3. g_backend \in Seq(Byte) /\ g_backend = response
  BY <1>1 DEF BackendTypeOK, SocketInv
<1>6. /\ pool' = [pool EXCEPT ![w] = Closed]
      /\ pool' \in [Workers -> [open : BOOLEAN, bb : Brigades, is_eos : BOOLEAN]]
  BY <1>1, ClosedType DEF ConnectBackend, Connecting, BackendTypeOK
<1>4. CASE g_backend_fd' = NoWorker /\ UNCHANGED <<back, worker, bstream>>
  <2>1. UNCHANGED <<back, binput, bgot, bended>>
    BY <1>4 DEF bstream
  <2>2. BackendTypeOK'
    BY <1>1, <1>2, <1>4, <1>6, <2>1 DEF BackendTypeOK
  <2>3. BackendInv'
    BY <1>1, <1>2, <2>1, <2>2 DEF BackendInv, ClosedIsEmpty, SocketInv
  <2> QED
    BY <2>1, <2>3 DEF GoodStep, BackendStream!vars
<1>5. CASE Replaced(w, g_backend) /\ g_backend_fd' = w
  <2>1. /\ back' = [open |-> TRUE, bb |-> BufferOf(g_backend), is_eos |-> FALSE]
        /\ binput' = g_backend /\ bgot' = <<>> /\ bended' = FALSE
        /\ worker' = w
    BY <1>5 DEF Replaced, Opened, NewStream
  <2>2. /\ back' \in [open : BOOLEAN, bb : Brigades, is_eos : BOOLEAN]
        /\ back'.open /\ back'.bb.data = g_backend
    BY <1>3, <2>1, BrigadesType DEF BufferOf
  <2>3. BackendTypeOK'
    BY <1>1, <1>2, <1>5, <1>6, <2>1, <2>2, EmptySeq DEF BackendTypeOK
  <2>4. bgot' \o g_backend = g_backend
    BY <1>3, <2>1, Joined
  <2>5. BackendInv'
    BY <1>1, <1>2, <1>3, <1>5, <2>1, <2>2, <2>3, <2>4 DEF BackendInv, ClosedIsEmpty, SocketInv
  <2>6. BackendStream!Open
    BY <1>1, <1>3, <2>1, <2>2 DEF BackendStream!Open
  <2> QED
    BY <2>5, <2>6 DEF GoodStep, BackendStream!Next
<1> QED
  BY <1>4, <1>5 DEF ConnectBackend

\* What a connection that is closed or kept still held is lost to the test case.
LEMMA DoneWithBackendStep ==
  ASSUME BackendInv, CloseBackend \/ KeepBackend
  PROVE  GoodStep
<1>1. BackendTypeOK /\ back.open
  BY DEF BackendInv, CloseBackend, KeepBackend
<1>2. /\ back' = [open |-> FALSE, bb |-> NoBuckets, is_eos |-> FALSE]
      /\ UNCHANGED <<g_backend, g_backend_fd, transport, response, binput, bgot, bended, served>>
      /\ worker' = NoWorker
  BY DEF CloseBackend, KeepBackend, Closed, setup, keptVars, bstream
<1>8. pool' \in [Workers -> [open : BOOLEAN, bb : Brigades, is_eos : BOOLEAN]]
  BY <1>1 DEF CloseBackend, KeepBackend, BackendTypeOK
<1>3. /\ back' \in [open : BOOLEAN, bb : Brigades, is_eos : BOOLEAN]
      /\ ~back'.open /\ back'.bb = NoBuckets /\ back'.bb.data = <<>>
  BY <1>2, BrigadesType DEF NoBuckets
<1>4. BackendTypeOK'
  BY <1>1, <1>2, <1>3, <1>8 DEF BackendTypeOK
<1>5. ASSUME FilterInv PROVE FilterInv'
  <2>1. PICK rest \in Seq(Byte) : (served \o back.bb.data) \o rest = response
    BY <1>5 DEF FilterInv, RestOf
  <2>2. served \in Seq(Byte) /\ back.bb.data \in Seq(Byte)
    BY <1>1 DEF BackendTypeOK, Brigades
  <2>3. /\ (served \o back.bb.data) \o rest = served \o (back.bb.data \o rest)
        /\ back.bb.data \o rest \in Seq(Byte)
        /\ served \o <<>> = served
    BY <2>2, Joined
  <2>4. RestOf(served \o back.bb.data)'
    BY <1>2, <1>3, <2>1, <2>3 DEF RestOf
  <2> QED
    BY <1>2, <1>3, <1>5, <2>4 DEF FilterInv
<1>6. BackendInv'
  BY <1>2, <1>3, <1>4, <1>5 DEF BackendInv, ClosedIsEmpty, SocketInv
<1>7. BackendStream!Close
  BY <1>1, <1>2, <1>3 DEF BackendStream!Close
<1> QED
  BY <1>6, <1>7 DEF GoodStep, BackendStream!Next

\* The response of a new test case replaces whatever the last one left.
LEMMA SetBackendStep ==
  ASSUME BackendInv, ~back.open, NEW r \in ResponsesOf(transport), SetBackend(r)
  PROVE  GoodStep
<1>1. BackendTypeOK /\ back.bb = NoBuckets /\ r \in Seq(Byte)
  BY ResponsesAssumption DEF BackendInv, ClosedIsEmpty, ResponsesOf
<1>2. /\ g_backend' = r /\ response' = r /\ served' = <<>>
      /\ UNCHANGED <<transport, g_backend_fd, worker, pool, back, binput, bgot, bended>>
  BY DEF SetBackend, keptVars, bstream
<1>3. BackendTypeOK'
  BY <1>1, <1>2, EmptySeq DEF BackendTypeOK
<1>4. RestOf(served \o back.bb.data)'
  <2>1. back'.bb.data = <<>> /\ <<>> \in Seq(Byte)
    BY <1>1, <1>2, EmptySeq DEF NoBuckets
  <2>2. <<>> \o <<>> = <<>> /\ <<>> \o r = r
    BY <1>1, <2>1, Joined
  <2> QED
    BY <1>1, <1>2, <2>1, <2>2 DEF RestOf
<1>5. BackendInv'
  BY <1>1, <1>2, <1>3, <1>4 DEF BackendInv, ClosedIsEmpty, FilterInv, SocketInv
<1> QED
  BY <1>2, <1>5 DEF GoodStep, BackendStream!vars

\* Each step keeps the invariant and is one of the stream, or none.
LEMMA BackendNextStep ==
  ASSUME BackendInv, [BackendNext]_bvars
  PROVE  GoodStep
<1>1. CASE PreConnection
  BY <1>1, PreConnectionStep
<1>2. CASE \E w \in Workers : ConnectBackend(w)
  BY <1>2, ConnectBackendStep
<1>3. ASSUME NEW mode \in FilterModes, NEW n \in ReadCounts, FilterRead(mode, n)
      PROVE  GoodStep
  <2>1. CASE FilterReadAfterEnd
    <3>1. UNCHANGED <<transport, response, g_backend, g_backend_fd, worker, pool, back, binput, bgot, bended, served>>
      BY <2>1 DEF FilterReadAfterEnd, setup, keptVars, bstream
    <3> QED
      BY <3>1 DEF GoodStep, BackendStream!vars, BackendInv, BackendTypeOK, ClosedIsEmpty,
                  FilterInv, RestOf, SocketInv
  <2> QED
    BY <1>3, <2>1, FilterReadEndStep, FilterReadSomeStep DEF FilterRead
<1>4. CASE SocketRead
  BY <1>4, SocketReadStep
<1>5. CASE CloseBackend \/ KeepBackend
  BY <1>5, DoneWithBackendStep
<1>6. CASE \E r \in ResponsesOf(transport) : ~back.open /\ SetBackend(r)
  BY <1>6, SetBackendStep
<1>7. CASE UNCHANGED bvars
  <2>1. UNCHANGED <<transport, response, g_backend, g_backend_fd, worker, pool, back, binput, bgot, bended, served>>
    BY <1>7 DEF bvars, setup, keptVars, bstream
  <2> QED
    BY <2>1 DEF GoodStep, BackendStream!vars, BackendInv, BackendTypeOK, ClosedIsEmpty,
                FilterInv, RestOf, SocketInv
<1> QED
  BY <1>1, <1>2, <1>3, <1>4, <1>5, <1>6, <1>7 DEF BackendNext, BackendStep

\* At first nothing is to be served.
LEMMA BackendInitInv == BackendInit => BackendInv
<1> SUFFICES ASSUME BackendInit PROVE BackendInv
  OBVIOUS
<1>1. <<>> \in Seq(Byte) /\ <<>> \o <<>> = <<>> /\ NoBuckets \in Brigades /\ NoBuckets.data = <<>>
  BY Joined, BrigadesType DEF NoBuckets
<1>2. back = [open |-> FALSE, bb |-> NoBuckets, is_eos |-> FALSE]
  BY DEF BackendInit, Closed
<1>3. back \in [open : BOOLEAN, bb : Brigades, is_eos : BOOLEAN] /\ ~back.open /\ back.bb = NoBuckets
  BY <1>1, <1>2
<1>4. BackendTypeOK
  BY <1>1, <1>3, ClosedType, TransportsAssumption DEF BackendInit, BackendTypeOK
<1>5. RestOf(served \o back.bb.data)
  BY <1>1, <1>3 DEF BackendInit, RestOf
<1> QED
  BY <1>3, <1>4, <1>5 DEF BackendInit, BackendInv, ClosedIsEmpty, FilterInv, SocketInv

-----------------------------------------------------------------------------
(***************************************************************************)
(* The upstream side alone.                                                *)
(***************************************************************************)

\* The inductive invariant holds in every reachable state.
THEOREM BackendInvariance == BackendSpec => []BackendInv
<1>1. BackendInv /\ [BackendNext]_bvars => BackendInv'
  BY BackendNextStep DEF GoodStep
<1> QED
  BY <1>1, BackendInitInv, PTL DEF BackendSpec

\* A connection to the upstream delivers what it carries in order, each byte
\* once, then the end, through the filter and through the pair of sockets:
\* FuzzBackend implements ByteStream.
THEOREM BackendRefinement == BackendSpec => BackendIsAStream
<1>1. BackendInit => BackendStream!Init
  BY DEF BackendInit, Closed, BackendStream!Init
<1>2. BackendInv /\ [BackendNext]_bvars => [BackendStream!Next]_(BackendStream!vars)
  BY BackendNextStep DEF GoodStep
<1> QED
  BY <1>1, <1>2, BackendInvariance, PTL DEF BackendSpec, BackendIsAStream, BackendStream!Spec

\* What the invariant says of the response.
LEMMA InvMeansCurrent == BackendInv => CurrentResponse
<1> SUFFICES ASSUME BackendInv, back.open PROVE IsPrefix(bgot, response)
  BY DEF CurrentResponse
<1>1. /\ bgot \in Seq(Byte) /\ response \in Seq(Byte) /\ back.bb.data \in Seq(Byte)
      /\ transport \in {"filter", "socket"} /\ <<>> \in Seq(Byte)
  BY EmptySeq DEF BackendInv, BackendTypeOK, Brigades
<1>2. IsPrefix(<<>>, response)
  <2>1. <<>> \o response = response
    BY <1>1, Joined
  <2> QED
    BY <1>1, <2>1, StartOfJoined
<1>3. bgot \o back.bb.data \in {response, <<>>} \/ bgot = <<>>
  BY <1>1 DEF BackendInv, FilterInv, SocketInv
<1>4. CASE bgot \o back.bb.data = response
  BY <1>1, <1>4, StartOfJoined
<1>5. CASE bgot \o back.bb.data = <<>>
  BY <1>1, <1>2, <1>5, ConcatEqualIffEmpty
<1> QED
  BY <1>2, <1>3, <1>4, <1>5

\* What the invariant says of the buffer that was handed over.
LEMMA InvMeansOnce == BackendInv => ServedOnce
<1> SUFFICES ASSUME BackendInv, transport = "filter" PROVE IsPrefix(served, response)
  BY DEF ServedOnce
<1>1. served \in Seq(Byte) /\ back.bb.data \in Seq(Byte)
  BY DEF BackendInv, BackendTypeOK, Brigades
<1>2. PICK rest \in Seq(Byte) : (served \o back.bb.data) \o rest = response
  BY DEF BackendInv, FilterInv, RestOf
<1>3. /\ (served \o back.bb.data) \o rest = served \o (back.bb.data \o rest)
      /\ back.bb.data \o rest \in Seq(Byte)
  BY <1>1, Joined
<1> QED
  BY <1>1, <1>2, <1>3, StartOfJoined

\* What the invariant says of the peer of the socket.
LEMMA InvMeansAlive == BackendInv => PeerAlive
BY DEF BackendInv, SocketInv, PeerAlive

\* What the connection in use gives is of the response of the current test
\* case, also when a worker kept it from an older one.
THEOREM ResponseIsCurrent == BackendSpec => []CurrentResponse
BY InvMeansCurrent, BackendInvariance, PTL

\* However many connections a proxy opens for a test case, the filter gives
\* their readers a first part of its response together
\* (fuzz_backend.c:109-124).
THEOREM ResponseIsServedOnce == BackendSpec => []ServedOnce
BY InvMeansOnce, BackendInvariance, PTL

\* The far end of the socket in use is open (fuzz_backend.c:75), although the
\* wrapper closed that of any connection a worker keeps (fuzz_backend.c:56-59).
THEOREM PeerIsAlive == BackendSpec => []PeerAlive
BY InvMeansAlive, BackendInvariance, PTL

-----------------------------------------------------------------------------
(***************************************************************************)
(* The two sides in one process.                                           *)
(***************************************************************************)

\* Each step of a proxy harness is a step of the client side or none of it.
LEMMA ClientSide ==
  ASSUME [HarnessNext]_hvars
  PROVE  [Next]_vars
<1>1. CASE \E data \in TestCases, r \in ResponsesOf(transport) : ProtoTestCase(data, r)
  BY <1>1 DEF ProtoTestCase, Next
<1>2. CASE ClientStep
  BY <1>2 DEF ClientStep, Next
<1>3. CASE UpstreamStep
  BY <1>3 DEF UpstreamStep
<1>4. CASE EndOfRequest
  BY <1>4 DEF EndOfRequest, Next
<1>5. CASE UNCHANGED hvars
  BY <1>5 DEF hvars
<1> QED
  BY <1>1, <1>2, <1>3, <1>4, <1>5 DEF HarnessNext

\* And a step of the upstream side or none: a test case begins when no
\* connection is in use, whatever the workers keep.
LEMMA UpstreamSide ==
  ASSUME InUseWhileServing, [HarnessNext]_hvars
  PROVE  [BackendNext]_bvars
<1>1. ASSUME NEW data \in TestCases, NEW r \in ResponsesOf(transport), ProtoTestCase(data, r)
      PROVE  BackendNext
  <2>1. phase = "ready" /\ SetBackend(r)
    BY <1>1 DEF ProtoTestCase, TestOneInput
  <2>2. ~back.open
    BY <2>1 DEF InUseWhileServing
  <2> QED
    BY <2>1, <2>2 DEF BackendNext
<1>2. CASE ClientStep
  BY <1>2 DEF ClientStep
<1>3. CASE UpstreamStep
  BY <1>3 DEF UpstreamStep, BackendNext
<1>4. CASE EndOfRequest
  BY <1>4 DEF EndOfRequest
<1>5. CASE UNCHANGED hvars
  BY <1>5 DEF hvars
<1> QED
  BY <1>1, <1>2, <1>3, <1>4, <1>5 DEF HarnessNext

\* The steps of both sides use upstream connections within a request.
LEMMA InUseWhileServingStep ==
  ASSUME InUseWhileServing, [HarnessNext]_hvars
  PROVE  InUseWhileServing'
<1>1. ASSUME NEW data \in TestCases, NEW r \in ResponsesOf(transport), ProtoTestCase(data, r)
      PROVE  InUseWhileServing'
  BY <1>1 DEF ProtoTestCase, TestOneInput, SetBackend, InUseWhileServing
<1>2. CASE ClientStep
  <2>1. back' = back
    BY <1>2 DEF ClientStep, bvars
  <2>2. CASE FuzzInit
    BY <2>1, <2>2 DEF FuzzInit, InUseWhileServing
  <2>3. CASE NothingToServe \/ TestCaseDone
    BY <2>1, <2>3 DEF NothingToServe, TestCaseDone, InUseWhileServing
  <2>4. CASE FuzzOneInput \/ Crash
    BY <2>4 DEF FuzzOneInput, Crash, InUseWhileServing
  <2>5. CASE ReadInit \/ \E mode \in Modes, n \in Counts : Read(mode, n)
    <3>1. phase' = phase
      BY <2>5 DEF ReadInit, Read, ReadAfterEnd, ReadEnd, ReadSome, server
    <3> QED
      BY <2>1, <3>1 DEF InUseWhileServing
  <2> QED
    BY <1>2, <2>2, <2>3, <2>4, <2>5 DEF ClientStep
<1>3. CASE UpstreamStep
  BY <1>3 DEF UpstreamStep, vars, server, InUseWhileServing
<1>4. CASE EndOfRequest
  <2>1. ~back'.open
    BY <1>4 DEF EndOfRequest, bvars
  <2> QED
    BY <2>1 DEF InUseWhileServing
<1>5. CASE UNCHANGED hvars
  BY <1>5 DEF hvars, vars, server, bvars, InUseWhileServing
<1> QED
  BY <1>1, <1>2, <1>3, <1>4, <1>5 DEF HarnessNext

LEMMA AlwaysInUseWhileServing == HarnessSpec => []InUseWhileServing
<1>1. HarnessInit => InUseWhileServing
  BY DEF HarnessInit, BackendInit, Closed, InUseWhileServing
<1>2. InUseWhileServing /\ [HarnessNext]_hvars => InUseWhileServing'
  BY InUseWhileServingStep
<1> QED
  BY <1>1, <1>2, PTL DEF HarnessSpec

\* A proxy harness behaves as a harness to its client: what is proved of
\* FuzzInput holds of it.
THEOREM ImplementsClient == HarnessSpec => Spec
<1>1. HarnessInit => Init
  BY DEF HarnessInit
<1>2. [HarnessNext]_hvars => [Next]_vars
  BY ClientSide
<1> QED
  BY <1>1, <1>2, PTL DEF HarnessSpec, Spec

\* Whatever the client's reader does between its reads, the upstream side
\* behaves as it does alone.
THEOREM ImplementsUpstream == HarnessSpec => BackendSpec
<1>1. HarnessInit => BackendInit
  BY DEF HarnessInit
<1>2. InUseWhileServing /\ [HarnessNext]_hvars => [BackendNext]_bvars
  BY UpstreamSide
<1> QED
  BY <1>1, <1>2, AlwaysInUseWhileServing, PTL DEF HarnessSpec, BackendSpec

\* In a proxy harness, no bytes of a request or of a response reach a
\* connection of another test case, on either side.
THEOREM SidesAreApart == HarnessSpec => [](BufferOwned /\ CurrentResponse /\ ServedOnce /\ PeerAlive)
BY ImplementsClient, ImplementsUpstream, BufferIsOwned, ResponseIsCurrent, ResponseIsServedOnce,
   PeerIsAlive, PTL

\* Both connections of a proxy harness are byte streams.
THEOREM BothSidesAreStreams == HarnessSpec => IsAStream /\ BackendIsAStream
BY ImplementsClient, ImplementsUpstream, Refinement, BackendRefinement, PTL
=============================================================================
