---------------------------- MODULE FuzzBackend ----------------------------
(***************************************************************************)
(* The upstream side of the harnesses that fuzz proxy modules              *)
(* (fuzz_backend.c, mod_fuzzy_proto_uwsgi.cc, mod_fuzzy_proto_ajp.cc).     *)
(*                                                                         *)
(* A harness points the globals at the bytes of a response before it runs  *)
(* a request.  A proxy module that opens a connection to its upstream gets *)
(* them instead of what a server would say, in one of two ways:            *)
(*   "filter": the hook apatchy_pre_connection gives the connection an     *)
(*      input filter that serves the response and clears the globals;      *)
(*   "socket": the wrapper of ap_proxy_connect_backend replaces the socket *)
(*      of the connection by one of a pair, writes the response into the    *)
(*      other end, shuts it for writing, and keeps it open in g_backend_fd. *)
(* Over sockets mod_proxy keeps a connection that a request is done with,   *)
(* one for each of its workers, for a later request or test case.  Before  *)
(* it uses it again it has it connected, as it does a new one.  Over the   *)
(* filter no connection outlives its request: uwsgi has no keep-alive.     *)
(***************************************************************************)
EXTENDS Brigade, SequencesExt

CONSTANTS
    Responses,    \* what upstreams may answer
    Transports,   \* how harnesses serve it: "filter", "socket"
    Workers,      \* the workers of mod_proxy, one for each ProxyPass
    NoWorker,     \* none of them
    ReadCounts,   \* the values of readbytes a reader asks for
    MaxConnects   \* bound: the upstream connections of one test case

ASSUME ResponsesAssumption == Responses \subseteq Seq(Byte)
ASSUME TransportsAssumption == Transports \subseteq {"filter", "socket"}
ASSUME WorkersAssumption == NoWorker \notin Workers
ASSUME ReadCountsAssumption == ReadCounts \subseteq Int

VARIABLES
    transport,    \* the one of the harness that runs
    g_backend,    \* g_backend_buf and g_backend_size; <<>> is NULL or 0
    g_backend_fd, \* the worker whose pair it keeps the far end of, if any
    back,         \* the connection in use: its brigade, or what its socket holds
    worker,       \* the worker it is a connection of, over sockets
    pool,         \* the connection each worker keeps
    connects,     \* how many times this test case connected
    answered,     \* the last answer of the filter or the socket
    \* What the properties speak of:
    response,     \* the response of the current test case
    binput,       \* what the connection should carry
    bgot,         \* what its reader was given
    bended,       \* whether its reader was told of the end
    served        \* what all readers of this test case were given

bstream == <<binput, bgot, bended>>
setup == <<transport, response>>
keptVars == <<worker, pool>>
bvars == <<setup, g_backend, g_backend_fd, back, keptVars, connects, answered, bstream, served>>

Closed == [open |-> FALSE, bb |-> NoBuckets, is_eos |-> FALSE]
Opened(bb) == [open |-> TRUE, bb |-> bb, is_eos |-> FALSE]

BackendInit ==
    /\ transport \in Transports
    /\ g_backend = <<>>
    /\ g_backend_fd = NoWorker
    /\ back = Closed
    /\ worker = NoWorker
    /\ pool = [w \in Workers |-> Closed]
    /\ connects = 0
    /\ answered = "SUCCESS"
    /\ response = <<>> /\ binput = <<>> /\ bgot = <<>> /\ bended = FALSE
    /\ served = <<>>

-----------------------------------------------------------------------------
\* Mutant: a response that was not read yet is kept.
SetBackendOnce(r) ==
    /\ g_backend' = IF g_backend = <<>> THEN r ELSE g_backend
    /\ response' = r
    /\ served' = <<>>
    /\ connects' = 0
    /\ UNCHANGED <<transport, g_backend_fd, back, keptVars, answered, bstream>>

\* The harness sets the globals to the response of a new test case, whatever
\* the last one left there.
SetBackend(r) ==
    /\ g_backend' = r
    /\ response' = r
    /\ served' = <<>>
    /\ connects' = 0
    /\ UNCHANGED <<transport, g_backend_fd, back, keptVars, answered, bstream>>

\* What a test case may set: the harness of the sockets always has a response.
ResponsesOf(t) == IF t = "socket" THEN Responses \ {<<>>} ELSE Responses

NewStream(d) == binput' = d /\ bgot' = <<>> /\ bended' = FALSE

\* apatchy_pre_connection: a filter with an empty brigade.
PreConnection ==
    /\ transport = "filter"
    /\ ~back.open
    /\ connects < MaxConnects
    /\ connects' = connects + 1
    /\ back' = Opened(NoBuckets)
    /\ NewStream(g_backend)
    /\ UNCHANGED <<g_backend, g_backend_fd, keptVars, answered, setup, served>>

\* mod_proxy connects for a worker: the connection it keeps, or a new one.
Connecting(w) ==
    /\ transport = "socket"
    /\ ~back.open
    /\ connects < MaxConnects
    /\ connects' = connects + 1
    /\ pool' = [pool EXCEPT ![w] = Closed]
    /\ UNCHANGED <<g_backend, answered, setup, served>>

\* The connection has a pair that holds d.
Replaced(w, d) ==
    /\ back' = Opened(BufferOf(d))
    /\ worker' = w
    /\ NewStream(d)

\* Mutant: the far end of the last pair is closed after the new one is kept.
ConnectBackendClosingLate(w) ==
    /\ Connecting(w)
    /\ \/ /\ g_backend # <<>>
          /\ Replaced(w, g_backend)
          /\ g_backend_fd' = IF g_backend_fd = NoWorker THEN w ELSE NoWorker
       \/ /\ g_backend_fd' = NoWorker
          /\ UNCHANGED <<back, worker, bstream>>

\* Mutant: the last byte does not get into the pair.
ConnectBackendShortWrite(w) ==
    /\ Connecting(w)
    /\ \/ /\ g_backend # <<>>
          /\ back' = Opened(BufferOf(Front(g_backend)))
          /\ worker' = w
          /\ NewStream(g_backend)
          /\ g_backend_fd' = w
       \/ /\ g_backend_fd' = NoWorker
          /\ UNCHANGED <<back, worker, bstream>>

\* Mutant: a connection that its worker kept is used as it is.
ConnectBackendOnce(w) ==
    /\ Connecting(w)
    /\ \/ /\ ~pool[w].open /\ g_backend # <<>>
          /\ Replaced(w, g_backend)
          /\ g_backend_fd' = w
       \/ /\ pool[w].open
          /\ Replaced(w, pool[w].bb.data)
          /\ UNCHANGED g_backend_fd
       \/ /\ g_backend_fd' = NoWorker
          /\ UNCHANGED <<back, worker, bstream>>

\* __wrap_ap_proxy_connect_backend closes the far end of the last pair, which
\* may be that of a connection some worker keeps.  If the real function finds
\* the kept connection alive, or connects it again, its socket is replaced.
\* Otherwise the connection is given up.
ConnectBackend(w) ==
    /\ Connecting(w)
    /\ \/ /\ g_backend # <<>>
          /\ Replaced(w, g_backend)
          /\ g_backend_fd' = w
       \/ /\ g_backend_fd' = NoWorker
          /\ UNCHANGED <<back, worker, bstream>>

\* mod_proxy is done with the connection and closes it.
CloseBackend ==
    /\ back.open
    /\ back' = Closed /\ worker' = NoWorker
    /\ UNCHANGED <<connects, g_backend, g_backend_fd, pool, answered, setup, bstream, served>>

\* Or it keeps it, with what is left to be read in it.
KeepBackend ==
    /\ transport = "socket" /\ back.open
    /\ back' = Closed /\ worker' = NoWorker
    /\ pool' = [pool EXCEPT ![worker] = back]
    /\ UNCHANGED <<connects, g_backend, g_backend_fd, answered, setup, bstream, served>>

-----------------------------------------------------------------------------
(***************************************************************************)
(* The input filter, apatchy_input_filter_cb.                              *)
(***************************************************************************)
BackPopulates == g_backend # <<>> /\ back.bb = NoBuckets
BackPopulated == IF BackPopulates THEN BufferOf(g_backend) ELSE back.bb

\* Mutant: the globals are not cleared.
BackKept == g_backend

BackLeft == IF BackPopulates THEN <<>> ELSE g_backend

\* Mutant: APR_INCOMPLETE is an error, as it is for the client.
BackReadBytesStrictly(bb, n) ==
    IF n <= 0 THEN Unmoved("SUCCESS", bb)
    ELSE IF EnoughFor(bb, n) THEN MovedBytes(bb, n)
    ELSE Unmoved("INCOMPLETE", bb)

\* A block of bytes: all there are if they are fewer, the end included.
BackReadBytes(bb, n) ==
    IF n <= 0 THEN Unmoved("SUCCESS", bb)
    ELSE IF EnoughFor(bb, n) THEN MovedBytes(bb, n)
    ELSE MovedAll("SUCCESS", bb)

BackReadLine(bb) == SplitLine(bb)

\* The modes the filter does not know succeed and move nothing.
BackAnswerTo(mode, n, bb) ==
    CASE mode = "GETLINE" -> BackReadLine(bb)
      [] mode = "READBYTES" -> BackReadBytes(bb, n)
      [] OTHER -> Unmoved("SUCCESS", bb)

Given(out) ==
    /\ bgot' = bgot \o out.data
    /\ served' = served \o out.data
    /\ bended' = out.eos

FilterReadAfterEnd ==
    /\ transport = "filter" /\ back.open
    /\ back.is_eos
    /\ answered' = "EOF"
    /\ UNCHANGED <<connects, g_backend, g_backend_fd, back, keptVars, setup, bstream, served>>

FilterReadEnd ==
    /\ transport = "filter" /\ back.open
    /\ ~back.is_eos
    /\ BackPopulated = NoBuckets
    /\ back' = [back EXCEPT !.is_eos = TRUE]
    /\ answered' = "EOF"
    /\ bended' = TRUE
    /\ UNCHANGED <<connects, g_backend, g_backend_fd, keptVars, setup, binput, bgot, served>>

FilterReadSome(mode, n) ==
    /\ transport = "filter" /\ back.open
    /\ ~back.is_eos
    /\ BackPopulated # NoBuckets
    /\ g_backend' = BackLeft
    /\ LET a == BackAnswerTo(mode, n, BackPopulated) IN
       /\ back' = [back EXCEPT !.bb = a.bb]
       /\ answered' = a.rv
       /\ Given(a.out)
    /\ UNCHANGED <<connects, g_backend_fd, keptVars, setup, binput>>

FilterRead(mode, n) ==
    FilterReadAfterEnd \/ FilterReadEnd \/ FilterReadSome(mode, n)

\* A read of the socket: some of the bytes it holds, or the end.
SocketRead ==
    /\ transport = "socket" /\ back.open
    /\ \/ \E k \in 1 .. Len(back.bb.data) :
             /\ back' = [back EXCEPT !.bb = MovedBytes(@, k).bb]
             /\ answered' = "SUCCESS"
             /\ Given(MovedBytes(back.bb, k).out)
       \/ /\ back.bb.data = <<>>
          /\ back' = [back EXCEPT !.bb = NoBuckets]
          /\ answered' = "EOF"
          /\ bended' = TRUE
          /\ UNCHANGED <<bgot, served>>
    /\ UNCHANGED <<connects, g_backend, g_backend_fd, keptVars, setup, binput>>

FilterModes == {"GETLINE", "READBYTES", "SPECULATIVE", "EXHAUSTIVE"}

BackendStep ==
    \/ PreConnection
    \/ \E w \in Workers : ConnectBackend(w)
    \/ \E mode \in FilterModes, n \in ReadCounts : FilterRead(mode, n)
    \/ SocketRead
    \/ CloseBackend
    \/ KeepBackend

BackendNext == BackendStep \/ \E r \in ResponsesOf(transport) : ~back.open /\ SetBackend(r)

BackendSpec == BackendInit /\ [][BackendNext]_bvars

-----------------------------------------------------------------------------
(***************************************************************************)
(* Properties.                                                             *)
(***************************************************************************)

\* The filter gives the bytes of a response once: however many connections the
\* proxy opens for a test case, their readers are given a first part of it
\* together, and never a byte of an older one (fuzz_backend.c:109-124).
ServedOnce == transport = "filter" => IsPrefix(served, response)

\* What the connection in use gives is of the response of the current test
\* case, for either transport: also when a worker kept it from an older one,
\* with what that one left in it (fuzz_backend.c:67-74).
CurrentResponse == back.open => IsPrefix(bgot, response)

\* While a request uses a replaced socket the far end of its pair is open,
\* "keep alive so writes to pair[0] don't EPIPE" (fuzz_backend.c:75).  There is
\* room for one far end: connecting closes that of a connection which another
\* worker keeps, and that one has a new pair before it is used again.
PeerAlive == transport = "socket" /\ back.open => g_backend_fd = worker

\* A connection is a byte stream to its reader, from connecting it until a
\* request is done with it.
BackendStream == INSTANCE ByteStream WITH
    open <- back.open, input <- binput, delivered <- bgot, ended <- bended

BackendIsAStream == BackendStream!Spec
=============================================================================
