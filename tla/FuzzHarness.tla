---------------------------- MODULE FuzzHarness ----------------------------
(***************************************************************************)
(* A harness for a proxy module: the client side and the upstream side in  *)
(* one process.  A test case yields both the request and the response; the *)
(* upstream connections are taken, read and given back by the modules that *)
(* serve the request, on the same thread, so their steps interleave with   *)
(* reads of the client in any order.  A request uses one at a time: it has *)
(* no subrequest that is proxied while its own response is read.           *)
(***************************************************************************)
EXTENDS FuzzInput, FuzzBackend

hvars == <<vars, bvars>>

HarnessInit == Init /\ BackendInit

\* DEFINE_PROTO_FUZZER: the buffers of both sides are set, the request runs.
ProtoTestCase(data, r) == TestOneInput(data) /\ SetBackend(r)

\* The end of a request destroys the pool of its connection to the client and
\* leaves alone what the workers keep.  By then the handler of the request has
\* given its upstream connection back: mod_proxy's handlers do so on every path.
EndOfRequest == EndRequest /\ ~back.open /\ UNCHANGED bvars

ClientStep ==
    /\ \/ FuzzInit
       \/ NothingToServe
       \/ FuzzOneInput
       \/ TestCaseDone
       \/ Crash
       \/ ReadInit
       \/ \E mode \in Modes, n \in Counts : Read(mode, n)
    /\ UNCHANGED bvars

UpstreamStep == phase = "serving" /\ BackendStep /\ UNCHANGED vars

\* The reads that the fairness below is about.
UpstreamRead(n) ==
    /\ phase = "serving"
    /\ FilterRead("READBYTES", n) \/ SocketRead
    /\ UNCHANGED vars

HarnessNext ==
    \/ \E data \in TestCases, r \in ResponsesOf(transport) : ProtoTestCase(data, r)
    \/ ClientStep
    \/ UpstreamStep
    \/ EndOfRequest

HarnessSpec == HarnessInit /\ [][HarnessNext]_hvars

\* A proxy module that keeps reading its upstream connection, blocks of bytes
\* through the filter or what the socket holds.
FairHarnessSpec ==
    /\ HarnessSpec
    /\ \A n \in ReadCounts : n > 0 => WF_hvars(UpstreamRead(n))

\* A proxy module that keeps reading is told of the end, whatever its transport:
\* unlike the client's filter, the upstream one moves what is left of the
\* brigade on APR_INCOMPLETE (fuzz_backend.c:144-153).
UpstreamEndIsReached ==
    phase = "serving" /\ back.open ~> bended \/ ~back.open \/ phase = "dead"
=============================================================================
