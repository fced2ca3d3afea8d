------------------------------ MODULE ConfLines ------------------------------
(***************************************************************************)
(* The input of the htaccess harness (harnesses/mod_fuzzy_htaccess.c): a   *)
(* configuration file in memory, read line by line by httpd's parser       *)
(* through a callback, with directive handlers that may call exit().       *)
(***************************************************************************)
EXTENDS Naturals, Sequences, SequencesExt

CONSTANTS
    Files,      \* the inputs of an instance: sequences of characters
    Sizes,      \* the buffer sizes httpd's parser asks with
    Newline     \* the character '\n'

\* httpd has a buffer of two bytes or more: of 0 the callback would take bufsiz - 1
\* for the largest number, of 1 it would make no progress.
ASSUME SizesAssumption == \A n \in Sizes : n \in Nat /\ n > 1
ASSUME FilesAssumption == \A f \in Files : f \in Seq(Range(f))

VARIABLES
    file,       \* the input of this test case: ctx.data
    pos,        \* ctx.pos
    reads,     \* history: what each call returned, and the size it was given
    pools,      \* the request pools that exist
    inHarness,  \* g_in_harness: whether exit() returns to the harness
    at          \* where LLVMFuzzerTestOneInput is

confVars == <<file, pos, reads, pools, inHarness, at>>

ConfInit == file = <<>> /\ pos = 0 /\ reads = <<>> /\ pools = 0 /\ inHarness = FALSE /\ at = "begin"

-----------------------------------------------------------------------------
BeginConf ==
    /\ at = "begin"
    /\ file' \in Files /\ pos' = 0 /\ reads' = <<>>
    /\ pools' = pools + 1
    /\ inHarness' = TRUE
    /\ at' = "build"

\* Mutant: room for the last character, not for the NUL.
CopiedToEnd(bufsiz) ==
    LET room == {i \in pos + 1 .. Len(file) : i - pos <= bufsiz}
        ends == {i \in room : file[i] = Newline}
    IN IF ends # {} THEN CHOOSE i \in ends : \A j \in ends : i <= j
       ELSE CHOOSE i \in room : \A j \in room : j <= i

\* Up to and including a newline, as far as the buffer goes with a NUL at its end.
Copied(bufsiz) ==
    LET room == {i \in pos + 1 .. Len(file) : i - pos <= bufsiz - 1}
        ends == {i \in room : file[i] = Newline}
    IN IF ends # {} THEN CHOOSE i \in ends : \A j \in ends : i <= j
       ELSE CHOOSE i \in room : \A j \in room : j <= i

\* fuzz_cfg_getstr, called by ap_build_config.
GetStr(bufsiz) ==
    /\ at = "build" /\ pos < Len(file)
    /\ reads' = Append(reads, [line |-> SubSeq(file, pos + 1, Copied(bufsiz)), size |-> bufsiz])
    /\ pos' = Copied(bufsiz)
    /\ UNCHANGED <<file, pools, inHarness, at>>

\* The end of the file, or a line the parser refuses: ap_build_config returns, and
\* the tree is walked if there is one.
EndOfConf(tree) ==
    /\ at = "build"
    /\ at' = IF tree THEN "walk" ELSE "return"
    /\ UNCHANGED <<file, pos, reads, pools, inHarness>>

EndOfWalk ==
    /\ at = "walk" /\ at' = "return"
    /\ UNCHANGED <<file, pos, reads, pools, inHarness>>

\* A directive handler calls exit(): the harness goes on after setjmp, or, where
\* the flag is not set, the process ends and another begins.
Exit ==
    /\ at \in {"build", "walk"}
    /\ IF inHarness THEN at' = "return" /\ UNCHANGED pools
       ELSE at' = "begin" /\ pools' = 0
    /\ UNCHANGED <<file, pos, reads, inHarness>>

ReturnFromConf ==
    /\ at = "return" /\ at' = "begin"
    /\ inHarness' = FALSE
    /\ pools' = pools - 1
    /\ UNCHANGED <<file, pos, reads>>

ConfNext ==
    \/ BeginConf
    \/ \E bufsiz \in Sizes : GetStr(bufsiz)
    \/ \E tree \in BOOLEAN : EndOfConf(tree)
    \/ EndOfWalk \/ Exit \/ ReturnFromConf

ConfSpec == ConfInit /\ [][ConfNext]_confVars

-----------------------------------------------------------------------------
\* What the parser was given is the file as far as it was read, whatever sizes it
\* asked with, and however the test case before ended: no read outgrows its buffer
\* with the NUL, a newline only ends one, and each makes progress
\* (mod_fuzzy_htaccess.c:59-77).
LinesAreTheFile ==
    /\ FlattenSeq([i \in DOMAIN reads |-> reads[i].line]) = SubSeq(file, 1, pos)
    /\ \A i \in DOMAIN reads :
         LET line == reads[i].line IN
         /\ Len(line) \in 1 .. reads[i].size - 1
         /\ \A j \in 1 .. Len(line) - 1 : line[j] # Newline
=============================================================================
