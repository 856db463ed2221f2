---------------------------- MODULE ToolProcess ----------------------------
(***************************************************************************)
(* One use of an ffmpeg or ffprobe child by VideoDemux: a probe (three     *)
(* children, one after the other), the audio stream, or the keyframes.     *)
(* The caller's thread, the child, the kernel's pipes between them, the    *)
(* stop token and the inactivity clock take steps of their own.            *)
(*                                                                         *)
(* What a child does is a script: the pieces it writes to stdout in order, *)
(* "err" for a write to stderr, "close" for closing stdout early, and the  *)
(* exit code at its end.  It may hang before any of them.  A byte stream   *)
(* is a sequence of pieces that reads may part anywhere; a sample is two   *)
(* pieces, and so is a PNG signature ("sig") and a PNG chunk ("ihdr",      *)
(* "idat" or "end"), whose first piece carries its header.                 *)
(***************************************************************************)
EXTENDS Integers, Sequences, FiniteSetsExt

CONSTANTS
    Modes,         \* a subset of {"probe", "audio", "keyframes"}
    Scripts,       \* what the children of a mode may do: [pieces, code]
    PipeSize,      \* capacity of a pipe, in pieces
    MaxRead,       \* most pieces one read asks for
    OutputCap,     \* cap of collect_output
    Queries        \* children one probe starts

Output == {"txt", "pcm", "sig", "ihdr", "idat", "end"}
Pieces == Output \cup {"err", "close"}

(* A child writes nothing to a stdout it has closed.                       *)
ASSUME ToolAssumption ==
    /\ Modes \subseteq {"probe", "audio", "keyframes"}
    /\ PipeSize \in Nat \ {0} /\ MaxRead \in Nat \ {0}
    /\ OutputCap \in Nat /\ Queries \in Nat \ {0}
    /\ \A m \in Modes : \A s \in Scripts[m] :
          /\ s.pieces \in Seq(Pieces) /\ s.code \in Int
          /\ \A i, j \in DOMAIN s.pieces :
                i < j /\ s.pieces[i] = "close" => s.pieces[j] \notin Output

VARIABLES
    mode,          \* which of VideoDemux's calls this is
    stop,          \* stop_.stop_requested()
    pc,            \* where the caller's thread stands
    tool,          \* ToolProcess: open descriptors, reaped_, deadline passed
    child,         \* the process: its script, how far it got, how it ended
    out, err,      \* what is in the stdout and the stderr pipe
    inherited,     \* another stream's child holds copies of the write ends
    got,           \* every piece read from stdout
    handed,        \* the pieces handed on to the caller
    carry,         \* partial_sample, or the PNG buffer
    query,         \* children still to run
    result         \* how the call ended

vars == <<mode, stop, pc, tool, child, out, err, inherited, got, handed, carry,
          query, result>>

data == <<got, handed, carry>>

None == "none"
ExecFailed == 127
Killed == -9

NoChild == [state |-> None, todo |-> <<>>, code |-> 0, out |-> FALSE, err |-> FALSE,
            killed |-> FALSE]
NoTool == [out |-> FALSE, err |-> FALSE, reaped |-> FALSE, idle |-> FALSE]

Init ==
    /\ mode \in Modes
    /\ stop = FALSE /\ pc = "construct"
    /\ tool = NoTool /\ child = NoChild
    /\ out = <<>> /\ err = 0 /\ inherited = FALSE
    /\ got = <<>> /\ handed = <<>> /\ carry = <<>>
    /\ query = IF mode = "probe" THEN Queries ELSE 1
    /\ result = None
-----------------------------------------------------------------------------
(* The child and the rest of the process.                                  *)

Alive == child.state \in {"forked", "running"}
OutputOver == ~child.out /\ ~inherited
ErrorsOver == ~child.err /\ ~inherited

(* A process that ends gives up its descriptors and waits to be reaped.    *)
Ended(c, code) == [c EXCEPT !.state = "zombie", !.code = code, !.out = FALSE,
                            !.err = FALSE]

ChildOnly == UNCHANGED <<mode, stop, pc, tool, inherited, data, query, result>>

(* dup2, close_range and execvp, or the exit code that says they failed.   *)
Exec ==
    /\ child.state = "forked"
    /\ child' \in {[child EXCEPT !.state = "running"], Ended(child, ExecFailed)}
    /\ UNCHANGED <<out, err>> /\ ChildOnly

(* A write to a pipe nobody reads any more ends the child with SIGPIPE.    *)
ChildSteps ==
    /\ child.state = "running" /\ child.todo # <<>>
    /\ LET piece == Head(child.todo)
           next == [child EXCEPT !.todo = Tail(@)]
       IN  CASE piece = "close" ->
                  child' = [next EXCEPT !.out = FALSE] /\ UNCHANGED <<out, err>>
             [] piece = "err" ->
                  /\ tool.err => err < PipeSize
                  /\ err' = IF tool.err THEN err + 1 ELSE err
                  /\ child' = IF tool.err THEN next ELSE Ended(child, Killed)
                  /\ UNCHANGED out
             [] OTHER ->
                  /\ tool.out => Len(out) < PipeSize
                  /\ out' = IF tool.out THEN Append(out, piece) ELSE out
                  /\ child' = IF tool.out THEN next ELSE Ended(child, Killed)
                  /\ UNCHANGED err
    /\ ChildOnly

ChildExits ==
    /\ child.state = "running" /\ child.todo = <<>>
    /\ child' = Ended(child, child.code)
    /\ UNCHANGED <<out, err>> /\ ChildOnly

KilledDies ==
    /\ Alive /\ child.killed
    /\ child' = Ended(child, Killed)
    /\ UNCHANGED <<out, err>> /\ ChildOnly

(* Another stream forks while this one's write ends are open in the        *)
(* process: its child holds copies until it runs execvp or closes them.    *)
OtherForks ==
    /\ pc \in {"fork", "parent"} /\ ~inherited
    /\ inherited' = TRUE
    /\ UNCHANGED <<mode, stop, pc, tool, child, out, err, data, query, result>>

(* Faulty variant: a pipe without O_CLOEXEC stays open in the other tool.  *)
BadOtherExecs == FALSE /\ UNCHANGED vars

OtherExecs ==
    /\ inherited /\ inherited' = FALSE
    /\ UNCHANGED <<mode, stop, pc, tool, child, out, err, data, query, result>>

StopRequested ==
    /\ ~stop /\ pc # "done" /\ stop' = TRUE
    /\ UNCHANGED <<mode, pc, tool, child, out, err, inherited, data, query, result>>
-----------------------------------------------------------------------------
(* ToolProcess, in the caller's thread.                                    *)

CallerOnly == UNCHANGED <<mode, stop, inherited>>
NoData == UNCHANGED <<out, err, data>>

(* An exception, or the end of the scope, runs ~ToolProcess.               *)
Leave(r) == pc' = "close" /\ result' = r /\ UNCHANGED query

(* Signalling a pid that was given back may hit any process.               *)
Signalled(c) == IF c.state = "reaped" THEN [c EXCEPT !.state = "stranger"]
                ELSE [c EXCEPT !.killed = TRUE]
Reaped(c) == [c EXCEPT !.state = "reaped"]

(* The constructor: stop, pipe2, and fork.  It throws without a child.     *)
Construct ==
    /\ pc = "construct"
    /\ \/ stop /\ pc' = "done" /\ result' = "Cancelled"
       \/ ~stop /\ pc' = "done" /\ result' = "ToolError"
       \/ ~stop /\ pc' = "fork" /\ UNCHANGED result
    /\ out' = <<>> /\ err' = 0 /\ inherited' = FALSE
    /\ got' = <<>> /\ handed' = <<>>
    /\ UNCHANGED <<mode, stop, tool, child, carry, query>>

Fork ==
    /\ pc = "fork"
    /\ \/ pc' = "done" /\ result' = "ToolError" /\ UNCHANGED <<child, tool>>
       \/ /\ \E s \in Scripts[mode] :
                child' = [state |-> "forked", todo |-> s.pieces, code |-> s.code,
                          out |-> TRUE, err |-> TRUE, killed |-> FALSE]
          /\ tool' = [NoTool EXCEPT !.out = TRUE, !.err = TRUE]
          /\ pc' = "parent" /\ UNCHANGED result
    /\ UNCHANGED query /\ NoData /\ CallerOnly

(* The parent closes its write ends, and its first read begins.            *)
CloseWriteEnds ==
    /\ pc = "parent" /\ pc' = "read"
    /\ UNCHANGED <<tool, child, query, result>> /\ NoData /\ CallerOnly

(* Faulty variant: the child that was just killed is taken for reaped.     *)
BadReadHead ==
    /\ pc = "read"
    /\ IF stop \/ tool.idle
       THEN /\ Leave(IF stop THEN "Cancelled" ELSE "ToolError")
            /\ child' = Signalled(child) /\ tool' = [tool EXCEPT !.reaped = TRUE]
       ELSE pc' = "poll" /\ UNCHANGED <<tool, child, query, result>>
    /\ NoData /\ CallerOnly

(* Faulty variant: the stop is looked at when the deadline has passed.     *)
BadReadHeadLate ==
    /\ pc = "read"
    /\ IF tool.idle
       THEN /\ Leave(IF stop THEN "Cancelled" ELSE "ToolError")
            /\ child' = Signalled(child)
       ELSE pc' = "poll" /\ UNCHANGED <<child, query, result>>
    /\ UNCHANGED tool /\ NoData /\ CallerOnly

(* The head of read()'s loop: the stop, then the deadline.                 *)
ReadHead ==
    /\ pc = "read"
    /\ IF stop \/ tool.idle
       THEN /\ Leave(IF stop THEN "Cancelled" ELSE "ToolError")
            /\ child' = Signalled(child)
       ELSE pc' = "poll" /\ UNCHANGED <<child, query, result>>
    /\ UNCHANGED tool /\ NoData /\ CallerOnly

(* Faulty variant: the deadline is taken anew in every round of the loop.  *)
BadIdleExpires ==
    /\ pc = "poll" /\ ~tool.idle /\ pc' = "read"
    /\ UNCHANGED <<tool, child, query, result>> /\ NoData /\ CallerOnly

(* The inactivity deadline passes.                                         *)
IdleExpires ==
    /\ pc \in {"read", "poll"} /\ ~tool.idle
    /\ tool' = [tool EXCEPT !.idle = TRUE]
    /\ UNCHANGED <<pc, child, query, result>> /\ NoData /\ CallerOnly

(* drain_stderr empties the pipe, and closes it at its end of file.        *)
Drained == [tool EXCEPT !.err = @ /\ ~ErrorsOver]

OutReady == out # <<>> \/ OutputOver
ErrReady == tool.err /\ (err > 0 \/ ErrorsOver)

(* A slice of poll passes with nothing to report.                          *)
PollSlice ==
    /\ pc = "poll" /\ ~OutReady /\ ~ErrReady /\ pc' = "read"
    /\ UNCHANGED <<tool, child, query, result>> /\ NoData /\ CallerOnly

ReadFails ==
    /\ pc = "poll" /\ Leave("ToolError")
    /\ UNCHANGED <<tool, child>> /\ NoData /\ CallerOnly

(* poll reports stderr: anything there is a sign of life.                  *)
PollErr ==
    /\ pc = "poll" /\ ErrReady /\ ~OutReady
    /\ tool' = [Drained EXCEPT !.idle = @ /\ err = 0] /\ err' = 0
    /\ pc' = "read"
    /\ UNCHANGED <<child, query, result, out, data>> /\ CallerOnly

(* stderr that is reported together with stdout is drained first; the next *)
(* read starts with a deadline of its own.                                 *)
DrainBeside ==
    /\ tool' = [IF ErrReady THEN Drained ELSE tool EXCEPT !.idle = FALSE]
    /\ err' = IF ErrReady THEN 0 ELSE err
-----------------------------------------------------------------------------
(* What the three callers do with the pieces of one read.                  *)

(* collect_output.                                                         *)
Collect(pieces) ==
    /\ handed' = handed \o pieces /\ UNCHANGED carry
    /\ IF Len(handed') > OutputCap THEN Leave("ToolError")
       ELSE pc' = "read" /\ UNCHANGED <<query, result>>

(* Faulty variant: the odd piece behind the whole samples is dropped.      *)
BadSamples(pieces) ==
    LET have == carry \o pieces
        whole == 2 * (Len(have) \div 2)
    IN  /\ carry' = IF whole = 0 THEN have ELSE <<>>
        /\ handed' = handed \o SubSeq(have, 1, whole)
        /\ pc' = IF whole = 0 THEN "read" ELSE "caller"
        /\ UNCHANGED <<query, result>>

(* read_audio: whole samples go to the caller, an odd piece waits.         *)
Samples(pieces) ==
    LET have == carry \o pieces
        whole == 2 * (Len(have) \div 2)
    IN  /\ carry' = SubSeq(have, whole + 1, Len(have))
        /\ handed' = handed \o SubSeq(have, 1, whole)
        /\ pc' = IF whole = 0 THEN "read" ELSE "caller"
        /\ UNCHANGED <<query, result>>

Frames(pieces) ==
    /\ carry' = carry \o pieces /\ UNCHANGED handed
    /\ pc' = "frame" /\ UNCHANGED <<query, result>>

(* poll reports stdout with data, and read() returns some of it.           *)
PollOut ==
    /\ pc = "poll" /\ out # <<>>
    /\ \E n \in 1 .. MaxRead :
          /\ n <= Len(out)
          /\ LET pieces == SubSeq(out, 1, n)
             IN  /\ got' = got \o pieces
                 /\ CASE mode = "probe" -> Collect(pieces)
                      [] mode = "audio" -> Samples(pieces)
                      [] mode = "keyframes" -> Frames(pieces)
          /\ out' = SubSeq(out, n + 1, Len(out))
    /\ DrainBeside
    /\ UNCHANGED child /\ CallerOnly

(* read() returns 0.  read_audio refuses an end inside a sample.           *)
PollEnd ==
    /\ pc = "poll" /\ out = <<>> /\ OutputOver
    /\ IF mode = "audio" /\ carry # <<>> THEN Leave("DecodeError")
       ELSE pc' = "drain" /\ UNCHANGED <<query, result>>
    /\ DrainBeside
    /\ UNCHANGED <<child, out, data>> /\ CallerOnly

(* The caller of read_audio comes back for more, or gives the stream up    *)
(* with cancel_audio.                                                      *)
ReadAgain ==
    /\ pc = "caller"
    /\ (pc' = "read" /\ UNCHANGED <<query, result>>) \/ Leave("stopped")
    /\ UNCHANGED <<tool, child>> /\ NoData /\ CallerOnly

(* emit_complete: where the first still in the buffer ends, 0 when it is   *)
(* not all there.                                                          *)
StillEnd(b) ==
    LET ends == {k \in 2 .. Len(b) \div 2 : b[2 * k - 1] = "end"}
    IN  IF ends = {} THEN 0 ELSE 2 * Min(ends)

(* No signature, or a still whose first chunk is not the IHDR that         *)
(* png_dimensions wants.                                                   *)
Malformed ==
    \/ Len(carry) >= 2 /\ SubSeq(carry, 1, 2) # <<"sig", "sig">>
    \/ StillEnd(carry) > 0 /\ carry[3] # "ihdr"

EmitStill ==
    /\ pc = "frame"
    /\ \/ Malformed /\ Leave("DecodeError") /\ UNCHANGED <<handed, carry>>
       \/ /\ ~Malformed /\ StillEnd(carry) = 0
          /\ pc' = "read" /\ UNCHANGED <<query, result, handed, carry>>
       \/ /\ ~Malformed /\ StillEnd(carry) > 0
          /\ handed' = handed \o SubSeq(carry, 1, StillEnd(carry))
          /\ carry' = SubSeq(carry, StillEnd(carry) + 1, Len(carry))
          /\ Leave("stopped") \/ UNCHANGED <<pc, query, result>>
    /\ UNCHANGED <<tool, child, out, err, got>> /\ CallerOnly
-----------------------------------------------------------------------------
(* wait_exit, the verdict on the exit code, and ~ToolProcess.              *)

DrainLast ==
    /\ pc = "drain" /\ pc' = "grace"
    /\ tool' = Drained /\ err' = 0
    /\ UNCHANGED <<child, query, result, out, data>> /\ CallerOnly

(* Faulty variant: the negative code of a killed child passes.             *)
BadVerdict(code) ==
    IF code = ExecFailed THEN Leave("ToolError")
    ELSE IF code > 0 THEN Leave("DecodeError")
    ELSE Leave("ok")

(* The verdict: probe goes on with its next query.  Parsing the output may *)
(* throw too.                                                              *)
Verdict(code) ==
    IF code = ExecFailed THEN Leave("ToolError")
    ELSE IF code # 0 THEN Leave("DecodeError")
    ELSE IF mode = "keyframes" /\ carry # <<>> THEN Leave("DecodeError")
    ELSE IF mode = "probe"
    THEN \/ Leave("Error")
         \/ /\ pc' = "close" /\ query' = query - 1
            /\ result' = IF query = 1 THEN "ok" ELSE result
    ELSE Leave("ok")

Reap ==
    /\ child.state = "zombie" /\ child' = Reaped(child)
    /\ tool' = [tool EXCEPT !.reaped = TRUE] /\ Verdict(child.code)

(* The pidfd wait is over: waitpid(WNOHANG) finds the child ended, or not, *)
(* and then it is killed and waited for.                                   *)
GraceOver ==
    /\ pc = "grace"
    /\ \/ Reap
       \/ /\ child.state # "zombie" /\ child' = Signalled(child) /\ pc' = "linger"
          /\ UNCHANGED <<tool, query, result>>
    /\ NoData /\ CallerOnly

Lingered ==
    /\ pc = "linger" /\ Reap /\ NoData /\ CallerOnly

(* The destructor closes the pipes, then kills and reaps what is left.     *)
CloseReadEnds ==
    /\ pc = "close"
    /\ tool' = [tool EXCEPT !.out = FALSE, !.err = FALSE]
    /\ IF tool.reaped
       THEN UNCHANGED child /\ pc' = IF result = None THEN "construct" ELSE "done"
       ELSE child' = Signalled(child) /\ pc' = "wait"
    /\ UNCHANGED <<query, result>> /\ NoData /\ CallerOnly

AwaitChild ==
    /\ pc = "wait" /\ child.state = "zombie"
    /\ child' = Reaped(child) /\ pc' = "done"
    /\ UNCHANGED <<tool, query, result>> /\ NoData /\ CallerOnly

Child == Exec \/ ChildSteps \/ ChildExits
Caller ==
    \/ Construct \/ Fork \/ CloseWriteEnds \/ ReadHead \/ PollSlice \/ ReadFails
    \/ PollErr \/ PollOut \/ PollEnd \/ ReadAgain \/ EmitStill \/ DrainLast \/ GraceOver
    \/ Lingered \/ CloseReadEnds \/ AwaitChild

(* The call returned; nothing of it is left to run.                        *)
Returned == pc = "done" /\ UNCHANGED vars

Next ==
    \/ Child \/ KilledDies \/ OtherForks \/ OtherExecs \/ StopRequested
    \/ IdleExpires \/ Caller \/ Returned

Spec == Init /\ [][Next]_vars

(* The caller's thread runs (poll returns within its slice, the sink and   *)
(* the window loop come back), SIGKILL ends a process, and a fork is       *)
(* followed by its exec.  Nothing is assumed of what the children do.      *)
Fairness == WF_vars(Caller) /\ WF_vars(KilledDies) /\ WF_vars(OtherExecs)

FairSpec == Spec /\ Fairness
-----------------------------------------------------------------------------
Tools == [out : BOOLEAN, err : BOOLEAN, reaped : BOOLEAN, idle : BOOLEAN]
Children == [state : {None, "forked", "running", "zombie", "reaped"},
             todo : Seq(Pieces), code : Int, out : BOOLEAN, err : BOOLEAN,
             killed : BOOLEAN]

TypeOK ==
    /\ mode \in Modes /\ stop \in BOOLEAN /\ inherited \in BOOLEAN
    /\ pc \in {"construct", "fork", "parent", "read", "poll", "caller", "frame",
               "drain", "grace", "linger", "close", "wait", "done"}
    /\ tool \in Tools /\ child \in Children
    /\ out \in Seq(Output) /\ Len(out) <= PipeSize /\ err \in 0 .. PipeSize
    /\ got \in Seq(Output) /\ handed \in Seq(Output) /\ carry \in Seq(Output)
    /\ query \in 0 .. Queries
    /\ result \in {None, "ok", "stopped", "Cancelled", "ToolError", "DecodeError",
                   "Error"}

(* Whatever ends the call (a stop, the deadline, a failed read, a sink or  *)
(* a caller that gave up, a bad exit code), its child has been reaped and  *)
(* both pipes are closed, and no signal was sent to a pid that was reaped  *)
(* already and may be another process by now (reaped_, ~ToolProcess).  The *)
(* pipes stay within their size.                                           *)
ReapedOnce ==
    /\ TypeOK
    /\ child.state # "stranger"
    /\ pc = "done" => child.state \in {None, "reaped"} /\ ~tool.out /\ ~tool.err

(* However the pipe parts the child's output, the pieces handed on and the *)
(* piece waiting for its rest are the pieces read, in order, samples and   *)
(* chunks are whole, and so are stills: they start with a signature and    *)
(* end with the chunk that has the IEND header (partial_sample in          *)
(* read_audio, emit_complete).                                             *)
FramingLosesNothing ==
    /\ got = handed \o carry
    /\ mode # "probe" => Len(handed) % 2 = 0
    /\ mode = "keyframes" /\ handed # <<>> =>
          /\ SubSeq(handed, 1, 2) = <<"sig", "sig">>
          /\ handed[Len(handed) - 1] = "end"

(* A call that ends well has handed on all its child wrote, and the child  *)
(* ended by itself with exit code 0: a child that was killed, or cut off,  *)
(* never passes for one that finished (wait_exit, close_audio).            *)
OkMeansWhole ==
    result = "ok" => /\ child.code = 0 /\ child.todo = <<>>
                     /\ out = <<>> /\ carry = <<>>

(* A stop request ends the call whatever the child does: streaming, silent *)
(* or hung ("kills the child within a fraction of a second").              *)
StopEndsCall == stop ~> pc = "done"

(* With a clock that runs, every call ends even if nobody asks it to and   *)
(* the child hangs (the inactivity timeout, the reap grace).               *)
HungChildEnds == WF_vars(IdleExpires) => <>(pc = "done")

(* No read waits, for good or for its timeout, on a child that has ended   *)
(* or that waits for the reader itself: stderr is drained alongside stdout *)
(* "so the child can never block on a full stderr pipe", and no other      *)
(* child holds the write end "that keeps this reader from ever seeing end  *)
(* of file" beyond its own exec.                                           *)
StderrBlocked ==
    child.state = "running" /\ child.todo # <<>> /\ Head(child.todo) = "err"
        /\ err = PipeSize
NothingToWaitFor ==
    pc \in {"read", "poll"} /\ (child.state = "zombie" \/ StderrBlocked)

NoReadIsStuck == NothingToWaitFor ~> ~NothingToWaitFor
=============================================================================
