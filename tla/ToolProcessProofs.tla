------------------------- MODULE ToolProcessProofs -------------------------
(***************************************************************************)
(* What ToolProcess promises of every script a child may follow, every     *)
(* size of the pipes and the reads, and every order in which the child,    *)
(* the caller, the stop and the clock take their steps.                    *)
(***************************************************************************)
EXTENDS ToolProcess, SequenceTheorems, WellFoundedInduction, TLAPS

(* Who owns the child.  Between fork and the end of wait_exit the process  *)
(* exists and reaped_ is FALSE; at the destructor reaped_ says whether it  *)
(* still does; before a fork and after the call there is none.             *)
Reading == {"parent", "read", "poll", "caller", "frame", "drain", "grace", "linger"}
Exists == child.state \in {"forked", "running", "zombie"}
Gone == child.state \in {None, "reaped"} /\ ~tool.out /\ ~tool.err

Life ==
    /\ pc \in {"construct", "fork", "done"} => Gone
    /\ pc \in Reading => Exists /\ ~tool.reaped /\ tool.out
    /\ pc = "close" => child.state # None /\ (tool.reaped <=> child.state = "reaped")
    /\ pc = "wait" => Exists /\ ~tool.out /\ ~tool.err

(* The call goes on: no result yet, and a query left to run.               *)
Ongoing ==
    /\ pc \in Reading \cup {"construct", "fork"} => result = None /\ query >= 1
    /\ pc = "close" /\ result = None => tool.reaped /\ query >= 1 /\ mode = "probe"

(* What the child still writes, and what an exit code of 0 says of it.     *)
Script ==
    /\ \A i, j \in DOMAIN child.todo :
          i < j /\ child.todo[i] = "close" => child.todo[j] \notin Output
    /\ child.state = "forked" => child.out
    /\ child.state = "running" /\ ~child.out =>
          \A i \in DOMAIN child.todo : child.todo[i] \notin Output
    /\ child.state \in {"zombie", "reaped"} /\ child.code = 0 => child.todo = <<>>

(* Past the end of file nothing is in the pipe and nothing will be.        *)
Ending ==
    /\ pc \in {"drain", "grace", "linger"} =>
          out = <<>> /\ ~child.out /\ (mode = "audio" => carry = <<>>)
    /\ mode = "probe" \/ pc \in {"construct", "fork"} => carry = <<>>
    /\ pc = "frame" => mode = "keyframes"
    /\ result = "ok" =>
          pc \in {"close", "done"} /\ child.state = "reaped" /\ OkMeansWhole

IInv == TypeOK /\ Life /\ Ongoing /\ Script /\ Ending /\ FramingLosesNothing
-----------------------------------------------------------------------------
(* Sequences.                                                              *)

(* Cutting a sequence anywhere loses nothing.                              *)
LEMMA CutSeq ==
    ASSUME NEW S, NEW s \in Seq(S), NEW k \in 0 .. Len(s)
    PROVE  /\ SubSeq(s, 1, k) \in Seq(S) /\ Len(SubSeq(s, 1, k)) = k
           /\ SubSeq(s, k + 1, Len(s)) \in Seq(S)
           /\ Len(SubSeq(s, k + 1, Len(s))) = Len(s) - k
           /\ \A i \in 1 .. k : SubSeq(s, 1, k)[i] = s[i]
           /\ SubSeq(s, 1, k) \o SubSeq(s, k + 1, Len(s)) = s
<1>1. Len(s) \in Nat
  BY LenProperties
<1>2. \A i \in 1 .. k : s[i] \in S
  BY <1>1, ElementOfSeq
<1>3. \A i \in k + 1 .. Len(s) : s[i] \in S
  BY <1>1, ElementOfSeq
<1>4. /\ SubSeq(s, 1, k) \in Seq(S) /\ Len(SubSeq(s, 1, k)) = k
      /\ \A i \in 1 .. k : SubSeq(s, 1, k)[i] = s[i]
  BY <1>1, <1>2
<1>5. /\ SubSeq(s, k + 1, Len(s)) \in Seq(S)
      /\ Len(SubSeq(s, k + 1, Len(s))) = Len(s) - k
      /\ \A i \in 1 .. Len(s) - k : SubSeq(s, k + 1, Len(s))[i] = s[k + i]
  BY <1>1, <1>3
<1>6. SubSeq(s, 1, k) \o SubSeq(s, k + 1, Len(s)) = SubSeq(s, 1, Len(s))
  <2>1. /\ 1 \in 1 .. Len(s) + 1 /\ k \in 1 - 1 .. Len(s)
        /\ Len(s) \in k .. Len(s)
    BY <1>1
  <2> QED
    BY <2>1, ConcatAdjacentSubSeq, Zenon
<1>7. SubSeq(s, 1, Len(s)) = s
  BY SubSeqFull, Zenon
<1> QED
  BY <1>4, <1>5, <1>6, <1>7, Zenon

(* What is cut off the front of the rest still follows what was handed on. *)
LEMMA MovedOn ==
    ASSUME NEW S, NEW h \in Seq(S), NEW c \in Seq(S), NEW k \in 0 .. Len(c)
    PROVE  (h \o SubSeq(c, 1, k)) \o SubSeq(c, k + 1, Len(c)) = h \o c
<1> DEFINE a == SubSeq(c, 1, k)
           b == SubSeq(c, k + 1, Len(c))
<1>1. a \in Seq(S) /\ b \in Seq(S) /\ a \o b = c
  BY CutSeq, Zenon
<1> HIDE DEF a, b
<1>2. (h \o a) \o b = h \o (a \o b)
  <2>1. \A s, t, u \in Seq(S) : (s \o t) \o u = s \o (t \o u)
    BY ConcatAssociative, SMTT(30)
  <2> QED
    BY <1>1, <2>1, ZenonT(60)
<1>3. (h \o a) \o b = h \o c
  BY <1>1, <1>2, Zenon
<1> QED
  BY <1>3, Zenon DEF a, b

(* A set of naturals that is not empty has its Min.                        *)
LEMMA MinOfNats ==
    ASSUME NEW T, T \subseteq Nat, T # {}
    PROVE  Min(T) \in T
<1> DEFINE R == {ss \in Nat \X Nat : ss[1] < ss[2]}
<1>1. IsWellFoundedOn(R, Nat)
  BY NatLessThanWellFounded, Zenon DEF OpToRel
<1>2. \E x \in T : \A y \in T : ~ (<<y, x>> \in R)
  <2> HIDE DEF R
  <2> QED
    BY <1>1, WFMin, Zenon
<1>3. \A x, y \in T : ~ (<<y, x>> \in R) => x <= y
  OBVIOUS
<1>4. \E x \in T : \A y \in T : x <= y
  BY <1>2, <1>3, Zenon
<1> QED
  BY <1>4, Zenon DEF Min
-----------------------------------------------------------------------------
(* Types.                                                                  *)

(* The child's own steps: what they leave of its script.                   *)
LEMMA ChildTypes ==
    ASSUME TypeOK, Exec \/ ChildSteps \/ ChildExits \/ KilledDies
    PROVE  TypeOK'
<1>1. /\ child \in Children /\ out \in Seq(Output)
      /\ child.todo \in Seq(Pieces)
  BY DEF TypeOK, Children
<1>2. CASE Exec \/ ChildExits \/ KilledDies
  <2>1. \/ child' = [child EXCEPT !.state = "running"]
        \/ \E n \in Int : child' = Ended(child, n)
    BY <1>1, <1>2, SMT DEF Exec, ChildExits, KilledDies, ExecFailed, Killed, Children
  <2>2. child' \in Children
    BY <1>1, <2>1, Zenon DEF Ended, Children
  <2>3. UNCHANGED <<mode, stop, pc, tool, inherited, got, handed, carry, query, result,
                    out, err>>
    BY <1>2 DEF Exec, ChildExits, KilledDies, ChildOnly, data
  <2> QED
    BY <2>2, <2>3 DEF TypeOK
<1>3. CASE ChildSteps
  <2>1. /\ Head(child.todo) \in Pieces /\ Tail(child.todo) \in Seq(Pieces)
    BY <1>1, <1>3, HeadTailProperties DEF ChildSteps
  <2>2. \/ child' = [child EXCEPT !.todo = Tail(child.todo)]
        \/ child' = [child EXCEPT !.todo = Tail(child.todo), !.out = FALSE]
        \/ child' = Ended(child, Killed)
    BY <1>1, <1>3, SMT DEF ChildSteps, Children
  <2>3. child' \in Children
    <3>1. CASE child' = [child EXCEPT !.todo = Tail(child.todo)]
      BY <1>1, <2>1, <3>1, Zenon DEF Children
    <3>2. CASE child' = [child EXCEPT !.todo = Tail(child.todo), !.out = FALSE]
      BY <1>1, <2>1, <3>2, Zenon DEF Children
    <3>3. CASE child' = Ended(child, Killed)
      <4>1. Killed \in Int
        BY DEF Killed
      <4> QED
        BY <1>1, <3>3, <4>1, Zenon DEF Ended, Children
    <3> QED
      BY <2>2, <3>1, <3>2, <3>3
  <2>4. err \in 0 .. PipeSize /\ Len(out) <= PipeSize /\ PipeSize \in Nat
    BY ToolAssumption DEF TypeOK
  <2>5. Len(out) \in Nat
    BY <1>1
  <2>6. err' \in 0 .. PipeSize
    BY <1>3, <2>4, SMT DEF ChildSteps
  <2>7. out' \in Seq(Output) /\ Len(out') <= PipeSize
    <3>1. CASE out' = out
      BY <1>1, <2>4, <3>1
    <3>2. CASE /\ out' = Append(out, Head(child.todo)) /\ Head(child.todo) \in Output
               /\ Len(out) < PipeSize
      BY <1>1, <2>4, <2>5, <3>2, AppendProperties
    <3> QED
      BY <1>3, <2>1, <3>1, <3>2 DEF ChildSteps, Pieces
  <2>8. UNCHANGED <<mode, stop, pc, tool, inherited, got, handed, carry, query, result>>
    BY <1>3 DEF ChildSteps, ChildOnly, data
  <2> QED
    BY <2>3, <2>6, <2>7, <2>8 DEF TypeOK
<1> QED
  BY <1>2, <1>3

(* Signals and the reaping of a child leave its script alone.              *)
LEMMA SignalledChild ==
    ASSUME NEW c \in Children, c.state # "reaped"
    PROVE  /\ Signalled(c) \in Children
           /\ Signalled(c).state = c.state /\ Signalled(c).todo = c.todo
           /\ Signalled(c).code = c.code /\ Signalled(c).out = c.out
BY Zenon DEF Signalled, Children

LEMMA ReapedChild ==
    ASSUME NEW c \in Children
    PROVE  /\ Reaped(c) \in Children
           /\ Reaped(c).state = "reaped" /\ Reaped(c).todo = c.todo
           /\ Reaped(c).code = c.code /\ Reaped(c).out = c.out
BY DEF Reaped, Children

(* The fields that the steps below tell apart.                             *)
LEMMA FieldTypes ==
    ASSUME TypeOK
    PROVE  /\ tool \in Tools /\ child \in Children
           /\ tool.out \in BOOLEAN /\ tool.err \in BOOLEAN /\ tool.reaped \in BOOLEAN
           /\ child.state \in {None, "forked", "running", "zombie", "reaped"}
           /\ child.todo \in Seq(Pieces) /\ child.code \in Int /\ child.out \in BOOLEAN
           /\ query \in Nat /\ query <= Queries /\ Queries \in Nat
BY ToolAssumption DEF TypeOK, Tools, Children

(* drain_stderr touches no other field.                                    *)
LEMMA DrainedTool ==
    ASSUME TypeOK
    PROVE  /\ Drained \in Tools /\ Drained.out = tool.out
           /\ Drained.reaped = tool.reaped
BY Zenon DEF Drained, ErrorsOver, TypeOK, Tools, Children

LEMMA DrainBesideTool ==
    ASSUME TypeOK, DrainBeside
    PROVE  /\ tool' \in Tools /\ tool'.out = tool.out /\ tool'.reaped = tool.reaped
           /\ err' \in 0 .. PipeSize
<1>1. tool \in Tools /\ err \in 0 .. PipeSize /\ 0 \in 0 .. PipeSize
  BY ToolAssumption DEF TypeOK
<1>2. tool' = [Drained EXCEPT !.idle = FALSE] \/ tool' = [tool EXCEPT !.idle = FALSE]
  BY Zenon DEF DrainBeside
<1>3. /\ tool' \in Tools /\ tool'.out = tool.out /\ tool'.reaped = tool.reaped
  BY <1>1, <1>2, DrainedTool, Zenon DEF Tools
<1>4. err' \in 0 .. PipeSize
  BY <1>1 DEF DrainBeside
<1> QED
  BY <1>3, <1>4
-----------------------------------------------------------------------------
(* Who owns the child, and whether the call goes on.                       *)

Control == TypeOK /\ Life /\ Ongoing

(* The steps of the child, of other streams, of the stop and of the clock. *)
LEMMA AroundControl ==
    ASSUME Control,
           \/ Exec \/ ChildSteps \/ ChildExits \/ KilledDies
           \/ OtherForks \/ OtherExecs \/ StopRequested \/ IdleExpires
    PROVE  Control'
<1>1. TypeOK /\ Life /\ Ongoing
  BY DEF Control
<1>2. tool \in Tools /\ child \in Children
  BY <1>1 DEF TypeOK
<1>3. CASE Exec \/ ChildSteps \/ ChildExits \/ KilledDies
  <2>1. TypeOK'
    BY <1>1, <1>3, ChildTypes
  <2>2. Exists /\ child'.state \in {"forked", "running", "zombie"}
    BY <1>2, <1>3, Zenon DEF Exec, ChildSteps, ChildExits, KilledDies, Ended, Alive, Exists,
          Children
  <2>3. UNCHANGED <<pc, tool, mode, query, result>>
    BY <1>3 DEF Exec, ChildSteps, ChildExits, KilledDies, ChildOnly
  <2>4. Life'
    BY <1>1, <2>2, <2>3 DEF Life, Exists, Gone, Reading, None
  <2>5. Ongoing'
    BY <1>1, <2>3 DEF Ongoing
  <2> QED
    BY <2>1, <2>4, <2>5 DEF Control
<1>4. CASE OtherForks \/ OtherExecs \/ StopRequested
  <2>1. /\ inherited' \in BOOLEAN /\ stop' \in BOOLEAN
        /\ UNCHANGED <<mode, pc, tool, child, out, err, got, handed, carry, query, result>>
    BY <1>1, <1>4, Zenon DEF OtherForks, OtherExecs, StopRequested, data, TypeOK
  <2>2. TypeOK'
    BY <1>1, <2>1 DEF TypeOK
  <2>3. Life' /\ Ongoing'
    BY <1>1, <2>1 DEF Life, Ongoing, Exists, Gone
  <2> QED
    BY <2>2, <2>3 DEF Control
<1>5. CASE IdleExpires
  <2>1. /\ tool' \in Tools /\ tool'.out = tool.out /\ tool'.err = tool.err
        /\ tool'.reaped = tool.reaped
    BY <1>2, <1>5, Zenon DEF IdleExpires, Tools
  <2>2. UNCHANGED <<mode, stop, inherited, pc, child, out, err, got, handed, carry, query,
                    result>>
    BY <1>5 DEF IdleExpires, NoData, CallerOnly, data
  <2>3. TypeOK'
    BY <1>1, <2>1, <2>2 DEF TypeOK
  <2>4. Life' /\ Ongoing'
    BY <1>1, <2>1, <2>2 DEF Life, Ongoing, Exists, Gone
  <2> QED
    BY <2>3, <2>4 DEF Control
<1> QED
  BY <1>3, <1>4, <1>5

(* From the constructor to the first read.                                 *)
LEMMA StartControl ==
    ASSUME Control, Construct \/ Fork \/ CloseWriteEnds
    PROVE  Control'
<1>1. TypeOK /\ Life /\ Ongoing
  BY DEF Control
<1>2. CASE Construct
  <2>1. /\ out' \in Seq(Output) /\ Len(out') = 0 /\ err' \in 0 .. PipeSize
        /\ got' \in Seq(Output) /\ handed' \in Seq(Output) /\ inherited' \in BOOLEAN
    <3>1. << >> \in Seq(Output) /\ Len(<< >>) = 0
      OBVIOUS
    <3>2. 0 \in 0 .. PipeSize
      BY ToolAssumption
    <3>3. /\ out' = << >> /\ err' = 0 /\ inherited' = FALSE
          /\ got' = << >> /\ handed' = << >>
      BY <1>2 DEF Construct
    <3> QED
      BY <3>1, <3>2, <3>3, Zenon
  <2>2. /\ pc = "construct" /\ UNCHANGED <<mode, stop, tool, child, carry, query>>
        /\ \/ pc' = "done" /\ result' \in {"Cancelled", "ToolError"}
           \/ pc' = "fork" /\ result' = result
    BY <1>2 DEF Construct
  <2>3. TypeOK'
    BY <1>1, <2>1, <2>2, ToolAssumption DEF TypeOK
  <2>4. Life' /\ Ongoing'
    BY <1>1, <2>2 DEF Life, Ongoing, Exists, Gone, Reading
  <2> QED
    BY <2>3, <2>4 DEF Control
<1>3. CASE Fork
  <2>1. /\ pc = "fork"
        /\ UNCHANGED <<mode, stop, inherited, out, err, got, handed, carry, query>>
    BY <1>3 DEF Fork, CallerOnly, NoData, data
  <2>2. CASE pc' = "done" /\ result' = "ToolError" /\ UNCHANGED <<child, tool>>
    <3>1. TypeOK'
      BY <1>1, <2>1, <2>2 DEF TypeOK
    <3>2. Life' /\ Ongoing'
      BY <1>1, <2>1, <2>2 DEF Life, Ongoing, Exists, Gone, Reading
    <3> QED
      BY <3>1, <3>2 DEF Control
  <2>3. CASE /\ \E s \in Scripts[mode] :
                   child' = [state |-> "forked", todo |-> s.pieces, code |-> s.code,
                             out |-> TRUE, err |-> TRUE, killed |-> FALSE]
             /\ tool' = [NoTool EXCEPT !.out = TRUE, !.err = TRUE]
             /\ pc' = "parent" /\ UNCHANGED result
    <3>1. \A s \in Scripts[mode] : s.pieces \in Seq(Pieces) /\ s.code \in Int
      BY <1>1, ToolAssumption DEF TypeOK
    <3>2. child' \in Children /\ child'.state = "forked"
      BY <2>3, <3>1 DEF Children
    <3>3. tool' \in Tools /\ tool'.out /\ ~tool'.reaped
      BY <2>3, Zenon DEF NoTool, Tools
    <3>4. TypeOK'
      BY <1>1, <2>1, <2>3, <3>2, <3>3 DEF TypeOK
    <3>5. Life' /\ Ongoing'
      BY <1>1, <2>1, <2>3, <3>2, <3>3 DEF Life, Ongoing, Exists, Gone, Reading
    <3> QED
      BY <3>4, <3>5 DEF Control
  <2> QED
    BY <1>3, <2>2, <2>3 DEF Fork
<1>4. CASE CloseWriteEnds
  <2>1. /\ pc = "parent" /\ pc' = "read"
        /\ UNCHANGED <<mode, stop, inherited, tool, child, out, err, got, handed, carry,
                       query, result>>
    BY <1>4 DEF CloseWriteEnds, CallerOnly, NoData, data
  <2>2. TypeOK'
    BY <1>1, <2>1 DEF TypeOK
  <2>3. Life' /\ Ongoing'
    BY <1>1, <2>1 DEF Life, Ongoing, Exists, Gone, Reading
  <2> QED
    BY <2>2, <2>3 DEF Control
<1> QED
  BY <1>2, <1>3, <1>4

(* The loop of read(), and what the callers do between two reads.          *)
LEMMA ReadControl ==
    ASSUME Control,
           \/ ReadHead \/ PollSlice \/ ReadFails \/ PollErr \/ PollEnd \/ ReadAgain
           \/ DrainLast
    PROVE  Control'
<1>1. TypeOK /\ Life /\ Ongoing
  BY DEF Control
<1>2. /\ tool \in Tools /\ child \in Children /\ err \in 0 .. PipeSize
      /\ 0 \in 0 .. PipeSize
  BY <1>1, ToolAssumption DEF TypeOK
<1>3. pc \in Reading
  BY DEF Reading, ReadHead, PollSlice, ReadFails, PollErr, PollEnd, ReadAgain, DrainLast
<1>4. child.state \in {"forked", "running", "zombie"} /\ ~tool.reaped /\ tool.out
  BY <1>1, <1>3 DEF Life, Exists
<1>5. /\ tool' \in Tools /\ tool'.out = tool.out /\ tool'.reaped = tool.reaped
      /\ err' \in 0 .. PipeSize
  <2>1. CASE UNCHANGED <<tool, err>>
    BY <1>2, <2>1
  <2>2. CASE DrainBeside
    BY <1>1, <2>2, DrainBesideTool
  <2>3. CASE PollErr
    <3>1. tool' = [Drained EXCEPT !.idle = @ /\ err = 0] /\ err' = 0
      BY <2>3 DEF PollErr
    <3>2. /\ Drained \in Tools /\ Drained.out = tool.out
          /\ Drained.reaped = tool.reaped
      BY <1>1, DrainedTool
    <3> QED
      BY <1>2, <3>1, <3>2, Zenon DEF Tools
  <2>4. CASE DrainLast
    BY <1>1, <1>2, <2>4, DrainedTool DEF DrainLast
  <2> QED
    BY <2>1, <2>2, <2>3, <2>4 DEF ReadHead, PollSlice, ReadFails, PollEnd, ReadAgain, NoData
<1>6. child' \in Children /\ child'.state = child.state
  <2>1. CASE UNCHANGED child
    BY <1>2, <2>1
  <2>2. CASE child' = Signalled(child)
    BY <1>2, <1>4, <2>2, SignalledChild
  <2> QED
    BY <2>1, <2>2 DEF ReadHead, PollSlice, ReadFails, PollErr, PollEnd, ReadAgain, DrainLast
<1>7. UNCHANGED <<mode, stop, inherited, out, got, handed, carry, query>>
  BY DEF ReadHead, PollSlice, ReadFails, PollErr, PollEnd, ReadAgain, DrainLast, Leave,
         CallerOnly, NoData, data
<1>8. \/ pc' \in Reading /\ result' = result
      \/ pc' = "close" /\ result' \in {"stopped", "Cancelled", "ToolError", "DecodeError"}
  BY DEF ReadHead, PollSlice, ReadFails, PollErr, PollEnd, ReadAgain, DrainLast, Leave,
         Reading
<1>9. TypeOK'
  BY <1>1, <1>5, <1>6, <1>7, <1>8 DEF TypeOK, Reading
<1>10. Life' /\ Ongoing'
  BY <1>1, <1>3, <1>4, <1>5, <1>6, <1>7, <1>8 DEF Life, Ongoing, Exists, Gone, Reading, None
<1> QED
  BY <1>9, <1>10 DEF Control

(* wait_exit and the destructor: waitpid succeeds once, and reaped_ says   *)
(* so, which keeps the destructor from a signal to a pid given back.       *)
LEMMA ReapControl ==
    ASSUME Control, GraceOver \/ Lingered \/ CloseReadEnds \/ AwaitChild
    PROVE  Control'
<1>1. TypeOK /\ Life /\ Ongoing
  BY DEF Control
<1>2. tool \in Tools /\ child \in Children /\ query \in Nat /\ query <= Queries
      /\ Queries \in Nat
  BY <1>1, FieldTypes
<1>3. UNCHANGED <<mode, stop, inherited, out, err, got, handed, carry>>
  BY DEF GraceOver, Lingered, CloseReadEnds, AwaitChild, CallerOnly, NoData, data
<1>4. CASE pc \in {"grace", "linger"} /\ Reap
  <2>1. tool' \in Tools /\ tool'.reaped
    BY <1>2, <1>4, Zenon DEF Reap, Tools
  <2>2. child' \in Children /\ child'.state = "reaped"
    BY <1>2, <1>4, ReapedChild DEF Reap
  <2>3. result = None /\ query >= 1
    BY <1>1, <1>4 DEF Ongoing, Reading
  <2>4. /\ pc' = "close"
        /\ \/ /\ result' \in {"ok", "ToolError", "DecodeError", "Error"}
              /\ query' = query \/ query' = query - 1
           \/ result' = None /\ query' = query - 1 /\ query # 1 /\ mode = "probe"
    BY <1>4, <2>3 DEF Reap, Verdict, Leave
  <2>5. /\ query' \in 0 .. Queries
        /\ result' = None => query' >= 1 /\ mode = "probe"
    BY <1>2, <2>3, <2>4 DEF None
  <2>6. TypeOK'
    BY <1>1, <1>3, <2>1, <2>2, <2>4, <2>5 DEF TypeOK
  <2>7. Life' /\ Ongoing'
    BY <1>3, <2>1, <2>2, <2>4, <2>5 DEF Life, Ongoing, Exists, Gone, Reading, None
  <2> QED
    BY <2>6, <2>7 DEF Control
<1>5. CASE pc = "grace" /\ child' = Signalled(child) /\ pc' = "linger"
           /\ UNCHANGED <<tool, query, result>>
  <2>1. child.state \in {"forked", "running", "zombie"}
    BY <1>1, <1>5 DEF Life, Exists, Reading
  <2>2. child' \in Children /\ child'.state = child.state
    BY <1>2, <1>5, <2>1, SignalledChild
  <2>3. TypeOK'
    BY <1>1, <1>3, <1>5, <2>2 DEF TypeOK
  <2>4. Life' /\ Ongoing'
    BY <1>1, <1>3, <1>5, <2>2 DEF Life, Ongoing, Exists, Gone, Reading, None
  <2> QED
    BY <2>3, <2>4 DEF Control
<1>6. CASE CloseReadEnds
  <2>1. tool' \in Tools /\ ~tool'.out /\ ~tool'.err /\ tool'.reaped = tool.reaped
    BY <1>2, <1>6, Zenon DEF CloseReadEnds, Tools
  <2>2. pc = "close" /\ UNCHANGED <<query, result>>
    BY <1>6 DEF CloseReadEnds
  <2>3. child.state \in {"forked", "running", "zombie", "reaped"}
        /\ (tool.reaped <=> child.state = "reaped")
    BY <1>1, <1>2, <2>2 DEF Life, Children
  <2>4. CASE tool.reaped
    <3>1. UNCHANGED child /\ pc' = IF result = None THEN "construct" ELSE "done"
      BY <1>6, <2>4 DEF CloseReadEnds
    <3>2. TypeOK'
      BY <1>1, <1>3, <2>1, <2>2, <3>1 DEF TypeOK
    <3>3. Life'
      BY <2>1, <2>3, <2>4, <3>1 DEF Life, Gone, Exists, Reading
    <3>4. Ongoing'
      BY <1>1, <1>3, <2>2, <3>1 DEF Ongoing, Reading
    <3> QED
      BY <3>2, <3>3, <3>4 DEF Control
  <2>5. CASE ~tool.reaped
    <3>1. child' = Signalled(child) /\ pc' = "wait"
      BY <1>6, <2>5 DEF CloseReadEnds
    <3>2. child' \in Children /\ child'.state = child.state
      BY <1>2, <2>3, <2>5, <3>1, SignalledChild
    <3>3. TypeOK'
      BY <1>1, <1>3, <2>1, <2>2, <3>1, <3>2 DEF TypeOK
    <3>4. Life' /\ Ongoing'
      BY <2>1, <2>3, <2>5, <3>1, <3>2 DEF Life, Ongoing, Gone, Exists, Reading
    <3> QED
      BY <3>3, <3>4 DEF Control
  <2> QED
    BY <2>4, <2>5
<1>7. CASE AwaitChild
  <2>1. /\ pc = "wait" /\ pc' = "done" /\ child' = Reaped(child)
        /\ UNCHANGED <<tool, query, result>>
    BY <1>7 DEF AwaitChild
  <2>2. child' \in Children /\ child'.state = "reaped"
    BY <1>2, <2>1, ReapedChild
  <2>3. TypeOK'
    BY <1>1, <1>3, <2>1, <2>2 DEF TypeOK
  <2>4. Life' /\ Ongoing'
    BY <1>1, <2>1, <2>2 DEF Life, Ongoing, Gone, Exists, Reading
  <2> QED
    BY <2>3, <2>4 DEF Control
<1> QED
  BY <1>4, <1>5, <1>6, <1>7 DEF GraceOver, Lingered
-----------------------------------------------------------------------------
(* Framing.                                                                *)

(* Where the first still in the buffer ends.                               *)
LEMMA StillEnds ==
    ASSUME NEW b \in Seq(Output)
    PROVE  /\ StillEnd(b) \in 0 .. Len(b)
           /\ StillEnd(b) > 0 => /\ StillEnd(b) >= 4 /\ \E k \in Nat : StillEnd(b) = 2 * k
                                 /\ b[StillEnd(b) - 1] = "end"
<1> DEFINE ends == {k \in 2 .. Len(b) \div 2 : b[2 * k - 1] = "end"}
<1>1. Len(b) \in Nat
  OBVIOUS
<1>2. CASE ends = {}
  BY <1>1, <1>2 DEF StillEnd
<1>3. CASE ends # {}
  <2>1. ends \subseteq Nat
    BY <1>1
  <2>2. Min(ends) \in ends
    BY <1>3, <2>1, MinOfNats, Zenon
  <2>3. StillEnd(b) = 2 * Min(ends)
    BY <1>3, Zenon DEF StillEnd
  <2>4. PICK k \in 2 .. Len(b) \div 2 : b[2 * k - 1] = "end" /\ StillEnd(b) = 2 * k
    BY <2>2, <2>3, Zenon
  <2> HIDE DEF ends
  <2>5. 2 * k \in 4 .. Len(b) /\ k \in Nat
    BY <1>1
  <2> QED
    BY <1>1, <2>4, <2>5
<1> QED
  BY <1>2, <1>3

(* Handing on a whole number of pairs keeps pairs whole; what was first    *)
(* stays first, and the last of what is added is last.                     *)
LEMMA HandedOn ==
    ASSUME NEW h \in Seq(Output), NEW a \in Seq(Output)
    PROVE  /\ h \o a \in Seq(Output) /\ Len(h \o a) = Len(h) + Len(a)
           /\ \A i \in 1 .. Len(h) : (h \o a)[i] = h[i]
           /\ \A i \in 1 .. Len(a) : (h \o a)[Len(h) + i] = a[i]
<1>1. /\ h \o a \in Seq(Output) /\ Len(h \o a) = Len(h) + Len(a)
      /\ \A i \in 1 .. Len(h) + Len(a) : (h \o a)[i] =
             IF i <= Len(h) THEN h[i] ELSE a[i - Len(h)]
  BY ConcatProperties
<1>2. Len(h) \in Nat /\ Len(a) \in Nat
  OBVIOUS
<1>3. \A i \in 1 .. Len(h) : (h \o a)[i] = h[i]
  BY <1>1, <1>2
<1>4. \A i \in 1 .. Len(a) : (h \o a)[Len(h) + i] = a[i]
  <2> TAKE i \in 1 .. Len(a)
  <2>1. Len(h) + i \in 1 .. Len(h) + Len(a) /\ ~ (Len(h) + i <= Len(h))
        /\ (Len(h) + i) - Len(h) = i
    BY <1>2
  <2> QED
    BY <1>1, <2>1
<1> QED
  BY <1>1, <1>3, <1>4

(* A sequence starts with two signature pieces.                            *)
LEMMA Signature ==
    ASSUME NEW s \in Seq(Output), Len(s) >= 2
    PROVE  SubSeq(s, 1, 2) = <<"sig", "sig">> <=> s[1] = "sig" /\ s[2] = "sig"
<1>1. 2 \in 0 .. Len(s)
  OBVIOUS
<1>2. /\ SubSeq(s, 1, 2) \in Seq(Output) /\ Len(SubSeq(s, 1, 2)) = 2
      /\ \A i \in 1 .. 2 : SubSeq(s, 1, 2)[i] = s[i]
  BY <1>1, CutSeq
<1>3. SubSeq(s, 1, 2)[1] = s[1] /\ SubSeq(s, 1, 2)[2] = s[2]
  BY <1>2
<1>4. /\ <<"sig", "sig">> \in Seq(Output) /\ Len(<<"sig", "sig">>) = 2
      /\ <<"sig", "sig">>[1] = "sig" /\ <<"sig", "sig">>[2] = "sig"
  BY DEF Output
<1>5. ASSUME s[1] = "sig", s[2] = "sig" PROVE SubSeq(s, 1, 2) = <<"sig", "sig">>
  <2>1. \A i \in 1 .. 2 : SubSeq(s, 1, 2)[i] = <<"sig", "sig">>[i]
    BY <1>3, <1>4, <1>5
  <2> QED
    BY <1>2, <1>4, <2>1, SeqEqual, Zenon
<1> QED
  BY <1>3, <1>4, <1>5, Zenon

(* One read: what comes out of the pipe.                                   *)
LEMMA ReadSome ==
    ASSUME TypeOK, NEW n \in 1 .. MaxRead, n <= Len(out)
    PROVE  /\ SubSeq(out, 1, n) \in Seq(Output)
           /\ SubSeq(out, n + 1, Len(out)) \in Seq(Output)
           /\ Len(SubSeq(out, n + 1, Len(out))) <= PipeSize
<1>1. out \in Seq(Output) /\ Len(out) <= PipeSize /\ PipeSize \in Nat /\ n \in Nat
  BY ToolAssumption DEF TypeOK
<1>2. n \in 0 .. Len(out) /\ Len(out) \in Nat
  BY <1>1
<1>3. /\ SubSeq(out, 1, n) \in Seq(Output)
      /\ SubSeq(out, n + 1, Len(out)) \in Seq(Output)
      /\ Len(SubSeq(out, n + 1, Len(out))) = Len(out) - n
  BY <1>1, <1>2, CutSeq
<1> QED
  BY <1>1, <1>2, <1>3

(* read_audio: whole samples go on and an odd piece waits, whatever a read *)
(* returned.                                                               *)
LEMMA SamplesFrame ==
    ASSUME TypeOK, FramingLosesNothing, mode = "audio", UNCHANGED mode,
           NEW pieces \in Seq(Output), got' = got \o pieces, Samples(pieces)
    PROVE  /\ handed' \in Seq(Output) /\ carry' \in Seq(Output)
           /\ FramingLosesNothing'
<1>1. /\ handed \in Seq(Output) /\ carry \in Seq(Output)
      /\ got = handed \o carry /\ Len(handed) % 2 = 0
  BY DEF TypeOK, FramingLosesNothing
<1> DEFINE have == carry \o pieces
           k == Len(have) \div 2
           whole == 2 * k
<1>2. have \in Seq(Output) /\ Len(have) \in Nat
  BY <1>1, ConcatProperties
<1>3. k \in Nat /\ whole \in 0 .. Len(have)
  BY <1>2
<1>4. /\ carry' = SubSeq(have, whole + 1, Len(have))
      /\ handed' = handed \o SubSeq(have, 1, whole)
  BY DEF Samples
<1>5. got' = handed \o have
  <2>1. \A s, t, u \in Seq(Output) : (s \o t) \o u = s \o (t \o u)
    BY ConcatAssociative, SMTT(60)
  <2> QED
    BY <1>1, <2>1, Zenon
<1> HIDE DEF have
<1>6. /\ SubSeq(have, 1, whole) \in Seq(Output) /\ Len(SubSeq(have, 1, whole)) = whole
      /\ carry' \in Seq(Output)
  BY <1>2, <1>3, <1>4, CutSeq
<1>7. handed' \in Seq(Output) /\ Len(handed') = Len(handed) + 2 * k
  BY <1>1, <1>4, <1>6, HandedOn
<1>8. handed' \o carry' = handed \o have
  BY <1>1, <1>2, <1>3, <1>4, MovedOn, Zenon
<1>9. Len(handed') % 2 = 0
  <2>1. Len(handed) \in Nat
    BY <1>1
  <2> HIDE DEF k
  <2> QED
    BY <1>1, <1>3, <1>7, <2>1
<1> QED
  BY <1>5, <1>6, <1>7, <1>8, <1>9 DEF FramingLosesNothing

(* collect_output and the buffer of stream_keyframes keep all they get.    *)
LEMMA CollectFrame ==
    ASSUME TypeOK, FramingLosesNothing, mode = "probe", UNCHANGED mode, carry = << >>,
           NEW pieces \in Seq(Output), got' = got \o pieces, Collect(pieces)
    PROVE  /\ handed' \in Seq(Output) /\ carry' \in Seq(Output)
           /\ FramingLosesNothing'
<1>1. handed \in Seq(Output) /\ carry \in Seq(Output) /\ got = handed \o carry
  BY DEF TypeOK, FramingLosesNothing
<1>2. handed' = handed \o pieces /\ carry' = << >>
  BY DEF Collect
<1>3. handed \o pieces \in Seq(Output)
  BY <1>1, HandedOn
<1>4. handed \o << >> = handed /\ (handed \o pieces) \o << >> = handed \o pieces
  BY <1>1, <1>3, ConcatEmptySeq
<1>5. got' = handed' \o carry'
  BY <1>1, <1>2, <1>4, Zenon
<1> QED
  BY <1>1, <1>2, <1>3, <1>5 DEF FramingLosesNothing

LEMMA FramesFrame ==
    ASSUME TypeOK, FramingLosesNothing, mode = "keyframes", UNCHANGED mode,
           NEW pieces \in Seq(Output), got' = got \o pieces, Frames(pieces)
    PROVE  /\ handed' \in Seq(Output) /\ carry' \in Seq(Output)
           /\ FramingLosesNothing'
<1>1. handed \in Seq(Output) /\ carry \in Seq(Output) /\ got = handed \o carry
  BY DEF TypeOK, FramingLosesNothing
<1>2. handed' = handed /\ carry' = carry \o pieces
  BY DEF Frames
<1>3. carry \o pieces \in Seq(Output)
  BY <1>1, HandedOn
<1>4. got' = handed' \o carry'
  <2>1. \A s, t, u \in Seq(Output) : (s \o t) \o u = s \o (t \o u)
    BY ConcatAssociative, SMTT(60)
  <2> QED
    BY <1>1, <1>2, <2>1, Zenon
<1> QED
  BY <1>1, <1>2, <1>3, <1>4 DEF FramingLosesNothing

(* emit_complete hands on one still, from its signature to the chunk with  *)
(* the IEND header, and keeps the bytes behind it.                         *)
LEMMA EmitFrame ==
    ASSUME TypeOK, FramingLosesNothing, mode = "keyframes", UNCHANGED <<mode, got>>,
           ~Malformed, StillEnd(carry) > 0,
           handed' = handed \o SubSeq(carry, 1, StillEnd(carry)),
           carry' = SubSeq(carry, StillEnd(carry) + 1, Len(carry))
    PROVE  /\ handed' \in Seq(Output) /\ carry' \in Seq(Output)
           /\ FramingLosesNothing'
<1> DEFINE e == StillEnd(carry)
           a == SubSeq(carry, 1, e)
<1>1. /\ handed \in Seq(Output) /\ carry \in Seq(Output)
      /\ got = handed \o carry /\ Len(handed) % 2 = 0
  BY DEF TypeOK, FramingLosesNothing
<1>2. Len(handed) \in Nat /\ Len(carry) \in Nat
  BY <1>1
<1>3. /\ e \in 0 .. Len(carry) /\ e >= 4 /\ carry[e - 1] = "end"
      /\ \E k \in Nat : e = 2 * k
  BY <1>1, StillEnds
<1>4. SubSeq(carry, 1, 2) = <<"sig", "sig">>
  BY <1>2, <1>3 DEF Malformed
<1>5. carry[1] = "sig" /\ carry[2] = "sig"
  BY <1>1, <1>2, <1>3, <1>4, Signature
<1> HIDE DEF e
<1>6. handed' = handed \o a /\ carry' = SubSeq(carry, e + 1, Len(carry))
  BY DEF e
<1>7. /\ a \in Seq(Output) /\ Len(a) = e /\ carry' \in Seq(Output)
      /\ \A i \in 1 .. e : a[i] = carry[i]
  <2>1. /\ a \in Seq(Output) /\ Len(a) = e
        /\ SubSeq(carry, e + 1, Len(carry)) \in Seq(Output)
        /\ \A i \in 1 .. e : a[i] = carry[i]
    BY <1>1, <1>3, CutSeq, ZenonT(60)
  <2> QED
    BY <1>6, <2>1, Zenon
<1>8. handed' \o carry' = handed \o carry
  BY <1>1, <1>3, <1>6, MovedOn, Zenon
<1> HIDE DEF a
<1>9. /\ handed' \in Seq(Output) /\ Len(handed') = Len(handed) + e
      /\ \A i \in 1 .. Len(handed) : handed'[i] = handed[i]
      /\ \A i \in 1 .. e : handed'[Len(handed) + i] = a[i]
  <2>1. /\ handed \o a \in Seq(Output) /\ Len(handed \o a) = Len(handed) + Len(a)
        /\ \A i \in 1 .. Len(handed) : (handed \o a)[i] = handed[i]
        /\ \A i \in 1 .. Len(a) : (handed \o a)[Len(handed) + i] = a[i]
    BY <1>1, <1>7, HandedOn, Zenon
  <2> QED
    BY <1>6, <1>7, <2>1, Zenon
<1>10. Len(handed') % 2 = 0
  <2>1. PICK k \in Nat : e = 2 * k
    BY <1>3, Zenon
  <2> QED
    BY <1>1, <1>2, <1>9, <2>1
<1>11. handed'[Len(handed') - 1] = "end"
  <2>1. e - 1 \in 1 .. e /\ Len(handed') - 1 = Len(handed) + (e - 1)
    BY <1>2, <1>3, <1>9
  <2> QED
    BY <1>3, <1>7, <1>9, <2>1, Zenon
<1>12. handed'[1] = "sig" /\ handed'[2] = "sig" /\ Len(handed') >= 2
  <2>1. CASE handed = << >>
    <3>1. Len(handed) = 0
      BY <2>1
    <3>2. handed'[0 + 1] = a[1] /\ handed'[0 + 2] = a[2]
      BY <1>3, <1>9, <3>1, SMTT(30)
    <3>3. a[1] = carry[1] /\ a[2] = carry[2]
      <4>1. 1 \in 1 .. e /\ 2 \in 1 .. e
        BY <1>2, <1>3
      <4> QED
        BY <1>7, <4>1, Zenon
    <3> QED
      BY <1>3, <1>5, <1>9, <3>1, <3>2, <3>3
  <2>2. CASE handed # << >>
    <3>1. Len(handed) >= 2
      <4>1. Len(handed) # 0
        BY <1>1, <2>2
      <4> QED
        BY <1>1, <1>2, <4>1
    <3>2. SubSeq(handed, 1, 2) = <<"sig", "sig">>
      BY <2>2 DEF FramingLosesNothing
    <3>3. handed[1] = "sig" /\ handed[2] = "sig"
      BY <1>1, <3>1, <3>2, Signature
    <3> QED
      BY <1>2, <1>3, <1>9, <3>1, <3>3
  <2> QED
    BY <2>1, <2>2, Zenon
<1>13. SubSeq(handed', 1, 2) = <<"sig", "sig">>
  BY <1>9, <1>12, Signature, Zenon
<1> QED
  BY <1>1, <1>7, <1>8, <1>9, <1>10, <1>11, <1>13, Zenon DEF FramingLosesNothing

(* A read that returns data, and the caller's share of the step.           *)
LEMMA PollOutFrames ==
    ASSUME IInv, PollOut
    PROVE  /\ out' \in Seq(Output) /\ Len(out') <= PipeSize /\ got' \in Seq(Output)
           /\ handed' \in Seq(Output) /\ carry' \in Seq(Output)
           /\ FramingLosesNothing'
           /\ mode = "probe" => carry' = << >>
           /\ pc' = "frame" => mode = "keyframes"
           /\ UNCHANGED <<mode, stop, inherited, child, query>>
           /\ \/ pc' \in {"read", "caller", "frame"} /\ result' = result
              \/ pc' = "close" /\ result' = "ToolError"
<1>1. TypeOK /\ FramingLosesNothing /\ Ending
  BY DEF IInv
<1>2. UNCHANGED <<mode, stop, inherited, child>>
  BY DEF PollOut, CallerOnly
<1>3. PICK n \in 1 .. MaxRead :
         /\ n <= Len(out)
         /\ got' = got \o SubSeq(out, 1, n)
         /\ CASE mode = "probe" -> Collect(SubSeq(out, 1, n))
              [] mode = "audio" -> Samples(SubSeq(out, 1, n))
              [] mode = "keyframes" -> Frames(SubSeq(out, 1, n))
         /\ out' = SubSeq(out, n + 1, Len(out))
  BY Zenon DEF PollOut
<1> DEFINE pieces == SubSeq(out, 1, n)
<1>4. /\ pieces \in Seq(Output) /\ out' \in Seq(Output) /\ Len(out') <= PipeSize
  BY <1>1, <1>3, ReadSome, Zenon
<1>5. got' = got \o pieces
  BY <1>3
<1>6. /\ mode = "probe" => Collect(pieces)
      /\ mode = "audio" => Samples(pieces)
      /\ mode = "keyframes" => Frames(pieces)
      /\ mode \in {"probe", "audio", "keyframes"}
  BY <1>1, <1>3, ToolAssumption, Zenon DEF TypeOK
<1> HIDE DEF pieces
<1>7. got' \in Seq(Output)
  BY <1>1, <1>4, <1>5, HandedOn DEF TypeOK
<1>8. CASE mode = "probe"
  <2>1. carry = << >> /\ Collect(pieces)
    BY <1>1, <1>6, <1>8 DEF Ending
  <2>2. handed' \in Seq(Output) /\ carry' \in Seq(Output) /\ FramingLosesNothing'
    BY <1>1, <1>2, <1>4, <1>5, <1>8, <2>1, CollectFrame, Zenon
  <2>3. /\ carry' = << >> /\ UNCHANGED query
        /\ \/ pc' = "read" /\ result' = result
           \/ pc' = "close" /\ result' = "ToolError"
    BY <2>1, Zenon DEF Collect, Leave
  <2> QED
    BY <1>2, <1>4, <1>7, <2>2, <2>3
<1>9. CASE mode = "audio"
  <2>1. Samples(pieces)
    BY <1>6, <1>9
  <2>2. handed' \in Seq(Output) /\ carry' \in Seq(Output) /\ FramingLosesNothing'
    BY <1>1, <1>2, <1>4, <1>5, <1>9, <2>1, SamplesFrame, Zenon
  <2>3. UNCHANGED <<query, result>> /\ pc' \in {"read", "caller"}
    BY <2>1 DEF Samples
  <2> QED
    BY <1>2, <1>4, <1>7, <1>9, <2>2, <2>3
<1>10. CASE mode = "keyframes"
  <2>1. Frames(pieces)
    BY <1>6, <1>10
  <2>2. handed' \in Seq(Output) /\ carry' \in Seq(Output) /\ FramingLosesNothing'
    BY <1>1, <1>2, <1>4, <1>5, <1>10, <2>1, FramesFrame, Zenon
  <2>3. UNCHANGED <<query, result>> /\ pc' = "frame"
    BY <2>1 DEF Frames
  <2> QED
    BY <1>2, <1>4, <1>7, <1>10, <2>2, <2>3
<1> QED
  BY <1>6, <1>8, <1>9, <1>10

LEMMA EmitStillFrames ==
    ASSUME IInv, EmitStill
    PROVE  /\ handed' \in Seq(Output) /\ carry' \in Seq(Output)
           /\ FramingLosesNothing'
           /\ UNCHANGED <<mode, stop, inherited, tool, child, out, err, got, query>>
           /\ \/ pc' \in {"read", "frame"} /\ result' = result
              \/ pc' = "close" /\ result' \in {"stopped", "DecodeError"}
<1>1. TypeOK /\ FramingLosesNothing /\ pc = "frame" /\ mode = "keyframes"
  BY DEF IInv, EmitStill, Ending
<1>2. UNCHANGED <<mode, stop, inherited, tool, child, out, err, got, query>>
  BY DEF EmitStill, CallerOnly, Leave
<1>3. \/ pc' \in {"read", "frame"} /\ result' = result
      \/ pc' = "close" /\ result' \in {"stopped", "DecodeError"}
  BY <1>1 DEF EmitStill, Leave
<1>4. CASE UNCHANGED <<handed, carry>>
  BY <1>1, <1>2, <1>3, <1>4 DEF TypeOK, FramingLosesNothing
<1>5. CASE /\ ~Malformed /\ StillEnd(carry) > 0
           /\ handed' = handed \o SubSeq(carry, 1, StillEnd(carry))
           /\ carry' = SubSeq(carry, StillEnd(carry) + 1, Len(carry))
  <2>1. handed' \in Seq(Output) /\ carry' \in Seq(Output) /\ FramingLosesNothing'
    BY <1>1, <1>2, <1>5, EmitFrame
  <2> QED
    BY <1>2, <1>3, <2>1
<1> QED
  BY <1>4, <1>5, Zenon DEF EmitStill

(* The two steps keep the owner of the child as they keep the data.        *)
LEMMA DataControl ==
    ASSUME IInv, PollOut \/ EmitStill
    PROVE  Control'
<1>1. TypeOK /\ Life /\ Ongoing
  BY DEF IInv
<1>2. pc \in Reading
  BY Zenon DEF Reading, PollOut, EmitStill
<1>3. child.state \in {"forked", "running", "zombie"} /\ ~tool.reaped /\ tool.out
  BY <1>1, <1>2 DEF Life, Exists
<1>4. /\ tool' \in Tools /\ tool'.out = tool.out /\ tool'.reaped = tool.reaped
      /\ err' \in 0 .. PipeSize
  <2>1. CASE PollOut
    BY <1>1, <2>1, DrainBesideTool DEF PollOut
  <2>2. CASE EmitStill
    <3>1. tool' = tool /\ err' = err
      BY <2>2 DEF EmitStill
    <3> QED
      BY <1>1, <3>1 DEF TypeOK
  <2> QED
    BY <2>1, <2>2
<1>5. /\ out' \in Seq(Output) /\ Len(out') <= PipeSize /\ got' \in Seq(Output)
      /\ handed' \in Seq(Output) /\ carry' \in Seq(Output)
      /\ UNCHANGED <<mode, stop, inherited, child, query>>
      /\ \/ pc' \in {"read", "caller", "frame"} /\ result' = result
         \/ pc' = "close" /\ result' \in {"stopped", "ToolError", "DecodeError"}
  <2>1. CASE PollOut
    BY <2>1, PollOutFrames
  <2>2. CASE EmitStill
    BY <1>1, <2>2, EmitStillFrames DEF TypeOK
  <2> QED
    BY <2>1, <2>2
<1>6. TypeOK'
  BY <1>1, <1>4, <1>5 DEF TypeOK
<1>7. Life' /\ Ongoing'
  BY <1>1, <1>2, <1>3, <1>4, <1>5 DEF Life, Ongoing, Exists, Gone, Reading, None
<1> QED
  BY <1>6, <1>7 DEF Control

(* What is read is handed on or waits, at every step.                      *)
LEMMA FramingKeeps == ASSUME IInv, [Next]_vars PROVE FramingLosesNothing'
<1>1. FramingLosesNothing /\ Ending
  BY DEF IInv
<1>2. CASE PollOut
  BY <1>2, PollOutFrames
<1>3. CASE EmitStill
  BY <1>3, EmitStillFrames
<1>4. CASE Construct
  <2>1. got' = << >> /\ handed' = << >> /\ carry' = << >> /\ mode' = mode
    BY <1>1, <1>4 DEF Construct, Ending
  <2>2. << >> \o << >> = << >> /\ Len(<< >>) % 2 = 0
    OBVIOUS
  <2> QED
    BY <2>1, <2>2 DEF FramingLosesNothing
<1>5. CASE UNCHANGED <<mode, got, handed, carry>>
  BY <1>1, <1>5 DEF FramingLosesNothing
<1>6. UNCHANGED vars => UNCHANGED <<mode, got, handed, carry>>
  BY DEF vars
<1>7. Exec \/ ChildSteps \/ ChildExits \/ KilledDies \/ OtherForks \/ OtherExecs
         \/ StopRequested \/ IdleExpires => UNCHANGED <<mode, got, handed, carry>>
  BY DEF Exec, ChildSteps, ChildExits, KilledDies, OtherForks, OtherExecs, StopRequested,
         IdleExpires, ChildOnly, CallerOnly, NoData, data
<1>8. Fork \/ CloseWriteEnds \/ ReadHead \/ PollSlice \/ ReadFails \/ PollErr \/ PollEnd
         \/ ReadAgain \/ DrainLast \/ GraceOver \/ Lingered \/ CloseReadEnds \/ AwaitChild
      => UNCHANGED <<mode, got, handed, carry>>
  BY DEF Fork, CloseWriteEnds, ReadHead, PollSlice, ReadFails, PollErr, PollEnd, ReadAgain,
         DrainLast, GraceOver, Lingered, CloseReadEnds, AwaitChild, CallerOnly, NoData, data
<1> QED
  BY <1>2, <1>3, <1>4, <1>5, <1>6, <1>7, <1>8 DEF Next, Child, Caller, Returned
-----------------------------------------------------------------------------
(* What an exit code of 0 says.                                            *)

(* Ended processes: only the one that came to the end of its script may    *)
(* have its own exit code.                                                 *)
LEMMA EndedChild ==
    ASSUME NEW c \in Children, NEW n \in Int
    PROVE  /\ Ended(c, n).state = "zombie" /\ Ended(c, n).todo = c.todo
           /\ Ended(c, n).code = n /\ Ended(c, n).out = FALSE
BY DEF Ended, Children

(* The steps the child takes by itself.                                    *)
LEMMA ChildScript ==
    ASSUME TypeOK, Script, Exec \/ ChildSteps \/ ChildExits \/ KilledDies
    PROVE  /\ Script'
           /\ child'.out => child.out
           /\ ~child.out => out' = out
<1>1. child \in Children /\ child.todo \in Seq(Pieces) /\ child.code \in Int
      /\ child.out \in BOOLEAN
  BY FieldTypes
<1>2. ExecFailed \in Int /\ ExecFailed # 0 /\ Killed \in Int /\ Killed # 0
  BY DEF ExecFailed, Killed
<1>3. ASSUME NEW n \in Int, child' = Ended(child, n), n # 0 \/ child.todo = << >>
      PROVE  Script' /\ ~child'.out
  <2>1. /\ child'.state = "zombie" /\ child'.todo = child.todo /\ child'.code = n
        /\ child'.out = FALSE
    BY <1>1, <1>3, EndedChild, Zenon
  <2> QED
    BY <1>3, <2>1 DEF Script
<1>4. CASE Exec
  <2>1. out' = out
    BY <1>4 DEF Exec
  <2>2. CASE child' = [child EXCEPT !.state = "running"]
    <3>1. /\ child'.state = "running" /\ child'.todo = child.todo /\ child'.out = child.out
      BY <1>1, <2>2 DEF Children
    <3> QED
      BY <1>4, <2>1, <3>1 DEF Script, Exec
  <2> QED
    BY <1>2, <1>3, <1>4, <2>1, <2>2 DEF Exec
<1>5. CASE ChildExits
  <2>1. /\ out' = out /\ child' = Ended(child, child.code) /\ child.todo = << >>
    BY <1>5 DEF ChildExits
  <2> QED
    BY <1>1, <1>3, <2>1
<1>6. CASE KilledDies
  <2>1. /\ out' = out /\ child' = Ended(child, Killed)
    BY <1>6 DEF KilledDies
  <2> QED
    BY <1>2, <1>3, <2>1
<1>7. CASE ChildSteps
  <2>1. child.state = "running" /\ child.todo # << >>
    BY <1>7 DEF ChildSteps
  <2>2. /\ child.todo[1] = Head(child.todo) /\ Tail(child.todo) \in Seq(Pieces)
        /\ Len(child.todo) \in Nat /\ Len(child.todo) > 0
        /\ Len(Tail(child.todo)) = Len(child.todo) - 1
        /\ \A i \in 1 .. Len(Tail(child.todo)) : Tail(child.todo)[i] = child.todo[i + 1]
    BY <1>1, <2>1, HeadTailProperties
  <2>3. /\ DOMAIN child.todo = 1 .. Len(child.todo)
        /\ DOMAIN Tail(child.todo) = 1 .. Len(child.todo) - 1
    BY <1>1, <2>2
  <2>4. CASE child' = Ended(child, Killed) /\ out' = out
    BY <1>2, <1>3, <2>4
  <2>5. ASSUME NEW o \in BOOLEAN, child'.state = "running", child'.todo = Tail(child.todo),
               child'.out = o, o => child.out,
               ~o => ~child.out \/ Head(child.todo) = "close"
        PROVE  Script'
    <3>1. \A i, j \in DOMAIN child.todo :
             i < j /\ child.todo[i] = "close" => child.todo[j] \notin Output
      BY DEF Script
    <3>2. \A i, j \in DOMAIN Tail(child.todo) :
             i < j /\ Tail(child.todo)[i] = "close" => Tail(child.todo)[j] \notin Output
      <4> TAKE i, j \in DOMAIN Tail(child.todo)
      <4>1. i + 1 \in DOMAIN child.todo /\ j + 1 \in DOMAIN child.todo
            /\ (i < j => i + 1 < j + 1)
        BY <2>2, <2>3
      <4>2. Tail(child.todo)[i] = child.todo[i + 1] /\ Tail(child.todo)[j] = child.todo[j + 1]
        BY <2>2, <2>3
      <4> QED
        BY <3>1, <4>1, <4>2
    <3>3. ASSUME ~o PROVE \A j \in DOMAIN Tail(child.todo) : Tail(child.todo)[j] \notin Output
      <4> TAKE j \in DOMAIN Tail(child.todo)
      <4>1. /\ 1 \in DOMAIN child.todo /\ j + 1 \in DOMAIN child.todo /\ 1 < j + 1
            /\ Tail(child.todo)[j] = child.todo[j + 1]
        BY <2>2, <2>3
      <4>2. CASE Head(child.todo) = "close"
        BY <2>2, <3>1, <4>1, <4>2
      <4>3. CASE ~child.out
        <5>1. \A i \in DOMAIN child.todo : child.todo[i] \notin Output
          BY <2>1, <4>3 DEF Script
        <5> QED
          BY <4>1, <5>1
      <4> QED
        BY <2>5, <3>3, <4>2, <4>3
    <3> QED
      BY <2>5, <3>2, <3>3 DEF Script
  <2>6. CASE /\ Head(child.todo) = "close" /\ out' = out
             /\ child' = [child EXCEPT !.todo = Tail(child.todo), !.out = FALSE]
    <3>1. child'.state = "running" /\ child'.todo = Tail(child.todo) /\ child'.out = FALSE
      BY <1>1, <2>1, <2>6 DEF Children
    <3> QED
      BY <2>5, <2>6, <3>1, Zenon
  <2>7. CASE /\ child' = [child EXCEPT !.todo = Tail(child.todo)]
             /\ out' = out \/ Head(child.todo) \in Output
    <3>1. /\ child'.state = "running" /\ child'.todo = Tail(child.todo)
          /\ child'.out = child.out
      BY <1>1, <2>1, <2>7 DEF Children
    <3>2. ~child.out => Head(child.todo) \notin Output
      BY <2>1, <2>2, <2>3 DEF Script
    <3> QED
      BY <1>1, <2>5, <2>7, <3>1, <3>2
  <2>8. Head(child.todo) \in Pieces
    BY <1>1, <2>1, HeadTailProperties
  <2> QED
    BY <1>1, <1>7, <2>4, <2>6, <2>7, <2>8 DEF ChildSteps, Pieces, Children
<1> QED
  BY <1>4, <1>5, <1>6, <1>7

(* The steps of the other actors leave the script alone.                   *)
LEMMA OthersChild ==
    ASSUME Control, Next,
           ~Exec, ~ChildSteps, ~ChildExits, ~KilledDies, ~Fork
    PROVE  /\ child'.todo = child.todo /\ child'.code = child.code /\ child'.out = child.out
           /\ child'.state # child.state =>
                 child.state = "zombie" /\ child'.state = "reaped"
<1>1. child \in Children /\ TypeOK /\ Life
  BY DEF Control, TypeOK
<1>2. CASE UNCHANGED child
  BY <1>2
<1>3. CASE child' = Signalled(child) /\ pc \in {"read", "grace"}
  <2>1. child.state # "reaped"
    BY <1>1, <1>3 DEF Life, Exists, Reading
  <2> QED
    BY <1>1, <1>3, <2>1, SignalledChild
<1>4. CASE child' = Signalled(child) /\ pc = "close" /\ ~tool.reaped
  <2>1. child.state # "reaped"
    BY <1>1, <1>4 DEF Life
  <2> QED
    BY <1>1, <1>4, <2>1, SignalledChild
<1>5. CASE child' = Reaped(child) /\ child.state = "zombie"
  BY <1>1, <1>5, ReapedChild
<1>6. \/ UNCHANGED child
      \/ ReadHead \/ GraceOver \/ Lingered \/ CloseReadEnds \/ AwaitChild
  BY Zenon DEF Next, Child, Caller, Returned, vars, OtherForks, OtherExecs, StopRequested,
         IdleExpires, Construct, CloseWriteEnds, PollSlice, ReadFails, PollErr, PollOut,
         PollEnd, ReadAgain, EmitStill, DrainLast
<1> QED
  BY <1>2, <1>3, <1>4, <1>5, <1>6
     DEF ReadHead, GraceOver, Lingered, Reap, CloseReadEnds, AwaitChild

LEMMA ScriptKeeps == ASSUME IInv, [Next]_vars PROVE Script'
<1>1. TypeOK /\ Script /\ Control
  BY DEF IInv, Control
<1>2. CASE Exec \/ ChildSteps \/ ChildExits \/ KilledDies
  BY <1>1, <1>2, ChildScript
<1>3. CASE Fork
  <2>1. CASE UNCHANGED child
    BY <1>1, <2>1 DEF Script
  <2>2. ASSUME NEW s \in Scripts[mode],
               child' = [state |-> "forked", todo |-> s.pieces, code |-> s.code,
                         out |-> TRUE, err |-> TRUE, killed |-> FALSE]
        PROVE  Script'
    <3>1. \A i, j \in DOMAIN s.pieces :
             i < j /\ s.pieces[i] = "close" => s.pieces[j] \notin Output
      BY <1>1, ToolAssumption DEF TypeOK
    <3>2. child'.todo = s.pieces /\ child'.state = "forked" /\ child'.out
      BY <2>2
    <3> QED
      BY <3>1, <3>2 DEF Script
  <2> QED
    BY <1>3, <2>1, <2>2 DEF Fork
<1>4. CASE UNCHANGED vars
  BY <1>1, <1>4 DEF Script, vars
<1>5. CASE Next /\ ~Exec /\ ~ChildSteps /\ ~ChildExits /\ ~KilledDies /\ ~Fork
  <2>1. /\ child'.todo = child.todo /\ child'.code = child.code /\ child'.out = child.out
        /\ child'.state # child.state =>
              child.state = "zombie" /\ child'.state = "reaped"
    BY <1>1, <1>5, OthersChild
  <2> QED
    BY <1>1, <2>1 DEF Script
<1> QED
  BY <1>2, <1>3, <1>4, <1>5

(* The end of the stream, the exit code and the result agree.              *)
LEMMA EndingKeeps == ASSUME IInv, [Next]_vars PROVE Ending'
<1>1. TypeOK /\ Life /\ Ongoing /\ Script /\ Ending
  BY DEF IInv
<1>2. child \in Children /\ child.out \in BOOLEAN
  BY <1>1, FieldTypes
<1>3. CASE Exec \/ ChildSteps \/ ChildExits \/ KilledDies
  <2>1. UNCHANGED <<pc, mode, carry, result>>
    BY <1>3 DEF Exec, ChildSteps, ChildExits, KilledDies, ChildOnly, data
  <2>2. child.state # "reaped"
    BY <1>3 DEF Exec, ChildSteps, ChildExits, KilledDies, Alive
  <2>3. (child'.out => child.out) /\ (~child.out => out' = out)
    BY <1>1, <1>3, ChildScript
  <2> QED
    BY <1>1, <2>1, <2>2, <2>3 DEF Ending
<1>4. CASE OtherForks \/ OtherExecs \/ StopRequested \/ IdleExpires \/ UNCHANGED vars
  <2>1. UNCHANGED <<pc, mode, carry, result, out, child>>
    BY <1>4 DEF OtherForks, OtherExecs, StopRequested, IdleExpires, vars, CallerOnly, NoData,
           data
  <2> QED
    BY <1>1, <2>1 DEF Ending, OkMeansWhole
<1>5. CASE Construct \/ Fork \/ CloseWriteEnds
  <2>1. /\ UNCHANGED <<mode, carry>> /\ pc \in {"construct", "fork", "parent"}
        /\ pc' \in {"done", "fork", "parent", "read"}
        /\ pc' \in {"fork"} => pc = "construct"
        /\ result' \in {result, "Cancelled", "ToolError"}
    BY <1>5 DEF Construct, Fork, CloseWriteEnds, CallerOnly, NoData, data
  <2>2. result = None
    BY <1>1, <2>1 DEF Ongoing, Reading
  <2> QED
    BY <1>1, <2>1, <2>2 DEF Ending, None
<1>6. CASE ReadHead \/ PollSlice \/ ReadFails \/ PollErr \/ ReadAgain
  <2>1. /\ UNCHANGED <<mode, carry>> /\ pc \in {"read", "poll", "caller"}
        /\ pc' \in {"read", "poll", "close"}
        /\ result' \in {result, "Cancelled", "ToolError", "stopped"}
    BY <1>6 DEF ReadHead, PollSlice, ReadFails, PollErr, ReadAgain, Leave, CallerOnly, NoData,
                data
  <2>2. result = None
    BY <1>1, <2>1 DEF Ongoing, Reading
  <2> QED
    BY <1>1, <2>1, <2>2 DEF Ending, None
<1>7. CASE PollEnd
  <2>1. /\ UNCHANGED <<mode, carry, child, out>> /\ pc = "poll" /\ out = << >> /\ ~child.out
        /\ \/ pc' = "close" /\ result' = "DecodeError"
           \/ pc' = "drain" /\ result' = result /\ (mode = "audio" => carry = << >>)
    BY <1>7 DEF PollEnd, OutputOver, Leave, CallerOnly, data
  <2>2. result = None
    BY <1>1, <2>1 DEF Ongoing, Reading
  <2> QED
    BY <1>1, <2>1, <2>2 DEF Ending, None
<1>8. CASE PollOut \/ EmitStill
  <2>1. /\ pc \in {"poll", "frame"}
        /\ mode' = mode /\ (mode = "probe" => carry' = << >>)
        /\ pc' = "frame" => mode = "keyframes"
        /\ \/ pc' \in {"read", "caller", "frame"} /\ result' = result
           \/ pc' = "close" /\ result' \in {"ToolError", "stopped", "DecodeError"}
    <3>1. CASE PollOut
      BY <3>1, PollOutFrames, Zenon DEF PollOut
    <3>2. CASE EmitStill
      <4>1. pc = "frame" /\ mode = "keyframes"
        BY <1>1, <3>2 DEF EmitStill, Ending
      <4> QED
        BY <3>2, <4>1, EmitStillFrames
    <3> QED
      BY <1>8, <3>1, <3>2
  <2>2. result = None
    BY <1>1, <2>1 DEF Ongoing, Reading
  <2> QED
    BY <2>1, <2>2 DEF Ending, None
<1>9. CASE DrainLast
  <2>1. UNCHANGED <<mode, carry, child, out, result>> /\ pc = "drain" /\ pc' = "grace"
    BY <1>9 DEF DrainLast, CallerOnly, data
  <2>2. result = None
    BY <1>1, <2>1 DEF Ongoing, Reading
  <2> QED
    BY <1>1, <2>1, <2>2 DEF Ending, None
<1>10. CASE GraceOver \/ Lingered
  <2>1. UNCHANGED <<mode, carry, out>> /\ pc \in {"grace", "linger"}
    BY <1>10 DEF GraceOver, Lingered, CallerOnly, NoData, data
  <2>2. /\ result = None /\ out = << >> /\ ~child.out
        /\ mode \in {"audio", "probe"} => carry = << >>
    BY <1>1, <2>1 DEF Ongoing, Reading, Ending
  <2>3. CASE /\ child.state # "zombie" /\ child' = Signalled(child) /\ pc' = "linger"
             /\ result' = result
    <3>1. child.state # "reaped"
      BY <1>1, <2>1 DEF Life, Exists, Reading
    <3>2. child'.out = child.out
      BY <1>2, <2>3, <3>1, SignalledChild
    <3> QED
      BY <2>1, <2>2, <2>3, <3>2 DEF Ending, None
  <2>4. CASE Reap
    <3>1. /\ child.state = "zombie" /\ child'.state = "reaped" /\ child'.todo = child.todo
          /\ child'.code = child.code
      BY <1>2, <2>4, ReapedChild DEF Reap
    <3>2. /\ pc' = "close"
          /\ result' = "ok" => /\ child.code = 0
                               /\ mode = "keyframes" => carry = << >>
      BY <2>2, <2>4 DEF Reap, Verdict, Leave, None
    <3>3. child.code = 0 => child.todo = << >>
      BY <1>1, <3>1 DEF Script
    <3>4. mode \in {"probe", "audio", "keyframes"}
      BY <1>1, ToolAssumption DEF TypeOK
    <3>5. result' = "ok" => OkMeansWhole'
      BY <2>1, <2>2, <3>1, <3>2, <3>3, <3>4 DEF OkMeansWhole
    <3> QED
      BY <2>1, <2>2, <3>1, <3>2, <3>5 DEF Ending
  <2> QED
    BY <1>10, <2>3, <2>4 DEF GraceOver, Lingered
<1>11. CASE CloseReadEnds
  <2>1. /\ UNCHANGED <<mode, carry, out, result>> /\ pc = "close"
        /\ pc' \in {"construct", "done", "wait"}
        /\ pc' = "construct" => result = None
        /\ tool.reaped => UNCHANGED child /\ pc' # "wait"
    BY <1>11 DEF CloseReadEnds, CallerOnly, NoData, data
  <2>2. result = None => mode = "probe"
    BY <1>1, <2>1 DEF Ongoing
  <2>3. result = "ok" => UNCHANGED child /\ pc' # "wait" /\ pc' # "construct"
    BY <1>1, <2>1 DEF Life, Ending, None
  <2> QED
    BY <1>1, <2>1, <2>2, <2>3 DEF Ending, OkMeansWhole
<1>12. CASE AwaitChild
  <2>1. UNCHANGED <<mode, carry, out, result>> /\ pc = "wait" /\ pc' = "done"
    BY <1>12 DEF AwaitChild, CallerOnly, NoData, data
  <2> QED
    BY <1>1, <2>1 DEF Ending
<1> QED
  BY <1>3, <1>4, <1>5, <1>6, <1>7, <1>8, <1>9, <1>10, <1>11, <1>12
     DEF Next, Child, Caller, Returned
-----------------------------------------------------------------------------
(* The invariant, and what follows.                                        *)

LEMMA InitIInv == Init => IInv
<1> SUFFICES ASSUME Init PROVE IInv
  OBVIOUS
<1>1. << >> \in Seq(Output) /\ << >> \in Seq(Pieces) /\ Len(<< >>) = 0
  OBVIOUS
<1>2. 0 \in 0 .. PipeSize /\ 1 \in 0 .. Queries /\ Queries \in 0 .. Queries /\ Queries >= 1
  BY ToolAssumption
<1>3. child \in Children /\ child.state = None /\ child.todo = << >>
  BY <1>1 DEF Init, NoChild, Children, None
<1>4. tool \in Tools /\ ~tool.out /\ ~tool.err
  BY DEF Init, NoTool, Tools
<1>5. /\ query \in 0 .. Queries /\ query >= 1
      /\ Len(out) <= PipeSize
  BY <1>1, <1>2, ToolAssumption DEF Init
<1>6. TypeOK
  BY <1>1, <1>2, <1>3, <1>4, <1>5, Zenon DEF Init, TypeOK
<1>7. Life /\ Ongoing
  BY <1>3, <1>4, <1>5 DEF Init, Life, Ongoing, Gone, Reading
<1>8. Script /\ Ending
  BY <1>3 DEF Init, Script, Ending, None
<1>9. FramingLosesNothing
  <2>1. << >> \o << >> = << >> /\ Len(<< >>) % 2 = 0
    OBVIOUS
  <2> QED
    BY <2>1 DEF Init, FramingLosesNothing
<1> QED
  BY <1>6, <1>7, <1>8, <1>9 DEF IInv

LEMMA NextIInv == IInv /\ [Next]_vars => IInv'
<1> SUFFICES ASSUME IInv, [Next]_vars PROVE IInv'
  OBVIOUS
<1>1. Control
  BY DEF IInv, Control
<1>2. CASE UNCHANGED vars
  <2>1. TypeOK'
    BY <1>1, <1>2 DEF Control, TypeOK, vars
  <2>2. Life' /\ Ongoing'
    BY <1>1, <1>2 DEF Control, Life, Ongoing, Exists, Gone, vars
  <2> QED
    BY <2>1, <2>2, FramingKeeps, ScriptKeeps, EndingKeeps DEF IInv
<1>3. CASE Next
  <2>1. Control'
    BY <1>1, <1>2, <1>3, AroundControl, StartControl, ReadControl, ReapControl, DataControl
       DEF Next, Child, Caller, Returned, IInv, Control
  <2> QED
    BY <2>1, FramingKeeps, ScriptKeeps, EndingKeeps DEF IInv, Control
<1> QED
  BY <1>2, <1>3

(* The conjuncts of IInv hold throughout every call of VideoDemux.         *)
THEOREM ToolInvariant == Spec => []IInv
<1>1. Init => IInv
  BY InitIInv
<1>2. IInv /\ [Next]_vars => IInv'
  BY NextIInv
<1> QED
  BY <1>1, <1>2, PTL DEF Spec

(* However the call ends, the child is reaped and both pipes are closed,   *)
(* and no signal goes to a pid that has been given back (reaped_ in        *)
(* wait_exit and ~ToolProcess).                                            *)
THEOREM ToolReapedOnce == Spec => []ReapedOnce
<1>1. IInv => ReapedOnce
  BY DEF IInv, ReapedOnce, TypeOK, Children, Life, Gone, None
<1> QED
  BY <1>1, ToolInvariant, PTL

(* The pieces handed on and the piece that waits are the pieces read, in   *)
(* order, and samples, chunks and stills are whole (partial_sample in      *)
(* read_audio, emit_complete).                                             *)
THEOREM ToolFramingLosesNothing == Spec => []FramingLosesNothing
<1>1. IInv => FramingLosesNothing
  BY DEF IInv
<1> QED
  BY <1>1, ToolInvariant, PTL

(* A call that ends well has handed on all its child wrote, and the child  *)
(* ended by itself with exit code 0 (wait_exit, close_audio).              *)
THEOREM ToolOkMeansWhole == Spec => []OkMeansWhole
<1>1. IInv => OkMeansWhole
  BY Zenon DEF IInv, Ending, OkMeansWhole
<1> QED
  BY <1>1, ToolInvariant, PTL
=============================================================================
