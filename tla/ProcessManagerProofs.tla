----------------------- MODULE ProcessManagerProofs -----------------------
(***************************************************************************)
(* ChildrenBounded and ExitMeansAllOutput for any number of sessions and   *)
(* calls, any limit and any amount of output.  LifeInv orders the life of  *)
(* a session: its output ends after the child and its descendants, cmd.Wait *)
(* returns after the output has ended, and its slot is freed after that.   *)
(* FlowInv says where a chunk of output can be.  CountInv says that active *)
(* is the number of sessions whose slot has not been freed.                *)
(***************************************************************************)
EXTENDS ProcessManager, OutputRing, FiniteSetTheorems, TLAPS

Waited == {"report", "uncount", "keep", "gone"}
Held == {p \in Procs : waiter[p] \in {"wait", "report", "uncount"}}

LifeInv ==
    /\ child \in [Procs -> {"none", "running", "dead"}]
    /\ left \in [Procs -> BOOLEAN]
    /\ copier \in [Procs -> {"reading", "storing", "eof"}]
    /\ waiter \in [Procs -> {"none", "wait", "report", "uncount", "keep", "gone"}]
    /\ exited \in [Procs -> BOOLEAN]
    /\ \A p \in Procs :
           /\ waiter[p] = "none" <=> child[p] = "none"
           /\ child[p] = "none" => ~left[p] /\ copier[p] = "reading"
           /\ copier[p] = "eof" => child[p] = "dead" /\ ~left[p]
           /\ waiter[p] \in Waited => copier[p] = "eof"
           /\ exited[p] => waiter[p] \in Waited

CallInv ==
    /\ op \in [Ops -> {"idle", "read", "write", "writing", "terminate"}]
    /\ on \in [Ops -> Procs \cup {Nobody}]
    /\ \A p \in procs : p \in Procs /\ waiter[p] # "none"
    /\ \A o \in Ops : op[o] # "idle" => on[o] \in Procs /\ waiter[on[o]] # "none"

FlowInv ==
    /\ pipe \in [Procs -> Nat] /\ wrote \in [Procs -> Nat] /\ stored \in [Procs -> Nat]
    /\ \A p \in Procs :
           /\ copier[p] = "storing" => wrote[p] = stored[p] + pipe[p] + 1
           /\ copier[p] # "storing" => wrote[p] = stored[p] + pipe[p]
           /\ copier[p] = "eof" => pipe[p] = 0

CountInv == active = Cardinality(Held) /\ active <= MaxProcs

-----------------------------------------------------------------------------
LEMMA LifeInvInit == Init => LifeInv
BY DEF Init, LifeInv, Waited

LEMMA LifeInvNext ==
    ASSUME LifeInv, CallInv, [Next]_vars
    PROVE  LifeInv'
<1> USE DEF LifeInv, Waited, childVars, sessVars, opVars
<1>1. ASSUME NEW p \in Procs, Start(p) PROVE LifeInv'
  BY <1>1 DEF Start
<1>2. ASSUME NEW p \in Procs, WaitStep(p) PROVE LifeInv'
  <2>1. CASE WaitReturns(p)
    BY <2>1 DEF WaitReturns
  <2>2. CASE ReportExit(p)
    BY <2>2 DEF ReportExit
  <2>3. CASE Uncount(p)
    BY <2>3 DEF Uncount
  <2> HIDE DEF LifeInv
  <2> QED
    BY <1>2, <2>1, <2>2, <2>3 DEF WaitStep
<1>3. ASSUME NEW p \in Procs, Forget(p) \/ RuntimeLimit(p) PROVE LifeInv'
  BY <1>3 DEF Forget, RuntimeLimit
<1>4. ASSUME NEW p \in Procs, KillChild(p) \/ ChildExits(p) PROVE LifeInv'
  <2>1. CASE KillChild(p)
    BY <2>1 DEF KillChild
  <2>2. CASE ChildExits(p)
    BY ZenonT(30), <2>2 DEF ChildExits
  <2> HIDE DEF LifeInv
  <2> QED
    BY <1>4, <2>1, <2>2
<1>5. ASSUME NEW p \in Procs, ChildWrites(p) \/ ChildForks(p) PROVE LifeInv'
  BY ZenonT(30), <1>5 DEF ChildWrites, ChildForks
<1>6. ASSUME NEW p \in Procs, CopyStep(p) PROVE LifeInv'
  BY <1>6 DEF CopyStep, CopyRead, CopyStore, Alive
<1>7. ASSUME NEW o \in Ops, NEW p \in Procs, Begin(o, p) PROVE LifeInv'
  BY <1>7 DEF Begin
<1>8. ASSUME NEW o \in Ops, Terminate(o) PROVE LifeInv'
  BY <1>8 DEF Terminate, CallInv
<1>9. ASSUME NEW o \in Ops,
             ReadOutput(o) \/ WriteBegin(o) \/ WriteBroken(o) \/ WriteAccepted(o)
      PROVE LifeInv'
  BY <1>9 DEF ReadOutput, WriteBegin, WriteBroken, WriteAccepted
<1>10. CASE UNCHANGED vars
  BY <1>10 DEF vars
<1> HIDE DEF LifeInv
<1> QED
  BY <1>1, <1>2, <1>3, <1>4, <1>5, <1>6, <1>7, <1>8, <1>9, <1>10 DEF Next, OpStep, AllOver

LEMMA CallInvInit == Init => CallInv
BY DEF Init, CallInv

LEMMA CallInvNext ==
    ASSUME LifeInv, CallInv, [Next]_vars
    PROVE  CallInv'
<1> USE DEF CallInv, LifeInv, childVars, sessVars, opVars
<1>1. ASSUME NEW p \in Procs, Start(p) \/ Forget(p) PROVE CallInv'
  BY <1>1 DEF Start, Forget
<1>2. ASSUME NEW p \in Procs, WaitStep(p) PROVE CallInv'
  BY SMTT(30), <1>2 DEF WaitStep, WaitReturns, ReportExit, Uncount
<1>3. ASSUME NEW p \in Procs,
             \/ RuntimeLimit(p) \/ KillChild(p) \/ ChildExits(p)
             \/ ChildWrites(p) \/ ChildForks(p) \/ CopyStep(p)
      PROVE  CallInv'
  BY <1>3 DEF RuntimeLimit, KillChild, ChildExits, ChildWrites, ChildForks, CopyStep, CopyRead, CopyStore
<1>4. ASSUME NEW o \in Ops, NEW p \in Procs, Begin(o, p) PROVE CallInv'
  BY <1>4 DEF Begin
<1>5. ASSUME NEW o \in Ops, OpStep(o) \/ WriteAccepted(o) PROVE CallInv'
  BY <1>5 DEF OpStep, Terminate, ReadOutput, WriteBegin, WriteBroken, WriteAccepted, Return
<1>6. CASE UNCHANGED vars
  BY <1>6 DEF vars
<1> HIDE DEF CallInv
<1> QED
  BY <1>1, <1>2, <1>3, <1>4, <1>5, <1>6 DEF Next, AllOver

-----------------------------------------------------------------------------
(* Output *)

LEMMA FlowInvInit == Init => FlowInv
BY SMTT(30) DEF Init, FlowInv

LEMMA FlowInvNext ==
    ASSUME LifeInv, CallInv, FlowInv, [Next]_vars
    PROVE  FlowInv'
<1> USE ProcAssumption DEF FlowInv, childVars, sessVars, opVars
<1>0. /\ copier \in [Procs -> {"reading", "storing", "eof"}]
      /\ \A p \in Procs : Alive(p) => copier[p] # "eof"
  BY DEF LifeInv, Alive
<1>1. ASSUME NEW p \in Procs, ChildWrites(p) PROVE FlowInv'
  BY <1>0, <1>1 DEF ChildWrites
<1>2. ASSUME NEW p \in Procs, CopyRead(p) PROVE FlowInv'
  BY <1>0, <1>2 DEF CopyRead
<1>3. ASSUME NEW p \in Procs, CopyStore(p) PROVE FlowInv'
  BY <1>0, <1>3 DEF CopyStore
<1>4. CASE UNCHANGED <<pipe, wrote, copier, stored>>
  BY SMTT(30), <1>4
<1>5. ASSUME NEW p \in Procs,
             \/ Start(p) \/ WaitStep(p) \/ Forget(p) \/ RuntimeLimit(p) \/ KillChild(p)
             \/ ChildForks(p) \/ ChildExits(p) \/ \E o \in Ops : Begin(o, p)
      PROVE  UNCHANGED <<pipe, wrote, copier, stored>>
  BY SMTT(30), <1>5
  DEF Start, WaitStep, WaitReturns, ReportExit, Uncount, Forget, RuntimeLimit, KillChild,
              ChildForks, ChildExits, Begin
<1>6. ASSUME NEW o \in Ops, OpStep(o) \/ WriteAccepted(o)
      PROVE  UNCHANGED <<pipe, wrote, copier, stored>>
  BY <1>6 DEF OpStep, Terminate, ReadOutput, WriteBegin, WriteBroken, WriteAccepted
<1>7. CASE UNCHANGED vars
  BY <1>7 DEF vars
<1> HIDE DEF FlowInv
<1> QED
  BY <1>1, <1>2, <1>3, <1>4, <1>5, <1>6, <1>7 DEF Next, CopyStep, AllOver

\* An exit status comes after all of the output, for every number of sessions, calls,
\* chunks and sizes of the pipe.
THEOREM OutputBeforeExit == Spec => []ExitMeansAllOutput
<1>1. LifeInv /\ FlowInv => ExitMeansAllOutput
  <2> SUFFICES ASSUME LifeInv, FlowInv, NEW p \in Procs, exited[p] PROVE stored[p] = wrote[p]
    BY DEF ExitMeansAllOutput
  <2>1. copier[p] = "eof"
    BY DEF LifeInv
  <2> QED
    BY <2>1 DEF FlowInv
<1> QED
  BY LifeInvInit, LifeInvNext, CallInvInit, CallInvNext, FlowInvInit, FlowInvNext, <1>1, PTL
     DEF Spec

-----------------------------------------------------------------------------
(* Slots *)

LEMMA CountInvInit == Init => CountInv
<1> SUFFICES ASSUME Init PROVE CountInv
  OBVIOUS
<1>1. Held = {}
  BY DEF Init, Held
<1> QED
  BY <1>1, FS_EmptySet, ProcAssumption DEF Init, CountInv

\* Start takes a slot and Uncount gives it back; the test for active > 0 never fails.
LEMMA CountInvNext ==
    ASSUME LifeInv, CountInv, [Next]_vars
    PROVE  CountInv'
<1> USE ProcAssumption
<1>0. IsFiniteSet(Held) /\ Cardinality(Held) \in Nat
  BY FS_Subset, FS_CardinalityType DEF Held
<1>1. ASSUME NEW p \in Procs, Start(p) PROVE CountInv'
  <2>1. Held' = Held \cup {p} /\ p \notin Held
    BY <1>1 DEF Start, Held, LifeInv
  <2>2. Cardinality(Held') = Cardinality(Held) + 1
    BY Zenon, <1>0, <2>1, FS_AddElement
  <2> QED
    BY <1>0, <1>1, <2>2 DEF Start, CountInv
<1>2. ASSUME NEW p \in Procs, Uncount(p) PROVE CountInv'
  <2>1. Held' = Held \ {p} /\ p \in Held
    BY <1>2 DEF Uncount, Held, LifeInv
  <2>2. Cardinality(Held') = Cardinality(Held) - 1 /\ Cardinality(Held') \in Nat
    BY <1>0, <2>1, FS_RemoveElement, FS_CardinalityType
  <2> QED
    BY <1>0, <1>2, <2>2 DEF Uncount, CountInv
<1>3. ASSUME Held' = Held, active' = active PROVE CountInv'
  BY <1>3 DEF CountInv
<1>4. ASSUME NEW p \in Procs, WaitReturns(p) \/ ReportExit(p) \/ Forget(p)
      PROVE  Held' = Held /\ active' = active
  BY SMTT(30), <1>4 DEF WaitReturns, ReportExit, Forget, Held, LifeInv
<1>5. ASSUME NEW p \in Procs,
             \/ RuntimeLimit(p) \/ KillChild(p) \/ ChildWrites(p) \/ ChildForks(p)
             \/ ChildExits(p) \/ CopyStep(p) \/ \E o \in Ops : Begin(o, p)
      PROVE  waiter' = waiter /\ active' = active
  BY SMTT(30), <1>5
  DEF RuntimeLimit, KillChild, ChildWrites, ChildForks, ChildExits, CopyStep, CopyRead,
              CopyStore, Begin, sessVars
<1>6. ASSUME NEW o \in Ops, OpStep(o) \/ WriteAccepted(o)
      PROVE  waiter' = waiter /\ active' = active
  BY <1>6 DEF OpStep, Terminate, ReadOutput, WriteBegin, WriteBroken, WriteAccepted, sessVars
<1>7. CASE waiter' = waiter /\ active' = active
  BY <1>3, <1>7 DEF Held
<1>8. CASE UNCHANGED vars
  BY <1>7, <1>8 DEF vars
<1> QED
  BY <1>1, <1>2, <1>3, <1>4, <1>5, <1>6, <1>7, <1>8 DEF Next, WaitStep, AllOver

\* No more than maxProcs children run at a time, with the descendants that hold on to
\* their pipes, for every number of sessions and calls.
THEOREM SessionsBounded == Spec => []ChildrenBounded
<1>1. LifeInv /\ CountInv => ChildrenBounded
  <2> SUFFICES ASSUME LifeInv, CountInv PROVE ChildrenBounded
    OBVIOUS
  <2> DEFINE running == {p \in Procs : Alive(p)}
  <2>1. running \subseteq Held
    BY DEF Alive, LifeInv, Held, Waited
  <2>2. IsFiniteSet(Held) /\ Cardinality(Held) \in Nat
    BY FS_Subset, FS_CardinalityType, ProcAssumption DEF Held
  <2>3. Cardinality(running) <= Cardinality(Held) /\ Cardinality(running) \in Nat
    BY <2>1, <2>2, FS_Subset, FS_CardinalityType
  <2> QED
    BY <2>2, <2>3, ProcAssumption DEF CountInv, ChildrenBounded
<1> QED
  BY LifeInvInit, LifeInvNext, CallInvInit, CallInvNext, CountInvInit, CountInvNext, <1>1, PTL
     DEF Spec

-----------------------------------------------------------------------------
(* The ring and the client that follows it.                                *)

\* r holds the last bytes of out, as many as fit, byte by byte.
IsTail(r, out) ==
    /\ r.data \in Seq(Bytes) /\ r.base \in Nat
    /\ r.base + Len(r.data) = Len(out)
    /\ Len(r.data) = Clamp(Len(out), 0, RingMax)
    /\ \A i \in 1..Len(r.data) : r.data[i] = out[r.base + i]

\* g is the part of out that ends at cur, byte by byte.
EndsAt(g, out, cur) ==
    /\ g \in Seq(Bytes) /\ cur \in 0..Len(out) /\ Len(g) <= cur
    /\ \A i \in 1..Len(g) : g[i] = out[cur - Len(g) + i]

RingInv ==
    /\ output \in Seq(Bytes) /\ gaps \in Nat
    /\ IsTail(ring, output) /\ EndsAt(got, output, cursor)
    /\ gaps = 0 => Len(got) = cursor

\* The part of a sequence between two positions, byte by byte.
LEMMA PartOf ==
    ASSUME NEW s \in Seq(Bytes), NEW k \in 0..Len(s), NEW n \in Nat, k + n <= Len(s)
    PROVE  /\ SubSeq(s, k + 1, k + n) \in Seq(Bytes) /\ Len(SubSeq(s, k + 1, k + n)) = n
           /\ \A i \in 1..n : SubSeq(s, k + 1, k + n)[i] = s[k + i]
OBVIOUS

LEMMA Joined ==
    ASSUME NEW s \in Seq(Bytes), NEW t \in Seq(Bytes)
    PROVE  /\ s \o t \in Seq(Bytes) /\ Len(s \o t) = Len(s) + Len(t)
           /\ \A i \in 1..Len(s) : (s \o t)[i] = s[i]
           /\ \A i \in 1..Len(t) : (s \o t)[Len(s) + i] = t[i]
OBVIOUS

LEMMA LastBytesOf ==
    ASSUME NEW s \in Seq(Bytes), NEW n \in 0..Len(s)
    PROVE  /\ LastBytes(s, n) \in Seq(Bytes) /\ Len(LastBytes(s, n)) = n
           /\ \A i \in 1..n : LastBytes(s, n)[i] = s[Len(s) - n + i]
<1>1. Len(s) - n \in 0..Len(s) /\ (Len(s) - n) + n = Len(s)
  OBVIOUS
<1> QED
  BY <1>1, PartOf DEF LastBytes

\* Sequences are equal when their lengths and their bytes are.
LEMMA SameBytes ==
    ASSUME NEW s \in Seq(Bytes), NEW t \in Seq(Bytes), Len(s) = Len(t),
           \A i \in 1..Len(s) : s[i] = t[i]
    PROVE  s = t
OBVIOUS

\* The arithmetic of ring.write: w is the output and a its last bytes, from base on; so are
\* the last n bytes of a.
LEMMA TailOfTail ==
    ASSUME NEW w \in Seq(Bytes), NEW a \in Seq(Bytes), NEW base \in Nat, NEW n \in 0..Len(a),
           base + Len(a) = Len(w), \A i \in 1..Len(a) : a[i] = w[base + i],
           n = Clamp(Len(w), 0, RingMax)
    PROVE  IsTail([data |-> LastBytes(a, n), base |-> base + (Len(a) - n)], w)
<1> DEFINE b == base + (Len(a) - n)
           kept == LastBytes(a, n)
<1>1. /\ kept \in Seq(Bytes) /\ Len(kept) = n
      /\ \A i \in 1..n : kept[i] = a[Len(a) - n + i]
  BY LastBytesOf, Zenon
<1>2. Len(a) \in Nat /\ Len(w) \in Nat
  OBVIOUS
<1>3. b \in Nat /\ b + n = Len(w)
  BY <1>2
<1>4. ASSUME NEW i \in 1..n PROVE kept[i] = w[b + i]
  <2>1. Len(a) - n + i \in 1..Len(a) /\ base + (Len(a) - n + i) = b + i
    BY SMTT(30), <1>2
  <2> QED
    BY <1>1, <2>1, Zenon
<1> HIDE DEF b, kept
<1> QED
  BY <1>1, <1>3, <1>4 DEF IsTail, b, kept

\* The lengths of ring.write: the ring holds d bytes, from base on, of an output of o bytes,
\* p are written, a is all that was held or written, and the output then has w.
RingLengths(d, p, o, base, a, w) ==
    /\ p >= RingMax => /\ RingMax \in 0..p /\ RingMax = Clamp(w, 0, RingMax)
                       /\ base + d + p - RingMax = o + (p - RingMax)
    /\ a > RingMax => RingMax \in 0..a /\ RingMax = Clamp(w, 0, RingMax)
    /\ ~ (a > RingMax) => a = Clamp(w, 0, RingMax)
    /\ base + a = w /\ o + p = w /\ base + 0 = base
    /\ \A i \in 1..a : \/ i \in 1..d /\ base + i \in 1..o
                       \/ i - d \in 1..p /\ i = d + (i - d) /\ base + i = o + (i - d)

LEMMA LengthsAddUp ==
    ASSUME NEW d \in Nat, NEW p \in Nat, NEW o \in Nat, NEW base \in Nat, RingMax \in Nat \ {0},
           base + d = o, d = Clamp(o, 0, RingMax), NEW a, a = d + p, NEW w, w = o + p
    PROVE  RingLengths(d, p, o, base, a, w)
BY DEF RingLengths, Clamp

\* ring.write keeps the last bytes, however long what is written.
LEMMA WriteKeepsTail ==
    ASSUME NEW r, NEW out \in Seq(Bytes), NEW p \in Seq(Bytes), IsTail(r, out)
    PROVE  IsTail(ringWrite(r, p), out \o p)
<1> DEFINE d == r.data
           all == d \o p
           w == out \o p
<1>0. /\ d \in Seq(Bytes) /\ r.base \in Nat /\ r.base + Len(d) = Len(out)
      /\ Len(d) = Clamp(Len(out), 0, RingMax) /\ \A i \in 1..Len(d) : d[i] = out[r.base + i]
      /\ RingMax \in Nat /\ RingMax > 0 /\ Len(d) \in Nat /\ Len(p) \in Nat /\ Len(out) \in Nat
  BY SMTT(30), RingAssumption DEF IsTail
<1>1. /\ all \in Seq(Bytes) /\ Len(all) = Len(d) + Len(p)
      /\ \A i \in 1..Len(d) : all[i] = d[i]
      /\ \A i \in 1..Len(p) : all[Len(d) + i] = p[i]
  BY <1>0, Joined, Zenon
<1>2. /\ w \in Seq(Bytes) /\ Len(w) = Len(out) + Len(p)
      /\ \A i \in 1..Len(out) : w[i] = out[i]
      /\ \A i \in 1..Len(p) : w[Len(out) + i] = p[i]
  BY Joined, Zenon
<1>3. ringWrite(r, p) =
        IF Len(p) >= RingMax
        THEN [data |-> LastBytes(p, RingMax), base |-> r.base + Len(d) + Len(p) - RingMax]
        ELSE [data |-> IF Len(all) > RingMax THEN LastBytes(all, RingMax) ELSE all,
              base |-> r.base + (IF Len(all) > RingMax THEN Len(all) - RingMax ELSE 0)]
  BY DEF ringWrite
<1> HIDE DEF d, all, w
<1>len. /\ Len(d) \in Nat /\ Len(p) \in Nat /\ Len(out) \in Nat
        /\ Len(all) = Len(d) + Len(p) /\ Len(w) = Len(out) + Len(p)
        /\ RingMax \in Nat \ {0} /\ r.base \in Nat /\ r.base + Len(d) = Len(out)
        /\ Len(d) = Clamp(Len(out), 0, RingMax)
  BY RingAssumption, <1>0, <1>1, <1>2, Zenon
<1>4. RingLengths(Len(d), Len(p), Len(out), r.base, Len(all), Len(w))
  BY <1>len, LengthsAddUp, Zenon
<1>5. CASE Len(p) >= RingMax
  <2>1. \A i \in 1..Len(p) : p[i] = w[Len(out) + i]
    BY <1>2, Zenon
  <2>2. IsTail([data |-> LastBytes(p, RingMax), base |-> Len(out) + (Len(p) - RingMax)], w)
    BY <1>0, <1>2, <1>4, <1>5, <2>1, TailOfTail, Zenon DEF RingLengths
  <2>3. ringWrite(r, p) = [data |-> LastBytes(p, RingMax), base |-> Len(out) + (Len(p) - RingMax)]
    BY <1>3, <1>4, <1>5, Zenon DEF RingLengths
  <2> QED
    BY <2>2, <2>3, Zenon DEF w
<1>6. \A i \in 1..Len(all) : all[i] = w[r.base + i]
  <2> SUFFICES ASSUME NEW i \in 1..Len(all) PROVE all[i] = w[r.base + i]
    BY Zenon
  <2>1. CASE i \in 1..Len(d) /\ r.base + i \in 1..Len(out)
    <3>1. all[i] = d[i] /\ d[i] = out[r.base + i] /\ w[r.base + i] = out[r.base + i]
      BY <1>0, <1>1, <1>2, <2>1, Zenon
    <3> QED
      BY <3>1, Zenon
  <2>2. CASE /\ i - Len(d) \in 1..Len(p) /\ i = Len(d) + (i - Len(d))
             /\ r.base + i = Len(out) + (i - Len(d))
    <3>1. PICK j \in 1..Len(p) : i = Len(d) + j /\ r.base + i = Len(out) + j
      BY <2>2, Zenon
    <3>2. all[i] = p[j] /\ w[r.base + i] = p[j]
      BY <1>1, <1>2, <3>1, Zenon
    <3> QED
      BY <3>2, Zenon
  <2> QED
    BY <2>1, <2>2, <1>4, Zenon DEF RingLengths
<1>7. CASE ~ (Len(p) >= RingMax) /\ Len(all) > RingMax
  <2>1. IsTail([data |-> LastBytes(all, RingMax), base |-> r.base + (Len(all) - RingMax)], w)
    BY <1>0, <1>1, <1>2, <1>4, <1>6, <1>7, TailOfTail, Zenon DEF RingLengths
  <2> QED
    BY <1>3, <1>7, <2>1, Zenon DEF w
<1>8. CASE ~ (Len(p) >= RingMax) /\ ~ (Len(all) > RingMax)
  <2>1. ringWrite(r, p) = [data |-> all, base |-> r.base]
    BY <1>3, <1>4, <1>8, Zenon DEF RingLengths
  <2>2. IsTail([data |-> all, base |-> r.base], w)
    BY SMTT(30), <1>0, <1>1, <1>4, <1>6, <1>8 DEF IsTail, RingLengths
  <2> QED
    BY <2>1, <2>2, Zenon DEF w
<1> QED
  BY <1>5, <1>7, <1>8, Zenon

\* What is read stays where it is when more is written.
LEMMA WriteKeepsEnd ==
    ASSUME NEW g, NEW cur, NEW out \in Seq(Bytes), NEW p \in Seq(Bytes), EndsAt(g, out, cur)
    PROVE  EndsAt(g, out \o p, cur)
BY Joined DEF EndsAt

\* What is read from the client's cursor on goes with what it has.
LEMMA ReadContinues ==
    ASSUME NEW g, NEW t, NEW cur, NEW next, NEW out \in Seq(Bytes),
           EndsAt(g, out, cur), EndsAt(t, out, next), next = cur + Len(t)
    PROVE  EndsAt(g \o t, out, next)
<1> DEFINE all == g \o t
<1>1. g \in Seq(Bytes) /\ t \in Seq(Bytes)
  BY DEF EndsAt
<1>2. /\ all \in Seq(Bytes) /\ Len(all) = Len(g) + Len(t)
      /\ \A i \in 1..Len(g) : all[i] = g[i]
      /\ \A i \in 1..Len(t) : all[Len(g) + i] = t[i]
  BY <1>1, Joined, Zenon
<1> HIDE DEF all
<1>len. /\ Len(g) \in Nat /\ Len(t) \in Nat /\ Len(all) = Len(g) + Len(t) /\ Len(out) \in Nat
        /\ cur \in 0..Len(out) /\ next \in 0..Len(out) /\ Len(g) <= cur
  BY <1>1, <1>2 DEF EndsAt
<1>3. ASSUME NEW i \in 1..Len(all) PROVE all[i] = out[next - Len(all) + i]
  <2>1. CASE i <= Len(g)
    <3>1. i \in 1..Len(g) /\ next - Len(all) + i = cur - Len(g) + i
      BY <1>len, <2>1
    <3> QED
      BY <1>2, <3>1, Zenon DEF EndsAt
  <2>2. CASE i > Len(g)
    <3>1. PICK j \in 1..Len(t) : i = Len(g) + j /\ next - Len(all) + i = next - Len(t) + j
      <4>1. /\ i - Len(g) \in 1..Len(t) /\ i = Len(g) + (i - Len(g))
            /\ next - Len(all) + i = next - Len(t) + (i - Len(g))
        BY <1>len, <2>2
      <4> QED
        BY <4>1, Zenon
    <3> QED
      BY <1>2, <3>1, Zenon DEF EndsAt
  <2> QED
    BY <1>len, <2>1, <2>2
<1>4. next \in 0..Len(out) /\ Len(all) <= next
  BY SMTT(30), <1>len
<1> QED
  BY <1>2, <1>3, <1>4, Zenon DEF EndsAt, all

\* ring.read returns the bytes before its next cursor, and a client that asked for what the
\* ring still has is given them from its own cursor on.
LEMMA ReadIsExact ==
    ASSUME RingInv, NEW limit \in Limits
    PROVE  LET res == ringRead(ring, cursor, limit)
               from == IF cursor < ring.base THEN ring.base ELSE cursor
           IN  /\ EndsAt(res.data, output, res.next) /\ res.next = from + Len(res.data)
               /\ res.truncated = (cursor < ring.base)
<1> DEFINE from == IF cursor < ring.base THEN ring.base ELSE cursor
           start == from - ring.base
           n == Clamp(Len(ring.data) - start, 0, limit)
           part == SubSeq(ring.data, start + 1, start + n)
<1>1. /\ ring.data \in Seq(Bytes) /\ ring.base \in Nat /\ cursor \in 0..Len(output)
      /\ ring.base + Len(ring.data) = Len(output)
      /\ output \in Seq(Bytes) /\ limit \in Nat \ {0}
  BY RingAssumption DEF RingInv, IsTail, EndsAt
<1>2. Clamp(cursor, ring.base, ring.base + Len(ring.data)) = from
  BY <1>1 DEF Clamp
<1>3. start \in 0..Len(ring.data) /\ n \in Nat /\ start + n <= Len(ring.data)
  BY <1>1 DEF Clamp
<1>4. ringRead(ring, cursor, limit) =
        [data |-> part, next |-> from + n, truncated |-> cursor < ring.base]
  BY Zenon, <1>2 DEF ringRead
<1>5. /\ from = ring.base + start /\ from \in Nat
      /\ Len(ring.data) \in Nat /\ ring.base \in Nat /\ start \in Nat
  BY <1>1, <1>3
<1> HIDE DEF start, n, from
<1>6. part \in Seq(Bytes) /\ Len(part) = n /\ \A i \in 1..n : part[i] = ring.data[start + i]
  BY <1>1, <1>3, PartOf
<1> HIDE DEF part
<1>7. \A i \in 1..n : part[i] = output[(from + n) - n + i]
  <2> TAKE i \in 1..n
  <2>1. start + i \in 1..Len(ring.data) /\ ring.base + (start + i) = (from + n) - n + i
    BY SMTT(30), <1>3, <1>5
  <2>2. ring.data[start + i] = output[ring.base + (start + i)]
    BY <2>1 DEF RingInv, IsTail
  <2> QED
    BY <1>6, <2>1, <2>2
<1>8. EndsAt(part, output, from + n)
  <2>1. Len(output) \in Nat /\ ring.base + Len(ring.data) = Len(output)
    BY <1>1
  <2>2. from + n \in 0..Len(output) /\ n <= from + n
    BY SMTT(30), <1>3, <1>5, <2>1
  <2> QED
    BY <1>6, <1>7, <2>2, Zenon DEF EndsAt
<1> QED
  BY <1>4, <1>6, <1>8 DEF from

LEMMA RingInvInit == RingInit => RingInv
BY RingAssumption DEF RingInit, RingInv, IsTail, EndsAt, Clamp

LEMMA RingInvNext == RingInv /\ [RingNext]_ringVars => RingInv'
<1> SUFFICES ASSUME RingInv, [RingNext]_ringVars PROVE RingInv'
  OBVIOUS
<1>1. ASSUME NEW b \in Chunks, WriteStdout(b) PROVE RingInv'
  <2>1. b \in Seq(Bytes) /\ output \o b \in Seq(Bytes)
    BY RingAssumption, Joined DEF RingInv
  <2>2. IsTail(ringWrite(ring, b), output \o b) /\ EndsAt(got, output \o b, cursor)
    BY <2>1, WriteKeepsTail, WriteKeepsEnd DEF RingInv
  <2> QED
    BY <1>1, <2>1, <2>2 DEF WriteStdout, RingInv
<1>2. ASSUME NEW b \in Chunks, WriteStderr(b) PROVE RingInv'
  <2>1. /\ b \in Seq(Bytes) /\ Prefix \in Seq(Bytes)
        /\ output \o Prefix \in Seq(Bytes) /\ (output \o Prefix) \o b \in Seq(Bytes)
    BY RingAssumption, Joined DEF RingInv
  <2>2. IsTail(ringWrite(ring, Prefix), output \o Prefix) /\ EndsAt(got, output \o Prefix, cursor)
    BY <2>1, WriteKeepsTail, WriteKeepsEnd DEF RingInv
  <2>3. /\ IsTail(ringWrite(ringWrite(ring, Prefix), b), (output \o Prefix) \o b)
        /\ EndsAt(got, (output \o Prefix) \o b, cursor)
    BY Zenon, <2>1, <2>2, WriteKeepsTail, WriteKeepsEnd
  <2> QED
    BY <1>2, <2>1, <2>3 DEF WriteStderr, RingInv
<1>3. ASSUME NEW limit \in Limits, FollowOutput(limit) PROVE RingInv'
  <2> DEFINE res == ringRead(ring, cursor, limit)
  <2>1. /\ EndsAt(res.data, output, res.next)
        /\ res.next = (IF cursor < ring.base THEN ring.base ELSE cursor) + Len(res.data)
        /\ res.truncated = (cursor < ring.base)
    BY ReadIsExact
  <2>2. /\ cursor' = res.next /\ UNCHANGED <<ring, output>>
        /\ got' = IF res.truncated THEN res.data ELSE got \o res.data
        /\ gaps' = IF res.truncated THEN gaps + res.next - Len(res.data) - cursor ELSE gaps
    BY <1>3 DEF FollowOutput
  <2> HIDE DEF res
  <2>3. /\ output \in Seq(Bytes) /\ gaps \in Nat /\ ring.base \in Nat /\ IsTail(ring, output)
        /\ got \in Seq(Bytes) /\ cursor \in 0..Len(output) /\ Len(got) <= cursor
        /\ gaps = 0 => Len(got) = cursor
        /\ res.data \in Seq(Bytes) /\ res.next \in 0..Len(output)
    BY <2>1 DEF RingInv, IsTail, EndsAt
  <2>len. /\ gaps \in Nat /\ ring.base \in Nat /\ cursor \in Nat
          /\ Len(res.data) \in Nat /\ Len(got) \in Nat
    BY <2>3
  <2>4. CASE cursor < ring.base
    <3>1. /\ got' = res.data /\ cursor' = res.next
          /\ gaps' = gaps + res.next - Len(res.data) - cursor
      BY Zenon, <2>1, <2>2, <2>4
    <3>2. gaps' \in Nat /\ gaps' # 0
      BY SMTT(30), <2>1, <2>len, <2>4, <3>1
    <3> QED
      BY Zenon, <2>1, <2>2, <2>3, <3>1, <3>2 DEF RingInv
  <2>5. CASE ~ (cursor < ring.base)
    <3>1. /\ got' = got \o res.data /\ cursor' = cursor + Len(res.data) /\ gaps' = gaps
          /\ cursor' = res.next
      BY Zenon, <2>1, <2>2, <2>5
    <3>2. EndsAt(got \o res.data, output, res.next)
      BY <2>1, <2>3, <3>1, ReadContinues, Zenon DEF RingInv
    <3>3. gaps = 0 => Len(got \o res.data) = cursor + Len(res.data)
      <4>1. Len(got \o res.data) = Len(got) + Len(res.data)
        BY <2>3, Joined, Zenon
      <4> QED
        BY <2>3, <4>1, Zenon
    <3> QED
      BY <2>2, <2>3, <3>1, <3>2, <3>3, Zenon DEF RingInv
  <2> QED
    BY <2>4, <2>5
<1>4. CASE UNCHANGED ringVars
  BY <1>4 DEF ringVars, RingInv
<1> QED
  BY <1>1, <1>2, <1>3, <1>4 DEF RingNext

\* For every size of the ring, every limit of a read and every mix of writes, the ring is
\* the tail of the output, and a client that follows next_cursor has every byte since its
\* last gap, in order and once, and was told of every gap.
THEOREM RingIsExact == RingSpec => []FollowerIsExact
<1>1. RingInv => FollowerIsExact
  <2> SUFFICES ASSUME RingInv PROVE FollowerIsExact
    OBVIOUS
  <2>1. /\ output \in Seq(Bytes) /\ ring.data \in Seq(Bytes) /\ got \in Seq(Bytes)
        /\ Len(ring.data) \in 0..Len(output) /\ ring.base = Len(output) - Len(ring.data)
        /\ cursor \in 0..Len(output) /\ Len(got) <= cursor
    BY DEF RingInv, IsTail, EndsAt
  <2>2. ring.data = LastBytes(output, Len(ring.data))
    <3> DEFINE last == LastBytes(output, Len(ring.data))
    <3>1. /\ last \in Seq(Bytes) /\ Len(last) = Len(ring.data)
          /\ \A i \in 1..Len(ring.data) : last[i] = output[Len(output) - Len(ring.data) + i]
      BY <2>1, LastBytesOf, Zenon
    <3> HIDE DEF last
    <3>2. \A i \in 1..Len(ring.data) : ring.data[i] = last[i]
      BY <2>1, <3>1, Zenon DEF RingInv, IsTail
    <3> QED
      BY <2>1, <3>1, <3>2, SameBytes, Zenon DEF last
  <2>3. got = SubSeq(output, cursor - Len(got) + 1, cursor)
    <3> DEFINE k == cursor - Len(got)
    <3>1. k \in 0..Len(output) /\ k + Len(got) = cursor /\ Len(got) \in Nat
      BY <2>1
    <3> HIDE DEF k
    <3>2. /\ SubSeq(output, k + 1, cursor) \in Seq(Bytes)
          /\ Len(SubSeq(output, k + 1, cursor)) = Len(got)
          /\ \A i \in 1..Len(got) : SubSeq(output, k + 1, cursor)[i] = output[k + i]
      BY <2>1, <3>1, PartOf
    <3>3. \A i \in 1..Len(got) : got[i] = output[k + i]
      BY DEF RingInv, EndsAt, k
    <3>4. got = SubSeq(output, k + 1, cursor)
      <4> DEFINE read == SubSeq(output, k + 1, cursor)
      <4>1. \A i \in 1..Len(got) : got[i] = read[i]
        BY <3>2, <3>3, Zenon
      <4> HIDE DEF read
      <4>2. read \in Seq(Bytes) /\ Len(read) = Len(got)
        BY <3>2, Zenon DEF read
      <4> QED
        BY <2>1, <4>1, <4>2, SameBytes, Zenon DEF read
    <3> QED
      BY <3>4 DEF k
  <2> QED
    BY <2>1, <2>2, <2>3 DEF FollowerIsExact, RingIsTail, RingInv, IsTail
<1> QED
  BY RingInvInit, RingInvNext, <1>1, PTL DEF RingSpec
=============================================================================
