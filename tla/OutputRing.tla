----------------------------- MODULE OutputRing -----------------------------
(***************************************************************************)
(* The ring buffer behind read_process_output: ring.write and ring.read of *)
(* internal/processmgr, outputWriter.Write with its prefix for stderr, and *)
(* a client that reads with the cursor it was last given.                  *)
(***************************************************************************)
EXTENDS Integers, Sequences

CONSTANTS Chunks,    \* what a child writes at a time: non-empty sequences of bytes
          Prefix,    \* "[stderr] "
          RingMax,   \* ring.max
          Limits,    \* maxBytes of a read
          MaxTotal   \* bound on all that is written

Bytes == 0..255

ASSUME RingAssumption ==
    /\ RingMax \in Nat \ {0} /\ Limits \subseteq Nat \ {0}
    /\ Chunks \subseteq Seq(Bytes) /\ Prefix \in Seq(Bytes)

VARIABLES
    ring,    \* data and base
    output,  \* everything written so far
    cursor,  \* the client's next_cursor
    got,     \* what the client has been given since its last gap
    gaps     \* bytes the client was told (by Truncated) to have missed

ringVars == <<ring, output, cursor, got, gaps>>

LastBytes(s, n) == SubSeq(s, Len(s) - n + 1, Len(s))

ringWriteNoBase(r, p) ==
    LET all == r.data \o p IN
    IF Len(p) >= RingMax
    THEN [data |-> LastBytes(p, RingMax), base |-> r.base + Len(p) - RingMax]
    ELSE [data |-> IF Len(all) > RingMax THEN LastBytes(all, RingMax) ELSE all,
          base |-> r.base + (IF Len(all) > RingMax THEN Len(all) - RingMax ELSE 0)]

ringWrite(r, p) ==
    LET all == r.data \o p IN
    IF Len(p) >= RingMax
    THEN [data |-> LastBytes(p, RingMax), base |-> r.base + Len(r.data) + Len(p) - RingMax]
    ELSE [data |-> IF Len(all) > RingMax THEN LastBytes(all, RingMax) ELSE all,
          base |-> r.base + (IF Len(all) > RingMax THEN Len(all) - RingMax ELSE 0)]

Clamp(x, lo, hi) == IF x < lo THEN lo ELSE IF x > hi THEN hi ELSE x

ringReadAll(r, cur, limit) ==
    LET from == Clamp(cur, r.base, r.base + Len(r.data))
        start == from - r.base
        n == Clamp(Len(r.data) - start, 0, limit)
    IN  [data |-> SubSeq(r.data, start + 1, start + n),
         next |-> r.base + Len(r.data), truncated |-> cur < r.base]

ringRead(r, cur, limit) ==
    LET from == Clamp(cur, r.base, r.base + Len(r.data))
        start == from - r.base
        n == Clamp(Len(r.data) - start, 0, limit)
    IN  [data |-> SubSeq(r.data, start + 1, start + n),
         next |-> from + n, truncated |-> cur < r.base]

RingInit ==
    /\ ring = [data |-> <<>>, base |-> 0]
    /\ output = <<>> /\ cursor = 0 /\ got = <<>> /\ gaps = 0

WriteStdout(b) ==
    /\ Len(output \o b) <= MaxTotal
    /\ ring' = ringWrite(ring, b)
    /\ output' = output \o b
    /\ UNCHANGED <<cursor, got, gaps>>

WriteStderr(b) ==
    /\ Len(output \o Prefix \o b) <= MaxTotal
    /\ ring' = ringWrite(ringWrite(ring, Prefix), b)
    /\ output' = output \o Prefix \o b
    /\ UNCHANGED <<cursor, got, gaps>>

\* The client asks from its cursor; when told of a gap it starts collecting anew.
FollowOutput(limit) ==
    LET res == ringRead(ring, cursor, limit) IN
    /\ cursor' = res.next
    /\ got' = IF res.truncated THEN res.data ELSE got \o res.data
    /\ gaps' = IF res.truncated THEN gaps + res.next - Len(res.data) - cursor ELSE gaps
    /\ UNCHANGED <<ring, output>>

RingNext ==
    \/ \E b \in Chunks : WriteStdout(b) \/ WriteStderr(b)
    \/ \E limit \in Limits : FollowOutput(limit)

RingSpec == RingInit /\ [][RingNext]_ringVars

-----------------------------------------------------------------------------
RingIsTail ==
    /\ ring.base + Len(ring.data) = Len(output)
    /\ Len(ring.data) = Clamp(Len(output), 0, RingMax)
    /\ ring.data = LastBytes(output, Len(ring.data))

\* The ring holds the last bytes of the output, as many as fit, and base is the
\* absolute position of the first, for any mix of small, large and prefixed writes; and
\* a client that follows next_cursor has every byte since its last gap, in order and
\* once, and was told of every gap.
FollowerIsExact ==
    /\ RingIsTail
    /\ got = SubSeq(output, cursor - Len(got) + 1, cursor)
    /\ gaps = 0 => Len(got) = cursor
=============================================================================
