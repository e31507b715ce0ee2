------------------------------ MODULE WsFrames -------------------------------
(***************************************************************************)
(* One direction of a WebSocket of internal/ws: goroutines that write      *)
(* frames under wmu, each in two writes that a deadline can cut short, and *)
(* the reader of the other end, which hands every message to a loop that   *)
(* stops at the first one that is not a protocol frame.  The wire carries  *)
(* bytes and the reader has nothing but them: past a frame that was cut    *)
(* short it takes for a header whatever comes next.                        *)
(*                                                                         *)
(* The format is the code's with a smaller byte.  The first byte of a      *)
(* frame has the fin bit on top, then an opcode or a value with a reserved *)
(* bit; the second has the mask bit on top, then a length or one of two    *)
(* tags, for a length of W16 and of W64 further bytes.                     *)
(***************************************************************************)
EXTENDS Integers, Sequences, FiniteSetsExt

CONSTANTS Writers,    \* goroutines that share the connection
          Messages,   \* encoded protocol frames, sequences of bytes
          Decodes(_), \* the sequences of bytes that decode as a protocol frame
          Masks,      \* what rand.Read gives for a mask: four bytes
          Echoes,     \* payloads of pings, which come back in pongs
          Splits,     \* where a peer splits a message
          Len7,       \* 126: the first length that needs 16 bits
          Len16,      \* 65536: the first length that needs 64 bits
          W16, W64,   \* 2 and 8: the bytes of those
          MaxLen,     \* c.max of both ends
          MaxWrites   \* bound on the frames that are begun

ASSUME FramesAssumption ==
    /\ Len7 \in Nat /\ Len16 \in Nat /\ 0 < Len7 /\ Len7 < Len16 /\ MaxLen \in Nat
    /\ Splits \subseteq Nat

Half == Len7 + 2   \* 128: the top bit of a byte
Base == 2 * Half

OpCont == 0
OpText == 1    \* or binary
OpClose == 3   \* 8: the first of the control opcodes
OpPing == 4
OpPong == 5
Rsv == 6       \* 16: from here on a reserved bit is set

ASSUME FormatAssumption ==
    /\ Rsv < Half /\ Len16 = Base ^ W16 /\ MaxLen < Base ^ W64
    /\ \A m \in Messages : Decodes(m)

VARIABLES
    client,   \* the writing end is the client, which masks
    wmu,      \* the writers that hold the lock: at most one
    todo,     \* what a writer is about: see Idle
    begun,    \* how many messages were begun
    wire,     \* the bytes that were written and not yet read
    sent,     \* history: messages written in full, in order
    torn,     \* history: some write has failed
    loose,    \* history: the bytes that were written from the first frame on of which
              \* only a part was written; 0 if there is none
    shut,     \* the writing end has closed the connection
    reader,   \* "open", or why ReadMessage returned an error
    part,     \* the message that ReadMessage is putting together: out and started
    accepted  \* messages that the loop took

writerVars == <<client, wmu, todo, begun, sent, torn, loose, shut>>
readerVars == <<reader, part, accepted>>
framesVars == <<writerVars, wire, readerVars>>

Bad == -1
NoPart == [out |-> <<>>, started |-> FALSE]

\* The writes still to be made, how much of the current frame is out, the message that
\* the writes carry, and whether the connection is closed after them.
Idle == [writes |-> <<>>, out |-> 0, msg |-> <<>>, shuts |-> FALSE]

FramesInit ==
    /\ client \in BOOLEAN
    /\ wmu = {} /\ todo = [w \in Writers |-> Idle] /\ begun = 0
    /\ wire = <<>> /\ sent = <<>> /\ torn = FALSE /\ loose = 0 /\ shut = FALSE
    /\ reader = "open" /\ part = NoPart /\ accepted = <<>>

-----------------------------------------------------------------------------
(* writeFrame                                                              *)

EncodeLenOff(n) ==
    CASE n <= Len7             -> [tag |-> n, ext |-> 0]
      [] n > Len7 /\ n < Len16 -> [tag |-> Len7, ext |-> n]
      [] n >= Len16            -> [tag |-> Len7 + 1, ext |-> n]

\* The length in the second byte, and in the 16 or 64 bits after it.
EncodeLen(n) ==
    CASE n < Len7               -> [tag |-> n, ext |-> 0]
      [] n >= Len7 /\ n < Len16 -> [tag |-> Len7, ext |-> n % Len16]
      [] n >= Len16             -> [tag |-> Len7 + 1, ext |-> n]

\* How many bytes follow the second one for the length.
ExtBytes(tag) == CASE tag < Len7 -> 0 [] tag = Len7 -> W16 [] tag = Len7 + 1 -> W64

BigEndian(n, w) == [i \in 1..w |-> (n \div Base ^ (w - i)) % Base]

Bit(b, i) == (b \div 2 ^ i) % 2

XorByte(a, b) ==
    MapThenSumSet(LAMBDA i : 2 ^ i * ((Bit(a, i) + Bit(b, i)) % 2), {i \in 0..Half : 2 ^ i < Base})

Xor(p, key) == [i \in 1..Len(p) |-> XorByte(p[i], key[((i - 1) % 4) + 1])]

Header(op, fin, n, key) ==
    LET l == EncodeLen(n) IN
    <<op + (IF fin THEN Half ELSE 0), l.tag + (IF client THEN Half ELSE 0)>>
        \o BigEndian(l.ext, ExtBytes(l.tag)) \o key

\* The two writes of a frame: its header, then its payload.
Frame(op, fin, p, key) ==
    <<Header(op, fin, Len(p), key), IF client THEN Xor(p, key) ELSE p>>

Keys4 == IF client THEN Masks ELSE {<<>>}

BeginUnlocked(w, t) ==
    /\ todo[w] = Idle /\ begun < MaxWrites
    /\ begun' = begun + 1
    /\ todo' = [todo EXCEPT ![w] = t]
    /\ UNCHANGED <<client, wmu, wire, sent, torn, loose, shut, readerVars>>

Begin(w, t) ==
    /\ wmu = {} /\ begun < MaxWrites
    /\ wmu' = {w}
    /\ begun' = begun + 1
    /\ todo' = [todo EXCEPT ![w] = t]
    /\ UNCHANGED <<client, wire, sent, torn, loose, shut, readerVars>>

\* WriteMessage sends nothing when the message is too long.
WriteMessage(w, m) ==
    /\ Len(m) <= MaxLen
    /\ \E key \in Keys4 : Begin(w, [Idle EXCEPT !.writes = Frame(OpText, TRUE, m, key), !.msg = <<m>>])

\* ReadMessage of the writing end answers a ping.
WritePong(w, p) ==
    \E key \in Keys4 : Begin(w, [Idle EXCEPT !.writes = Frame(OpPong, TRUE, p, key)])

\* After the close frame, written or not, the connection is closed.
Close(w) ==
    \E key \in Keys4 : Begin(w, [Idle EXCEPT !.writes = Frame(OpClose, TRUE, <<>>, key), !.shuts = TRUE])

\* Another implementation at that end may split a message, and ping between the parts.
WriteFragments(w, m, n) ==
    /\ n <= Len(m)
    /\ \E key \in Keys4 :
        Begin(w, [Idle EXCEPT !.writes = Frame(OpText, FALSE, SubSeq(m, 1, n), key)
                                            \o Frame(OpPing, TRUE, <<>>, key)
                                            \o Frame(OpCont, TRUE, SubSeq(m, n + 1, Len(m)), key),
                              !.msg = <<m>>])

Write(w) ==
    LET now == Head(todo[w].writes)
        left == Tail(todo[w].writes)
    IN
    /\ todo[w].writes # <<>> /\ ~ shut
    /\ wire' = wire \o now
    /\ loose' = IF loose > 0 THEN loose + Len(now) ELSE 0
    /\ IF left = <<>>
       THEN /\ todo' = [todo EXCEPT ![w] = Idle] /\ wmu' = wmu \ {w}
            /\ shut' = todo[w].shuts
       ELSE /\ todo' = [todo EXCEPT ![w].writes = left,
                                    ![w].out = IF Len(left) % 2 = 1 THEN Len(now) ELSE 0]
            /\ UNCHANGED <<wmu, shut>>
    /\ sent' = IF now # <<>> /\ \A i \in DOMAIN left : left[i] = <<>>
               THEN sent \o todo[w].msg ELSE sent
    /\ UNCHANGED <<client, begun, torn, readerVars>>

\* The connection is closed, or the deadline passes when n bytes of this write are out:
\* writeFrame returns the error. The hub ignores it for a pong, the agent for a result.
WriteCut(w) ==
    LET now == Head(todo[w].writes) IN
    /\ todo[w].writes # <<>>
    /\ \E n \in {0} \cup 1..Len(now) - 1 :
          /\ shut => n = 0
          /\ wire' = wire \o SubSeq(now, 1, n)
          /\ loose' = IF loose > 0 THEN loose + n
                      ELSE IF now = <<>> THEN 0 ELSE todo[w].out + n
    /\ todo' = [todo EXCEPT ![w] = Idle]
    /\ wmu' = wmu \ {w} /\ torn' = TRUE /\ shut' = (shut \/ todo[w].shuts)
    /\ UNCHANGED <<client, begun, sent, readerVars>>

-----------------------------------------------------------------------------
(* readFrame: what it makes of the next bytes                              *)

DecodeLen(l) ==
    CASE l.tag < Len7     -> l.tag
      [] l.tag = Len7     -> IF l.ext < Len7 THEN Bad ELSE l.ext
      [] l.tag = Len7 + 1 -> IF l.ext < Len16 THEN Bad ELSE l.ext

Number(s) == MapThenSumSet(LAMBDA i : s[i] * Base ^ (Len(s) - i), 1..Len(s))

Opcode == wire[1] % Half
Fin == wire[1] >= Half
Ext == ExtBytes(wire[2] % Half)
Length == DecodeLen([tag |-> wire[2] % Half, ext |-> Number(SubSeq(wire, 3, 2 + Ext))])
Start == 2 + Ext + (IF client THEN 4 ELSE 0)

PayloadOneMask ==
    LET p == SubSeq(wire, Start + 1, Start + Length)
    IN  IF client THEN [i \in 1..Length |-> XorByte(p[i], wire[Start - 3])] ELSE p

Payload ==
    LET p == SubSeq(wire, Start + 1, Start + Length)
    IN  IF client THEN Xor(p, SubSeq(wire, Start - 3, Start)) ELSE p

\* An error, as soon as the bytes that show it have come.
HeaderBad ==
    \/ wire # <<>> /\ Opcode >= Rsv
    \/ Len(wire) >= 2 /\ (wire[2] >= Half) # client
    \/ /\ Len(wire) >= 2 /\ Len(wire) >= 2 + Ext
       /\ \/ Length = Bad \/ Length > MaxLen
          \/ Opcode >= OpClose /\ (~ Fin \/ Length >= Len7)

\* A frame has come in whole.
FrameReady(ops) ==
    /\ reader = "open" /\ ~ HeaderBad
    /\ Len(wire) >= 2 /\ Len(wire) >= 2 + Ext /\ Len(wire) >= Start + Length
    /\ Opcode \in ops

Consume == wire' = SubSeq(wire, Start + Length + 1, Len(wire))

-----------------------------------------------------------------------------
(* ReadMessage                                                             *)

Data == {OpText, OpCont}

ReadClose ==
    /\ FrameReady({OpClose})
    /\ Consume /\ reader' = "closed"
    /\ UNCHANGED <<writerVars, part, accepted>>

\* The pong goes out, or its write fails and ReadMessage with it.
ReadPing ==
    /\ FrameReady({OpPing})
    /\ Consume /\ reader' \in {"open", "failed"}
    /\ UNCHANGED <<writerVars, part, accepted>>

ReadPong ==
    /\ FrameReady({OpPong})
    /\ Consume
    /\ UNCHANGED <<writerVars, readerVars>>

InSequence == part.started = (Opcode = OpCont)
FitsMax == Len(part.out \o Payload) <= MaxLen

ReadPart ==
    /\ FrameReady(Data) /\ InSequence /\ FitsMax /\ ~ Fin
    /\ Consume /\ part' = [out |-> part.out \o Payload, started |-> TRUE]
    /\ UNCHANGED <<writerVars, reader, accepted>>

\* The caller decodes the message and goes on only if it is one.
Decode(out) ==
    \/ Decodes(out) /\ accepted' = Append(accepted, out) /\ UNCHANGED reader
    \/ ~ Decodes(out) /\ reader' = "not a frame" /\ UNCHANGED accepted

ReadLastAlone ==
    /\ FrameReady(Data) /\ InSequence /\ FitsMax /\ Fin
    /\ Consume /\ part' = NoPart
    /\ Decode(Payload)
    /\ UNCHANGED writerVars

ReadLast ==
    /\ FrameReady(Data) /\ InSequence /\ FitsMax /\ Fin
    /\ Consume /\ part' = NoPart
    /\ Decode(part.out \o Payload)
    /\ UNCHANGED writerVars

ReadRefuse ==
    /\ reader = "open"
    /\ \/ HeaderBad
       \/ FrameReady(Data) /\ ~ (InSequence /\ FitsMax)
       \/ FrameReady((0..Half) \ (Data \cup {OpClose, OpPing, OpPong}))
    /\ reader' = "refused"
    /\ UNCHANGED <<writerVars, wire, part, accepted>>

\* The connection ends before a whole frame.
ReadEOF ==
    /\ reader = "open" /\ shut
    /\ ~ HeaderBad /\ ~ FrameReady(0..Half)
    /\ reader' = "failed"
    /\ UNCHANGED <<writerVars, wire, part, accepted>>

FramesNext ==
    \/ \E w \in Writers :
          \/ \E m \in Messages : WriteMessage(w, m) \/ \E n \in Splits : WriteFragments(w, m, n)
          \/ \E p \in Echoes : WritePong(w, p)
          \/ Close(w) \/ Write(w) \/ WriteCut(w)
    \/ ReadClose \/ ReadPing \/ ReadPong \/ ReadPart \/ ReadLast \/ ReadRefuse \/ ReadEOF

FramesSpec == FramesInit /\ [][FramesNext]_framesVars

-----------------------------------------------------------------------------
IsPrefixOf(s, t) == Len(s) <= Len(t) /\ s = SubSeq(t, 1, Len(s))

\* The loop is given the messages that were written in full, each once and in order,
\* whichever goroutines wrote them, however they were split and whatever write failed,
\* until the reader comes to a frame of which only a part was written.  That frame does
\* no harm to the messages before it; past it nothing is promised, because readFrame goes
\* on in the middle of what was written next.
ReadsWhatWasWritten == Len(wire) >= loose => IsPrefixOf(accepted, sent)

\* readFrame and ReadMessage refuse nothing that the other end may write: unless a write
\* has failed, only a message that is over the limit, when its turn comes.
RefusesOnlyBroken ==
    reader \in {"refused", "not a frame"} =>
        torn \/ \E m \in Messages :
                  /\ Len(m) > MaxLen
                  /\ \/ IsPrefixOf(Append(accepted, m), sent)
                     \/ accepted = sent /\ \E w \in wmu : todo[w].msg = <<m>>
=============================================================================
