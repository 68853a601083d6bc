------------------------------- MODULE CommRx -------------------------------
(***************************************************************************)
(* The receive half of the host link, Serial/Src/comm_rx.c: the UART       *)
(* interrupt stores bytes in a ring, and the comm_rx thread takes them out *)
(* and looks for frames, which are a length prefix and a message.  There   *)
(* is no lock: the interrupt owns the head, the thread owns the tail.      *)
(*                                                                         *)
(* A byte is known by its place in the stream the host sends, a sequence   *)
(* of frames of one size, whose messages are alike (the visualizer sends a *)
(* SetAppConfig whenever its form is submitted).  The host, the UART and   *)
(* pb_decode are external: a byte can be lost on the wire, and, since      *)
(* messages carry no checksum, bytes that are not a message may decode.    *)
(*                                                                         *)
(* Names that CommTx has too carry an Rx (RxInit, RxNext, RxTypeOK, ...),  *)
(* so that one module, Comm_proof, can extend both halves.                 *)
(***************************************************************************)
EXTENDS Integers, FiniteSets, Sequences

CONSTANTS
  RingSize,   \* RX_RING_SIZE
  PrefixLen,  \* the bytes of a length prefix: 4
  MaxLen,     \* HostMessage_size, the length of the longest message
  MsgLen,     \* the length of the messages the host sends
  MaxFrames   \* bound: the frames the host sends

ASSUME RxAssumption ==
  /\ RingSize \in Nat /\ RingSize > 1
  /\ PrefixLen \in Nat \ {0}
  /\ MaxLen \in Nat
  /\ MsgLen \in 1 .. MaxLen
  /\ MaxFrames \in Nat

FrameLen == PrefixLen + MsgLen
Stream == 1 .. MaxFrames * FrameLen
Place(b) == (b - 1) % FrameLen          \* where byte b is in its frame
FrameOf(b) == (b - 1) \div FrameLen + 1

VARIABLES
  ring,       \* rx_ring
  head,       \* rx_ring_head
  tail,       \* rx_ring_tail
  overflowed, \* rx_ring_overflowed
  sem,        \* count of rx_sem
  frame,      \* rx_frame_buf, its first frame_len bytes
  need,       \* need, once the prefix is accepted
  out,        \* out, the byte rx_read_byte_blocking took
  pc,         \* where the comm_rx thread is
  next,       \* the next byte of the stream
  lost,       \* history: the bytes lost on the wire or dropped
  taken,      \* history: the last byte the thread took out of the ring
  dispatched, \* history: the number of messages dispatched
  last        \* history: the bytes of the last message dispatched

rxVars == <<ring, head, tail, overflowed, sem, frame, need, out, pc, next,
            lost, taken, dispatched, last>>

isrVars == <<ring, head, next, lost>>
parserVars == <<frame, need, dispatched, last>>

After(i) == (i + 1) % RingSize
Available == (head - tail) % RingSize

\* COM_RX_ThreadStart.
RxInit ==
  /\ ring = [i \in 0 .. RingSize - 1 |-> 0]
  /\ head = 0
  /\ tail = 0
  /\ overflowed = FALSE
  /\ sem = 0
  /\ frame = <<>>
  /\ need = 0
  /\ out = 0
  /\ pc = "top"
  /\ next = 1
  /\ lost = {}
  /\ taken = 0
  /\ dispatched = 0
  /\ last = <<>>

-----------------------------------------------------------------------------
(* The interrupt. *)

\* Defect for BytesInOrder: a full ring is not noticed.
RxCpltUnchecked ==
  /\ next \in Stream
  /\ next' = next + 1
  /\ ring' = [ring EXCEPT ![head] = next]
  /\ head' = After(head)
  /\ sem' = sem + 1
  /\ UNCHANGED <<tail, overflowed, lost, out, pc, taken, parserVars>>

\* Defect for DrainsRing: only a dropped byte is signalled.
RxCpltSilent ==
  /\ next \in Stream
  /\ next' = next + 1
  /\ IF After(head) # tail
     THEN /\ ring' = [ring EXCEPT ![head] = next]
          /\ head' = After(head)
          /\ UNCHANGED <<overflowed, lost, sem>>
     ELSE /\ overflowed' = TRUE
          /\ lost' = lost \cup {next}
          /\ sem' = sem + 1
          /\ UNCHANGED <<ring, head>>
  /\ UNCHANGED <<tail, out, pc, taken, parserVars>>

\* HAL_UART_RxCpltCallback: the byte is stored, or dropped if the ring is
\* full; the thread is signalled in either case.
RxCplt ==
  /\ next \in Stream
  /\ next' = next + 1
  /\ IF After(head) # tail
     THEN /\ ring' = [ring EXCEPT ![head] = next]
          /\ head' = After(head)
          /\ UNCHANGED <<overflowed, lost>>
     ELSE /\ overflowed' = TRUE
          /\ lost' = lost \cup {next}
          /\ UNCHANGED <<ring, head>>
  /\ sem' = sem + 1
  /\ UNCHANGED <<tail, out, pc, taken, parserVars>>

\* HAL_UART_ErrorCallback: a byte is lost on the wire (an overrun, noise).
RxError ==
  /\ next \in Stream
  /\ next' = next + 1
  /\ lost' = lost \cup {next}
  /\ overflowed' = TRUE
  /\ sem' = sem + 1
  /\ UNCHANGED <<ring, head, tail, out, pc, taken, parserVars>>

Isr == RxCplt \/ RxError

-----------------------------------------------------------------------------
(* comm_rx_thread_entry.  A byte is read at the top of the loop ("load",   *)
(* "advance") or in the inner loop ("loadMore", "advanceMore").            *)

BufSize == PrefixLen + MaxLen

\* "If ISR had to drop bytes, force parser resync."
Top ==
  /\ pc = "top"
  /\ overflowed' = FALSE
  /\ frame' = IF overflowed THEN <<>> ELSE frame
  /\ pc' = IF Len(frame') < BufSize THEN "load" ELSE "parse"
  /\ UNCHANGED <<tail, sem, need, out, taken, dispatched, last, isrVars>>

\* rx_read_byte_blocking: there is no byte ...
AwaitByte ==
  /\ pc \in {"load", "loadMore"}
  /\ Available = 0
  /\ pc' = IF pc = "load" THEN "wait" ELSE "waitMore"
  /\ UNCHANGED <<tail, overflowed, sem, out, taken, parserVars, isrVars>>

\* ... so the thread blocks until rx_sem is put, and looks again.
WakeUp ==
  /\ pc \in {"wait", "waitMore"}
  /\ sem > 0
  /\ sem' = sem - 1
  /\ pc' = IF pc = "wait" THEN "load" ELSE "loadMore"
  /\ UNCHANGED <<tail, overflowed, out, taken, parserVars, isrVars>>

LoadByte ==
  /\ pc \in {"load", "loadMore"}
  /\ Available # 0
  /\ out' = ring[tail]
  /\ pc' = IF pc = "load" THEN "advance" ELSE "advanceMore"
  /\ UNCHANGED <<tail, overflowed, sem, taken, parserVars, isrVars>>

\* The slot is given back to the interrupt, and the byte appended to the
\* frame.
AdvanceTail ==
  /\ pc \in {"advance", "advanceMore"}
  /\ tail' = After(tail)
  /\ taken' = out
  /\ frame' = Append(frame, out)
  /\ pc' = IF pc = "advance" THEN "parse" ELSE "more"
  /\ UNCHANGED <<overflowed, sem, need, out, dispatched, last, isrVars>>

\* What the first PrefixLen bytes say: the length of the host's messages if
\* they are a prefix, or else any value.
Lengths ==
  IF \A i \in 1 .. PrefixLen : Place(frame[i]) = i - 1
  THEN {MsgLen} ELSE 0 .. MaxLen + 1

\* The prefix is incomplete: read on.
ShortPrefix ==
  /\ pc = "parse"
  /\ Len(frame) < PrefixLen
  /\ pc' = "top"
  /\ UNCHANGED <<tail, overflowed, sem, out, taken, parserVars, isrVars>>

\* "Invalid prefix: shift by one byte and search next frame."
BadPrefix ==
  /\ pc = "parse"
  /\ Len(frame) >= PrefixLen
  /\ Lengths \cap {0, MaxLen + 1} # {}
  /\ frame' = Tail(frame)
  /\ pc' = "top"
  /\ UNCHANGED <<tail, overflowed, sem, need, out, taken, dispatched, last,
                 isrVars>>

\* Defect for RxTypeOK: a length one beyond the longest message is accepted.
GoodPrefixLonger ==
  /\ pc = "parse"
  /\ Len(frame) >= PrefixLen
  /\ \E len \in Lengths \cap 1 .. MaxLen + 1 : need' = PrefixLen + len
  /\ pc' = "more"
  /\ UNCHANGED <<tail, overflowed, sem, frame, out, taken, dispatched, last,
                 isrVars>>

GoodPrefix ==
  /\ pc = "parse"
  /\ Len(frame) >= PrefixLen
  /\ \E len \in Lengths \cap 1 .. MaxLen : need' = PrefixLen + len
  /\ pc' = "more"
  /\ UNCHANGED <<tail, overflowed, sem, frame, out, taken, dispatched, last,
                 isrVars>>

\* Defect for EveryCommandDispatched: one byte too many is waited for.
ReadMoreLate ==
  /\ pc = "more"
  /\ Len(frame) <= need
  /\ pc' = "loadMore"
  /\ UNCHANGED <<tail, overflowed, sem, out, taken, parserVars, isrVars>>

\* The inner loop: the overflow flag is not looked at.
ReadMore ==
  /\ pc = "more"
  /\ Len(frame) < need
  /\ pc' = "loadMore"
  /\ UNCHANGED <<tail, overflowed, sem, out, taken, parserVars, isrVars>>

Payload == SubSeq(frame, PrefixLen + 1, need)

\* The bytes are where they are in a message.  They decode, even if they come
\* from two messages: the host's messages are alike.
LikeMessage(bytes) ==
  /\ Len(bytes) = MsgLen
  /\ \A i \in 1 .. MsgLen : Place(bytes[i]) = PrefixLen + i - 1

\* "Decode failed: shift by one byte and continue searching."
DecodeFails ==
  /\ pc = "more"
  /\ Len(frame) >= need
  /\ ~LikeMessage(Payload)
  /\ frame' = Tail(frame)
  /\ pc' = "top"
  /\ UNCHANGED <<tail, overflowed, sem, need, out, taken, dispatched, last,
                 isrVars>>

\* Defect for InStep: the last byte of the frame is kept.
DispatchKeepsByte ==
  /\ pc = "more"
  /\ Len(frame) >= need
  /\ last' = Payload
  /\ dispatched' = dispatched + 1
  /\ frame' = SubSeq(frame, need, Len(frame))
  /\ pc' = "top"
  /\ UNCHANGED <<tail, overflowed, sem, need, out, taken, isrVars>>

\* The bytes decode: the message is dispatched, and the bytes after it are kept.
Dispatch ==
  /\ pc = "more"
  /\ Len(frame) >= need
  /\ last' = Payload
  /\ dispatched' = dispatched + 1
  /\ frame' = SubSeq(frame, need + 1, Len(frame))
  /\ pc' = "top"
  /\ UNCHANGED <<tail, overflowed, sem, need, out, taken, isrVars>>

Thread ==
  \/ Top \/ AwaitByte \/ WakeUp \/ LoadByte \/ AdvanceTail \/ ShortPrefix
  \/ BadPrefix \/ GoodPrefix \/ ReadMore \/ DecodeFails \/ Dispatch

-----------------------------------------------------------------------------

\* The host has sent all, and the thread waits for more.
RxFinished ==
  /\ next \notin Stream
  /\ pc \in {"wait", "waitMore"} /\ sem = 0
  /\ UNCHANGED rxVars

RxNext == Isr \/ Thread \/ RxFinished

RxSpec == RxInit /\ [][RxNext]_rxVars

\* The thread runs when it can; the host need not send.
RxFairSpec == RxSpec /\ WF_rxVars(Thread)

-----------------------------------------------------------------------------
(* Properties. *)

RxTypeOK ==
  /\ ring \in [0 .. RingSize - 1 -> Stream \cup {0}]
  /\ head \in 0 .. RingSize - 1
  /\ tail \in 0 .. RingSize - 1
  /\ overflowed \in BOOLEAN
  /\ sem \in 0 .. Cardinality(Stream)
  /\ frame \in Seq(Stream) /\ Len(frame) <= BufSize
  /\ need \in {0} \cup PrefixLen + 1 .. BufSize
  /\ out \in Stream \cup {0}
  /\ pc \in {"top", "load", "wait", "advance", "parse", "more", "loadMore",
             "waitMore", "advanceMore"}
  /\ next \in 1 .. Cardinality(Stream) + 1
  /\ lost \subseteq Stream
  /\ taken \in Stream \cup {0}
  /\ dispatched \in 0 .. Cardinality(Stream)
  /\ last \in Seq(Stream) /\ Len(last) <= MaxLen

\* The ring's bytes, oldest first.
Stored == [i \in 1 .. Available |-> ring[(tail + i - 1) % RingSize]]

\* The thread gets every byte that was not lost, once and in order, although
\* the interrupt stores bytes, and finds the ring full, between any two steps
\* of the thread.
BytesInOrder ==
  /\ \A i, j \in 1 .. Available : i < j => Stored[i] < Stored[j]
  /\ {Stored[i] : i \in 1 .. Available} = (taken + 1 .. next - 1) \ lost

\* While nothing was lost, the parser is in step with the host: its buffer
\* holds the beginning of the first frame not yet dispatched, and the last
\* message dispatched is the one before it.
InStep ==
  lost = {} =>
    /\ \A i \in 1 .. Len(frame) : frame[i] = dispatched * FrameLen + i
    /\ dispatched > 0 =>
         last = [i \in 1 .. MsgLen |->
                   (dispatched - 1) * FrameLen + PrefixLen + i]

\* A byte in the ring wakes the thread, which takes all there are.
DrainsRing == (head # tail) ~> (head = tail)

\* While nothing is lost, every command of the host is dispatched.
EveryCommandDispatched ==
  \A n \in 1 .. MaxFrames :
    (next > n * FrameLen) ~> (dispatched >= n \/ lost # {})

\* "If ISR had to drop bytes, force parser resync" (comm_rx.c:130): no message
\* that decodes is put together from bytes before and after a lost one.
NothingAcrossGap ==
  LikeMessage(last) => \A i \in 1 .. MsgLen : FrameOf(last[i]) = FrameOf(last[1])
=============================================================================
