-------------------------------- MODULE Sha2 --------------------------------
(***************************************************************************)
(* How a message gets to the compression function of SHA-256: the class    *)
(* SHA2 of webroot/script/nostr.bundle.js, which the bundle holds twice,   *)
(* for the challenge of a signature and for the id of an event.  A byte is *)
(* named by its place in the message; what is computed is the sequence of  *)
(* blocks that process is given.                                           *)
(***************************************************************************)
EXTENDS Integers, SequencesExt

CONSTANTS
  BlockLen,    \* bytes of a block: 64
  PadOffset    \* bytes of the length at the end of the last: 8

ASSUME BlockAssumption == BlockLen \in Nat /\ PadOffset \in 1 .. BlockLen - 1

Created == [buffer |-> [i \in 1 .. BlockLen |-> 0], pos |-> 0, length |-> 0, blocks |-> <<>>]

(* Bytes behind those in the buffer, which is processed once it is full. *)
Filled(h, bytes) ==
  LET pos    == h.pos + Len(bytes)
      buffer == [i \in 1 .. BlockLen |->
                   IF i \in h.pos + 1 .. pos THEN bytes[i - h.pos] ELSE h.buffer[i]]
  IN [h EXCEPT !.buffer = buffer,
               !.pos    = pos % BlockLen,
               !.blocks = IF pos = BlockLen THEN Append(@, buffer) ELSE @]

(* One turn of the loop in update, with the data that is still to come: a  *)
(* whole block is processed where it is, if the buffer is empty.           *)
Turn(state) ==
  LET hash == state.hash
      take == Min({BlockLen - hash.pos, Len(state.data)})
      head == SubSeq(state.data, 1, take)
  IN IF state.data = <<>> THEN state
     ELSE [hash |-> IF take = BlockLen THEN [hash EXCEPT !.blocks = Append(@, head)]
                    ELSE Filled(hash, head),
           data |-> SubSeq(state.data, take + 1, Len(state.data))]

(* Each turn takes something, so there are no more than there are bytes. *)
Fed(h, data) ==
  LET after[k \in 0 .. Len(data)] ==
        IF k = 0 THEN [hash |-> h, data |-> data] ELSE Turn(after[k - 1])
  IN after[Len(data)].hash

update(h, data) == [Fed(h, data) EXCEPT !.length = @ + Len(data)]

(* setBigUint64, of what is less than 2^31. *)
BigEndian(value, width) ==
  [j \in 1 .. width |-> IF width - j > 3 THEN 0 ELSE (value \div (256 ^ (width - j))) % 256]

(* Mutant of digestInto: a length that just fits gets a block of its own. *)
digestEarly(h) ==
  LET pos == h.pos + 1
      marked == [i \in 1 .. BlockLen |-> CASE i < pos -> h.buffer[i] [] i = pos -> 128 [] OTHER -> 0]
      full == PadOffset >= BlockLen - pos
      zeros == [i \in 1 .. BlockLen - PadOffset |-> 0]
  IN h.blocks \o IF full THEN <<marked, zeros \o BigEndian(h.length * 8, PadOffset)>>
                 ELSE <<SubSeq(marked, 1, BlockLen - PadOffset) \o BigEndian(h.length * 8, PadOffset)>>

(* All blocks, with the mark, zeros in place of what the buffer held from  *)
(* before, and the length, in a block of its own if there is no room.      *)
digestInto(h) ==
  LET pos == h.pos + 1
      marked == [i \in 1 .. BlockLen |-> CASE i < pos -> h.buffer[i] [] i = pos -> 128 [] OTHER -> 0]
      full == PadOffset > BlockLen - pos
      zeros == [i \in 1 .. BlockLen - PadOffset |-> 0]
  IN h.blocks \o IF full THEN <<marked, zeros \o BigEndian(h.length * 8, PadOffset)>>
                 ELSE <<SubSeq(marked, 1, BlockLen - PadOffset) \o BigEndian(h.length * 8, PadOffset)>>

(* hash(message), and what two calls of update come to. *)
hashC(message, first) ==
  digestInto(update(update(Created, SubSeq(message, 1, first)), SubSeq(message, first + 1, Len(message))))
=============================================================================
