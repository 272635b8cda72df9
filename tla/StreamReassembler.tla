------------------------- MODULE StreamReassembler -------------------------
(***************************************************************************)
(* class StreamReassembler (libsponge/stream_reassembler.{hh,cc}): takes   *)
(* substrings of a byte stream in any order and writes the contiguous      *)
(* part to its output ByteStream.  One record is one object.  The map      *)
(* _unassembled from index to byte is a function whose domain is the set   *)
(* of stored indices.                                                      *)
(***************************************************************************)
EXTENDS ByteStream, FiniteSets, FiniteSetsExt

(* StreamReassembler::StreamReassembler *)
NewReassembler(cap) ==
    [output |-> NewByteStream(cap), capacity |-> cap, unassembled |-> <<>>,
     unassembled_bytes |-> 0, if_eof |-> FALSE, next_index |-> 0]

(* Lines 29-51: cut off what was assembled already, discard what starts    *)
(* beyond the window, and keep at most remaining_capacity bytes.           *)
start_index(r, index) == IF index < r.next_index THEN r.next_index ELSE index

(* Mutated form: the last assembled byte is kept. *)
front_sliced_OffByOne(r, data, index) ==
    IF index < r.next_index
    THEN SubSeq(data, r.next_index - index, Len(data))
    ELSE IF index >= r.next_index + remaining_capacity(r.output)
         THEN <<>> ELSE data

front_sliced(r, data, index) ==
    IF index < r.next_index
    THEN SubSeq(data, r.next_index - index + 1, Len(data))
    ELSE IF index >= r.next_index + remaining_capacity(r.output)
         THEN <<>> ELSE data

subdata(r, data, index) ==
    LET d == front_sliced(r, data, index)
    IN  SubSeq(d, 1, Lesser(Len(d), remaining_capacity(r.output)))

(* Lines 54-60: the offsets of sub that go into the map.  The loop stops   *)
(* storing once the map holds more than capacity entries.                  *)
stored(r, sub, start) ==
    {i \in 0 .. Len(sub) - 1 :
        Cardinality(DOMAIN r.unassembled
                    \union {start + k : k \in 0 .. i - 1}) <= r.capacity}

(* Mutated form: bytes that were stored before are counted again. *)
insert_CountsTwice(r, sub, start) ==
    LET new == {start + i : i \in stored(r, sub, start)}
    IN  [r EXCEPT
           !.unassembled = [k \in DOMAIN @ \union new |->
                              IF k \in new THEN sub[k - start + 1] ELSE @[k]],
           !.unassembled_bytes = @ + Cardinality(new)]

insert(r, sub, start) ==
    LET old == DOMAIN r.unassembled
        new == {start + i : i \in stored(r, sub, start)}
    IN  [r EXCEPT
           !.unassembled = [k \in old \union new |->
                              IF k \in new THEN sub[k - start + 1] ELSE @[k]],
           !.unassembled_bytes = @ + Cardinality(new \ old)]

(* Mutated form: one byte of room stays unused. *)
assemblable_RoomLost(r) ==
    Max({0} \union {n \in 0 .. remaining_capacity(r.output) - 1 :
           \A k \in r.next_index .. r.next_index + n - 1 :
              k \in DOMAIN r.unassembled})

(* Lines 62-78: the number of bytes at the front of the map that are next  *)
(* in the stream and still fit into the output.                            *)
assemblable(r) ==
    Max({n \in 0 .. remaining_capacity(r.output) :
           \A k \in r.next_index .. r.next_index + n - 1 :
              k \in DOMAIN r.unassembled})

(* Lines 62-80: move them to the output. *)
assemble(r) ==
    LET n == assemblable(r)
        assembled == [i \in 1 .. n |-> r.unassembled[r.next_index + i - 1]]
        rest == DOMAIN r.unassembled \ (r.next_index .. r.next_index + n - 1)
    IN  [r EXCEPT !.unassembled = [k \in rest |-> @[k]],
                  !.unassembled_bytes = @ - n,
                  !.next_index = @ + n,
                  !.output = write(@, assembled)]

(* Mutated forms: the end is announced with bytes missing, or never. *)
finish_Early(r) == IF r.if_eof THEN [r EXCEPT !.output = end_input(@)] ELSE r
finish_Never(r) == r

(* Lines 82-83 *)
finish(r) ==
    IF r.if_eof /\ r.unassembled_bytes = 0
    THEN [r EXCEPT !.output = end_input(@)] ELSE r

(* StreamReassembler::push_substring *)
push_substring(r, data, index, is_eof) ==
    finish(assemble(insert([r EXCEPT !.if_eof = @ \/ is_eof],
                           subdata(r, data, index), start_index(r, index))))
=============================================================================
