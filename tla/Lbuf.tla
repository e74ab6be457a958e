-------------------------------- MODULE Lbuf --------------------------------
(***************************************************************************)
(* The packet buffer of lib/lbuf.c: a block of memory, the window of it    *)
(* that holds the packet (data, size) and six marks, 16-bit offsets from   *)
(* the base of the block that remember where the headers are.              *)
(*                                                                         *)
(* The memory is a function from the offsets at which a field starts to    *)
(* the field: its length in bytes and its value.  Layout is exact to the   *)
(* byte and the bits inside a field are abstracted to a record whose "k"   *)
(* tells the header apart.  A field that is partly overwritten is gone,    *)
(* and an offset at which no field starts reads as Garbage.                *)
(***************************************************************************)
EXTENDS Integers, Sequences, FiniteSets, SequencesExt

UNSET == 65535
Marks == {"ip", "udp", "lhdr", "l3", "l4", "lisp"}

Field(len, v) == [len |-> len, v |-> v]
Garbage == [k |-> "garbage"]
NoBytes == <<>>

SizeOf(fields) == FoldLeft(LAMBDA n, f : n + f.len, 0, fields)

(* memcpy and memset: the fields are laid out one after the other from at *)
Store(mem, at, fields) ==
  LET end  == at + SizeOf(fields)
      kept == {o \in DOMAIN mem : o + mem[o].len <= at \/ o >= end}
      lay(acc, f) == [at |-> acc.at + f.len, mem |-> acc.mem @@ (acc.at :> f)]
  IN  FoldLeft(lay, [at |-> at, mem |-> [o \in kept |-> mem[o]]], fields).mem

Load(mem, at) == IF at \in DOMAIN mem THEN mem[at].v ELSE Garbage

(* the fields that start in the bytes lo .. hi-1, relative to lo *)
Bytes(mem, lo, hi) ==
  LET in == {o \in DOMAIN mem : lo <= o /\ o < hi}
  IN  [o \in {p - lo : p \in in} |-> mem[o + lo]]

(* some of the n bytes at offset at have been written *)
Written(mem, at, n) == \E o \in DOMAIN mem : o < at + n /\ at < o + mem[o].len

-----------------------------------------------------------------------------
(* An empty buffer over a block of memory; "moved" is a history flag that   *)
(* remembers that the block has been reallocated.                           *)
lbuf_use__(mem, allocated) ==
  [allocated |-> allocated, data |-> 0, size |-> 0, mem |-> mem,
   mark |-> [m \in Marks |-> UNSET], moved |-> FALSE]

lbuf_headroom(b) == b.data
lbuf_tail(b) == b.data + b.size
lbuf_tailroom(b) == b.allocated - lbuf_tail(b)

lbuf_resize_(b, new_headroom, new_tailroom) ==
  LET diff_offset == new_headroom - lbuf_headroom(b)
      grown == [b EXCEPT !.allocated = new_headroom + b.size + new_tailroom, !.moved = TRUE]
      copied == Bytes(b.mem, b.data, lbuf_tail(b))
  IN  IF diff_offset = 0
      THEN grown
      ELSE [grown EXCEPT
             !.data = new_headroom,
             !.mem  = [o \in {p + new_headroom : p \in DOMAIN copied} |-> copied[o - new_headroom]],
             !.mark = [m \in Marks |-> IF b.mark[m] = UNSET THEN UNSET
                                       ELSE (b.mark[m] + diff_offset) % 65536]]

Larger(a, b) == IF a > b THEN a ELSE b

lbuf_prealloc_tailroom(b, size) ==
  IF size > lbuf_tailroom(b) THEN lbuf_resize_(b, lbuf_headroom(b), Larger(size, 64)) ELSE b

lbuf_prealloc_headroom(b, size) ==
  IF size > lbuf_headroom(b) THEN lbuf_resize_(b, Larger(size, 64), lbuf_tailroom(b)) ELSE b

(* room for size bytes at the tail, filled with the fields, and room for a  *)
(* field at the head: once the block has the room, and from any block       *)
PutInRoom(b, size, fields) ==
  [b EXCEPT !.mem = Store(b.mem, lbuf_tail(b), fields), !.size = @ + size]
lbuf_put(b, size, fields) == PutInRoom(lbuf_prealloc_tailroom(b, size), size, fields)

PushInRoom(b, field) ==
  [b EXCEPT !.data = @ - field.len, !.size = @ + field.len,
            !.mem = Store(b.mem, b.data - field.len, <<field>>)]
lbuf_push(b, field) == PushInRoom(lbuf_prealloc_headroom(b, field.len), field)

lbuf_reserve(b, size) == [lbuf_prealloc_tailroom(b, size) EXCEPT !.data = size]

lbuf_new_with_headroom(size, headroom) ==
  lbuf_reserve(lbuf_use__(NoBytes, size + headroom), headroom)

lbuf_pull(b, size) ==
  IF size > b.size THEN b ELSE [b EXCEPT !.data = @ + size, !.size = @ - size]

lbuf_reset(b, m) == [b EXCEPT !.mark[m] = b.data % 65536]

lbuf_point_to(b, m) ==
  IF b.mark[m] = UNSET THEN b
  ELSE [b EXCEPT !.size = lbuf_tail(b) - b.mark[m], !.data = b.mark[m]]

(* overwrite the header at offset at *)
Rewrite(b, at, v) == [b EXCEPT !.mem[at].v = v]
=============================================================================
