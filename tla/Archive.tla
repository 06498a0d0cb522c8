------------------------------ MODULE Archive -------------------------------
(***************************************************************************)
(* The archives of serialize.hpp and protocol.hpp: how values become bytes *)
(* and come back.                                                          *)
(*                                                                         *)
(* A type describes how the templates treat values of it:                  *)
(*                                                                         *)
(*     Num(n)          an arithmetic or enumeration type of n bytes        *)
(*     List(T)         vector, string and span: a length and elements      *)
(*     Array(T, n)     an array or static span of n elements               *)
(*     Map(K, T)       unordered_map                                       *)
(*     Struct(Ts)      a class with a member serializable, which passes    *)
(*                     members of types Ts to the archive                  *)
(*                                                                         *)
(* The value of a List, Array or Struct is a sequence, that of a Map a     *)
(* function.                                                               *)
(***************************************************************************)
EXTENDS Integers, SequencesExt, TLC

CONSTANTS
    Byte,             \* how many values a byte has, 256
    sizeof_size_t,
    sizeof_int,
    min_capacity      \* of a StringSaveArchive, 64

Num(n) == [kind |-> "num", size |-> n]
List(T) == [kind |-> "list", of |-> T]
Array(T, n) == [kind |-> "array", of |-> T, size |-> n]
Map(K, T) == [kind |-> "map", key |-> K, of |-> T]
Struct(Ts) == [kind |-> "struct", fields |-> Ts]

size_t == Num(sizeof_size_t)
string == List(Num(1))

is_trivially_serializable(T) == T.kind = "num"

Raw(n, v) == [i \in 1..n |-> (v \div Byte^(i - 1)) % Byte]

Sum(ns) == FoldLeft(LAMBDA a, b : a + b, 0, ns)

Number(bytes) == Sum([i \in DOMAIN bytes |-> bytes[i] * Byte^(i - 1)])

Copies(n, x) == [i \in 1..n |-> x]

-----------------------------------------------------------------------------
(***************************************************************************)
(* operator<<.  Chunks are what one call of get_save_cursor each makes     *)
(* room for.                                                               *)
(***************************************************************************)
RECURSIVE Chunks(_, _), real_size(_, _), Fresh(_), Load(_, _, _, _), LoadEach(_, _, _, _)
RECURSIVE _span_deserialize(_, _, _, _), load_map(_, _, _, _)

_span_serialize(T, vs) ==
    LET chunks == FlattenSeq([i \in DOMAIN vs |-> Chunks(T, vs[i])])
    IN  IF is_trivially_serializable(T) THEN <<FlattenSeq(chunks)>> ELSE chunks

Chunks(T, v) ==
    CASE T.kind = "num" -> <<Raw(T.size, v)>>
      [] T.kind = "list" -> Chunks(size_t, Len(v)) \o _span_serialize(T.of, v)
      [] T.kind = "array" -> _span_serialize(T.of, v)
      [] T.kind = "map" ->
            LET keys == SetToSeq(DOMAIN v)
                pair(k) == Chunks(T.key, k) \o Chunks(T.of, v[k])
            IN  Chunks(size_t, Len(keys)) \o FlattenSeq([i \in DOMAIN keys |-> pair(keys[i])])
      [] T.kind = "struct" -> FlattenSeq([i \in DOMAIN v |-> Chunks(T.fields[i], v[i])])

real_size(T, v) ==
    LET elements(U, vs) == Sum([i \in DOMAIN vs |-> real_size(U, vs[i])])
    IN  CASE T.kind = "num" -> T.size
          [] T.kind = "list" -> sizeof_size_t + elements(T.of, v)
          [] T.kind = "array" -> elements(T.of, v)
          [] T.kind = "map" ->
                LET keys == SetToSeq(DOMAIN v)
                IN  sizeof_size_t + elements(T.key, keys)
                      + elements(T.of, [i \in DOMAIN keys |-> v[keys[i]]])
          [] T.kind = "struct" -> Sum([i \in DOMAIN v |-> real_size(T.fields[i], v[i])])

(***************************************************************************)
(* StringSaveArchive: a buffer that grows.  Bytes that are written past    *)
(* its end do not arrive.                                                  *)
(***************************************************************************)
Written(a, chunk) ==
    LET all == a.bytes \o chunk
    IN  [a EXCEPT !.bytes =
            IF Len(all) > a.capacity THEN SubSeq(all, 1, a.capacity) ELSE all]

grow(a, num) ==
    LET used == Len(a.bytes)
    IN  IF used + num > a.capacity
        THEN [a EXCEPT !.capacity =
                 IF used + num > a.capacity * 2 THEN used + num ELSE a.capacity * 2]
        ELSE a

create_string(T, v) ==
    FoldLeft(LAMBDA a, chunk : Written(grow(a, Len(chunk)), chunk),
             [capacity |-> min_capacity, bytes |-> <<>>], Chunks(T, v)).bytes

\* message::build: a FixSizeBufferSavingArchive over the real sizes' worth of zeros.
build(Ts, vs) ==
    LET total == Sum([i \in DOMAIN vs |-> real_size(Ts[i], vs[i])])
        bytes == FlattenSeq(FlattenSeq([i \in DOMAIN vs |-> Chunks(Ts[i], vs[i])]))
    IN  IF Len(bytes) > total THEN {}
        ELSE {bytes \o Copies(total - Len(bytes), 0)}

-----------------------------------------------------------------------------
(***************************************************************************)
(* operator>>, into an object that has a value.  An operator takes the     *)
(* number of bytes that were loaded before it, and returns the object's    *)
(* value and the new number, which is Overflow when an exception is raised.*)
(***************************************************************************)
Overflow == -1

Fresh(T) ==
    CASE T.kind = "num" -> 0
      [] T.kind \in {"list", "map"} -> <<>>
      [] T.kind = "array" -> Copies(T.size, Fresh(T.of))
      [] T.kind = "struct" -> [i \in DOMAIN T.fields |-> Fresh(T.fields[i])]

resized_appends(T, r, n) == r \o Copies(n, Fresh(T))

\* r.resize(n)
resized(T, r, n) == [i \in 1..n |-> IF i <= Len(r) THEN r[i] ELSE Fresh(T)]

get_load_cursor(buf, at, num) ==
    IF at = Overflow \/ at + num > Len(buf) THEN Overflow ELSE at + num

Load(T, buf, at, old) ==
    CASE T.kind = "num" ->
            LET end == get_load_cursor(buf, at, T.size)
            IN  [v |-> IF end = Overflow THEN old ELSE Number(SubSeq(buf, at + 1, end)),
                 at |-> end]
      [] T.kind = "list" ->
            LET n == Load(size_t, buf, at, 0)
            IN  IF n.at = Overflow THEN [v |-> old, at |-> Overflow]
                ELSE _span_deserialize(T.of, buf, n.at, resized(T.of, old, n.v))
      [] T.kind = "array" -> _span_deserialize(T.of, buf, at, old)
      [] T.kind = "map" -> load_map(T, buf, Load(size_t, buf, at, 0), old)
      [] T.kind = "struct" -> LoadEach(T.fields, buf, at, old)

LoadEach(Ts, buf, at, olds) ==
    FoldLeft(LAMBDA r, i : LET x == Load(Ts[i], buf, r.at, olds[i])
                           IN  [v |-> [r.v EXCEPT ![i] = x.v], at |-> x.at],
             [v |-> olds, at |-> at], [i \in DOMAIN olds |-> i])

_span_deserialize(T, buf, at, olds) ==
    IF /\ is_trivially_serializable(T)
       /\ get_load_cursor(buf, at, Len(olds) * T.size) = Overflow
    THEN [v |-> olds, at |-> Overflow]
    ELSE LoadEach(Copies(Len(olds), T), buf, at, olds)

\* The entries are put into the map, which keeps those of other keys.
load_map(T, buf, length, old) ==
    FoldLeft(LAMBDA r, i :
                 LET x == LoadEach(<<T.key, T.of>>, buf, r.at, <<Fresh(T.key), Fresh(T.of)>>)
                 IN  IF x.at = Overflow THEN [r EXCEPT !.at = Overflow]
                     ELSE [v |-> (x.v[1] :> x.v[2]) @@ r.v, at |-> x.at],
             [v |-> old, at |-> length.at],
             IF length.at = Overflow THEN <<>> ELSE [i \in 1..length.v |-> i])

create_from_string(T, buf) ==
    LET x == Load(T, buf, 0, Fresh(T)) IN IF x.at = Overflow THEN {} ELSE {x.v}

\* message::cast, into arguments that have values.
cast(buf, Ts, olds) == LoadEach(Ts, buf, 0, olds)

-----------------------------------------------------------------------------
(***************************************************************************)
(* The messages of runtime_protocol.hpp: a header, then the members.       *)
(***************************************************************************)
WorkerInfo == Struct(<<Struct(<<Num(2), string>>)>>)
Firsconnection(data_len) == Struct(<<Struct(<<Array(Num(1), data_len)>>)>>)
FirsconnectionOK == Struct(<<>>)
WorkerInfoMap == Struct(<<Map(Num(sizeof_int), WorkerInfo)>>)

to_buffer(message_type, T, msg) == build(<<Num(1), T>>, <<message_type, msg>>)

\* The message type is looked at when the members are loaded already.
from_buffer(message_type, T, buf) ==
    LET x == cast(buf, <<Num(1), T>>, <<0, Fresh(T)>>)
    IN  IF x.at = Overflow \/ x.v[1] # message_type THEN {} ELSE {x.v[2]}

=============================================================================
