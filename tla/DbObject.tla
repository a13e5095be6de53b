------------------------------- MODULE DbObject -------------------------------
(***************************************************************************)
(* Value objects (src/src/object.c) and the list type behind them          *)
(* (src/src/list.c).                                                       *)
(*                                                                         *)
(* A dbobj_t is a record whose `type` is "string", "int" or "list"; the    *)
(* fields of the other kinds hold fixed defaults, as the union's other     *)
(* members are never read.  A byte string is a member of Strs, a model     *)
(* value: no operation of the keyspace looks inside one.  An int64_t is an *)
(* integer of IntWidth bits, kept in range by two's-complement wrapping.   *)
(* A list_t is a sequence: head is element 1, tail is element Len.         *)
(***************************************************************************)
EXTENDS Integers, Sequences

CONSTANTS
    Strs,       \* byte strings that do not parse as an integer
    NoStr,      \* the str member of a non-string object
    IntWidth    \* bits of int64_t (64 in the code)

ASSUME NoStr \notin Strs /\ IntWidth \in 2..64

IntMin == -(2^(IntWidth - 1))       \* INT64_MIN
IntMax == 2^(IntWidth - 1) - 1      \* INT64_MAX
Int64 == IntMin..IntMax

\* Signed arithmetic on w bits as the build performs it: it wraps.
WrapTo(w, x) == ((x + 2^(w - 1)) % (2^w)) - 2^(w - 1)

Wrap(x) == WrapTo(IntWidth, x)

(***************************************************************************)
(* A request argument.  obj_try_parse_int accepts exactly the strings      *)
(* strtoll reads completely without overflow ("digits", with the number    *)
(* they denote); every other string is "text".                             *)
(***************************************************************************)
Literals == [kind : {"digits"}, num : Int64] \cup [kind : {"text"}, str : Strs]

obj_try_parse_int(lit) == lit.kind = "digits"

obj_create_string(s) == [type |-> "string", str |-> s, num |-> 0, list |-> <<>>]
obj_create_int(n)    == [type |-> "int", str |-> NoStr, num |-> n, list |-> <<>>]
obj_create_list      == [type |-> "list", str |-> NoStr, num |-> 0, list |-> <<>>]

\* o is a well-formed object whose list, if any, has at most maxLen elements.
IsObject(o, maxLen) ==
    \/ o \in {obj_create_string(s) : s \in Strs}
    \/ o \in {obj_create_int(n) : n \in Int64}
    \/ /\ o.type = "list" /\ o.str = NoStr /\ o.num = 0
       /\ o.list \in Seq(Strs) /\ Len(o.list) <= maxLen

\* list_lpush / list_rpush / list_lpop / list_rpop on the list of an object.
list_lpush(o, s) == [o EXCEPT !.list = <<s>> \o @]
list_rpush(o, s) == [o EXCEPT !.list = Append(@, s)]
list_lpop(o)     == [o EXCEPT !.list = Tail(@)]
list_rpop(o)     == [o EXCEPT !.list = SubSeq(@, 1, Len(@) - 1)]

(***************************************************************************)
(* list_range: negative indices count from the end, start is clamped at 0  *)
(* and stop at len-1, and an empty range yields no elements.  The result   *)
(* is the sequence of borrowed element pointers.                           *)
(***************************************************************************)
list_range(l, start, stop) ==
    LET len == Len(l)
        s1  == IF start < 0 THEN len + start ELSE start
        t1  == IF stop < 0 THEN len + stop ELSE stop
        s   == IF s1 < 0 THEN 0 ELSE s1
        t   == IF t1 >= len THEN len - 1 ELSE t1
    IN  IF s > t \/ s >= len THEN <<>> ELSE SubSeq(l, s + 1, t + 1)

==============================================================================
