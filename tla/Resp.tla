-------------------------------- MODULE Resp --------------------------------
(***************************************************************************)
(* The RESP codec of resp.c.  A buffer is a sequence of bytes.  The bytes  *)
(* the protocol reads ("+", "-", ":", "$", "*", the digits, CR, LF) are     *)
(* one-character strings; NUL is the string "NUL"; any other payload byte  *)
(* is a value that is none of these (a model value or a longer string).    *)
(*                                                                         *)
(* resp_parse_value follows the C function case by case, recursively for  *)
(* arrays: it yields [n |-> bytes consumed, v |-> the value], with n = 0   *)
(* for incomplete and n = -1 for malformed.  A value is a record with the  *)
(* fields of resp_value_t: its type, its string, its number, its items.    *)
(* The writers yield the bytes they append to the reply buffer.            *)
(***************************************************************************)
EXTENDS Integers, Sequences

CR   == "\r"
LF   == "\n"
NUL  == "NUL"
CRLF == <<CR, LF>>

DigitChars == <<"0", "1", "2", "3", "4", "5", "6", "7", "8", "9">>
IsDigit(b)  == \E d \in 1..10 : DigitChars[d] = b
DigitOf(b)  == CHOOSE d \in 0..9 : DigitChars[d + 1] = b

\* snprintf "%lld" / "%zu": the decimal digits of n, with a sign if n < 0.
RECURSIVE Digits(_)
Digits(n) == IF n < 10 THEN <<DigitChars[n + 1]>>
             ELSE Digits(n \div 10) \o <<DigitChars[(n % 10) + 1]>>
Decimal(n) == IF n < 0 THEN <<"-">> \o Digits(-n) ELSE Digits(n)

\* strtoll(s, NULL, 10): an optional sign, then the leading digits; it
\* stops at the first other byte and yields 0 if there is no digit.
RECURSIVE DigitsValue(_, _)
DigitsValue(s, acc) ==
    IF s = <<>> THEN acc
    ELSE IF IsDigit(Head(s)) THEN DigitsValue(Tail(s), 10 * acc + DigitOf(Head(s)))
    ELSE acc
strtoll(s) ==
    IF s # <<>> /\ Head(s) = "-" THEN -DigitsValue(Tail(s), 0)
    ELSE IF s # <<>> /\ Head(s) = "+" THEN DigitsValue(Tail(s), 0)
    ELSE DigitsValue(s, 0)

\* atoi is (int)strtol, which wraps a length of 2^31 or more; the lengths
\* and counts of the model have at most two digits.
atoi(s) == strtoll(s)

\* The least of a nonempty set of indices.
First(S) == CHOOSE j \in S : \A k \in S : j <= k

\* Mutant: a line ends at the first CR, whatever follows it.
find_crlf_cr(buf) ==
    LET at == {j \in 1..Len(buf) : buf[j] = CR}
    IN IF at = {} THEN 0 ELSE First(at)

\* find_crlf: the index of the first CR that a LF follows, 0 if none.
find_crlf(buf) ==
    LET at == {j \in 1..Len(buf) - 1 : buf[j] = CR /\ buf[j + 1] = LF}
    IN IF at = {} THEN 0 ELSE First(at)

\* imdb_strndup(p, n) copies min(n, strlen(p)) bytes: s is the n bytes at
\* p, cut at the first NUL.
strndup(s) ==
    LET z == {j \in DOMAIN s : s[j] = NUL}
    IN IF z = {} THEN s ELSE SubSeq(s, 1, First(z) - 1)

Val(t, str, num, items) == [t |-> t, str |-> str, num |-> num, items |-> items]
NilValue   == Val("nil", <<>>, 0, <<>>)
Result(n, v) == [n |-> n, v |-> v]
Incomplete == Result(0, NilValue)
Malformed  == Result(-1, NilValue)

RECURSIVE resp_parse_value(_), ParseItems(_, _, _, _)

\* The loop of the '*' case: parse `count` more items from byte total + 1;
\* the first item that is incomplete or malformed ends the parse with its
\* result.
ParseItems(buf, total, count, items) ==
    IF count = 0 THEN Result(total, Val("array", <<>>, 0, items))
    ELSE LET r == resp_parse_value(SubSeq(buf, total + 1, Len(buf)))
         IN IF r.n <= 0 THEN Result(r.n, NilValue)
            ELSE ParseItems(buf, total + r.n, count - 1, Append(items, r.v))

resp_parse_value(buf) ==
    IF buf = <<>> \/ find_crlf(buf) = 0 THEN Incomplete
    ELSE
    LET crlf     == find_crlf(buf)
        line     == SubSeq(buf, 2, crlf - 1)
        consumed == crlf + 1
        len      == atoi(line)
    IN CASE buf[1] = "+" -> Result(consumed, Val("simple", strndup(line), 0, <<>>))
         [] buf[1] = "-" -> Result(consumed, Val("error", strndup(line), 0, <<>>))
         [] buf[1] = ":" -> Result(consumed, Val("int", <<>>, strtoll(line), <<>>))
         [] buf[1] = "$" ->
              IF len = -1 THEN Result(consumed, NilValue)
              ELSE IF len < 0 THEN Malformed
              ELSE IF consumed + len + 2 > Len(buf) THEN Incomplete
              ELSE Result(consumed + len + 2,
                          Val("bulk", strndup(SubSeq(buf, consumed + 1, consumed + len)), 0, <<>>))
         [] buf[1] = "*" ->
              IF len = -1 THEN Result(consumed, NilValue)
              ELSE IF len < 0 THEN Malformed
              ELSE ParseItems(buf, consumed, len, <<>>)
         [] OTHER -> Malformed

resp_parse(buf) == resp_parse_value(buf)

-----------------------------------------------------------------------------
(* The writers.  Simple strings and errors go through resp_buf_appendf,    *)
(* whose 128-byte buffer no reply of the model fills.                      *)

resp_write_simple_string(s) == <<"+">> \o s \o CRLF
resp_write_error(s)         == <<"-">> \o s \o CRLF
resp_write_integer(n)       == <<":">> \o Decimal(n) \o CRLF
resp_write_bulk_string(s)   == <<"$">> \o Decimal(Len(s)) \o CRLF \o s \o CRLF
resp_write_nil              == <<"$", "-", "1">> \o CRLF
resp_write_array_header(c)  == <<"*">> \o Decimal(c) \o CRLF
=============================================================================
