------------------------------ MODULE MCKeyspace ------------------------------
(***************************************************************************)
(* Model-checking harness for Keyspace: two keys, two strings, 2-bit       *)
(* integers (so INCR and DECR overflow), lists of up to two elements, and  *)
(* a clock of a few ticks with 2 ms to the second, so deadlines expire,    *)
(* TTL rounds down and the sweep's rate limit both holds and lapses.       *)
(***************************************************************************)
EXTENDS Keyspace, TLC

CONSTANTS k1, k2, s1, s2, NoDeadline

MCKeys == {k1, k2}
MCStrs == {s1, s2}
MCSecs == {-1, 0, 1}
MCSecsNegative == {-3}
MCRanges == {-3, -1, 0, 1}

Symmetry == Permutations(MCKeys)

\* No action reads `result`, so states that differ only in it have the same
\* futures; and the one property that reads it, the refinement, compares
\* the result a step writes, never the one it starts from.
StateView == <<store, now, last_expire_sweep>>

\* The live keyspace a caller can observe: entries whose deadline has
\* passed but are still in the table are hidden.
\* db.c reads every negative deadline as "none" (expire < 0).
Visible == [k \in Keys |-> IF store[k] = NoEntry \/ Expired(store[k], now) THEN NoEntry
                           ELSE [store[k] EXCEPT !.expire = IF @ < 0 THEN NoDeadline ELSE @]]

KS == INSTANCE KeyspaceSpec WITH vis <- Visible

\* The behaviours without DBSIZE.
SpecWithoutSize == Init /\ [][Ops]_vars

-----------------------------------------------------------------------------
\* Spec section 3, invariant 3: a pop that empties a list removes its key,
\* so no key ever holds an empty list.
NoEmptyList == \A k \in Keys : store[k] # NoEntry => store[k].obj.list # <<>> \/ store[k].obj.type # "list"

\* Lazy expiry on every access path plus the sampling sweep are, to every
\* caller, the eager expiry of KeyspaceSpec: no operation returns or acts
\* on an entry whose deadline has passed, and every reply is the one the
\* live keyspace gives.
ImplementsKeyspaceSpec == KS!Spec
==============================================================================
