------------------------------- MODULE MCPersist -------------------------------
(***************************************************************************)
(* Model-checking harness for Persist: two keys; a string and a          *)
(* two-element list (so element order and truncation matter); no         *)
(* deadline or deadline 5 with the clock running from 5 to 6, so an entry *)
(* saved live at 5 is expired when loaded at 6.                           *)
(***************************************************************************)
EXTENDS Persist, TLC
LOCAL INSTANCE SequencesExt

CONSTANTS k1, k2, s1, s2

MCKeys == {k1, k2}
MCStrs == {s1, s2}
MCValues == {obj_create_string(s1),
             [obj_create_list EXCEPT !.list = <<s1, s2>>]}
MCDeadlines == {-1, 5}

Symmetry == Permutations(MCKeys)

\* No step reads ret, and the temporary file is only read by the rename of
\* the save that wrote it: once the save is over, what is left of it is
\* overwritten by the next fopen before any read.
StateView == <<db, now, saved, pc, IF pc = "idle" THEN fs[Dump] ELSE fs>>

-----------------------------------------------------------------------------
\* Spec section 8 (property 9), section 6 ("overwritten atomically") and
\* section 4.8, and the comment "Atomic
\* rename" above persist.c:129: after a restart, persist_load gives back
\* exactly the live entries of the keyspace as of the last persist_save
\* that returned 0 -- whatever saves failed, and whatever steps of a save
\* were in progress, since then.
RestartRestoresLastSave == [][Restart => db' = Live(saved)]_vars

\* A truncated list record: same deadline, and the elements read before
\* the file ended are the first elements of the saved list.
TruncatedList(got, want) ==
    /\ want # NoEntry
    /\ got.expire = want.expire
    /\ got.obj.type = "list" /\ want.obj.type = "list"
    /\ IsPrefix(got.obj.list, want.obj.list)

\* Whatever write, flush, rename or crash failures happened, a restart's
\* persist_load never makes up or changes an entry: each key is absent, or
\* holds exactly its live entry of the last save that returned 0, or (the
\* fclose flush lost the end of the file, persist.c:126 and the break at
\* persist.c:211) holds a prefix of that entry's list.
RestartLoadsOnlySaved ==
    [][Restart => \A k \in Keys :
                    \/ db'[k] = NoEntry
                    \/ db'[k] = Live(saved)[k]
                    \/ TruncatedList(db'[k], Live(saved)[k])]_vars
==============================================================================
