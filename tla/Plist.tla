-------------------------------- MODULE Plist --------------------------------
(***************************************************************************)
(* The priority-sorted list of utils/plist.c, as the sequence of its       *)
(* elements: increasing priority number, first in first out among equals.  *)
(***************************************************************************)
EXTENDS Integers, Sequences, SequencesExt


\* plist_add(e, list): before the first element of a larger priority number.
PlistAdd(list, e, prio) ==
    LET behind == {i \in 1 .. Len(list) : prio[e] < prio[list[i]]}
    IN  InsertAt(list, Min(behind \cup {Len(list) + 1}), e)

\* plist_del(e, list); nothing happens when e is on no list.
PlistDel(list, e) == RemoveFirst(list, e)

=============================================================================
