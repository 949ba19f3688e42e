----------------------------- MODULE GratManager -----------------------------
(***************************************************************************)
(* GRATManager: the GRAT annotation of the proof.  It is written last item *)
(* first, but produced first item first, so it is kept in a buffer; a      *)
(* buffer that grows too large is dumped to a numbered auxiliary file, and *)
(* at the end the buffer and the auxiliary files are written backwards.    *)
(*                                                                         *)
(* A clause of the RUP file is named by a negative number until the number *)
(* of clauses before it, those of the CNF, is known.                       *)
(*                                                                         *)
(* The code's buffer is a vector of integers; here it is the sequence of   *)
(* the items they make up.                                                 *)
(***************************************************************************)
EXTENDS Integers, Sequences, SequencesExt, GratItems

CONSTANT GratCapacity       \* max_capacity, the size that triggers a dump

VARIABLES
    grat_proof,             \* the buffer
    aux_files,              \* the auxiliary files, oldest first
    grat                    \* the GRAT file

gratVars == <<grat_proof, aux_files, grat>>

-----------------------------------------------------------------------------
\* How many integers an item occupies.
ItemSize(item) ==
    CASE item.tag = 6 -> 2
      [] item.tag = 1 -> 2 + Len(item.units)
      [] item.tag = 3 -> 4 + Len(item.units)
      [] item.tag = 5 -> 2

BufferSize(items) == FoldLeft(LAMBDA n, item : n + ItemSize(item), 0, items)

\* The clause id in the checker's numbering: CNF clauses, then RUP clauses.
ClauseNumber(id, total) == IF id < 0 THEN total - id ELSE id

Numbered(item, total) ==
    [item EXCEPT !.lemma = ClauseNumber(@, total),
                 !.units = [i \in DOMAIN @ |-> ClauseNumber(@[i], total)],
                 !.conflict = ClauseNumber(@, total)]

\* write_buffer_backwards
Backwards(items, total) ==
    [i \in 1..Len(items) |-> Numbered(items[Len(items) + 1 - i], total)]

-----------------------------------------------------------------------------
GratInit ==
    /\ grat_proof = <<>>
    /\ aux_files = <<>>
    /\ grat = <<>>

\* The items are appended to the buffer.
Emit(items) ==
    /\ grat_proof' = grat_proof \o items
    /\ UNCHANGED <<aux_files, grat>>

\* The items are appended; then translate() looks at the size of the buffer
\* and calls dump_buffer.
EmitAndDump(items) ==
    LET buffer == grat_proof \o items
    IN  /\ IF BufferSize(buffer) > GratCapacity
           THEN /\ aux_files' = Append(aux_files, buffer)
                /\ grat_proof' = <<>>
           ELSE /\ grat_proof' = buffer
                /\ UNCHANGED aux_files
        /\ UNCHANGED grat

\* The auxiliary files oldest first.
WriteOldestFirst(total) ==
    /\ grat' = grat \o Backwards(grat_proof, total)
    /\ IF aux_files = <<>>
       THEN UNCHANGED <<grat_proof, aux_files>>
       ELSE /\ grat_proof' = Head(aux_files)
            /\ aux_files' = Tail(aux_files)

\* One buffer of write_grat_proof: it is written backwards, and the newest
\* auxiliary file, if there is one, is read in its place and removed.
WriteBuffer(total) ==
    /\ grat' = grat \o Backwards(grat_proof, total)
    /\ IF aux_files = <<>>
       THEN UNCHANGED <<grat_proof, aux_files>>
       ELSE /\ grat_proof' = Last(aux_files)
            /\ aux_files' = Front(aux_files)
=============================================================================
