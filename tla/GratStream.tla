------------------------------ MODULE GratStream ------------------------------
(***************************************************************************)
(* GRATManager on its own: translate() produces items for a line of the    *)
(* proof, looks at the size of the buffer after the line, and has the      *)
(* proof written at the end.  It implements GratLog.                       *)
(***************************************************************************)
EXTENDS GratManager

CONSTANTS
    Entries,                \* the item sequences that one call produces
    Total,                  \* the number of clauses of the CNF file
    MaxItems                \* a bound on the length of the log

VARIABLES
    mode,                   \* "open", then "writing", then "closed"
    emitted                 \* history: all items so far

streamVars == <<gratVars, mode, emitted>>

ASSUME StreamAssumption ==
    /\ Entries \subseteq Seq([tag : {1, 3, 5, 6}, lemma : Int, units : Seq(Int), conflict : Int])
    /\ Total \in Nat
    /\ MaxItems \in Nat

Init ==
    /\ GratInit
    /\ mode = "open"
    /\ emitted = <<>>

Produce(items) ==
    /\ mode = "open"
    /\ Len(emitted \o items) <= MaxItems
    /\ Emit(items)
    /\ emitted' = emitted \o items
    /\ UNCHANGED mode

EndOfLine ==
    /\ mode = "open"
    /\ EmitAndDump(<<>>)
    /\ UNCHANGED <<mode, emitted>>

BeginWriting ==
    /\ mode = "open"
    /\ mode' = "writing"
    /\ UNCHANGED <<gratVars, emitted>>

WriteOneBuffer ==
    /\ mode = "writing"
    /\ WriteBuffer(Total)
    /\ mode' = IF aux_files = <<>> THEN "closed" ELSE mode
    /\ UNCHANGED emitted

Closed == mode = "closed" /\ UNCHANGED streamVars

Next == (\E items \in Entries : Produce(items)) \/ EndOfLine \/ BeginWriting
        \/ WriteOneBuffer \/ Closed

Spec == Init /\ [][Next]_streamVars

-----------------------------------------------------------------------------
InFile(item) == Numbered(item, Total)

Log == INSTANCE GratLog WITH
           Renumber <- InFile,
           log    <- emitted,
           closed <- mode = "closed",
           file   <- IF mode = "closed" THEN grat ELSE <<>>

(* Dumping the buffer at any point, however often, does not change the file:
   all buffers, the auxiliary files newest first, add up to the log backwards. *)
ImplementsLog == Log!Spec
=============================================================================
