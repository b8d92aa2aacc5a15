---------------------------- MODULE VersionLedger ----------------------------
(***************************************************************************)
(* What the knowledge store promises about the versions of a source:        *)
(* a version is recorded once and for ever, a source's new content is       *)
(* numbered above all its earlier content, and the same content read by     *)
(* another parser keeps its number; short of restoring a backup.            *)
(***************************************************************************)
EXTENDS Naturals

CONSTANTS Sources, Contents, Parsers

VARIABLES
    ledger,     \* set of [source, content, parser, number]
    kept        \* the ledgers backed up

Entry == [source : Sources, content : Contents, parser : Parsers, number : Nat \ {0}]

Of(s) == {e \in ledger : e.source = s}

Init == ledger = {} /\ kept = {}

Record(e) ==
    LET same == {f \in Of(e.source) : f.content = e.content} IN
    /\ \A f \in same : f.parser # e.parser /\ f.number = e.number
    /\ same = {} => \A f \in Of(e.source) : f.number < e.number
    /\ ledger' = ledger \cup {e}
    /\ UNCHANGED kept

Backup == kept' = kept \cup {ledger} /\ UNCHANGED ledger

Restore == ledger' \in kept /\ UNCHANGED kept

\* One store call records one version.
Next ==
    \/ \E e \in ledger' : e \in Entry /\ Record(e)
    \/ Backup \/ Restore

Spec == Init /\ [][Next]_<<ledger, kept>>
=============================================================================
