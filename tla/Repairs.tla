------------------------------ MODULE Repairs ------------------------------
(***************************************************************************)
(* The cases of the pilot (research/pilot.py): validate_case() accepts a   *)
(* document with two candidate edits, repaired_blocks() applies a          *)
(* selection of them, and injected_case() turns the edits into corruptions *)
(* and computes the inverse edits that take them back.  Offsets count from *)
(* 0, an edit replaces text[start:end].                                    *)
(***************************************************************************)
EXTENDS Integers, Sequences

CONSTANTS
    Blocks,  \* documents: functions from block identifiers to texts
    Edits    \* what one candidate may be: [block, start, end, after]

VARIABLES
    given,  \* the case of the input files
    case    \* the case as written: [blocks, repairs], or "refused"

vars == <<given, case>>

Candidates == {"A", "B"}
MaxN(a, b) == IF a > b THEN a ELSE b
MinN(a, b) == IF a < b THEN a ELSE b
Slice(t, from, to) == SubSeq(t, from + 1, MinN(to, Len(t)))
Before(blocks, e) == Slice(blocks[e.block], e.start, e.end)

\* An edit lies within its block, says what is there, and changes it.
ValidEdit(blocks, e) ==
    /\ e.block \in DOMAIN blocks
    /\ 0 <= e.start /\ e.start < e.end /\ e.end <= Len(blocks[e.block])
    /\ e.before = Before(blocks, e)
    /\ e.after # e.before

Overlap(e, f) == e.block = f.block /\ MaxN(e.start, f.start) < MinN(e.end, f.end)

\* validate_case()
ValidCase(c) ==
    /\ \A r \in Candidates : ValidEdit(c.blocks, c.repairs[r])
    /\ ~Overlap(c.repairs["A"], c.repairs["B"])

Apply(t, e) == Slice(t, 0, e.start) \o e.after \o Slice(t, e.end, Len(t))

\* Mutant of Last: edits are applied from the left.
First(repairs, edits) ==
    CHOOSE r \in edits : \A s \in edits : repairs[r].start <= repairs[s].start

\* From the right, so that the offsets of the others stay valid.
Last(repairs, edits) ==
    CHOOSE r \in edits : \A s \in edits : repairs[s].start <= repairs[r].start

\* One round of the loop over the selected edits of a block, and what it leaves.
ApplyLast(repairs, edits, t) ==
    IF edits = {} THEN t ELSE Apply(t, repairs[Last(repairs, edits)])
WithoutLast(repairs, edits) == {r \in edits : r # Last(repairs, edits)}

\* There are two candidates, so two rounds at most.
RepairedText(repairs, edits, t) ==
    ApplyLast(repairs, WithoutLast(repairs, edits), ApplyLast(repairs, edits, t))

\* repaired_blocks()
RepairedBlocks(c, selected) ==
    [b \in DOMAIN c.blocks |->
        RepairedText(c.repairs, {r \in selected : c.repairs[r].block = b}, c.blocks[b])]

Other(r) == IF r = "A" THEN "B" ELSE "A"

\* How far the other edit moves an edit: by what it adds, if it lies before it.
Shift(repairs, r) ==
    LET e == repairs[r]
        other == repairs[Other(r)]
    IN IF other.block = e.block /\ other.end <= e.start
       THEN Len(other.after) - Len(other.before) ELSE 0

InverseEdit(repairs, r) ==
    LET e == repairs[r]
        start == e.start + Shift(repairs, r)
    IN [e EXCEPT !.start = start, !.end = start + Len(e.after),
                 !.before = e.after, !.after = e.before]

\* injected_case(): the document with both edits, and their inverses.
InjectedCase(c) ==
    [blocks |-> RepairedBlocks(c, Candidates),
     repairs |-> [r \in Candidates |-> InverseEdit(c.repairs, r)]]

Refused == [blocks |-> <<>>, repairs |-> <<>>]

\* The supplied edits quote the text they replace.
Init ==
    /\ \E blocks \in Blocks : \E a, b \in Edits :
         /\ {a.block, b.block} \subseteq DOMAIN blocks
         /\ given = [blocks |-> blocks,
                     repairs |-> [r \in Candidates |->
                        LET e == IF r = "A" THEN a ELSE b IN
                        [block |-> e.block, start |-> e.start, end |-> e.end,
                         before |-> Before(blocks, e), after |-> e.after]]]
    /\ case = given

\* make-case --inject
Inject ==
    /\ case = given
    /\ case' = IF /\ ValidCase(given)
                  /\ \A r \in Candidates : given.repairs[r].after # <<>>
               THEN InjectedCase(given) ELSE Refused
    /\ UNCHANGED given

Next == Inject
Spec == Init /\ [][Next]_vars

-----------------------------------------------------------------------------
\* The edits of an injected case take the corruptions back, one at a time or both,
\* whatever lengths the edits have and wherever they lie; and the case is valid,
\* so that the last check of injected_case() never refuses it.
RepairsInvert ==
    case \notin {given, Refused} =>
        /\ ValidCase(case)
        /\ \A selected \in SUBSET Candidates :
              RepairedBlocks(case, selected) = RepairedBlocks(given, Candidates \ selected)
=============================================================================
