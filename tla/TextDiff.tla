------------------------------ MODULE TextDiff ------------------------------
(***************************************************************************)
(* The relative comparison of two texts (utils/text_diff.py).  A long      *)
(* normalised text is compared word by word, any other text character by   *)
(* character; the loops over the operations of the libraries take any      *)
(* alignment of the two texts, an operation for one word (or character) at *)
(* a time.  In word mode a text is the sequence of its words, and the      *)
(* characters of a part are words and spaces.                              *)
(***************************************************************************)
EXTENDS Integers, FiniteSets, Sequences

CONSTANTS
    Letters,    \* words, or characters
    MaxLength,  \* of a text
    Precision   \* the similarity is rounded to this part of one, 10^4 in the code

VARIABLES
    mode,  \* "words" or "characters"
    base, target,
    base_start, target_start,  \* how much of each the operations have passed
    part_type,  \* of the last operation, or "none"
    parts,      \* of the diff so far
    diff        \* of compare_text(): parts, counts and rounded similarity; or NoDiff

vars == <<mode, base, target, base_start, target_start, part_type, parts, diff>>

Space == " "
NoDiff == [diff |-> <<>>, similarity |-> -1]

\* The text itself: words are joined by single spaces.
Characters(t) ==
    IF mode = "characters" THEN t
    ELSE [k \in 1..(IF t = <<>> THEN 0 ELSE 2 * Len(t) - 1) |->
            IF k % 2 = 1 THEN t[(k + 1) \div 2] ELSE Space]

\* _append_part(): neighbours of one type become one part.
AppendPart(ps, type, text) ==
    IF text = <<>> THEN ps
    ELSE IF ps # <<>> /\ ps[Len(ps)].type = type
    THEN [ps EXCEPT ![Len(ps)].text = @ \o text]
    ELSE Append(ps, [type |-> type, text |-> text])

\* base_has_word and target_has_word; characters are not separated.
BaseHasWord == mode = "words" /\ base_start > 0
TargetHasWord == mode = "words" /\ target_start > 0
Prefix(has_previous_word) == IF has_previous_word THEN <<Space>> ELSE <<>>

\* Mutant of SpaceBefore: the space before a common word is common.
SpaceBeforeEqual == IF BaseHasWord \/ TargetHasWord THEN "equal" ELSE "none"

\* The space before a common word belongs to the texts that have a word already.
SpaceBefore ==
    IF BaseHasWord /\ TargetHasWord THEN "equal"
    ELSE IF BaseHasWord THEN "removed" ELSE IF TargetHasWord THEN "added" ELSE "none"

Comparing == diff = NoDiff /\ base # target
inputs == <<mode, base, target>>

\* The texts go on alike.
Equal ==
    /\ Comparing
    /\ base_start < Len(base) /\ target_start < Len(target)
    /\ base[base_start + 1] = target[target_start + 1]
    /\ base_start' = base_start + 1 /\ target_start' = target_start + 1
    /\ part_type' = "equal"
    /\ parts' = AppendPart(AppendPart(parts, SpaceBefore, Prefix(SpaceBefore # "none")),
                           "equal", <<base[base_start']>>)
    /\ UNCHANGED <<inputs, diff>>

\* Between common words, what is removed comes before what is added.
Removed ==
    /\ Comparing /\ part_type # "added" /\ base_start < Len(base)
    /\ base_start' = base_start + 1 /\ part_type' = "removed"
    /\ parts' = AppendPart(parts, "removed", Prefix(BaseHasWord) \o <<base[base_start']>>)
    /\ UNCHANGED <<inputs, target_start, diff>>

Added ==
    /\ Comparing /\ target_start < Len(target)
    /\ target_start' = target_start + 1 /\ part_type' = "added"
    /\ parts' = AppendPart(parts, "added", Prefix(TargetHasWord) \o <<target[target_start']>>)
    /\ UNCHANGED <<inputs, base_start, diff>>

\* The parts of some types, put together.
TextOf(ps, types) ==
    LET text[k \in 0..Len(ps)] ==
            IF k = 0 THEN <<>>
            ELSE text[k - 1] \o (IF ps[k].type \in types THEN ps[k].text ELSE <<>>)
    IN text[Len(ps)]
CountOf(ps, type) == Len(TextOf(ps, {type}))

\* similarity_ratio, in parts of Precision: 2 * equal over total, rounded to the
\* nearest.  Halfway, the floating point number decides which of the two it is.
Length == Len(Characters(base)) + Len(Characters(target))
Rounded(equal) ==
    IF Length = 0 THEN {Precision}
    ELSE {s \in 0..(2 * Precision) :
             LET distance == s * Length - 2 * Precision * equal
             IN -Length <= 2 * distance /\ 2 * distance <= Length}

\* _summarize()
Summary(ps, similarity) ==
    [diff |-> ps, similarity |-> similarity,
     added |-> CountOf(ps, "added"), removed |-> CountOf(ps, "removed")]
Summarize(ps) == \E similarity \in Rounded(CountOf(ps, "equal")) : diff' = Summary(ps, similarity)

\* The end of _compare_large_normalized_text() and of _compare_with_deadline().
Finish ==
    /\ Comparing /\ base_start = Len(base) /\ target_start = Len(target)
    /\ Summarize(parts)
    /\ UNCHANGED <<inputs, base_start, target_start, part_type, parts>>

\* compare_text(): equal texts are one part.
CompareEqual ==
    /\ diff = NoDiff /\ base = target
    /\ Summarize(AppendPart(<<>>, "equal", Characters(base)))
    /\ UNCHANGED <<inputs, base_start, target_start, part_type, parts>>

Texts == UNION {[1..n -> Letters] : n \in 0..MaxLength}

Init ==
    /\ mode \in {"words", "characters"}
    /\ base \in Texts /\ target \in Texts
    /\ base_start = 0 /\ target_start = 0
    /\ part_type = "none" /\ parts = <<>>
    /\ diff = NoDiff

Next == CompareEqual \/ Equal \/ Removed \/ Added \/ Finish
Spec == Init /\ [][Next]_vars

-----------------------------------------------------------------------------
\* Whatever is aligned, leaving out the added parts gives the base text and leaving
\* out the removed ones the target, spaces included, and neighbours differ in type.
\* The similarity shown is 1 at most; it is 1 for equal texts, and for others only
\* if at most one in 2 * Precision of their characters is added or removed.
DiffRebuilds ==
    diff # NoDiff =>
        /\ TextOf(diff.diff, {"equal", "removed"}) = Characters(base)
        /\ TextOf(diff.diff, {"equal", "added"}) = Characters(target)
        /\ \A k \in DOMAIN diff.diff \ {1} : diff.diff[k].type # diff.diff[k - 1].type
        /\ diff.similarity <= Precision
        /\ base = target => diff.similarity = Precision
        /\ diff.similarity = Precision => 2 * Precision * (diff.added + diff.removed) <= Length
=============================================================================
