-------------------------- MODULE BenchmarkMetrics --------------------------
(***************************************************************************)
(* The metrics of a prediction against a ground truth                      *)
(* (services/benchmark_metrics.py, evaluate_documents()).  A text is a     *)
(* sequence of characters after normalize_text(); a ratio is a pair of     *)
(* numerator and denominator, None when nothing can be measured; costs of  *)
(* the table trees are multiples of 1/Scale.                               *)
(***************************************************************************)
EXTENDS Integers, FiniteSets, Sequences, Positions

CONSTANTS
    Families,  \* sets of documents to compare with one another
    Scale      \* a common multiple of the lengths of cell texts

VARIABLES
    ground_truth, prediction,
    metrics    \* of evaluate_documents(), NotEvaluated or Raised

vars == <<ground_truth, prediction, metrics>>

None == [n |-> 0, d |-> 0]
NotEvaluated == [error |-> "none"]
Raised == [error |-> "TypeError"]
Ratio(n, d) == IF d = 0 THEN None ELSE [n |-> n, d |-> d]
One == [n |-> 1, d |-> 1]
Zero == [n |-> 0, d |-> 1]
Plus(r, s) == [n |-> r.n * s.d + s.n * r.d, d |-> r.d * s.d]
\* The mean of the ratios of a list that exist.
Mean(rs) ==
    LET known == {k \in DOMAIN rs : rs[k] # None}
        sum[k \in 0..Len(rs)] ==
            IF k = 0 THEN Zero ELSE IF k \in known THEN Plus(sum[k - 1], rs[k]) ELSE sum[k - 1]
    IN IF known = {} THEN None
       ELSE [n |-> sum[Len(rs)].n, d |-> sum[Len(rs)].d * Cardinality(known)]

\* The sum of a function, as the size of a disjoint union.
Total(cost) == Cardinality(UNION {{x} \X (1..cost[x]) : x \in DOMAIN cost})

MaxN(a, b) == IF a > b THEN a ELSE b
MinN(a, b) == IF a < b THEN a ELSE b
Clamped(n) == MaxN(0, n)
Difference(a, b) == IF a > b THEN a - b ELSE b - a

\* _f1(): precision, recall and their harmonic mean.
F1(tp, fp, fn) ==
    LET p == Ratio(tp, tp + fp)
        r == Ratio(tp, tp + fn)
        f == IF p = None \/ r = None \/ tp = 0
             THEN IF tp + fp + fn > 0 THEN Zero ELSE None
             ELSE [n |-> 2 * p.n * r.n, d |-> p.n * r.d + r.n * p.d]
    IN [precision |-> p, recall |-> r, f1 |-> f]

-----------------------------------------------------------------------------
\* edit_distance(): diff-match-patch adds max(inserted, deleted) between the common
\* characters of a shortest script.  Where several scripts are shortest, the model
\* takes the costliest.
Increasing(m) == \A p, q \in m : p[1] < q[1] <=> p[2] < q[2]
Alignments(a, b) ==
    {m \in SUBSET {p \in (DOMAIN a) \X (DOMAIN b) : a[p[1]] = b[p[2]]} : Increasing(m)}
Longest(ms) == {m \in ms : \A o \in ms : Cardinality(o) <= Cardinality(m)}
\* The characters before a common one and after the common one before it.
Between(m, i, end) == {k \in 1..(end - 1) : \A p \in m : p[i] < k \/ p[i] >= end}
ScriptCost(a, b, m) ==
    Total([p \in m \cup {<<Len(a) + 1, Len(b) + 1>>} |->
              MaxN(Cardinality(Between(m, 1, p[1])), Cardinality(Between(m, 2, p[2])))])
EditDistance(a, b) ==
    IF a = b THEN 0
    ELSE LET costs == {ScriptCost(a, b, m) : m \in Longest(Alignments(a, b))}
         IN CHOOSE c \in costs : \A o \in costs : o <= c

-----------------------------------------------------------------------------
\* _layout_metrics(): the positions of blocks with a bounding box.
Boxed(document) == {k \in DOMAIN document.blocks : document.blocks[k].bbox # <<>>}

Area(box) == (box[3] - box[1]) * (box[4] - box[2])
Intersection(a, b) ==
    MaxN(0, MinN(a[3], b[3]) - MaxN(a[1], b[1])) * MaxN(0, MinN(a[4], b[4]) - MaxN(a[2], b[2]))
IoU(a, b) ==
    LET union == Area(a) + Area(b) - Intersection(a, b) IN
    IF union = 0 THEN Zero ELSE [n |-> Intersection(a, b), d |-> union]

Larger(r, s) == r.n * s.d > s.n * r.d

\* Pairs of one page and type that overlap by half at least.
Overlap(truth, predicted, c) ==
    IoU(truth.blocks[c[1]].bbox, predicted.blocks[c[2]].bbox)
Candidates(truth, predicted) ==
    {c \in Boxed(truth) \X Boxed(predicted) :
        /\ truth.blocks[c[1]].page = predicted.blocks[c[2]].page
        /\ truth.blocks[c[1]].type = predicted.blocks[c[2]].type
        /\ 2 * Overlap(truth, predicted, c).n >= Overlap(truth, predicted, c).d}

\* Their order: best first; of pairs that overlap alike, the later ones.
Better(truth, predicted, c, d) ==
    LET r == Overlap(truth, predicted, c)
        s == Overlap(truth, predicted, d)
    IN \/ Larger(r, s)
       \/ ~Larger(s, r) /\ (c[1] > d[1] \/ (c[1] = d[1] /\ c[2] > d[2]))

\* Mutant of Taken: a predicted block may be used again.
TakenTruth(matches, c) == \E m \in matches : m[1] = c[1]

Taken(matches, c) == \E m \in matches : m[1] = c[1] \/ m[2] = c[2]

\* The loop over the candidates: a block is used in one match only.
LayoutMatches(truth, predicted) ==
    LET candidates == Candidates(truth, predicted)
        matched[c \in candidates] ==
            ~Taken({d \in candidates : Better(truth, predicted, d, c) /\ matched[d]}, c)
    IN {c \in candidates : matched[c]}

Layout(truth, predicted) ==
    LET n == Cardinality(LayoutMatches(truth, predicted)) IN
    F1(n, Cardinality(Boxed(predicted)) - n, Cardinality(Boxed(truth)) - n)

-----------------------------------------------------------------------------
\* _table_metrics()
OfType(document, type) ==
    LET ks == InOrder({k \in DOMAIN document.blocks : document.blocks[k].type = type}) IN
    [n \in DOMAIN ks |-> document.blocks[ks[n]]]

\* _cell_map(): the last cell of a place counts.  A key is row, column and spans.
Keys(table) == {table.cells[k].key : k \in DOMAIN table.cells}
CellText(table, key) ==
    LET ks == {k \in DOMAIN table.cells : table.cells[k].key = key}
    IN table.cells[CHOOSE k \in ks : \A l \in ks : l <= k].text

\* The order of tuples, and a set of tuples in this order.
Before(s, t) == \E k \in DOMAIN s : s[k] < t[k] /\ \A l \in 1..(k - 1) : s[l] = t[l]
Sorted(S) ==
    [k \in 1..Cardinality(S) |->
        CHOOSE s \in S : Cardinality({t \in S : Before(t, s)}) = k - 1]

\* _table_tree(): rows of cells; a row keeps no number, a cell its column and spans.
Row(table, number) ==
    LET keys == Sorted({key \in Keys(table) : key[1] = number}) IN
    [c \in DOMAIN keys |-> [label |-> Tail(keys[c]), text |-> CellText(table, keys[c])]]
Tree(table) ==
    LET numbers == InOrder({key[1] : key \in Keys(table)}) IN
    [r \in DOMAIN numbers |-> Row(table, numbers[r])]

RowSize(row) == 1 + Len(row)
TreeSize(tree) == 1 + Total([r \in DOMAIN tree |-> RowSize(tree[r])])

\* The loop of _tree_distance() over the children of two nodes: a child is left
\* out, added, or turned into a child of the other.
Distance(left, right, turn) ==
    LET D[p \in (0..Len(left)) \X (0..Len(right))] ==
            LET i == p[1]
                j == p[2]
            IN IF i = 0 THEN IF j = 0 THEN 0 ELSE D[<<0, j - 1>>] + right[j]
               ELSE IF j = 0 THEN D[<<i - 1, 0>>] + left[i]
               ELSE MinN(MinN(D[<<i - 1, j>>] + left[i], D[<<i, j - 1>>] + right[j]),
                         D[<<i - 1, j - 1>>] + turn[<<i, j>>])
    IN D[<<Len(left), Len(right)>>]

TurnCell(include_content, a, b) ==
    IF a.label # b.label THEN Scale
    ELSE IF include_content
         THEN (Scale * EditDistance(a.text, b.text)) \div MaxN(MaxN(Len(a.text), Len(b.text)), 1)
         ELSE 0
RowDistance(include_content, a, b) ==
    Distance([i \in DOMAIN a |-> Scale], [j \in DOMAIN b |-> Scale],
             [p \in (DOMAIN a) \X (DOMAIN b) |-> TurnCell(include_content, a[p[1]], b[p[2]])])
TreeDistance(include_content, t, u) ==
    Distance([i \in DOMAIN t |-> Scale * RowSize(t[i])], [j \in DOMAIN u |-> Scale * RowSize(u[j])],
             [p \in (DOMAIN t) \X (DOMAIN u) |-> RowDistance(include_content, t[p[1]], u[p[2]])])

\* _teds()
TEDS(include_content, left, right) ==
    LET t == Tree(left)
        u == Tree(right)
        size == MaxN(TreeSize(t), TreeSize(u))
    IN Ratio(Clamped(Scale * size - TreeDistance(include_content, t, u)), Scale * size)

\* Tables are paired by position; a table without a partner scores zero.
TableTEDS(include_content, gt, pred) ==
    Mean([k \in 1..MaxN(Len(gt), Len(pred)) |->
            IF k > Len(gt) \/ k > Len(pred) THEN Zero
            ELSE TEDS(include_content, gt[k], pred[k])])

AllKeys(tables) == UNION {{k} \X Keys(tables[k]) : k \in DOMAIN tables}
TextAt(tables, place) ==
    IF place \in AllKeys(tables) THEN CellText(tables[place[1]], place[2]) ELSE <<>>

Tables(truth, predicted) ==
    LET gt == OfType(truth, "table")
        pred == OfType(predicted, "table")
        shared == AllKeys(gt) \cap AllKeys(pred)
        places == AllKeys(gt) \cup AllKeys(pred)
        distance == Total([p \in places |-> EditDistance(TextAt(gt, p), TextAt(pred, p))])
        length == Total([p \in places |-> MaxN(Len(TextAt(gt, p)), Len(TextAt(pred, p)))])
        most == MaxN(Len(gt), Len(pred))
    IN [count_accuracy |-> Ratio(most - Difference(Len(gt), Len(pred)), most),
        teds |-> TableTEDS(TRUE, gt, pred),
        teds_structure |-> TableTEDS(FALSE, gt, pred),
        structure |-> F1(Cardinality(shared), Cardinality(AllKeys(pred) \ AllKeys(gt)),
                         Cardinality(AllKeys(gt) \ AllKeys(pred))),
        content_accuracy |-> Ratio(Clamped(length - distance), length)]

-----------------------------------------------------------------------------
\* _reading_order_metrics(): the order of blocks, by page and reading order, or place
\* in the page when there is none.  A reading order may also be null.
NoOrder == -1
NullOrder == -2
Place(document, k) ==
    LET b == document.blocks
        source == Cardinality({l \in 1..(k - 1) : b[l].page = b[k].page})
    IN <<b[k].page, IF b[k].order = NoOrder THEN source ELSE b[k].order, k>>

\* sorted() compares all of a page with one another, and null with no number.
Unsortable(document) ==
    LET b == document.blocks IN
    \E k, l \in DOMAIN b :
        b[k].page = b[l].page /\ b[k].order = NullOrder /\ b[l].order # NullOrder
Earlier(document, k, l) == Before(Place(document, k), Place(document, l))

\* SequenceMatcher.ratio(): twice the matched characters over all characters.  On
\* texts this short, what it matches is a longest alignment.
Similarity(a, b) ==
    IF a = b THEN One
    ELSE Ratio(2 * Cardinality(CHOOSE m \in Longest(Alignments(a, b)) : TRUE), Len(a) + Len(b))

Score(truth, predicted, k, l) == Similarity(truth.blocks[l].text, predicted.blocks[k].text)

\* Of some blocks, the first of the most similar ones to a predicted block.
BestBlock(truth, predicted, k, open) ==
    CHOOSE l \in open : \A o \in open :
        LET r == Score(truth, predicted, k, l)
            s == Score(truth, predicted, k, o)
        IN Larger(r, s) \/ (~Larger(s, r) /\ (l = o \/ Earlier(truth, l, o)))

\* The loop over the predicted blocks: each takes the best block left, if it is
\* similar enough.  A block without a match has match 0.
BlockMatches(truth, predicted) ==
    LET match[k \in DOMAIN predicted.blocks] ==
            LET block == predicted.blocks[k]
                open == {l \in DOMAIN truth.blocks :
                            /\ \A j \in DOMAIN predicted.blocks :
                                  Earlier(predicted, j, k) => match[j] # l
                            /\ truth.blocks[l].page = block.page
                            /\ truth.blocks[l].type = block.type
                            /\ Score(truth, predicted, k, l).n > 0}
                best == BestBlock(truth, predicted, k, open)
                score == Score(truth, predicted, k, best)
            IN IF block.text # <<>> /\ open # {} /\ 10 * score.n >= 6 * score.d THEN best ELSE 0
    IN match

ReadingOrder(truth, predicted) ==
    LET match == BlockMatches(truth, predicted)
        matched == {k \in DOMAIN predicted.blocks : match[k] # 0}
        n == Cardinality(matched)
        inversions == Cardinality({p \in matched \X matched :
                                      /\ Earlier(predicted, p[1], p[2])
                                      /\ Earlier(truth, match[p[2]], match[p[1]])})
        pairs == (n * (n - 1)) \div 2
    IN [accuracy |-> Ratio(pairs - inversions, pairs),
        coverage |-> Ratio(n, Len(truth.blocks))]

\* _formula_metrics(): the formulas joined by line breaks.
Joined(blocks) ==
    LET joined[k \in 0..Len(blocks)] ==
            IF k = 0 THEN <<>>
            ELSE (joined[k - 1] \o (IF k = 1 THEN <<>> ELSE <<"nl">>)) \o blocks[k].text
    IN joined[Len(blocks)]
Accuracy(a, b) ==
    LET length == MaxN(MaxN(Len(a), Len(b)), 1) IN
    Ratio(Clamped(length - EditDistance(a, b)), length)
Formula(truth, predicted) ==
    LET a == Joined(OfType(truth, "formula"))
        b == Joined(OfType(predicted, "formula"))
    IN IF a = <<>> /\ b = <<>> THEN None ELSE Accuracy(a, b)

\* _pii_metrics(): entities are equal in type, start and end.
Pii(truth, predicted) ==
    LET gt == truth.entities
        pred == predicted.entities
        m == F1(Cardinality(gt \cap pred), Cardinality(pred \ gt), Cardinality(gt \ pred))
        complement(r) == IF r = None THEN None ELSE [n |-> r.d - r.n, d |-> r.d]
    IN [scores |-> m, leakage |-> complement(m.recall), overmask |-> complement(m.precision)]

\* The raw character error rate, which may exceed one.
CER(a, b) ==
    IF a # <<>> THEN Ratio(EditDistance(a, b), Len(a))
    ELSE IF b = <<>> THEN Zero ELSE One

Evaluate ==
    /\ metrics = NotEvaluated
    /\ ~Unsortable(ground_truth) /\ ~Unsortable(prediction)
    /\ LET layout == Layout(ground_truth, prediction)
           tables == Tables(ground_truth, prediction)
           order == ReadingOrder(ground_truth, prediction)
           formula == Formula(ground_truth, prediction)
           pii == Pii(ground_truth, prediction)
           text == Accuracy(ground_truth.text, prediction.text)
       IN metrics' = [cer |-> CER(ground_truth.text, prediction.text),
                      text_accuracy |-> text, layout |-> layout, tables |-> tables,
                      order |-> order, formula |-> formula, pii |-> pii,
                      overall_quality |->
                          Mean(<<text, layout.f1, tables.teds, order.accuracy, formula,
                                 pii.scores.f1>>)]
    /\ UNCHANGED <<ground_truth, prediction>>

\* evaluate_documents() raises TypeError, whatever else could be measured.
EvaluateRaises ==
    /\ metrics = NotEvaluated
    /\ Unsortable(ground_truth) \/ Unsortable(prediction)
    /\ metrics' = Raised
    /\ UNCHANGED <<ground_truth, prediction>>

Init ==
    /\ \E family \in Families : ground_truth \in family /\ prediction \in family
    /\ metrics = NotEvaluated

Next == Evaluate \/ EvaluateRaises
Spec == Init /\ [][Next]_vars

-----------------------------------------------------------------------------
Evaluated == metrics \notin {NotEvaluated, Raised}
InUnit(r) == r = None \/ (0 <= r.n /\ r.n <= r.d)
Perfect(r) == r = None \/ r.n = r.d
Triple(f) == {f.precision, f.recall, f.f1}
Qualities ==
    {metrics.text_accuracy, metrics.formula, metrics.overall_quality,
     metrics.order.accuracy, metrics.tables.count_accuracy, metrics.tables.teds,
     metrics.tables.teds_structure, metrics.tables.content_accuracy}
    \cup Triple(metrics.layout) \cup Triple(metrics.tables.structure)
    \cup Triple(metrics.pii.scores)

\* Every metric but the raw CER lies between 0 and 1 (evaluate_documents()).
ScoresInUnit ==
    Evaluated => \A r \in Qualities \cup {metrics.order.coverage, metrics.pii.leakage,
                                          metrics.pii.overmask} : InUnit(r)

\* A prediction equal to the ground truth is perfect in everything that can be
\* measured, as long as no bounding box is without area.
PerfectScoresOne ==
    /\ Evaluated /\ ground_truth = prediction
    /\ \A k \in DOMAIN ground_truth.blocks :
          ground_truth.blocks[k].bbox # <<>> => Area(ground_truth.blocks[k].bbox) > 0
    => metrics.cer.n = 0 /\ \A r \in Qualities : Perfect(r)

\* Looking at the texts of cells never improves the score of a table.
ContentNeverHelps ==
    Evaluated => ~Larger(metrics.tables.teds, metrics.tables.teds_structure)

\* Blocks are matched one to one, and no pair that could be matched is left over.
LayoutIsMatched ==
    LET matches == LayoutMatches(ground_truth, prediction) IN
    Evaluated =>
        /\ \A m, o \in matches : m[1] = o[1] <=> m[2] = o[2]
        /\ \A c \in Candidates(ground_truth, prediction) :
              \E m \in matches : m[1] = c[1] \/ m[2] = c[2]

\* The distance of two rows is the least cost of any order-preserving pairing of
\* their cells, the definition _tree_distance() computes by its table of minima.
Pairings(a, b) == {m \in SUBSET ((DOMAIN a) \X (DOMAIN b)) : Increasing(m)}
PairingCost(a, b, m) ==
    Scale * (Len(a) + Len(b) - 2 * Cardinality(m))
      + Total([p \in m |-> TurnCell(TRUE, a[p[1]], b[p[2]])])
RowDistanceIsLeast ==
    LET gt == OfType(ground_truth, "table")
        pred == OfType(prediction, "table")
    IN Evaluated /\ gt # <<>> /\ pred # <<>> =>
        \A i \in DOMAIN Tree(gt[1]), j \in DOMAIN Tree(pred[1]) :
          LET a == Tree(gt[1])[i]
              b == Tree(pred[1])[j]
              costs == {PairingCost(a, b, m) : m \in Pairings(a, b)}
          IN /\ RowDistance(TRUE, a, b) \in costs
             /\ \A c \in costs : RowDistance(TRUE, a, b) <= c
=============================================================================
