---------------------------- MODULE Normalizers ----------------------------
(***************************************************************************)
(* The loops of normalizers/synap_normalizer.py and paddle_normalizer.py   *)
(* that turn the pages of a parser into the blocks of a canonical document:*)
(* page numbers, the reading order, and the HTML of tables.                *)
(***************************************************************************)
EXTENDS Positions, Sequences

CONSTANTS
    Kinds,    \* subset of {"synap", "paddle"}
    MaxBlocks,
    Numbers,  \* page numbers a parser gives; 0: none
    Orders    \* reading orders it gives; -1: none

VARIABLES
    kind,
    numbers,      \* per page, the page_number or page_index + 1 of the parser
    raw,          \* the blocks of all pages, in the parser's order
    canonical,    \* the blocks so far
    global_order, \* counts the blocks
    htmls         \* the iterator over the tables' HTML of the page

vars == <<kind, numbers, raw, canonical, global_order, htmls>>

\* A block: its page, its order, and whether it is a table with or without HTML
\* ("pred_html" of the same place in the page's table_res_list).
Blocks == [page : 1..2, order : Orders,
           table : IF kind = "paddle" THEN {"no", "html", "none"} ELSE {"no"}]

\* The HTML strings of a page's tables, by the position of the table.
TableHtmls(page) == InOrder({i \in DOMAIN raw : raw[i].page = page /\ raw[i].table = "html"})

Init ==
    /\ kind \in Kinds
    /\ numbers \in IF kind = "synap" THEN [1..2 -> Numbers] ELSE {<<0, 0>>}
    /\ raw \in {b \in UNION {[1..n -> Blocks] : n \in 0..MaxBlocks} :
                   \A i, j \in DOMAIN b : i <= j => b[i].page <= b[j].page}
    /\ canonical = <<>> /\ global_order = 0 /\ htmls = TableHtmls(1)

Number(page) == IF numbers[page] = 0 THEN page ELSE numbers[page]

\* Mutant of Order: the index within the page takes the place of the counter.
OrderInPage(block) ==
    IF block.order = -1
    THEN Len(SelectSeq(SubSeq(raw, 1, global_order), LAMBDA b : b.page = block.page))
    ELSE block.order

\* reading_order: the parser's own, or the number of blocks before.
Order(block) == IF block.order = -1 THEN global_order ELSE block.order

\* The next block, on this page or the first of a later one.
Block ==
    /\ Len(canonical) < Len(raw)
    /\ LET source == Len(canonical) + 1
           block == raw[source]
           new == source > 1 /\ raw[source - 1].page # block.page
           left == IF new \/ source = 1 THEN TableHtmls(block.page) ELSE htmls
           takes == block.table # "no" /\ left # <<>>
       IN  /\ canonical' = Append(canonical,
                  [page |-> Number(block.page), order |-> Order(block),
                   html |-> IF takes THEN Head(left) ELSE 0])
           /\ htmls' = IF takes THEN Tail(left) ELSE left
    /\ global_order' = global_order + 1
    /\ UNCHANGED <<kind, numbers, raw>>

Next == Block

Spec == Init /\ [][Next]_vars

-----------------------------------------------------------------------------
(* Properties *)

TypeOK ==
    /\ global_order = Len(canonical)
    /\ \A i \in DOMAIN canonical : canonical[i] \in [page : Nat, order : Nat, html : 0..MaxBlocks]

\* The parser's own orders agree with its blocks: page numbers do not go back,
\* and the blocks of a page number have increasing orders or have none.
ConsistentOrders ==
    \A i \in DOMAIN raw : \A j \in i + 1..Len(raw) :
        /\ Number(raw[i].page) <= Number(raw[j].page)
        /\ Number(raw[i].page) = Number(raw[j].page) =>
               (raw[i].order = -1 <=> raw[j].order = -1) /\ raw[i].order <= raw[j].order

\* The benchmark sorts blocks by page, reading order and position: for a parser
\* whose orders are consistent, that is the order the parser gave.  (Blocks with
\* and without an order on one page are not: from the second page on, those
\* without are read last.)
ReadingOrderKept ==
    ConsistentOrders =>
        \A i \in DOMAIN canonical : \A j \in i + 1..Len(canonical) :
            \/ canonical[i].page < canonical[j].page
            \/ canonical[i].page = canonical[j].page /\ canonical[i].order <= canonical[j].order

\* A table gets its own HTML if no table before it on its page lacks one.
TableKeepsHtml ==
    \A i \in DOMAIN canonical :
        /\ raw[i].table = "html"
        /\ \A j \in 1..i : raw[j].page = raw[i].page => raw[j].table # "none"
        => canonical[i].html = i
=============================================================================
