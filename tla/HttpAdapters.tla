---------------------------- MODULE HttpAdapters ----------------------------
(***************************************************************************)
(* One parse() and normalize() of the adapters that send a document in one *)
(* request: MinerU, Docling Serve and the generic HTTP parser, up to what  *)
(* the pipeline needs of their result, a text to store and to deidentify   *)
(* and the blocks of the canonical document.                               *)
(***************************************************************************)
EXTENDS Positions, Sequences

CONSTANTS
    MaxItems,  \* items of a MinerU content_list
    MaxPages   \* pages they belong to

VARIABLES
    kind,     \* the adapter
    at,       \* "idle", "request", "returned", "normalized" or "ended"
    answer,   \* the part of the response the adapter reads
    text,     \* text of the ParserExecutionResult
    placed,   \* items that the loop of MinerU's normalize() has placed
    groups,   \* its dict pages: the positions of the items of each page number
    pages,    \* pages of the canonical document
    result    \* error code, or "none"

vars == <<kind, at, answer, text, placed, groups, pages, result>>
loop == <<placed, groups>>

Adapters == {"mineru", "docling", "generic"}

\* A text value of a response: not a string, "", only white space, or with words.
Texts == {"missing", "", "blank", "words"}
HasWords(t) == t = "words"

\* An item of a content_list: its page_idx, -1 for none, and its text.
Items == [page : -1..MaxPages - 1, text : {"", "words"}]
Answers == [text : Texts, markdown : Texts, items : UNION {[1..n -> Items] : n \in 0..MaxItems}]
Errors == {"UNSUPPORTED_FILE_TYPE", "PARSER_CONFIG_INVALID", "PARSER_CONFIGURATION_INVALID",
           "PARSER_TIMEOUT", "PARSER_EXECUTION_FAILED", "PARSER_OUTPUT_NOT_FOUND", "cancelled"}

Init ==
    /\ kind \in Adapters /\ at = "idle"
    /\ answer = [text |-> "missing", markdown |-> "missing", items |-> <<>>] /\ text = ""
    /\ placed = 0 /\ groups = <<>> /\ pages = <<>> /\ result = "none"

End(e) == at' = "ended" /\ result' = e

-----------------------------------------------------------------------------
(* The checks before the request *)

\* MinerU and Docling know the suffixes they accept and the options they have;
\* every adapter needs a base_url.  The first check that fails names the error.
Begin(suffix, options, url) ==
    /\ at = "idle"
    /\ \/ kind # "generic" /\ ~suffix /\ End("UNSUPPORTED_FILE_TYPE")
       \/ kind # "generic" /\ suffix /\ ~options /\ End("PARSER_CONFIG_INVALID")
       \/ (kind = "generic" \/ (suffix /\ options)) /\ ~url /\ End("PARSER_CONFIGURATION_INVALID")
       \/ (kind = "generic" \/ (suffix /\ options)) /\ url /\ at' = "request" /\ UNCHANGED result
    /\ UNCHANGED <<kind, answer, text, loop, pages>>

-----------------------------------------------------------------------------
(* The request *)

\* No answer in time, no connection, an HTTP error, a body that is not JSON where
\* the adapter needs it, a status or a shape Docling refuses; or a cancellation.
Unusable ==
    /\ at = "request"
    /\ \E e \in {"PARSER_TIMEOUT", "PARSER_EXECUTION_FAILED", "PARSER_OUTPUT_NOT_FOUND", "cancelled"} :
           End(e)
    /\ UNCHANGED <<kind, answer, text, loop, pages>>

Stored(t) == IF t = "missing" THEN "" ELSE t

\* The text of the result.  MinerU joins the item texts and falls back to the
\* Markdown; Docling falls back to it only if there is no text_content at all.
TextOf(a) ==
    CASE kind = "mineru"  -> IF \E i \in DOMAIN a.items : HasWords(a.items[i].text)
                             THEN "words" ELSE Stored(a.markdown)
      [] kind = "docling" -> IF a.text = "missing" THEN Stored(a.markdown) ELSE a.text
      [] kind = "generic" -> Stored(a.text)

\* MinerU and Docling refuse a result without words; the generic adapter takes any.
Refused(t) == kind # "generic" /\ ~HasWords(t)

Answered(a) ==
    /\ at = "request"
    /\ answer' = a /\ text' = TextOf(a)
    /\ IF Refused(TextOf(a)) THEN End("PARSER_OUTPUT_NOT_FOUND")
                             ELSE at' = "returned" /\ UNCHANGED result
    /\ UNCHANGED <<kind, loop, pages>>

-----------------------------------------------------------------------------
(* normalize() *)

PageNumber(item) == IF item.page = -1 THEN 1 ELSE item.page + 1

\* pages.setdefault(p, []).append(i)
Filed(dict, p, i) ==
    [q \in DOMAIN dict \cup {p} |->
        LET blocks == IF q \in DOMAIN dict THEN dict[q] ELSE <<>>
        IN  IF q = p THEN Append(blocks, i) ELSE blocks]

\* The loop over the items of a MinerU result: the next one goes to its page.
Place ==
    /\ at = "returned" /\ kind = "mineru"
    /\ placed < Len(answer.items)
    /\ placed' = placed + 1
    /\ groups' = Filed(groups, PageNumber(answer.items[placed + 1]), placed + 1)
    /\ UNCHANGED <<kind, at, answer, text, pages, result>>

\* sorted(pages.items()): the page numbers are the keys, and no two are equal.
MinerUPages ==
    LET numbers == InOrder(DOMAIN groups)
    IN  [k \in DOMAIN numbers |-> [number |-> numbers[k], blocks |-> groups[numbers[k]]]]

\* text_to_canonical(): one page with the paragraphs, none for an empty text.
TextPages == IF text = "" THEN <<>>
             ELSE <<[number |-> 1, blocks |-> IF HasWords(text) THEN <<1>> ELSE <<>>]>>

Normalize ==
    /\ at = "returned"
    /\ kind = "mineru" => placed = Len(answer.items)
    /\ at' = "normalized"
    /\ pages' = IF kind = "mineru" THEN MinerUPages ELSE TextPages
    /\ UNCHANGED <<kind, answer, text, loop, result>>

Next ==
    \/ \E suffix, options, url \in BOOLEAN : Begin(suffix, options, url)
    \/ Unusable \/ Place \/ Normalize
    \/ \E a \in Answers : Answered(a)

Spec == Init /\ [][Next]_vars

-----------------------------------------------------------------------------
(* Properties *)

TypeOK ==
    /\ kind \in Adapters
    /\ at \in {"idle", "request", "returned", "normalized", "ended"}
    /\ answer \in Answers
    /\ text \in Texts \ {"missing"}
    /\ placed \in 0..MaxItems /\ DOMAIN groups \subseteq 1..MaxPages
    /\ result \in Errors \cup {"none"}
    /\ (result = "none") <=> (at # "ended")

\* A result of MinerU or Docling that is stored has words, so that the pipeline
\* can deidentify its TEXT: _deidentification_input_path refuses an empty file
\* only, and only the generic adapter may have one stored.
StoredTextHasWords == at = "normalized" /\ kind # "generic" => HasWords(text)

\* No item of a MinerU result is lost or doubled by its pages, the pages follow
\* their numbers, and the blocks of a page keep the order of the full text.
BlocksKeepOrder ==
    at = "normalized" /\ kind = "mineru" =>
        /\ \A k \in 1..Len(pages) - 1 : pages[k].number < pages[k + 1].number
        /\ \A k \in DOMAIN pages : \A j \in 1..Len(pages[k].blocks) - 1 :
               pages[k].blocks[j] < pages[k].blocks[j + 1]
        /\ \A i \in DOMAIN answer.items :
               Cardinality({k \in DOMAIN pages : \E j \in DOMAIN pages[k].blocks :
                                                     pages[k].blocks[j] = i}) = 1
=============================================================================
