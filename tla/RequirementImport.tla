------------------------- MODULE RequirementImport --------------------------
(***************************************************************************)
(* The parsers of uploaded requirements (services/requirement_service.py): *)
(* the lines of a text or PDF file, or the paragraphs of a docx document,  *)
(* become previews with a title and a description.  A parser reads line by *)
(* line.  Line n of the file is the number n; of its text only what the    *)
(* parsers look at is kept: a line is empty, or only spaces, or reads like *)
(* a heading (short, without a full stop), or does not.  A file in which   *)
(* there is no text becomes one preview all the same, with a fixed title.  *)
(***************************************************************************)
EXTENDS Integers, Sequences

CONSTANT MaxLines       \* bound on the lines or paragraphs of a file (TLC)

ASSUME ImportAssumption == MaxLines \in Nat

VARIABLES
    parser,     \* "text" for text and PDF files, "docx"
    crlf,       \* whether the lines of a text file end with CR LF
    file,       \* the kinds of the lines or paragraphs read so far
    title,      \* the first line of the block, or current_title; 0 without one
    lines,      \* the other lines of the block, or current_desc_lines
    previews,   \* the previews made so far
    parsed      \* the whole file has been read

importVars == <<parser, crlf, file, title, lines, previews, parsed>>

TextKinds == {"heading", "body"}
Kinds == TextKinds \cup {"spaces", "empty"}
Preview == [title : Nat, description : Seq(Nat)]

ImportTypeOK ==
    /\ parser \in {"text", "docx"} /\ crlf \in BOOLEAN /\ parsed \in BOOLEAN
    /\ file \in Seq(Kinds)
    /\ title \in Nat /\ lines \in Seq(Nat) /\ previews \in Seq(Preview)

ImportInit ==
    /\ parser \in {"text", "docx"} /\ crlf \in BOOLEAN /\ (parser = "docx" => ~crlf)
    /\ file = <<>> /\ title = 0 /\ lines = <<>> /\ previews = <<>> /\ parsed = FALSE

\* What is under way, if it has a title, becomes a preview; a title alone is its own description.
Flushed ==
    IF title = 0 THEN previews
    ELSE Append(previews, [title |-> title, description |-> IF lines = <<>> THEN <<title>> ELSE lines])

\* The file goes on with a line of this kind, which has number n.
NextLine(kind, n) ==
    /\ ~parsed /\ Len(file) < MaxLines
    /\ n = Len(file) + 1 /\ file' = Append(file, kind)
    /\ UNCHANGED <<parser, crlf, parsed>>

Begin(n) == title' = n /\ lines' = <<>> /\ previews' = Flushed
Continue(n) == lines' = Append(lines, n) /\ UNCHANGED <<title, previews>>
PassOver == UNCHANGED <<title, lines, previews>>

\* Two line feeds in a row end a block; CR LF CR LF are none.
EndsBlock(kind) == kind = "empty" /\ ~crlf

\* _parse_text, and _parse_pdf on the text of the pages: blocks of lines, each with its
\* first line of text as title.
ParseText(kind, n) ==
    /\ parser = "text" /\ NextLine(kind, n)
    /\ \/ EndsBlock(kind) /\ Begin(0)
       \/ kind \in TextKinds /\ title = 0 /\ Begin(n)
       \/ kind \in TextKinds /\ title # 0 /\ Continue(n)
       \/ kind \notin TextKinds /\ ~EndsBlock(kind) /\ PassOver

\* _parse_docx: a heading takes the paragraphs up to the next one.
ParseDocx(kind, n) ==
    /\ parser = "docx" /\ NextLine(kind, n)
    /\ \/ kind = "heading" /\ Begin(n)
       \/ kind = "body" /\ Continue(n)
       \/ kind \notin TextKinds /\ PassOver

\* Mutant: the preview under way at the end of the file is not saved.
Unfinished == previews

TextLines == {n \in DOMAIN file : file[n] \in TextKinds}

\* A file without text is one made-up preview: "Imported requirement" and the blank text of a
\* text file, "Imported" and "No content" of a docx.
MadeUp == [title |-> 0, description |-> <<>>]
NoText == IF parser = "docx" THEN TextLines = {} ELSE Flushed = <<>>

\* A docx without a heading is one preview.
Whole == previews = <<>> /\ title = 0 /\ lines # <<>>
Finished ==
    IF NoText THEN <<MadeUp>>
    ELSE IF Whole THEN <<[title |-> lines[1], description |-> lines]>> ELSE Flushed

EndOfFile ==
    /\ ~parsed /\ parsed' = TRUE
    /\ previews' = Finished
    /\ UNCHANGED <<parser, crlf, file, title, lines>>

ImportNext ==
    \/ \E kind \in Kinds, n \in 1 .. MaxLines : ParseText(kind, n) \/ ParseDocx(kind, n)
    \/ EndOfFile

ImportSpec == ImportInit /\ [][ImportNext]_importVars

-----------------------------------------------------------------------------
Headings == {n \in DOMAIN file : file[n] = "heading"}

\* The text a docx document loses: what comes before its first heading, if it has one.
Dropped == {n \in TextLines : parser = "docx" /\ Headings # {} /\ \A h \in Headings : n < h}

Shown(p) == {p.title} \cup {p.description[i] : i \in DOMAIN p.description}

\* From first to last, a preview shows each of its lines once.
InOrder(p) ==
    /\ \A i, j \in DOMAIN p.description : i < j => p.description[i] < p.description[j]
    /\ \A i \in DOMAIN p.description : p.title <= p.description[i]

\* No line of an imported file disappears and none is made up: every line with text but
\* those before the first heading of a docx is in a preview, and in one only; previews,
\* and the lines of each, are in the order of the file (_parse_text, _parse_pdf, _parse_docx).
\* Only a file in which no line has text has a preview of none of its lines, and just one.
ImportKeepsText ==
    parsed =>
        \/ TextLines = {} /\ previews = <<MadeUp>>
        \/ /\ TextLines # {}
           /\ UNION {Shown(previews[i]) : i \in DOMAIN previews} = TextLines \ Dropped
           /\ \A i \in DOMAIN previews : InOrder(previews[i])
           /\ \A i, j \in DOMAIN previews : i < j =>
                 \A m \in Shown(previews[i]), n \in Shown(previews[j]) : m < n
=============================================================================
