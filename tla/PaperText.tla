----------------------------- MODULE PaperText -----------------------------
(***************************************************************************)
(* The full text of an arXiv paper: paper_text (paper_text.rs) walks the   *)
(* events of an ar5iv page into sections, paper_tex_source and the source  *)
(* bundle (paper_tex_source.rs) unpack an archive.  The page arrives as    *)
(* any sequence of events, also one with an element that is never closed,  *)
(* a stray end, or a syntax error; the archive with any mix of entries.    *)
(*                                                                         *)
(* A fragment of text is a number, in the order of the page; a text is the *)
(* sequence of its fragments, and a blank one is empty.                    *)
(***************************************************************************)
EXTENDS Integers, Sequences, FiniteSets

CONSTANTS
  MaxEvents,     \* events of a page
  MaxSkip,       \* how deep script, style and math are nested
  Payloads       \* bodies the source endpoint may answer with

ASSUME TextAssumption == MaxEvents \in Nat /\ MaxSkip \in Nat

VARIABLES
  text,      \* where the call is: "idle", "parse", "parsed", "tex", "bundle", "ok", or its error
  parser,    \* the variables of parse_ar5iv
  page,      \* history: what the page has shown so far, and what is open
  payload, picked

textVars == <<text, parser, page, payload, picked>>

Parser0 == [sections |-> <<>>, cur_heading |-> <<>>, cur_text |-> <<>>, title |-> <<>>, title_buf |-> <<>>,
            in_title |-> FALSE, skip |-> 0, in_heading |-> FALSE, heading_buf |-> <<>>]
\* The page to a reader: what is open on it, and under which headings it shows what.
Page0 == [events |-> 0, title |-> <<>>, sections |-> <<>>, last |-> [heading |-> <<>>, text |-> <<>>],
          head |-> <<>>, body |-> <<>>, open |-> "none", wellformed |-> TRUE, cut |-> FALSE]

TextInit == text = "idle" /\ parser = Parser0 /\ page = Page0 /\ payload = <<>> /\ picked = <<>>

GetText ==
  /\ text = "idle" /\ text' = "parse"
  /\ UNCHANGED <<parser, page, payload, picked>>

-----------------------------------------------------------------------------
(* parse_ar5iv.                                                            *)

push_target(p, frag) ==
  IF p.in_title THEN [p EXCEPT !.title_buf = Append(@, frag)]
  ELSE IF p.in_heading THEN [p EXCEPT !.heading_buf = Append(@, frag)]
  ELSE [p EXCEPT !.cur_text = Append(@, frag)]

flush_section(p) ==
  [p EXCEPT !.cur_text = <<>>,
            !.sections = IF p.cur_text # <<>> \/ p.cur_heading # <<>>
                         THEN Append(@, [heading |-> p.cur_heading, text |-> p.cur_text]) ELSE @]

\* What a reader of the page sees: the same fragment, under what is open there.
Show(frag) ==
  CASE page.open = "title"   -> [page EXCEPT !.events = @ + 1, !.title = Append(@, frag)]
    [] page.open = "heading" -> [page EXCEPT !.events = @ + 1, !.head = Append(@, frag)]
    [] OTHER                 -> [page EXCEPT !.events = @ + 1, !.body = Append(@, frag),
                                              !.last.text = Append(@, frag)]

\* The sections so far; one without a heading and without text is none.
PageSections(g) == IF g.last.heading # <<>> \/ g.last.text # <<>> THEN Append(g.sections, g.last) ELSE g.sections

Event == text = "parse" /\ page.events < MaxEvents
Kept == UNCHANGED <<text, payload, picked>>

\* Text, and the alttext of math, unless in a skipped element.
Text ==
  /\ Event /\ Kept
  /\ LET frag == page.events + 1 IN
     IF parser.skip = 0 THEN parser' = push_target(parser, frag) /\ page' = Show(frag)
     ELSE parser' = parser /\ page' = [page EXCEPT !.events = @ + 1]

\* math with an alttext, or script or style, or math without one.
StartSkip(alt) ==
  /\ Event /\ Kept /\ parser.skip < MaxSkip
  /\ LET frag == page.events + 1
         shows == alt /\ parser.skip = 0
     IN /\ parser' = [(IF shows THEN push_target(parser, frag) ELSE parser) EXCEPT !.skip = @ + 1]
        /\ page' = IF shows THEN Show(frag) ELSE [page EXCEPT !.events = @ + 1]

\* An end there was no start for is one that counts for nothing.
EndSkip ==
  /\ Event /\ Kept
  /\ parser' = [parser EXCEPT !.skip = IF @ = 0 THEN 0 ELSE @ - 1]
  /\ page' = [page EXCEPT !.events = @ + 1, !.wellformed = @ /\ parser.skip > 0]

\* Mutant: the section a heading ends is not kept.
StartHeadingDropping ==
  /\ Event /\ Kept
  /\ parser' = [parser EXCEPT !.in_heading = TRUE, !.heading_buf = <<>>]
  /\ page' = [page EXCEPT !.events = @ + 1, !.open = "heading", !.head = <<>>,
                          !.wellformed = @ /\ page.open = "none" /\ parser.skip = 0]

\* A heading ends the section before it.
StartHeading ==
  /\ Event /\ Kept
  /\ parser' = [flush_section(parser) EXCEPT !.in_heading = TRUE, !.heading_buf = <<>>]
  /\ page' = [page EXCEPT !.events = @ + 1, !.open = "heading", !.head = <<>>,
                          !.wellformed = @ /\ page.open = "none" /\ parser.skip = 0]

EndHeading ==
  /\ Event /\ Kept
  /\ parser' = IF parser.in_heading
               THEN [parser EXCEPT !.cur_heading = parser.heading_buf, !.in_heading = FALSE, !.cur_text = <<>>]
               ELSE parser
  /\ page' = [page EXCEPT !.events = @ + 1, !.open = "none", !.head = <<>>,
                          !.sections = PageSections(page), !.last = [heading |-> page.head, text |-> <<>>],
                          !.wellformed = @ /\ page.open = "heading" /\ parser.skip = 0]

\* The first title that says something is the title; a later one is text.
StartTitle ==
  /\ Event /\ Kept
  /\ LET first == parser.title = <<>> IN
     /\ parser' = IF first THEN [parser EXCEPT !.in_title = TRUE, !.title_buf = <<>>] ELSE parser
     /\ page' = [page EXCEPT !.events = @ + 1, !.open = IF first THEN "title" ELSE page.open,
                             !.wellformed = @ /\ page.open = "none" /\ parser.skip = 0]

EndTitle ==
  /\ Event /\ Kept
  /\ parser' = IF parser.in_title THEN [parser EXCEPT !.in_title = FALSE, !.title = parser.title_buf] ELSE parser
  /\ page' = [page EXCEPT !.events = @ + 1, !.open = IF parser.in_title THEN "none" ELSE page.open,
                          !.wellformed = @ /\ (parser.in_title => page.open = "title") /\ parser.skip = 0]

\* The end of the page, or a syntax error: what there is is the text.
EndOfPage ==
  /\ text = "parse" /\ text' = "parsed"
  /\ parser' = flush_section(parser)
  /\ page' = [page EXCEPT !.cut = parser.in_heading \/ parser.in_title \/ parser.skip > 0]
  /\ UNCHANGED <<payload, picked>>

\* char_count: headings do not count.
HasText(p) == \E i \in 1..Len(p.sections) : p.sections[i].text # <<>>

\* fetch_and_parse: a page without text is none, and an answer whose row cannot be
\* written is not given.
GiveText ==
  /\ text = "parsed"
  /\ text' \in IF HasText(parser) THEN {"ok", "Log"} ELSE {"TextUnavailable"}
  /\ UNCHANGED <<parser, page, payload, picked>>

-----------------------------------------------------------------------------
(* The source archive.                                                     *)

\* classify_src: a PDF, a single file (blank or not), a tar, or a body that does
\* not decompress, or to too much.  Entries of a tar:
\*   header  "ok" or "bad" (it or its path cannot be decoded)
\*   safe    sanitize_entry_path takes its path
\*   what    "tex", "figure", "other"; regular: a file and not a link
\*   read    "ok", "blank" or "bad"; score: what max_by_key compares
GetSource(p, kind) ==
  /\ text = "idle" /\ payload' = p
  /\ text' \in {kind, "Http"}
  /\ UNCHANGED <<parser, page, picked>>

Readable(e) == e.header = "ok" /\ e.safe

\* extract_tex, extract_from_tar: the .tex file that scores highest, the last of
\* equals.  Only a .tex entry whose header could be read was "attempted".
ExtractTex ==
  /\ text = "tex"
  /\ LET es == payload.entries
         attempted == {i \in DOMAIN es : Readable(es[i]) /\ es[i].what = "tex"}
         files == {i \in attempted : es[i].read = "ok"}
     IN \/ /\ payload.form = "pdf" \/ (payload.form = "file" /\ payload.blank)
           /\ text' = "TextUnavailable" /\ picked' = <<>>
        \/ payload.form = "corrupt" /\ text' = "SourceSchema" /\ picked' = <<>>
        \/ payload.form = "file" /\ ~payload.blank /\ text' \in {"ok", "Log"} /\ picked' = <<0>>
        \/ /\ payload.form = "tar" /\ files = {} /\ picked' = <<>>
           /\ text' = IF attempted # {} THEN "SourceSchema" ELSE "TextUnavailable"
        \/ /\ payload.form = "tar" /\ files # {} /\ text' \in {"ok", "Log"}
           /\ picked' = <<CHOOSE i \in files : \A j \in files :
                            es[j].score < es[i].score \/ (es[j].score = es[i].score /\ j <= i)>>
  /\ UNCHANGED <<parser, page, payload>>

\* extract_bundle: every regular file, or every figure.
ExtractBundle(figures) ==
  /\ text = "bundle"
  /\ LET es == payload.entries
         Wanted(i) == Readable(es[i]) /\ es[i].regular /\ (figures => es[i].what = "figure")
         files == {i \in DOMAIN es : Wanted(i) /\ es[i].read # "bad"}
         unreadable == {i \in DOMAIN es : es[i].header = "bad" \/ (Wanted(i) /\ es[i].read = "bad")}
     IN \/ payload.form \in {"pdf", "file"} /\ text' = "SourceUnavailable" /\ picked' = <<>>
        \/ payload.form = "corrupt" /\ text' = "SourceSchema" /\ picked' = <<>>
        \/ /\ payload.form = "tar" /\ files = {} /\ picked' = <<>>
           /\ text' = IF unreadable # {} THEN "SourceSchema" ELSE "SourceUnavailable"
        \/ payload.form = "tar" /\ files # {} /\ text' \in {"ok", "Log"} /\ picked' = <<0>>
  /\ UNCHANGED <<parser, page, payload>>

ParseStep ==
  \/ Text \/ (\E alt \in BOOLEAN : StartSkip(alt)) \/ EndSkip
  \/ StartHeading \/ EndHeading \/ StartTitle \/ EndTitle \/ EndOfPage

TextNext ==
  \/ GetText \/ ParseStep \/ GiveText
  \/ \E p \in Payloads, kind \in {"tex", "bundle"} : GetSource(p, kind)
  \/ ExtractTex \/ (\E figures \in BOOLEAN : ExtractBundle(figures))

TextSpec == TextInit /\ [][TextNext]_textVars

-----------------------------------------------------------------------------
(* Properties.                                                             *)

Concat(ss) ==
  LET Join[i \in 0..Len(ss)] == IF i = 0 THEN <<>> ELSE Join[i - 1] \o ss[i] IN Join[Len(ss)]
Increasing(s) == \A i \in 1..(Len(s) - 1) : s[i] < s[i + 1]

\* A page's text comes out as the page has it: of a well-formed page every visible
\* fragment is in the text of exactly one section and in order; if nothing is open
\* at its end, each section has the heading of the page and what the page shows from
\* there to the next one, and the title is the page's; of any other page what comes
\* out is still in order and without repetition.
TextIsThePages ==
  text = "parsed" =>
    LET body == Concat([i \in DOMAIN parser.sections |-> parser.sections[i].text])
    IN /\ Increasing(body)
       /\ page.wellformed => body = page.body
       /\ page.wellformed /\ ~page.cut => parser.sections = PageSections(page) /\ parser.title = page.title

\* "an empty result distinguishes a corrupt archive from genuinely no matching
\* files": a bundle is reported as absent only if nothing in it failed to read.
BundleTellsCorrupt ==
  text = "SourceUnavailable" /\ payload.form = "tar" =>
    \A i \in DOMAIN payload.entries : payload.entries[i].header = "ok"

\* "so that a corrupt archive is distinguishable from a PDF-only submission": a
\* paper is reported to have no TeX source only if nothing in its archive failed
\* to read, and as corrupt only if something did.
TexTellsCorrupt ==
  payload # <<>> /\ payload.form = "tar" =>
    LET bad == \E i \in DOMAIN payload.entries :
                 LET e == payload.entries[i] IN e.header = "bad" \/ (e.what = "tex" /\ e.read = "bad")
    IN /\ text = "TextUnavailable" => ~bad
       /\ text = "SourceSchema" => bad
=============================================================================
