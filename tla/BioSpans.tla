------------------------------- MODULE BioSpans -------------------------------
(***************************************************************************)
(* create_details_from_biotags: from one BIO tag per character to spans of *)
(* characters with a tag.  BIO tags are records with the fields tag and    *)
(* bio; positions count from 0, tags[i] is the tag of position i - 1.      *)
(***************************************************************************)
EXTENDS Integers, Sequences, SequencesExt, Lists

Span(start, end, tag) == [start |-> start, end |-> end, tag |-> tag]

(* Runs of the same BIO tag.                                               *)
Grouped(tags) ==
  LET begins == {i \in DOMAIN tags : i = 1 \/ tags[i] # tags[i - 1]}
      starts == Kept([i \in DOMAIN tags |-> i], begins)
  IN [k \in DOMAIN starts |->
        [start |-> starts[k] - 1,
         end |-> IF k < Len(starts) THEN starts[k + 1] - 1 ELSE Len(tags),
         bioTag |-> tags[starts[k]]]]

EndOf(spans) == IF spans = <<>> THEN 0 ELSE Last(spans).end

PaddedTo(spans, end) ==
  IF EndOf(spans) = end THEN spans ELSE Append(spans, Span(EndOf(spans), end, "OTHER"))

(* _get_strict_span: a run of B-* followed by a run of I-* of its tag.     *)
IsEntity(run, next) == /\ run.bioTag.tag = next.bioTag.tag
                       /\ run.bioTag.bio = "B-" /\ next.bioTag.bio = "I-"

\* Mutant: the gap before an entity is not filled.
WithEntityUnpadded(spans, run, next) ==
  IF IsEntity(run, next) THEN Append(spans, Span(run.start, next.end, run.bioTag.tag)) ELSE spans

\* Mutant: a span takes any runs of the same tag, B-* first or not.
WithAnyRuns(spans, run, next) ==
  IF run.bioTag.tag = next.bioTag.tag
  THEN Append(PaddedTo(spans, run.start), Span(run.start, next.end, run.bioTag.tag))
  ELSE spans

WithEntity(spans, run, next) ==
  IF IsEntity(run, next)
  THEN Append(PaddedTo(spans, run.start), Span(run.start, next.end, run.bioTag.tag))
  ELSE spans

StrictSpans(runs) ==
  LET upto[k \in 0..Len(runs)] ==
        IF k < 2 THEN <<>> ELSE WithEntity(upto[k - 1], runs[k - 1], runs[k])
  IN upto[Len(runs)]

\* Mutant: a B-* tag always opens a span.
OneMoreSpan(spans, run) == Append(spans, Span(run.start, run.end, run.bioTag.tag))

(* _get_span: neighbouring runs of the same tag, B-* or I-*.               *)
WithRun(spans, run) ==
  IF spans # <<>> /\ Last(spans).tag = run.bioTag.tag
  THEN [spans EXCEPT ![Len(spans)].end = run.end]
  ELSE Append(spans, Span(run.start, run.end, run.bioTag.tag))

LooseSpans(runs) ==
  LET upto[k \in 0..Len(runs)] == IF k = 0 THEN <<>> ELSE WithRun(upto[k - 1], runs[k])
  IN upto[Len(runs)]

CreateDetails(length, tags, strict) ==
  PaddedTo(IF strict THEN StrictSpans(Grouped(tags)) ELSE LooseSpans(Grouped(tags)), length)
=============================================================================
