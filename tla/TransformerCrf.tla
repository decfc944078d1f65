---------------------------- MODULE TransformerCrf ----------------------------
(***************************************************************************)
(* TransformerCRF.predict_tags for a sentence: encode and pad it, decode   *)
(* the best tags of its characters, compute the marginals of every tag at  *)
(* every position, and group the tags to spans; and RunnerCRF.tag, which   *)
(* turns the spans to predictions per tag.  The transformer is what        *)
(* assigns the emissions; the sentences differ in them.                    *)
(***************************************************************************)
EXTENDS Crf, BioSpans

CONSTANTS
  Sentences,   (* Records: length, model, strict.                           *)
  TagsToKeep   (* The tags for which the runner has an entry in any case.   *)

(* A potential is the exponential of a finite score.                       *)
IsModel(m) ==
  m \in [start : [BioTags -> Nat], end : [BioTags -> Nat],
         transitions : [BioTags -> [BioTags -> Nat]], transitions2 : [BioTags -> [BioTags -> Nat]],
         emissions : [Positions -> [BioTags -> Nat]]]

(* BIO tags are finitely many records of a tag and a bio; a sentence is no *)
(* longer than what it is padded to.                                       *)
ASSUME SentencesAssumption ==
  /\ IsFiniteSet(BioTags) /\ BioTags # {}
  /\ BioTags \subseteq [tag : {t.tag : t \in BioTags}, bio : {t.bio : t \in BioTags}]
  /\ \A s \in Sentences : s.length \in 0..SeqLen /\ s.strict \in BOOLEAN /\ IsModel(s.model)

VARIABLES
  pc, sentence, tags, marginals, spans,
  predictions,   (* By tag: its spans, each with the sum of its             *)
                 (* probabilities, of which the code takes the mean.        *)
  probabilities  (* By tag: its weight at each position.                    *)

vars == <<pc, sentence, tags, marginals, spans, predictions, probabilities>>
runnerVars == <<predictions, probabilities>>

NoSentence == [length |-> 0]

Init == /\ pc = "idle" /\ sentence = NoSentence
        /\ tags = <<>> /\ marginals = <<>> /\ spans = <<>>
        /\ predictions = <<>> /\ probabilities = <<>>

Encode == /\ pc = "idle" /\ sentence' \in Sentences
          /\ pc' = "encoded" /\ UNCHANGED <<tags, marginals, spans, runnerVars>>

Decode == /\ pc = "encoded"
          /\ tags' = ViterbiDecode(sentence.model, sentence.length)
          /\ pc' = "decoded" /\ UNCHANGED <<sentence, marginals, spans, runnerVars>>

(* predict_tags passes no mask, so that every position counts.             *)
ComputeMarginals ==
  /\ pc = "decoded"
  /\ marginals' = Marginals(sentence.model, SeqLen)
  /\ pc' = "weighed" /\ UNCHANGED <<sentence, tags, spans, runnerVars>>

GroupTags == /\ pc = "weighed"
             /\ spans' = CreateDetails(sentence.length, tags, sentence.strict)
             /\ pc' = "done" /\ UNCHANGED <<sentence, tags, marginals, runnerVars>>

\* Mutant: the probability of the tag that opens a span only.
OpeningRows(tag) == {t \in BioTags : t.tag = tag /\ t.bio # "I-"}

(* OTHER has a row of its own, the other tags one for B-* and one for I-*. *)
Rows(tag) == {t \in BioTags : t.tag = tag}

WeightOfTag(tag) ==
  [i \in Positions |-> Total([t \in Rows(tag) |-> marginals[i][t]])]

(* RunnerCRF.tag, which asks for spans without the strict mode.  A kept    *)
(* tag without a span has no predictions and no weight anywhere.           *)
GroupPredictions ==
  LET found == {spans[k].tag : k \in DOMAIN spans}
      Predictions(tag) ==
        {[start |-> s.start, end |-> s.end,
          total |-> Total([i \in s.start..s.end - 1 |-> WeightOfTag(tag)[i]])] :
           s \in {spans[k] : k \in {k \in DOMAIN spans : spans[k].tag = tag}}}
  IN /\ pc = "done" /\ ~sentence.strict
     /\ probabilities' = [tag \in found \cup TagsToKeep |->
                            IF tag \in found THEN WeightOfTag(tag) ELSE [i \in Positions |-> 0]]
     /\ predictions' = [tag \in found \cup TagsToKeep |-> Predictions(tag)]
     /\ pc' = "tagged" /\ UNCHANGED <<sentence, tags, marginals, spans>>

NextSentence == /\ pc = "tagged" \/ (pc = "done" /\ sentence.strict)
                /\ sentence' = NoSentence /\ predictions' = <<>> /\ probabilities' = <<>>
                /\ tags' = <<>> /\ marginals' = <<>> /\ spans' = <<>> /\ pc' = "idle"

Next == Encode \/ Decode \/ ComputeMarginals \/ GroupTags \/ GroupPredictions \/ NextSentence
Spec == Init /\ [][Next]_vars

-----------------------------------------------------------------------------
Paths(n) == [0..n - 1 -> BioTags]

(* The potential of a path, by the definition of a linear chain: of its   *)
(* first positions up to each, and of all with the end.                    *)
Along(m, path, n) ==
  LET upto[i \in 0..n - 1] ==
        IF i = 0 THEN m.start[path[0]] * m.emissions[0][path[0]]
        ELSE upto[i - 1] * Transition(m, path[i - 1], path[i]) * m.emissions[i][path[i]]
  IN upto

Potential(m, path, n) == Along(m, path, n)[n - 1] * m.end[path[n - 1]]

(* The sum over paths, by their first tag.                                 *)
TotalOver(paths, weight(_)) ==
  Total([t \in BioTags |-> Total([path \in {p \in paths : p[0] = t} |-> weight(path)])])

(* Types; there is a tag for every character and none for the padding.     *)
TypeOK ==
  /\ pc \in {"idle", "encoded", "decoded", "weighed", "done", "tagged"}
  /\ \A i \in DOMAIN tags : tags[i] \in BioTags
  /\ \A i \in DOMAIN spans : spans[i].tag \in {t.tag : t \in BioTags} \cup {"OTHER"}
  /\ pc \in {"decoded", "weighed", "done", "tagged"} => Len(tags) = sentence.length

(* Of all the paths through the characters of the sentence none has a      *)
(* higher score than the decoded one (viterbi_decode against exhaustive    *)
(* search), whatever the emissions of the padding are.                     *)
BestPathIsDecoded ==
  pc = "decoded" =>
    LET m == sentence.model  n == sentence.length IN
    \A path \in Paths(n) :
      Potential(m, path, n) <= Potential(m, [i \in 0..n - 1 |-> tags[i + 1]], n)

(* The product of the forward and the backward score of a tag at a         *)
(* position is the weight of all paths through it, and the weights of a    *)
(* position's tags add up to the partition function: marginal_             *)
(* probabilities is a distribution at each position.                       *)
MarginalsAreExact ==
  pc = "weighed" =>
    LET m == sentence.model
        weight == [path \in Paths(SeqLen) |-> Potential(m, path, SeqLen)]
    IN \A i \in Positions :
         /\ \A t \in BioTags :
              marginals[i][t] = TotalOver({p \in Paths(SeqLen) : p[i] = t}, LAMBDA p : weight[p])
         /\ Total(marginals[i]) = Partition(m, SeqLen)

(* The normaliser of the likelihood is the sum of the scores of all tag    *)
(* sequences, whatever part of the batch is padding; so for transitions of *)
(* the first order (_numerator_score against _denominator_score).          *)
NormaliserCountsEveryPath ==
  pc = "encoded" =>
    LET m == [sentence.model EXCEPT !.transitions2 = [t \in BioTags |-> [u \in BioTags |-> 1]]]
        n == sentence.length
        Padded(path) == [i \in Positions |-> path[IF i < n THEN i ELSE n - 1]]
    IN TotalOver(Paths(n), LAMBDA p : Numerator(m, n, Padded(p))) = Partition(m, n)

(* The spans follow each other without a gap from the first character of   *)
(* the sentence to its last, in both modes.                                *)
SpansTileTheText ==
  pc = "done" =>
    /\ spans # <<>> /\ spans[1].start = 0 /\ Last(spans).end = sentence.length
    /\ \A k \in DOMAIN spans : spans[k].start < spans[k].end
    /\ \A k \in 1..Len(spans) - 1 : spans[k].end = spans[k + 1].start

(* Without the strict mode each character lies in a span of its tag, and   *)
(* a span ends only where the tag changes.                                 *)
SpansFollowTheTags ==
  pc = "done" /\ ~sentence.strict =>
    /\ \A k \in DOMAIN spans : \A p \in spans[k].start..spans[k].end - 1 :
         tags[p + 1].tag = spans[k].tag
    /\ \A k \in 1..Len(spans) - 1 : spans[k].tag # spans[k + 1].tag

(* The confidence of a prediction is the mean, over its characters, of the *)
(* probability that the character carries its tag, whether as B-* or I-*   *)
(* (RunnerCRF.tag against the sum over paths), and each character is in    *)
(* one prediction of one tag, that of its decoded tag.                     *)
ConfidenceIsTheProbabilityOfItsTag ==
  pc = "tagged" =>
    LET m == sentence.model
        weight == [path \in Paths(SeqLen) |-> Potential(m, path, SeqLen)]
        Through(i, tag) ==
          TotalOver({p \in Paths(SeqLen) : p[i].tag = tag}, LAMBDA p : weight[p])
    IN /\ \A tag \in DOMAIN predictions : \A s \in predictions[tag] :
            s.total = Total([i \in s.start..s.end - 1 |-> Through(i, tag)])
       /\ \A i \in 0..sentence.length - 1 : \A tag \in DOMAIN predictions :
            Cardinality({s \in predictions[tag] : s.start <= i /\ i < s.end})
              = IF tag = tags[i + 1].tag THEN 1 ELSE 0

(* B-* of a tag and then I-* of it, from the position a to before b; and   *)
(* as many of them as there are.                                           *)
EntityAt(tgs, a, b, tag) ==
  \E c \in a + 1..b - 1 :
    /\ \A p \in a..c - 1 : tgs[p + 1] = [tag |-> tag, bio |-> "B-"]
    /\ \A p \in c..b - 1 : tgs[p + 1] = [tag |-> tag, bio |-> "I-"]

LongestAt(tgs, a, b, tag) ==
  /\ EntityAt(tgs, a, b, tag)
  /\ a > 0 => ~EntityAt(tgs, a - 1, b, tag)
  /\ b < Len(tgs) => ~EntityAt(tgs, a, b + 1, tag)

(* In the strict mode the spans of a tag are the longest pieces of the     *)
(* text that begin with B-*, go on with I-*, and hold both.                *)
StrictSpansAreEntities ==
  pc = "done" /\ sentence.strict =>
    LET found == {spans[k] : k \in {k \in DOMAIN spans : spans[k].tag # "OTHER"}}
        names == {t.tag : t \in BioTags} \ {"OTHER"}
    IN found = {s \in {Span(a, b, tag) : a, b \in 0..Len(tags), tag \in names} :
                  LongestAt(tags, s.start, s.end, s.tag)}
=============================================================================
