------------------------------- MODULE Pipeline -------------------------------
(***************************************************************************)
(* AddressStructuringPipeline.run, a chain of generators: samples are read,*)
(* validated and cleaned one by one as a batch is assembled; the CRF tags  *)
(* the whole batch when its first result is asked for; post-processing     *)
(* yields result after result.  The consumer collects all results and      *)
(* hands them over at the end, or gets the exception that a stage raises.  *)
(*                                                                         *)
(* A sample is a record: id, size (characters as given) and text (the      *)
(* characters after cleaning, which may remove and add some).  Of the      *)
(* stages that read the text, the postcode matching is modelled here.      *)
(***************************************************************************)
EXTENDS Postcodes

CONSTANTS Inputs, BatchSize, MaxSequenceLength

ASSUME SizesAssumption == /\ BatchSize \in Nat \ {0}
                          /\ MaxSequenceLength \in Nat /\ MaxSequenceLength >= 2

(* A request is a sequence of samples, a text a sequence of characters.    *)
ASSUME InputsAssumption ==
  \A samples \in Inputs :
    /\ samples \in Seq(Range(samples))
    /\ \A sample \in Range(samples) : sample.size \in Nat /\ sample.text \in Seq(Range(sample.text))

VARIABLES
  phase,
  input, reader,   (* All samples of the request, and those not yet read.   *)
  batch,           (* The samples that islice has taken.                    *)
  tagged,          (* The CRF results of the batch not yet zipped.          *)
  results,         (* What the consumer has collected.                      *)
  answer           (* What the consumer hands over.                         *)

vars == <<phase, input, reader, batch, tagged, results, answer>>

Fields == <<input, reader, batch, tagged, results, answer>>

Init == /\ phase = "idle" /\ input = <<>> /\ reader = <<>>
        /\ batch = <<>> /\ tagged = <<>> /\ results = <<>> /\ answer = <<>>

Run == /\ phase = "idle"
       /\ \E samples \in Inputs : input' = samples /\ reader' = samples
       /\ phase' = "reading" /\ UNCHANGED <<batch, tagged, results, answer>>

Valid(sample) == sample.size <= MaxSequenceLength

\* Mutant: islice takes whatever there is.
ReadWithoutLimit ==
  /\ phase = "reading" /\ reader # <<>> /\ Valid(Head(reader))
  /\ batch' = Append(batch, Head(reader)) /\ reader' = Tail(reader)
  /\ UNCHANGED <<phase, input, tagged, results, answer>>

ReadSample ==
  /\ phase = "reading" /\ Len(batch) < BatchSize /\ reader # <<>> /\ Valid(Head(reader))
  /\ batch' = Append(batch, Head(reader)) /\ reader' = Tail(reader)
  /\ UNCHANGED <<phase, input, tagged, results, answer>>

\* Mutant: the batch at hand is processed before the error is raised.
RejectAfterBatch ==
  /\ phase = "reading" /\ Len(batch) < BatchSize /\ reader # <<>> /\ ~Valid(Head(reader))
  /\ phase' = IF batch = <<>> THEN "failed" ELSE "tagging"
  /\ UNCHANGED Fields

(* The ValueError passes through islice: what it had taken is gone.        *)
RejectSample ==
  /\ phase = "reading" /\ Len(batch) < BatchSize /\ reader # <<>> /\ ~Valid(Head(reader))
  /\ phase' = "failed"
  /\ UNCHANGED Fields

\* Mutant: only the end of the input, not an empty batch, ends the loop.
AnyBatchComplete == phase = "reading" /\ (Len(batch) = BatchSize \/ reader = <<>>)

BatchComplete == /\ phase = "reading" /\ batch # <<>>
                 /\ Len(batch) = BatchSize \/ reader = <<>>

AssembleBatch == BatchComplete /\ phase' = "tagging" /\ UNCHANGED Fields

EndOfInput == /\ phase = "reading" /\ reader = <<>> /\ ~BatchComplete
              /\ phase' = "finished" /\ UNCHANGED Fields

\* Mutant: an empty text has no tags.
CharactersTagged(sample) == Len(sample.text)

(* The length of the decoded path; for an empty text viterbi_decode takes  *)
(* all of its history but the last step.                                   *)
TagsOf(sample) == IF sample.text = <<>> THEN MaxSequenceLength - 1 ELSE Len(sample.text)

(* The loop over the sentences: one without tags gets no result.           *)
WithTags(samples) ==
  LET all_results[k \in 0..Len(samples)] ==
        IF k = 0 THEN <<>>
        ELSE IF TagsOf(samples[k]) > 0 THEN Append(all_results[k - 1], samples[k])
        ELSE all_results[k - 1]
  IN all_results[Len(samples)]

(* The id lists are one tensor if none is longer than max_seq_len.         *)
PredictTags ==
  /\ phase = "tagging"
  /\ IF \E k \in DOMAIN batch : Len(batch[k].text) > MaxSequenceLength
     THEN phase' = "failed" /\ UNCHANGED tagged
     ELSE /\ phase' = "processing"
          /\ tagged' = WithTags(batch)
  /\ UNCHANGED <<input, reader, batch, results, answer>>

(* zip takes the next CRF result, fuzzy matches, postcodes and sample;     *)
(* batch keeps the samples that the other three have yet to give.          *)
PostProcess ==
  /\ phase = "processing" /\ tagged # <<>>
  /\ results' = Append(results, [id |-> Head(batch).id, crf |-> Head(tagged).id,
                                 postcodes |-> PostcodeMatches(Head(batch).text)])
  /\ batch' = Tail(batch) /\ tagged' = Tail(tagged)
  /\ UNCHANGED <<phase, input, reader, answer>>

BatchDone == /\ phase = "processing" /\ tagged = <<>>
             /\ batch' = <<>> /\ phase' = "reading"
             /\ UNCHANGED <<input, reader, tagged, results, answer>>

(* [result for result in pipeline.run(reader)], then send.                 *)
SendResults == /\ phase = "finished"
               /\ answer' = results /\ phase' = "answered"
               /\ UNCHANGED <<input, reader, batch, tagged, results>>

Forget == /\ phase \in {"answered", "failed"}
          /\ phase' = "idle" /\ input' = <<>> /\ reader' = <<>>
          /\ batch' = <<>> /\ tagged' = <<>> /\ results' = <<>> /\ answer' = <<>>

Assemble == ReadSample \/ RejectSample \/ AssembleBatch \/ EndOfInput
Process == PredictTags \/ PostProcess \/ BatchDone \/ SendResults
Next == Run \/ Assemble \/ Process \/ Forget

-----------------------------------------------------------------------------
Oversized(sample) == ~Valid(sample) \/ Len(sample.text) > MaxSequenceLength
Taken == Len(input) - Len(reader)

(* Types, and the samples at hand are a piece of the input.                *)
TypeOK ==
  /\ phase \in {"idle", "reading", "tagging", "processing", "finished", "answered", "failed"}
  /\ reader = SubSeq(input, Taken + 1, Len(input))
  /\ batch = SubSeq(input, Taken - Len(batch) + 1, Taken)
  /\ Len(batch) <= BatchSize

(* A result combines the tags, the matches and the metadata of one sample, *)
(* and the results come in the order of the samples, though the stages are *)
(* joined by position only and predict_tags may leave sentences out; and   *)
(* an answer has a result for every sample.                                *)
EachResultIsOfItsSample ==
  /\ \A k \in DOMAIN results :
       k <= Len(input) /\ results[k].id = input[k].id /\ results[k].crf = input[k].id
  /\ phase = "answered" => answer = results /\ Len(answer) = Len(input)

(* Where a postcode ends that begins at i with this listed part and goes   *)
(* on with what completes it in its country.                               *)
EndsAt(text, g, code, i) ==
  {e \in {i + Len(code) + Len(s) : s \in Structures[g]} :
     /\ e <= Len(text) /\ SubSeq(text, i + 1, i + Len(code)) = code
     /\ Shape(SubSeq(text, i + Len(code) + 1, e)) \in Structures[g]}

(* A match of the same shape begins before i and ends after it.            *)
Preempted(text, g, code, i) ==
  \E j \in 0..i - 1 : \E e \in Ends(Patterns[g][Shape(code)], Shape(text), j) : e > i

FoundAt(i, e, entry) ==
  [start |-> i, end |-> e, possibility |-> entry.possibility, origin |-> entry.origin]

(* The towns of a result's postcodes are towns of a postcode that stands   *)
(* at that place of its sample's text, followed by what completes it in    *)
(* its country; and each postcode that stands in the text is found, unless *)
(* a match of the same shape begins before it and takes a part of it.      *)
PostcodesAreThoseOfTheText ==
  (phase = "processing" /\ results # <<>>) =>
    LET text == Cleaned(input[Len(results)].text)
        found == Last(results).postcodes
    IN /\ \A m \in found : \E g \in Groups : \E code \in DOMAIN Dictionary[g] :
            /\ [possibility |-> m.possibility, origin |-> m.origin] \in Dictionary[g][code]
            /\ m.end \in EndsAt(text, g, code, m.start)
       /\ \A g \in Groups : \A code \in DOMAIN Dictionary[g] : \A i \in 0..Len(text) - 1 :
            EndsAt(text, g, code, i) # {} =>
              \/ \A e \in EndsAt(text, g, code, i), entry \in Dictionary[g][code] :
                    FoundAt(i, e, entry) \in found
              \/ Preempted(text, g, code, i)

(* A sample that is too long, as given or once it is cleaned, costs its    *)
(* own batch, the good samples before it included, and what comes later;   *)
(* nothing else fails, and no such sample slips through.                   *)
FailureCostsItsBatch ==
  LET bad == {k \in DOMAIN input : Oversized(input[k])} IN
  /\ phase = "failed" => \E k \in bad :
       /\ \A j \in bad : k <= j
       /\ Len(results) = BatchSize * ((k - 1) \div BatchSize)
  /\ phase \in {"finished", "answered"} => bad = {}

(* No more than one batch is read ahead of the results.                    *)
ReadAheadIsBounded == Taken - Len(results) <= BatchSize

(* A run ends, with an answer or with an error.                            *)
EveryRunEnds == phase = "reading" ~> phase \in {"answered", "failed"}
=============================================================================
