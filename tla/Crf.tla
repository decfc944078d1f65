---------------------------------- MODULE Crf ----------------------------------
(***************************************************************************)
(* The linear-chain conditional random field that tags each character of a *)
(* sentence.  A score of the code is the logarithm of a potential; here    *)
(* the potentials themselves are natural numbers, so that scores are       *)
(* multiplied where the code adds and added where it takes log_sum_exp.    *)
(*                                                                         *)
(* A model m has the potentials start, end, transitions, transitions2 and  *)
(* emissions (by position); a sentence of n characters is padded to SeqLen *)
(* positions, of which the mask keeps the first n.                         *)
(***************************************************************************)
EXTENDS Integers, Sequences, FiniteSets, FiniteSetsExt, Functions

CONSTANTS BioTags, SeqLen

ASSUME SeqLenAssumption == SeqLen \in Nat /\ SeqLen >= 2

Positions == 0..SeqLen - 1
Total(f) == FoldFunction(LAMBDA a, b : a + b, 0, f)

(* get_transitions of CRFSecondOrder.                                      *)
Transition(m, t, u) == m.transitions[t][u] * m.transitions2[t][u]

First(m) == [t \in BioTags |-> m.start[t] * m.emissions[0][t]]

-----------------------------------------------------------------------------
(* viterbi_decode: the best score of a path that ends in a tag.            *)

Extended(m, i, scores, u) ==
  {scores[t] * Transition(m, t, u) * m.emissions[i][u] : t \in BioTags}

\* Mutant: the scores go on through the padding.
ScoresThroughPadding(m, n) ==
  LET s[i \in Positions] ==
        IF i = 0 THEN First(m) ELSE [u \in BioTags |-> Max(Extended(m, i, s[i - 1], u))]
  IN s

Scores(m, n) ==
  LET s[i \in Positions] ==
        IF i = 0 THEN First(m)
        ELSE IF i < n THEN [u \in BioTags |-> Max(Extended(m, i, s[i - 1], u))]
        ELSE s[i - 1]
  IN s

BestOf(score) == CHOOSE t \in BioTags : \A u \in BioTags : score[t] >= score[u]

History(m, n) ==
  LET s == Scores(m, n)
  IN [i \in 1..SeqLen - 1 |->
        [u \in BioTags |-> BestOf([t \in BioTags |-> s[i - 1][t] * Transition(m, t, u)])]]

\* Mutant: one step of the history too many.
OneStepTooFar(n) == IF n = SeqLen THEN n - 1 ELSE n

(* history[:seq_ends] for seq_ends = n - 1; -1 cuts the last one off.      *)
StepsBack(n) == IF n = 0 THEN SeqLen - 2 ELSE n - 1

ViterbiDecode(m, n) ==
  LET last == StepsBack(n)
      ends == [t \in BioTags |-> Scores(m, n)[SeqLen - 1][t] * m.end[t]]
      history == History(m, n)
      best[k \in 0..last] ==   \* the tag of the k-th character from the end
        IF k = 0 THEN BestOf(ends) ELSE history[last - k + 1][best[k - 1]]
  IN [i \in 1..last + 1 |-> best[last + 1 - i]]

-----------------------------------------------------------------------------
(* _forward_algorithm in both directions, and marginal_probabilities       *)
(* before the division by the partition function.                          *)

Alpha(m, n) ==
  LET a[i \in Positions] ==
        IF i = 0 THEN First(m)
        ELSE IF i < n
        THEN [u \in BioTags |->
                Total([t \in BioTags |-> a[i - 1][t] * Transition(m, t, u) * m.emissions[i][u]])]
        ELSE a[i - 1]
  IN a

\* Mutant: the transitions are not transposed for the way back.
BetaUntransposed(m, n) ==
  LET b[i \in Positions] ==
        IF i = SeqLen - 1 THEN m.end
        ELSE IF i + 1 < n
        THEN [t \in BioTags |->
                Total([u \in BioTags |-> b[i + 1][u] * Transition(m, u, t) * m.emissions[i + 1][u]])]
        ELSE b[i + 1]
  IN b

Beta(m, n) ==
  LET b[i \in Positions] ==
        IF i = SeqLen - 1 THEN m.end
        ELSE IF i + 1 < n
        THEN [t \in BioTags |->
                Total([u \in BioTags |-> b[i + 1][u] * Transition(m, t, u) * m.emissions[i + 1][u]])]
        ELSE b[i + 1]
  IN b

Partition(m, n) == Total([t \in BioTags |-> Alpha(m, n)[SeqLen - 1][t] * m.end[t]])

Marginals(m, n) ==
  LET a == Alpha(m, n)  b == Beta(m, n)
  IN [i \in Positions |-> [t \in BioTags |-> a[i][t] * b[i][t]]]

(* _numerator_score: the score of given tags (of SeqLen positions).        *)
\* Mutant: the last emission counts even where it is padding.
NumeratorOfPadding(m, n, tags) ==
  m.start[tags[0]] * m.end[tags[n - 1]]
  * FoldFunction(LAMBDA a, b : a * b, 1,
      [i \in 0..SeqLen - 2 |->
         (IF i + 1 < n THEN Transition(m, tags[i], tags[i + 1]) ELSE 1)
         * (IF i < n THEN m.emissions[i][tags[i]] ELSE 1)])
  * m.emissions[SeqLen - 1][tags[n - 1]]

Numerator(m, n, tags) ==
  m.start[tags[0]] * m.end[tags[n - 1]]
  * FoldFunction(LAMBDA a, b : a * b, 1,
      [i \in 0..SeqLen - 2 |->
         (IF i + 1 < n
          THEN m.transitions[tags[i]][tags[i + 1]]
                 * m.transitions2[tags[IF i = 0 THEN 0 ELSE i - 1]][tags[i + 1]]
          ELSE 1)
         * (IF i < n THEN m.emissions[i][tags[i]] ELSE 1)])
  * (IF SeqLen - 1 < n THEN m.emissions[SeqLen - 1][tags[n - 1]] ELSE 1)
=============================================================================
