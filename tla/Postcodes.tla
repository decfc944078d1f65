------------------------------- MODULE Postcodes -------------------------------
(***************************************************************************)
(* The postcode files and the search for postcodes in a text: the          *)
(* dictionaries from the postcodes of a country group to its towns, the    *)
(* regular expressions derived from them, and RunnerPostcodeMatch.match.   *)
(*                                                                         *)
(* A text and a postcode are sequences of characters in upper case; places *)
(* are opaque.  Positions count from 0.  A row of the source files has the *)
(* fields country, admin (its state code), code and place.                 *)
(***************************************************************************)
EXTENDS Integers, Sequences, FiniteSets, SequencesExt, Lists

CONSTANTS
  PostcodeRows,
  Dublin         (* The places whose name contains Dublin.                  *)

(* All columns are read as strings (infer_schema=False).                   *)
ASSUME PostcodeRowsAssumption ==
  \A row \in PostcodeRows : /\ row.code \in Seq(Range(row.code))
                            /\ row.admin \in Seq(Range(row.admin))

Letters == {"A", "B", "C", "D", "E", "F", "G", "H", "I", "J", "K", "L", "M",
            "N", "O", "P", "Q", "R", "S", "T", "U", "V", "W", "X", "Y", "Z"}
Digits == {"0", "1", "2", "3", "4", "5", "6", "7", "8", "9"}

(* CHAR_TO_REGEX: [A-Z], [0-9], and an optional separator for the rest.    *)
Class(char) == IF char \in Letters THEN "letter" ELSE IF char \in Digits THEN "digit" ELSE "separator"

(* re.sub('[^A-Z0-9]', ' ', ...), for a postcode and for a text.           *)
Cleaned(chars) == [i \in DOMAIN chars |-> IF Class(chars[i]) = "separator" THEN " " ELSE chars[i]]

Shape(code) == [i \in DOMAIN code |-> Class(code[i])]

-----------------------------------------------------------------------------
(* preprocess_geonames_postcodes.py: one file for each special country,    *)
(* and one for all the others.                                             *)
Special == {"AR", "BR", "CL", "CN", "IE", "MT"}
Groups == Special \cup {"full"}
Group(row) == IF row.country \in Special THEN row.country ELSE "full"

UpTo(code, n) == SubSeq(code, 1, IF Len(code) < n THEN Len(code) ELSE n)

WithoutZeros(code) ==
  LET last == {i \in DOMAIN code : \A j \in 1..i : code[j] = "0"}
  IN SubSeq(code, Cardinality(last) + 1, Len(code))

(* preprocess_argentina, ..._ireland: a postcode of Dublin is kept as it   *)
(* is and as D with its number.                                            *)
Prepared(row) ==
  CASE row.country = "AR" -> {row.admin \o row.code}
    [] row.country = "BR" -> {UpTo(row.code, 5)}
    [] row.country = "CL" -> {UpTo(row.code, 3)}
    [] row.country = "CN" -> {UpTo(row.code, 4)}
    [] row.country = "IE" /\ row.place \in Dublin ->
         {row.code, <<"D">> \o WithoutZeros(SubSeq(row.code, 2, Len(row.code)))}
    [] OTHER -> {row.code}

(* filter_and_clean_dataframe: all places of a postcode.                   *)
Codes(g) ==
  UNION {{Cleaned(code) : code \in Prepared(row)} :
           row \in {r \in PostcodeRows : Group(r) = g /\ r.place # ""}}

Dictionary ==
  [g \in Groups |-> [code \in Codes(g) |->
     {[possibility |-> row.place, origin |-> row.country] :
        row \in {r \in PostcodeRows :
                   /\ Group(r) = g /\ r.place # ""
                   /\ \E c \in Prepared(r) : Cleaned(c) = code}}]]

RegexList == [g \in Groups |-> {Shape(code) : code \in DOMAIN Dictionary[g]}]

-----------------------------------------------------------------------------
(* What follows the listed part of a postcode: ..._POSTCODE_STRUCTURE.     *)
DigitsOnly(n) == [i \in 1..n |-> "digit"]

Structures ==
  [g \in Groups |->
     CASE g \in {"AR", "CL", "MT"} -> {DigitsOnly(4)}
       [] g = "BR" -> {DigitsOnly(3)}
       [] g = "CN" -> {DigitsOnly(2)}
       [] g = "IE" -> {<<"letter", "digit", "letter", "digit">>,
                       <<"letter", "letter", "digit", "digit">>,
                       <<"letter", "digit", "letter", "letter">>}
       [] g = "full" -> {<<>>}]

(* The class sequences a regular expression matches: with each of its      *)
(* separators or without it, and then the structure.                       *)
Matched(shape) ==
  {Kept(shape, DOMAIN shape \ without) :
     without \in SUBSET {i \in DOMAIN shape : shape[i] = "separator"}}

Patterns ==
  [g \in Groups |-> [shape \in RegexList[g] |->
     {m \o s : m \in Matched(shape), s \in Structures[g]}]]

(* Where a match that starts at i may end.                                 *)
Ends(patterns, classes, i) ==
  {i + Len(p) : p \in {p \in patterns : /\ i + Len(p) <= Len(classes)
                                        /\ SubSeq(classes, i + 1, i + Len(p)) = p}}

(* re.finditer: from left to right, greedy, and without overlaps.  free[i] *)
(* is where the search goes on after the matches that start before i.      *)
FindIter(patterns, classes) ==
  LET n == Len(classes)
      ends == [i \in 0..n |-> Ends(patterns, classes, i)]
      free[i \in 0..n] ==
        IF i = 0 THEN 0
        ELSE LET before == free[i - 1]
             IN IF before < i /\ ends[i - 1] # {} THEN Max(ends[i - 1]) ELSE before
  IN {[start |-> i, end |-> Max(ends[i])] : i \in {i \in 0..n : ends[i] # {} /\ free[i] <= i}}

\* Mutant: the dictionary is asked for the whole match.
WholeMatch(shape, matched) == matched

(* re.findall(regex, match.group(0)), the first of it.                     *)
ListedPart(shape, matched) ==
  SubSeq(matched, 1, Max(Ends(Matched(shape), Shape(matched), 0)))

(* find_postcode_town_matches; the order of the matches does not matter.   *)
TownMatches(g, text) ==
  UNION {UNION {LET code == ListedPart(shape, SubSeq(text, m.start + 1, m.end))
                IN IF code \in DOMAIN Dictionary[g]
                   THEN {[start |-> m.start, end |-> m.end,
                          possibility |-> entry.possibility, origin |-> entry.origin] :
                           entry \in Dictionary[g][code]}
                   ELSE {} :
                  m \in FindIter(Patterns[g][shape], Shape(text))} :
           shape \in RegexList[g]}

(* RunnerPostcodeMatch.match for a sample: all groups, one after the other.*)
PostcodeMatches(text) == UNION {TownMatches(g, Cleaned(text)) : g \in Groups}
=============================================================================
