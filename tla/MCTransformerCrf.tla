--------------------------- MODULE MCTransformerCrf ---------------------------
(***************************************************************************)
(* Two tags and OTHER over at most four characters.  The emissions prefer  *)
(* one tag at each character, clearly under neutral transitions (so that   *)
(* every sequence of tags is decoded), slightly under transitions that     *)
(* prefer I-* after B-* and dislike it elsewhere (so that the best path is *)
(* not the best tag of each character).  B-COUNTRY is left out, as a tag   *)
(* of weight zero would be.                                                *)
(***************************************************************************)
EXTENDS TransformerCrf

CONSTANT Lengths

Bio(tag, bio) == [tag |-> tag, bio |-> bio]
MCBioTags == {Bio("TOWN", "B-"), Bio("TOWN", "I-"), Bio("COUNTRY", "I-"), Bio("OTHER", "OTHER")}

Neutral == [t \in MCBioTags |-> [u \in MCBioTags |-> 1]]
Biased == [t \in MCBioTags |-> [u \in MCBioTags |->
             IF u.bio = "I-" THEN IF t.tag = u.tag THEN 4 ELSE 1 ELSE 2]]
Second == [t \in MCBioTags |-> [u \in MCBioTags |->
             IF t.bio = "B-" /\ u.bio = "B-" THEN 1 ELSE 2]]

Model(peaks, height, first, second) ==
  [start |-> [t \in MCBioTags |-> IF t.bio = "I-" THEN 1 ELSE height - 1],
   end |-> [t \in MCBioTags |-> IF t.bio = "B-" THEN 1 ELSE height - 1],
   transitions |-> first, transitions2 |-> second,
   emissions |-> [i \in Positions |-> [t \in MCBioTags |->
     IF i \in DOMAIN peaks /\ peaks[i] = t THEN height
     ELSE IF i \notin DOMAIN peaks /\ t.bio = "I-" THEN 3 ELSE 1]]]

MCSentences ==
  UNION {{[length |-> n, strict |-> strict, model |-> model] :
            strict \in BOOLEAN,
            model \in {Model(p, 2, Neutral, Neutral) : p \in [0..n - 1 -> MCBioTags]}
                        \cup {Model(p, 3, Biased, Second) : p \in [0..n - 1 -> MCBioTags]}} :
           n \in Lengths}
=============================================================================
