------------------------------ MODULE Structuring ------------------------------
(***************************************************************************)
(* AddressStructuringPipeline as a whole: its constructor loads the        *)
(* database, once, and from then on it takes requests.                     *)
(***************************************************************************)
EXTENDS Pipeline, Database

allVars == <<vars, dbVars>>

(* No request is taken yet: the constructor is about to read the rows. *)
StructuringInit == Init /\ LoadInit

Ready == stage = "ready" /\ UNCHANGED dbVars

Load == LoadNext /\ UNCHANGED vars
Serve == Ready /\ Next

StructuringSpec ==
  /\ StructuringInit /\ [][Load \/ Serve]_allVars
  /\ WF_allVars(Ready /\ Assemble) /\ WF_allVars(Ready /\ Process)
=============================================================================
