---------------------------- MODULE MCStateTable -----------------------------
(***************************************************************************)
(* StateTable and its save's dictionary on two row values and four ids:    *)
(* enough for a removal from the front, the middle and the end, a removal  *)
(* of a moved row, and a save older than the last death.  One row names a  *)
(* definition and has a short vector, the other names none and holds the   *)
(* last column; the tables to come are reordered, shorter, longer, and one *)
(* of the old size with a key replaced.                                    *)
(***************************************************************************)
EXTENDS SaveDictionary

MCFirstTable == <<"grain", "logs", "salt">>
MCTables ==
  {MCFirstTable, <<"salt", "grain", "logs">>, <<"grain", "salt">>, <<"logs", "grain">>,
   <<"grain", "hay", "salt">>, <<"hay", "grain", "logs", "salt">>}
MCRow == {[def |-> 1, amounts |-> <<1>>], [def |-> NoDef, amounts |-> <<0, 0, 2>>]}

\* Both hypotheses of the dictionary's theorem hold of this instance.
ASSUME DictionaryAssumption == TablesSound /\ RowsFit
=============================================================================
