------------------------------- MODULE MCAds --------------------------------
(***************************************************************************)
(* TLC instances of AdsInterface.                                          *)
(***************************************************************************)
EXTENDS AdsInterface

CONSTANTS t1, t2, a, b

MCVal     == {0, 1}
MCThread  == {t1, t2}
MCAlias   == {a, b}
MCOneAlias == {a}

\* One thread and a network that fails; two threads and one that does not; a
\* symbol table that ends with a configured variable; types Factory does not
\* know.
MCSymbols == <<a, OtherSymbol, b, OtherSymbol>>
MCNumbers == [v \in MCAlias |-> "number"]
MCTypes   == [v \in MCAlias |-> IF v = a THEN "time" ELSE "other"]
MCFailing == {[users |-> {t1}, fails |-> TRUE, symbols |-> MCSymbols, types |-> MCNumbers]}
MCSetting == MCFailing
  \union {[users |-> MCThread, fails |-> FALSE, symbols |-> MCSymbols, types |-> MCNumbers],
          [users |-> {t1}, fails |-> FALSE, symbols |-> <<OtherSymbol, a, b>>,
           types |-> MCNumbers],
          [users |-> {t1}, fails |-> FALSE, symbols |-> MCSymbols, types |-> MCTypes]}
MCOneFailing == {[users |-> {t1}, fails |-> TRUE, symbols |-> <<a, OtherSymbol>>,
                  types |-> [v \in MCOneAlias |-> "number"]]}
=============================================================================
