--------------------------- MODULE MCCallGraphSCC ----------------------------
(* CallGraphSCC on every call graph with three functions and calls of      *)
(* unknown ones, and with four where none calls itself.                    *)
EXTENDS CallGraphSCC

Three == {<<a, b, c>> : a, b, c \in SUBSET (0 .. 2 \cup {External})}

Four == {<<a, b, c, d>> : a \in SUBSET {1, 2, 3}, b \in SUBSET {0, 2, 3},
                          c \in SUBSET {0, 1, 3}, d \in SUBSET {0, 1, 2}}

SmallGraphs == Three \cup Four

(* main calls f, f calls puts, and puts is only declared.                  *)
PutsGraph == {<<{1}, {2}, {External}>>}
=============================================================================
