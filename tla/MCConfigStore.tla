--------------------------- MODULE MCConfigStore ---------------------------
(* Small instances of ConfigStore. Texts: g and h are good, b is valid but    *)
(* breaks its connector, i is invalid, k breaks its connector and asks to     *)
(* keep the active config, n is good and turns hot reload off.                *)
EXTENDS ConfigStore, TLC

CONSTANTS g, h, b, k, n, i,  \* texts
          d1, fb,            \* state directories, fb the fallback
          s1                 \* the setter

MCTexts == {g, h, b, k, n, i}
MCValid == {g, h, b, k, n}
MCHealthy == {g, h, n}
MCRollback == {g, h, b, n}
MCHotReload == {g, h, b, k}

(* The usual installation: every config names the same data_dir.              *)
MCOneDir == [t \in Valid |-> d1]
(* h and n name the fallback directory itself: a `set`, or a command, moves   *)
(* the snapshots there and back.                                              *)
MCDirs == [t \in Valid |-> IF t \in {h, n} THEN fb ELSE d1]

(* `set` sets a value that is good in g and h and invalid in b; so does the   *)
(* gateway's command, which turns hot reload off, or on again.                *)
Exchange(x, y, t) == IF t = x THEN y ELSE IF t = b THEN i ELSE IF t \in Valid THEN x ELSE None
MCEdit == [p \in Setters \cup Loaders |-> [t \in Contents |->
             IF p \in Loaders THEN Exchange(n, g, t) ELSE Exchange(g, h, t)]]
=============================================================================
