---------------------------- MODULE MCThreatSync ----------------------------
(***************************************************************************)
(* An instance of ThreatSync: a directory that may change its category, a  *)
(* name that is used for a directory and for a flat webshell, and a        *)
(* repository with files nobody has imported yet.                          *)
(***************************************************************************)
EXTENDS ThreatSync

CONSTANTS A, B, c1, c2

P(category, threat, rel, flat) ==
    [category |-> category, threat |-> threat, rel |-> rel, flat |-> flat]
Ax == P("threats", A, "x", FALSE)
Bx == P("threats", B, "x", FALSE)
MCListing ==
    << P("for-later-review", A, "README.md", FALSE), P("for-later-review", A, "x", FALSE),
       P("threats", A, "README.md", FALSE), Ax,
       P("threats", B, "README.md", FALSE), Bx, P("webshells", B, "B.php", TRUE) >>
MCPaths == {MCListing[i] : i \in DOMAIN MCListing}
MCInitTree == [p \in {Ax, Bx} |-> c1]
MCUnfit == {}
=============================================================================
