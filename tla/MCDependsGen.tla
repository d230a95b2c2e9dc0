---------------------------- MODULE MCDependsGen ----------------------------
(* An instance of DependsGen for TLC: three packages, one of them stable, a *)
(* virtual package and two platforms, one the parent of the other.          *)
EXTENDS DependsGen

MCMenus == {<<"v", "a", "b", "c", "parent", "board">>,
            <<"c", "board", "b", "v", "parent", "a">>}
MCSelectors == {"a", "b", "c", "board"}
MCSelected  == {"a", "b", "c", "v"}

Unconditional == {[by |-> p, cond |-> p, sel |-> q] : p \in MCSelectors, q \in MCSelected}
Conditional   == {[by |-> "a", cond |-> "b", sel |-> "c"],
                  [by |-> "board", cond |-> "b", sel |-> "v"],
                  [by |-> "c", cond |-> Off, sel |-> "a"],
                  [by |-> "b", cond |-> "board", sel |-> "a"]}
MCStatements  == {s \in Unconditional : s.by # s.sel} \cup Conditional
=============================================================================
