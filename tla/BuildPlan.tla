----------------------------- MODULE BuildPlan -----------------------------
(***************************************************************************)
(* What the files generated by scripts/kconfig/deps.c promise to           *)
(* scripts/Makefile.platform: DependsGen is shown to write such a plan,    *)
(* and PlatformBuild assumes that it works from one.                       *)
(***************************************************************************)
EXTENDS Naturals

\* Package are the packages with a rule in depends.mk, Deps[p] the ones that
\* p's rule names, Stable those that are named behind the bar, and Rank[p] is
\* the position of p in depends-dirs.
IsBuildPlan(Package, Deps, Stable, Rank) ==
  /\ Deps \in [Package -> SUBSET Package]
  /\ Stable \subseteq Package
  /\ Rank \in [Package -> Nat]
  /\ \A p, q \in Package : Rank[p] = Rank[q] => p = q
  /\ \A p \in Package : \A d \in Deps[p] : Rank[d] < Rank[p]
=============================================================================
