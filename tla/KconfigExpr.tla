---------------------------- MODULE KconfigExpr ----------------------------
(* The dependency expressions of kconfig (scripts/kconfig/expr.c) and their  *)
(* simplification.  An expression is a value here: what the code copies is   *)
(* shared and what it frees is forgotten.  The nested E_AND and E_OR nodes   *)
(* of the code, whose leaves its loops visit from left to right, are one     *)
(* node with the sequence of these leaves.                                   *)
(*                                                                           *)
(* A symbol is a string; "n", "m" and "y" are the constant symbols.  ty maps *)
(* symbols to their types, as far as they are known.                         *)
EXTENDS Naturals, Sequences, SequencesExt, FiniteSetsExt

Connectives == {"and", "or"}
Node(op, s, v, args) == [op |-> op, sym |-> s, val |-> v, args |-> args]
\* FoldLeft of SequencesExt, without the sets of indices.
Fold(op(_, _), base, s) ==
  LET to[i \in 0 .. Len(s)] == IF i = 0 THEN base ELSE op(to[i - 1], s[i]) IN to[Len(s)]

NoExpr == Node("none", "", "", <<>>)          \* the NULL pointer
Sym(s) == Node("sym", s, "", <<>>)
Cmp(op, s, v) == Node(op, s, v, <<>>)         \* "eq" or "neq"
Not(e) == Node("not", "", "", <<e>>)
Yes == Sym("y")
Mod == Sym("m")
No  == Sym("n")
TypeOf(ty, s) == IF s \in DOMAIN ty THEN ty[s] ELSE "unknown"
TriConst == {"n", "m", "y"}

Leaves(op, e) == IF e.op = op THEN e.args ELSE <<e>>
Two(op, e1, e2) == Node(op, "", "", Leaves(op, e1) \o Leaves(op, e2))
Flat(op, es) == Node(op, "", "", FlattenSeq([i \in DOMAIN es |-> Leaves(op, es[i])]) \o <<>>)
Nary(op, es) == Flat(op, es \o <<>>)   \* of a sequence, TLC keeps the elements it computes
AllocAnd(e1, e2) == IF e1 = NoExpr THEN e2 ELSE IF e2 = NoExpr THEN e1 ELSE Two("and", e1, e2)
AllocOr(e1, e2)  == IF e1 = NoExpr THEN e2 ELSE IF e2 = NoExpr THEN e1 ELSE Two("or", e1, e2)

Unit(op) == IF op = "and" THEN Yes ELSE No
Zero(op) == IF op = "and" THEN No ELSE Yes

\* Constants among the operands decide a connective or drop out of it.
Left(op, args) == CASE args = <<>>   -> Unit(op)
                    [] Len(args) = 1 -> args[1]
                    [] OTHER         -> Node(op, "", "", args)
Decided(op, args) == IF Contains(args, Zero(op)) THEN Zero(op)
                     ELSE Left(op, SelectSeq(args, LAMBDA a : a # Unit(op)))
RECURSIVE EliminateYn(_)
EliminateYn(e) ==
  IF e.op \notin Connectives THEN e
  ELSE Decided(e.op, Nary(e.op, [i \in DOMAIN e.args |-> EliminateYn(e.args[i])]).args)

RECURSIVE ExprEq(_, _), PairOff(_, _, _, _)
\* Each operand of s1 takes the first equal one of s2 with it.
TakeBoth(op, s1, s2, i, same) ==
  IF same = {} THEN <<s1, s2>> ELSE <<[s1 EXCEPT ![i] = Unit(op)], [s2 EXCEPT ![Min(same)] = Unit(op)]>>
PairOff(op, s1, s2, i) ==
  IF i > Len(s1) THEN <<s1, s2>>
  ELSE LET Go(s) == PairOff(op, s[1], s[2], i + 1)
       IN Go(TakeBoth(op, s1, s2, i, {j \in DOMAIN s2 : ExprEq(s1[i], s2[j]) /\ s1[i] \notin {Yes, No}}))

\* Removes from both expressions what they have in common.
EliminateEq(e1, e2) ==
  LET Back(op, e, args) == IF e.op = op THEN Nary(op, args) ELSE args[1]
      Both(op, p, r) == <<Back(op, p[1], r[1]), Back(op, p[2], r[2])>>
      Pair(p, op) == Both(op, p, PairOff(op, Leaves(op, p[1]), Leaves(op, p[2]), 1))
      ops == SelectSeq(IF e1.op = e2.op THEN <<e1.op>> ELSE <<e1.op, e2.op>>, LAMBDA op : op \in Connectives)
      Clean(p) == <<EliminateYn(p[1]), EliminateYn(p[2])>>
  IN IF e1 = NoExpr \/ e2 = NoExpr THEN <<e1, e2>> ELSE Clean(Fold(Pair, <<e1, e2>>, ops))

ExprEq(e1, e2) ==
  LET OneSym(r) == r[1].op = "sym" /\ r[1] = r[2]
  IN /\ e1.op = e2.op
     /\ CASE e1.op = "not"         -> ExprEq(e1.args[1], e2.args[1])
          [] e1.op \in Connectives -> OneSym(EliminateEq(e1, e2))
          [] OTHER                 -> e1 = e2

\* FOO!=n -> FOO, which keeps "m or y" but not the value.
RECURSIVE TransBool(_, _)
\* Mutant of TransBool: FOO!=y is taken for FOO, too.
TransBoolAny(ty, e) ==
  CASE e.op \in Connectives -> Nary(e.op, [i \in DOMAIN e.args |-> TransBool(ty, e.args[i])])
    [] e.op = "not" -> Not(TransBool(ty, e.args[1]))
    [] e.op = "neq" /\ TypeOf(ty, e.sym) = "tristate" -> Sym(e.sym)
    [] OTHER -> e
TransBool(ty, e) ==
  CASE e.op \in Connectives -> Nary(e.op, [i \in DOMAIN e.args |-> TransBool(ty, e.args[i])])
    [] e.op = "not" -> Not(TransBool(ty, e.args[1]))
    [] e.op = "neq" /\ e.val = "n" /\ TypeOf(ty, e.sym) = "tristate" -> Sym(e.sym)
    [] OTHER -> e

\* The symbol two operands are about when they can be joined, or "".
JoinSym(ty, e1, e2) ==
  LET Of(e, inner) == CASE e.op \in {"sym", "eq", "neq"} -> e.sym
                        [] e.op = "not" /\ e.args[1].op \in inner -> e.args[1].sym
                        [] OTHER -> ""
      s == Of(e1, {"sym", "eq", "neq"})
  IN IF s = Of(e2, {"sym"}) /\ TypeOf(ty, s) \in {"bool", "tristate"} THEN s ELSE ""

\* e1 || e2, both about s, as one operand, or NoExpr.
JoinOr(ty, s, e1, e2) ==
  CASE s = "" -> NoExpr
    [] /\ TypeOf(ty, s) = "tristate" /\ e1.op = "eq" /\ e2.op = "eq"
       /\ {e1.val, e2.val} \subseteq TriConst
         -> Cmp("neq", s, CHOOSE v \in TriConst : v \notin {e1.val, e2.val})
    [] TypeOf(ty, s) = "bool" /\ (e1 = Not(e2) \/ e2 = Not(e1)) -> Yes
    [] OTHER -> NoExpr

\* e1 && e2, both about s, as one operand, or NoExpr.
JoinAnd(ty, s, e1, e2) ==
  LET Are(a, b) == {e1, e2} = {a, b}
      tri == TypeOf(ty, s) = "tristate"
  IN CASE s = "" -> NoExpr
       [] Are(Sym(s), Cmp("eq", s, "y"))  -> Cmp("eq", s, "y")
       [] Are(Sym(s), Cmp("neq", s, "n")) -> Sym(s)
       [] Are(Sym(s), Cmp("neq", s, "m")) -> Cmp("eq", s, "y")
       [] tri /\ {e1.op, e2.op} = {"eq", "neq"} /\ {e1.val, e2.val} \subseteq TriConst
            -> IF e1.val = e2.val THEN No
               ELSE Cmp("eq", s, IF e1.op = "eq" THEN e1.val ELSE e2.val)
       [] tri /\ {e1.op, e2.op} = {"neq"} /\ {e1.val, e2.val} \subseteq TriConst
            -> Cmp("eq", s, CHOOSE v \in TriConst : v \notin {e1.val, e2.val})
       [] OTHER -> NoExpr

Join(ty, op, e1, e2) ==
  CASE ExprEq(e1, e2) -> e1
    [] op = "or"      -> JoinOr(ty, JoinSym(ty, e1, e2), e1, e2)
    [] OTHER          -> JoinAnd(ty, JoinSym(ty, e1, e2), e1, e2)

\* Joins each operand i with each other operand j; hits counts the joins.
RECURSIVE EliminateDups1(_, _, _, _, _, _)
Inside1(ty, e) == IF e.op \in Connectives THEN EliminateDups1(ty, e.op, e.args, 1, 1, 0)
                  ELSE [args |-> <<>>, hits |-> 0]
JoinAt(op, s, i, j, e) == IF e = NoExpr THEN [args |-> s, hits |-> 0]
                          ELSE [args |-> [s EXCEPT ![i] = Unit(op), ![j] = e], hits |-> 1]
EliminateDups1(ty, op, s, i, j, hits) ==
  CASE i > Len(s) -> [args |-> s, hits |-> hits]
    [] j > Len(s) -> EliminateDups1(ty, op, s, i + 1, 1, hits)
    [] i = j      -> EliminateDups1(ty, op, s, i, j + 1, hits)
    [] OTHER ->
         LET inner == Inside1(ty, s[i])
             e == IF s[i].op \in Connectives THEN [s[i] EXCEPT !.args = inner.args] ELSE s[i]
             Try(x) == JoinAt(op, [s EXCEPT ![i] = x], i, j, Join(ty, op, x, s[j]))
             Go(r) == EliminateDups1(ty, op, r.args, i, j + 1, hits + inner.hits + r.hits)
         IN Go(Try(e))

RECURSIVE Transform(_, _)
Transform(ty, e) ==
  LET bool == TypeOf(ty, e.sym) = "bool"
      arg == Transform(ty, e.args[1])
      Negated(op) == Transform(ty, Nary(op, [i \in DOMAIN arg.args |-> Not(arg.args[i])]))
  IN CASE e.op \in Connectives -> Nary(e.op, [i \in DOMAIN e.args |-> Transform(ty, e.args[i])])
       [] e.op = "eq" -> CASE bool /\ e.val = "n" -> Not(Sym(e.sym))
                           [] bool /\ e.val = "m" -> No
                           [] bool /\ e.val = "y" -> Sym(e.sym)
                           [] OTHER -> e
       [] e.op = "neq" -> CASE bool /\ e.val = "n" -> Sym(e.sym)
                            [] bool /\ e.val = "m" -> Yes
                            [] bool /\ e.val = "y" -> Not(Sym(e.sym))
                            [] OTHER -> e
       [] e.op = "not" -> CASE arg.op = "not" -> Transform(ty, arg.args[1])
                            [] arg.op = "eq"  -> [arg EXCEPT !.op = "neq"]
                            [] arg.op = "neq" -> [arg EXCEPT !.op = "eq"]
                            [] arg.op = "or"  -> Negated("and")
                            [] arg.op = "and" -> Negated("or")
                            [] arg = Yes -> No
                            [] arg = Mod -> Mod
                            [] arg = No  -> Yes
                            [] OTHER -> Not(arg)
       [] OTHER -> e

\* What e1 and e2 have in common is taken out of them; the first of the pair
\* is what the code looks at afterwards.
ExtractEq(op, e1, e2) ==
  LET RECURSIVE Take(_, _, _, _)
      Take(s1, s2, i, taken) ==
        IF i > Len(s1) THEN [e |-> Nary(op, s1), taken |-> taken]
        ELSE LET Go(same) == IF same = {} THEN Take(s1, s2, i + 1, taken)
                             ELSE Take([s1 EXCEPT ![i] = Unit(op)], [s2 EXCEPT ![Min(same)] = Unit(op)], i + 1, TRUE)
             IN Go({j \in DOMAIN s2 : ExprEq(s1[i], s2[j])})
      Clean(r) == IF r.taken THEN EliminateYn(r.e) ELSE r.e
  IN Clean(Take(Leaves(op, e1), Leaves(op, e2), 1, FALSE))

\* (FOO || BAR) && (!FOO && !BAR) -> n, and the dual.
RECURSIVE EliminateDups2(_, _, _, _, _)
Opposed(ty, op, s, i) == ExtractEq(op, Transform(ty, Not(s[i])), Nary(op, s)) = Unit(op)
Dropped(op, s, i, opposed) == IF opposed THEN [args |-> [s EXCEPT ![i] = Zero(op)], hits |-> 1]
                              ELSE [args |-> s, hits |-> 0]
Try2(ty, op, s, i) == Dropped(op, s, i, Opposed(ty, op, s, i))
EliminateDups2(ty, op, s, i, hits) ==
  CASE i > Len(s) -> [args |-> s, hits |-> hits]
    [] s[i].op \notin Connectives -> EliminateDups2(ty, op, s, i + 1, hits)
    [] OTHER ->
         LET inner == EliminateDups2(ty, s[i].op, s[i].args, 1, 0)
             Go(r) == EliminateDups2(ty, op, r.args, i + 1, hits + inner.hits + r.hits)
         IN Go(Try2(ty, op, [s EXCEPT ![i].args = inner.args], i))

RECURSIVE EliminateDups(_, _)
EliminateDups(ty, e) ==
  LET Once(one) == EliminateDups2(ty, e.op, one.args, 1, one.hits)
      Again(two) == IF two.hits = 0 THEN [e EXCEPT !.args = two.args]
                    ELSE EliminateDups(ty, EliminateYn([e EXCEPT !.args = two.args]))
  IN IF e.op \notin Connectives THEN e ELSE Again(Once(EliminateDups1(ty, e.op, e.args, 1, 1, 0)))

RECURSIVE ContainsSymbol(_, _)
ContainsSymbol(e, s) ==
  s \in {e.sym, e.val} \/ \E i \in DOMAIN e.args : ContainsSymbol(e.args[i], s)

\* e is n when s is.
RECURSIVE DependsSymbol(_, _)
DependsSymbol(e, s) ==
  CASE e.op = "and" -> \E i \in DOMAIN e.args : DependsSymbol(e.args[i], s)
    [] e.op = "sym" -> e.sym = s
    [] e.op = "eq"  -> e.sym = s /\ e.val \in {"y", "m"}
    [] e.op = "neq" -> e.sym = s /\ e.val = "n"
    [] OTHER -> FALSE

\* The expression that says e = v or e != v.
RECURSIVE TransCompare(_, _, _)
TransCompare(e, op, v) ==
  LET Wrap(x) == IF op = "neq" THEN Not(x) ELSE x
      parts == [i \in DOMAIN e.args |-> TransCompare(e.args[i], "eq", v)]
      other == IF e.op = "and" THEN "or" ELSE "and"
  IN CASE e.op = "none" -> Wrap(Sym(v))
       [] e.op \in Connectives -> CASE v = "y" -> Wrap(Nary(e.op, parts))
                                    [] v = "n" -> Wrap(Nary(other, parts))
                                    [] OTHER   -> Wrap(e)
       [] e.op = "not" -> TransCompare(e.args[1], IF op = "eq" THEN "neq" ELSE "eq", v)
       [] e.op \in {"eq", "neq"} -> CASE v = "y" -> Wrap(e)
                                      [] v = "m" -> IF op = "eq" THEN No ELSE Yes
                                      [] OTHER   -> IF op = "eq" THEN Not(e) ELSE e
       [] OTHER -> Cmp(op, e.sym, v)

\* Every m that stands alone in an expression also needs MODULES.
RECURSIVE CheckDep(_, _)
CheckDep(e, modules) ==
  CASE e.op \in Connectives -> Nary(e.op, [i \in DOMAIN e.args |-> CheckDep(e.args[i], modules)])
    [] e.op = "not" -> Not(CheckDep(e.args[1], modules))
    [] e = Mod -> AllocAnd(Mod, Sym(modules))
    [] OTHER -> e

-----------------------------------------------------------------------------
\* Values: n, m and y are 0, 1 and 2.  val gives the value of every symbol.
Tri(v) == CASE v = "y" -> 2 [] v = "m" -> 1 [] OTHER -> 0

RECURSIVE ExprValue(_, _)
ExprValue(val, e) ==
  LET Of(s) == IF s \in DOMAIN val THEN val[s] ELSE s
      parts == {ExprValue(val, e.args[i]) : i \in DOMAIN e.args}
  IN CASE e.op = "none" -> 2
       [] e.op = "sym" -> Tri(Of(e.sym))
       [] e.op = "and" -> Min(parts)
       [] e.op = "or"  -> Max(parts)
       [] e.op = "not" -> 2 - ExprValue(val, e.args[1])
       [] OTHER        -> IF (e.op = "eq") <=> (Of(e.sym) = Of(e.val)) THEN 2 ELSE 0
=============================================================================
