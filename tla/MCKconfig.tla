------------------------------ MODULE MCKconfig ------------------------------
(* An instance of the kconfig modules for TLC: families of Kconfig files that *)
(* are only read, and four that the configurators work on.                    *)
EXTENDS ConfigProperties

MCNumerals == <<"0", "1", "2", "3", "4">>
Mods == "<modules>"
MCSymbols == {Mods, "MODULES", "A", "B", "C", "D", "N", "S", "T", "choice"}

\* The lines of Kconfig files.
L(t, x) == Line(t, x, NoExpr, NoExpr)
LE(t, e) == Line(t, "", e, NoExpr)
Prompt == L("prompt", "")
PromptIf(e) == Line("prompt", "", NoExpr, e)
Ty(t) == L("type", t)
Dep(e) == LE("depends", e)
End(b) == L("end", b)
Default(e) == LE("default", e)
DefaultIf(e, d) == Line("default", "", e, d)
Select(s, d) == Line("select", s, NoExpr, d)
Bool(s) == <<L("config", s), Ty("bool"), Prompt>>
Tristate(s) == <<L("config", s), Ty("tristate"), Prompt>>
ModulesDecl == Bool("MODULES") \o <<L("modules", "")>>
And(a, b) == Two("and", a, b)
Or(a, b) == Two("or", a, b)

A == Sym("A")
B == Sym("B")
T == Sym("T")
One(lines) == "top" :> lines

\* Conditions of every kind, combined in a dependency, an "if" and a prompt.
Atoms == {A, B, T, Not(A), Cmp("neq", "B", "n"), Cmp("eq", "T", "m"), Cmp("neq", "T", "y"), Cmp("eq", "A", "B")}
Joined == {And(a, b) : a \in Atoms, b \in {B, Not(A), Cmp("eq", "T", "y")}}
            \cup {Or(a, b) : a \in Atoms, b \in {A, Not(T), Cmp("neq", "B", "n")}}
Conditions == Joined \cup {Not(e) : e \in Joined} \cup {And(Or(A, B), Not(And(A, T))), Or(And(A, B), Not(Or(A, B)))}
Expressions ==
  {One(Bool("A") \o Bool("B") \o Tristate("T")
       \o <<LE("if", outer)>> \o <<L("config", "C"), Ty(t), PromptIf(inner), Dep(e), Select("D", inner)>>
       \o <<End("if")>> \o Bool("D"))
     : outer \in {A, Not(B)}, inner \in {Or(A, T), And(B, Not(T))}, e \in Conditions, t \in {"bool", "tristate"}}

\* Blocks and files in every order.
Parts == {<<L("menu", "")>>, <<LE("if", A)>>, <<L("choice", "choice"), Prompt>>, <<End("menu")>>, <<End("if")>>,
          <<End("choice")>>, Bool("B"), <<SourceLine("sub", "sub")>>, <<GlobLine(<<"sub", "more">>)>>}
Subs == {<<L("menu", "")>>, Bool("C") \o <<SourceLine("more", "more")>>}
Nestings ==
  {("top" :> Bool("A") \o p1 \o p2 \o p3 \o p4) @@ ("sub" :> sub) @@ ("more" :> Bool("D") \o <<Dep(B)>>)
     : p1 \in {p \in Parts : p[1].t \notin {"end", "config"}}, p2 \in Parts, p3 \in Parts,
       p4 \in {<<>>, <<End("menu")>>}, sub \in Subs}

\* What is wrong in an option, or stands where it must not.
Wrong == {One(Bool("A") \o <<LE("visible", A)>>), One(<<L("comment", ""), Prompt>>), One(<<Prompt>>),
          One(<<L("choice", "choice"), Ty("int")>>), One(<<L("menu", ""), Dep(A), LE("visible", B)>>),
          One(<<GlobLine(<<>>)>> \o Bool("A")), One(<<SourceLine("sub", "sub")>>)}

\* A file is read again when its name is written with a variable.
Rereads == {("top" :> <<SourceLine(x, "sub")>> \o Bool("A") \o <<SourceLine(y, "sub")>>) @@ ("sub" :> Bool("B"))
            : x \in {"sub", "$dir/sub"}, y \in {"sub", "$dir/sub"}}

-----------------------------------------------------------------------------
\* Menus, a menuconfig and an entry that depends on the one before it.
Menus == One(
  <<L("menu", ""), LE("visible", Not(B))>> \o Bool("A")
  \o <<L("config", "C"), Ty("bool"), Prompt, Dep(A), Default(Yes), End("menu")>>
  \o <<L("menuconfig", "B"), Ty("bool"), Prompt, LE("if", B), L("comment", "")>>
  \o Bool("D") \o <<Select("A", NoExpr), End("if")>>)

\* A choice with a member that is not always there, and an optional one.
Alternatives == One(
  Bool("A") \o <<L("choice", "choice"), Prompt, Line("default", "C", NoExpr, A)>>
  \o Bool("B") \o Bool("C") \o <<Dep(A)>> \o Bool("D") \o <<End("choice")>>
  \o <<L("config", "S"), Ty("string"), Default(Sym("x")), PromptIf(Sym("D"))>>)

Modular == One(
  ModulesDecl \o Tristate("T") \o <<Default(Mod)>> \o Tristate("A") \o <<Dep(T), Select("B", T)>>
  \o Tristate("B") \o <<L("choice", "choice"), Ty("tristate"), Prompt, L("optional", "")>>
  \o Tristate("C") \o Tristate("D") \o <<End("choice")>>)

Numbers == One(
  Bool("A") \o <<L("config", "N"), Ty("int"), Prompt, Line("range", "", Cmp("eq", "1", "2"), A), LE("range", Cmp("eq", "1", "4")),
                 DefaultIf(Sym("3"), Not(A)), Default(Sym("2"))>>
  \o <<L("config", "B"), Ty("bool"), PromptIf(Cmp("eq", "N", "2")), Default(A)>>
  \o <<L("config", "S"), Ty("string"), Prompt, Dep(B), DefaultIf(Sym("x"), A)>>)

MCEdited == {Menus, Alternatives, Modular, Numbers}
MCNumbers == {Numbers}
MCPrograms == Expressions \cup Nestings \cup Wrong \cup Rereads \cup MCEdited

MCEmpty == <<>>
Files(config, alt, all, def) == (".config" :> config) @@ ("alt" :> alt) @@ ("all.config" :> all) @@ ("defconfig" :> def)
\* Nothing; and the configurations of an older version.
MCOldFiles ==
  {Files(NoFile, NoFile, NoFile, NoFile),
   Files(<<Entry("A", "y"), Entry("B", "n"), Entry("GONE", "y"), Entry("N", "4")>>,
         <<Entry("D", "y"), Entry("S", "2")>>, <<Entry("A", "n")>>, <<Entry("C", "y")>>)}
\* A configuration as Numbers saves it.
MCSaved == {Files(<<Entry("A", "n"), Entry("N", "3"), Entry("B", "n")>>, NoFile, NoFile, NoFile)}
=============================================================================
