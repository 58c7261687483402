---- MODULE MCLoad ----
(* Instances of Load: three templates, two of them patterned.              *)
EXTENDS Load

Text(stem, fields) == [stem |-> stem, fields |-> fields]

A == Text("a", <<"x">>)
Bs == {Text("b", <<"x">>), Text("b", <<"x", "y">>)}
Cs == {Text("c", <<>>), Text("c", <<"x">>), Text("c", <<"y">>), Text("a", <<"y">>)}

(* The parents b may name: beside the other templates, next to a plain c,  *)
(* tasks of A by another of its own fields.                                *)
ParentsOfB(c) == {A, c} \cup (IF c.fields = <<>> THEN {Text("a", <<"y">>)} ELSE {})

(* A @list of x values and a @table of correlated rows.                    *)
TablesValue ==
  [list |-> [columns |-> <<"v">>, rows |-> {<<1>>}],
   table |-> [columns |-> <<"x", "y">>, rows |-> {<<1, 1>>, <<1, 2>>, <<2, 2>>}]]

List == [table |-> "list", column |-> None]
Table == [table |-> "table", column |-> None]
Column(c) == [table |-> "table", column |-> c]
Each(names, sources) == [names |-> names, sources |-> sources]
NoEach == Each(<<>>, {})

Recipe(each, ps, os, time) == [each |-> each, parents |-> ps, outputs |-> os, time |-> time]

EachB == {NoEach, Each(<<"x">>, {List, Column("x")}), Each(<<"x", "y">>, {Table})}
EachC == {NoEach, Each(<<"x">>, {List}), Each(<<"y">>, {Column("y")})}
FitsName(each, text) == Range(each.names) \subseteq Fields(text)

ThreeTemplates ==
  {(A :> Recipe(ea, pa, {Text("o", <<"x">>)}, None)
      @@ b :> Recipe(eb, pb, {Text("p", b.fields)}, None)
      @@ c :> Recipe(ec, pc, oc, None)) :
     <<b, c, ea, pa, eb, pb, ec, pc, oc>> \in
       {s \in Bs \X Cs
            \X {NoEach, Each(<<"x">>, {Column("x")})} \X (SUBSET Cs)
            \X EachB \X (UNION {SUBSET ParentsOfB(t) : t \in Cs})
            \X EachC \X (SUBSET (Bs \cup {A})) \X {{}, {Text("p", <<"x", "y">>)}} :
          /\ s[4] \subseteq {s[2]}
          /\ FitsName(s[5], s[1]) /\ s[6] \subseteq ParentsOfB(s[2])
          /\ FitsName(s[7], s[2]) /\ s[8] \subseteq {A, s[1]}}}

(* Wall times around the forms' limits.                                    *)
Literals ==
  {[form |-> f, d |-> d, h |-> h, m |-> m, s |-> s] :
     <<f, d, h, m, s>> \in {l \in Form \X {0, 1, 2} \X {0, 23, 24, 25} \X {0, 59, 60} \X {0, 1, 60} :
        /\ l[1] = "bare" => l[2] = 0 /\ l[3] = 0 /\ l[4] = 0
        /\ l[1] = "clock" => l[2] = 0}}

OneTemplate(time) ==
  A :> Recipe(Each(<<"x">>, {Column("x")}), {}, {Text("o", <<"x">>)}, time)

(* Bindings that do not fit: too many columns, a field the name lacks.     *)
Misfits ==
  {A :> Recipe(each, {}, {}, None) :
     each \in {Each(<<"x">>, {Table}), Each(<<"x", "y">>, {Table})}}

SourcesValue ==
  [templates : ThreeTemplates \cup Misfits, time : {None}]
    \cup {[templates |-> OneTemplate(l), time |-> None] : l \in Literals}
    \cup {[templates |-> OneTemplate(None), time |-> l] : l \in Literals}
    \cup {[templates |-> OneTemplate([form |-> "bare", d |-> 0, h |-> 0, m |-> 0, s |-> 60]),
           time |-> l] : l \in Literals}

(* The campaign is written to disk after an accepted load, and the command *)
(* ends after a refused one.                                               *)
Done == phase \in {"accepted", "refused"} /\ UNCHANGED vars
Spec == LoadInit /\ [][LoadStep \/ Done]_vars
====
