---------------------------- MODULE MCTypeRegistry ----------------------------
(* Mapping files on small instances.                                       *)
EXTENDS TypeRegistry

CONSTANTS f1, f2, f3

Plain(f) == [file |-> f, spelling |-> "plain"]
Rooted(f) == [file |-> f, spelling |-> "absolute"]
Varied(f) == [file |-> f, spelling |-> "variable"]

(* Sequences of at most two includes.                                      *)
UpTo2(S) == {<<>>} \cup {<<a>> : a \in S} \cup {<<a, b>> : a, b \in S}
Chosen(S) == [f \in Files |-> IF f = f1 THEN S[1] ELSE IF f = f2 THEN S[2] ELSE S[3]]
With(root, files) == [f \in Files \cup {Root} |-> IF f = Root THEN root ELSE files[f]]

NoRules == [f \in Files |-> NoBinding]
NoFiles == [f \in Files |-> {}]
Make(includes, id, depends, unreadable, defines, binds) ==
  [includes |-> includes, id |-> id, depends |-> depends, unreadable |-> unreadable,
   defines |-> defines, binds |-> binds]

(* The root includes one or two files; a file includes any two, itself     *)
(* also.                                                                   *)
Roots == {<<Plain(f1)>>, <<Plain(f1), Plain(f2)>>}
Shapes == {With(r, [f \in Files |-> IF f = f3 THEN <<>> ELSE s[f]]) :
             r \in Roots, s \in [{f1, f2} -> UpTo2({Plain(f) : f \in Files})]}
Trees == {With(r, Chosen(s)) : r \in Roots,
            s \in {<<<<Plain(f2)>>, <<Plain(f3)>>, <<>>>>,
                   <<<<Plain(f2), Plain(f3)>>, <<>>, <<>>>>,
                   <<<<Plain(f3), Plain(f2)>>, <<>>, <<>>>>,
                   <<<<Plain(f3)>>, <<Plain(f3)>>, <<>>>>}}

OwnIds == Chosen(<<"i1", "i2", "i3">>)

(* Every shape of the includes, with failures, identifiers and dependencies;*)
(* a few shapes with every choice of definitions and bindings.             *)
Loads == {Make(s, id, d, u, NoFiles, NoRules) :
            s \in Shapes,
            id \in {OwnIds, Chosen(<<"i1", "i2", NoId>>), Chosen(<<"i1", NoId, "i1">>),
                   Chosen(<<"i1", "i2", RootId>>)},
            d \in {NoFiles, Chosen(<<{"i3"}, {"i1"}, {}>>)},
            u \in {{}, {f2}, {f3}}}
RulesOf == {Make(s, Chosen(<<"i1", "i2", NoId>>), NoFiles, {}, d, b) :
              s \in Trees,
              d \in {Chosen(<<{"A"}, {}, {}>>), Chosen(<<{}, {}, {"A"}>>), NoFiles},
              b \in [Files -> Rule \cup {NoBinding}]}

(* A file includes another through a variable, or that one a third.        *)
Spelled == {Make(With(<<Plain(f1)>>, Chosen(s)), OwnIds, NoFiles, {}, NoFiles, NoRules) :
              s \in {<<<<Rooted(f2)>>, <<Varied(f3)>>, <<>>>>,
                     <<<<Varied(f2)>>, <<Rooted(f3)>>, <<>>>>,
                     <<<<Rooted(f2)>>, <<Rooted(f3)>>, <<>>>>}}
MCProjects == Loads \cup RulesOf \cup Spelled
=============================================================================
