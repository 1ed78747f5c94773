-------------------------- MODULE MCVariableCache --------------------------
(***************************************************************************)
(* An inner frame F, an outer one P and, in one of the two shapes, the     *)
(* global environment.  All three kinds of reference to x are made from F, *)
(* and a link gives P's x the cache of another variable.                   *)
(***************************************************************************)
EXTENDS VariableCache

MCParams == [F |-> {}, P |-> {"y"}]
RefTo(k) == [block |-> "F", env |-> "F", sym |-> "x", kind |-> k]
MCRefs == {RefTo(k) : k \in Kinds}

\* Every kind of reference, in a frame whose parent is the global environment
Direct == [chain |-> [F |-> <<"F", Global>>, P |-> <<"P", Global>>], refs |-> MCRefs, links |-> {},
           vars |-> {<<"F", "x">>, <<Global, "x">>}, inputs |-> Values \cup {Macro}]
\* A frame between, whose x may be linked to its parameter y
Linking == [chain |-> [F |-> <<"F", "P", Global>>, P |-> <<"P", Global>>], refs |-> {RefTo("lookup"), RefTo("operator")},
            links |-> {<<"P", "x", "P", "y">>}, vars |-> {<<"F", "x">>, <<"P", "x">>}, inputs |-> Values]
\* No global environment: an unbound variable has no cell
Outermost == [chain |-> [F |-> <<"F", "P">>, P |-> <<"P">>], refs |-> {RefTo("lookup"), RefTo("assignment")},
              links |-> {}, vars |-> {<<"F", "x">>, <<"P", "x">>}, inputs |-> Values \cup {Macro}]
MCPrograms == {Direct, Linking, Outermost}
MCSymmetry == Permutations(Values)

=============================================================================
