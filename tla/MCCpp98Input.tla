---------------------------- MODULE MCCpp98Input ----------------------------
(***************************************************************************)
(* The Input object and its federate instantiated for model checking.      *)
(***************************************************************************)
EXTENDS Cpp98Input

MCFederateName == <<"f">>

\* One key of three characters: longer than the array of getKey takes.
MCKeys == {<<"k", "e", "y">>}
MCUnits == {<<>>}
MCTypes == {<<"d">>}

\* The typed values, and the codecs of the typed calls of the wrapper: a
\* value is stored as the block of that one element.
MCValues == {1}
MCValueConverter ==
    [X \in {"integer", "boolean", "double", "complex"} |->
        [type |-> <<"d">>, convert |-> [v \in {helics_false, helics_true} |-> <<v>>]]]

\* Two blocks of different lengths; the longer ends with a '\0'.
MCBlocks == {<<1>>, <<1, Nul>>}

MCIndexRange == {}
MCNone == {}

=============================================================================
