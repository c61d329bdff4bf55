-------------------------- MODULE MCValueFederate --------------------------
(***************************************************************************)
(* The value interface instantiated for model checking.                    *)
(***************************************************************************)
EXTENDS ValueFederate

\* The federate is called f: a local key a has the name f.a.
MCFederateName == <<"f">>

\* Two keys, one of which ends like the name of an indexed element.
MCKeys == {<<"a">>, <<"a", "_", "1">>}

\* Indices with a sign, with one digit and with two, so that the digits of
\* one index could be taken for the digits of the next.
MCIndexRange == {-1, 1, 2, 11, 12}

\* One type string, one unit string (the default) and two codecs.
MCTypes == {<<"d">>, <<"s">>}
MCUnits == {<<>>}
MCCodecs == {"double", "string"}

\* The string codec stores the characters; the double codec stores them
\* behind a tag, so that no block belongs to both.
MCValues == {<<"x">>}
MCValueConverter ==
    [X \in MCCodecs |->
        IF X = "string"
        THEN [type |-> <<"s">>, convert |-> [v \in MCValues |-> v]]
        ELSE [type |-> <<"d">>, convert |-> [v \in MCValues |-> <<"#">> \o v]]]

\* No data: the run is about names.
MCNoBlocks == {}
MCNoSources == {}
MCNoOptions == {}
MCNoTargets == {}
MCNoCallbacks == {}
MCTransmit == {ONLY_TRANSMIT_ON_CHANGE}
MCStringType == {<<"s">>}
MCStringCodec == {"string"}

\* What is published: a string with a '\0' in it.
MCPublished == {<<"x", Nul>>}

\* A shortcut with the name of a key: a lookup has to choose between them.
MCShortcutNames == {<<"a">>}

=============================================================================
