--------------------------- MODULE ValueFederate ---------------------------
(***************************************************************************)
(* The value interface of a federate: class ValueFederate of               *)
(* src/helics/network/NetworkBrokerData.hpp (lines 189-776) on top of the  *)
(* ValueFederateManager it forwards to (section 4.6 of spec.md).           *)
(*                                                                         *)
(* The header holds the code of every template and inline wrapper: the     *)
(* names the indexed registrations build, the overloads of publish, the    *)
(* typed getValue and the free functions that work by key.  These are      *)
(* translated from the header.  The manager's own tables (what a           *)
(* registration, an update or a read does to them) are declared in the     *)
(* header and specified in spec.md, and are modelled from there.           *)
(*                                                                         *)
(* Names and data blocks are sequences of characters, because what the     *)
(* wrappers do is put names together and cut data at a terminator.         *)
(***************************************************************************)
EXTENDS Integers, Sequences, FiniteSets, SequencesExt

CONSTANTS
    FederateName,    \* the name of this federate, the prefix of its local keys
    Keys,            \* the keys and targets user code registers and looks up
    Indices,         \* the integers user code passes as index1 and index2
    IndexRange,      \* the integers the names of indexed elements are compared for
    InputTargets,    \* the names user code passes to addTarget of an input
    PublicationTargets, \* the names user code passes to addTarget of a publication
    ShortcutNames,   \* the names user code passes to addShortcut
    Callbacks,       \* the functions user code installs as callbacks
    NoCallback,      \* an empty std::function
    Types,           \* the type strings of the untyped registrations
    Units,           \* the unit strings; <<>> is the default std::string ()
    Codecs,          \* the X of the templates: the ValueConverter<X> that exist
    ValueConverter,  \* [X |-> [type, convert]]: the codec of every X
    Values,          \* the typed values user code publishes
    Published,       \* the raw data user code passes to publish
    Blocks,          \* the data blocks that arrive, and the defaults of inputs
    Nul,             \* the character '\0'
    Garbage,         \* what interpret gives for a block of another codec
    Sources,         \* ids of the federates that publish to this one
    InputOptions,    \* the option flags user code sets on inputs
    PublicationOptions, \* the option flags user code sets on publications
    MaxTime,         \* bound: the last time the federate is granted
    MaxPublications, \* bound: publications the federate registers
    MaxInputs,       \* bound: inputs the federate registers
    MaxIncoming      \* bound: value commands waiting to be drained

VARIABLES
    phase,           \* the federate's lifecycle phase
    publications,    \* the publication table, in registration order
    inputs,          \* the input table, in registration order
    shortcuts,       \* alias name -> input, filled by addShortcut
    incoming,        \* value commands that arrived and are not yet drained
    currentTime,     \* the time the federate was last granted
    genericCallback, \* the callback for all inputs, when one is installed
    notified,        \* <<input, callback>> invoked by the last updateTime
    outbound,        \* the <<publication, block>> last handed to the core
    returned         \* what the last getValue returned

fedVars == <<phase, publications, inputs, shortcuts, incoming, currentTime,
             genericCallback, notified, outbound, returned>>

-----------------------------------------------------------------------------
(* Constants of the interface. *)

\* The handle options of the MATLAB constant files.
ONLY_TRANSMIT_ON_CHANGE == 110
ONLY_UPDATE_ON_CHANGE == 111

Phases == {"STARTUP", "INITIALIZE", "EXECUTE", "DONE"}

\* A data_view of no bytes: what an input holds before any value or default.
EmptyBlock == <<>>
\* Time::minVal (): the update time of an input that has no update.
NeverUpdated == -1
\* A Publication or Input object that refers to no interface.
InvalidHandle == 0
PublicationHandles == 0 .. MaxPublications
InputHandles == 0 .. MaxInputs

-----------------------------------------------------------------------------
(* Names. *)

Digits == <<"0", "1", "2", "3", "4", "5", "6", "7", "8", "9">>

RECURSIVE unsigned_to_string(_)
unsigned_to_string(n) ==
    IF n < 10 THEN <<Digits[n + 1]>>
    ELSE Append(unsigned_to_string(n \div 10), Digits[(n % 10) + 1])

\* std::to_string (int): decimal digits, a minus sign before a negative.
to_string(n) ==
    IF n < 0 THEN <<"-">> \o unsigned_to_string(-n) ELSE unsigned_to_string(n)

\* key + '_' + std::to_string (index1)
IndexedName(key, index1) == key \o <<"_">> \o to_string(index1)

(* Mutant: the second separator is left out.                               *)
IndexedName2Joined(key, index1, index2) ==
    key \o <<"_">> \o to_string(index1) \o to_string(index2)

\* key + '_' + std::to_string (index1) + '_' + std::to_string (index2)
IndexedName2(key, index1, index2) ==
    key \o <<"_">> \o to_string(index1) \o <<"_">> \o to_string(index2)

\* The name of a key that is not global: prefixed with the federate's name.
LocalName(key) == FederateName \o <<".">> \o key

-----------------------------------------------------------------------------
(* The tables of the manager. *)

NewPublication(name, type, units) ==
    [key |-> name, type |-> type, units |-> units, targets |-> {},
     options |-> {}, lastSent |-> EmptyBlock]

NewInput(name, type, units, targets) ==
    [key |-> name, type |-> type, units |-> units, targets |-> targets,
     default |-> EmptyBlock, last_value |-> EmptyBlock,
     last_update_time |-> NeverUpdated, updated_flag |-> FALSE,
     options |-> {}, callback |-> NoCallback]

RegisteredKeys(table) == {table[i].key : i \in DOMAIN table}

\* The index of the interface of a table that has this key, 0 when none has.
FindKey(table, name) ==
    IF name \in RegisteredKeys(table)
    THEN CHOOSE i \in DOMAIN table : table[i].key = name
    ELSE InvalidHandle

\* The lifecycle gate and the uniqueness of keys, in the order they are tested.
RegistrationStatus(table, name) ==
    IF phase # "STARTUP" THEN "INVALID_STATE"
    ELSE IF name \in RegisteredKeys(table) THEN "DUPLICATE_KEY"
    ELSE "ok"

Valid(table, handle) == handle \in DOMAIN table

-----------------------------------------------------------------------------
(* Registration.  A call that does not end with the status "ok" raises    *)
(* its error and leaves the tables as they were.                           *)

Init ==
    /\ phase = "STARTUP"
    /\ publications = <<>>
    /\ inputs = <<>>
    /\ shortcuts = <<>>
    /\ incoming = {}
    /\ currentTime = 0
    /\ genericCallback = NoCallback
    /\ notified = {}
    /\ outbound = <<>>
    /\ returned = EmptyBlock

\* The manager adds a publication under its full name.
AddPublication(name, type, units) ==
    /\ RegistrationStatus(publications, name) = "ok"
    /\ Len(publications) < MaxPublications
    /\ publications' = Append(publications, NewPublication(name, type, units))
    /\ UNCHANGED <<phase, inputs, shortcuts, incoming, currentTime,
                   genericCallback, notified, outbound, returned>>

\* The manager adds an input under its full name.
AddInput(name, type, units, targets) ==
    /\ RegistrationStatus(inputs, name) = "ok"
    /\ Len(inputs) < MaxInputs
    /\ inputs' = Append(inputs, NewInput(name, type, units, targets))
    /\ UNCHANGED <<phase, publications, shortcuts, incoming, currentTime,
                   genericCallback, notified, outbound, returned>>

registerPublication(key, type, units) ==
    AddPublication(LocalName(key), type, units)

registerGlobalPublication(key, type, units) ==
    AddPublication(key, type, units)

(* Mutant: the type string and the units change places.                    *)
registerPublicationOfSwapped(X, key, units) ==
    registerPublication(key, units, ValueConverter[X].type)

\* template <typename X> registerPublication (key, units)
registerPublicationOf(X, key, units) ==
    registerPublication(key, ValueConverter[X].type, units)

\* template <typename X> registerGlobalPublication (key, units)
registerGlobalPublicationOf(X, key, units) ==
    registerGlobalPublication(key, ValueConverter[X].type, units)

registerPublicationIndexed(X, key, index1, units) ==
    registerGlobalPublicationOf(X, IndexedName(key, index1), units)

registerPublicationIndexed2(X, key, index1, index2, units) ==
    registerGlobalPublicationOf(X, IndexedName2(key, index1, index2), units)

registerInput(key, type, units) ==
    AddInput(LocalName(key), type, units, {})

registerGlobalInput(key, type, units) ==
    AddInput(key, type, units, {})

\* template <typename X> registerInput (key, units)
registerInputOf(X, key, units) ==
    registerInput(key, ValueConverter[X].type, units)

\* template <typename X> registerGlobalInput (key, units)
registerGlobalInputOf(X, key, units) ==
    registerGlobalInput(key, ValueConverter[X].type, units)

registerInputIndexed(X, key, index1, units) ==
    registerGlobalInputOf(X, IndexedName(key, index1), units)

registerInputIndexed2(X, key, index1, index2, units) ==
    registerGlobalInputOf(X, IndexedName2(key, index1, index2), units)

\* A subscription is an input that has no type of its own, is keyed by its
\* target and listens to it.
registerSubscription(target, units) ==
    AddInput(target, <<>>, units, {target})

registerSubscriptionIndexed(target, index1, units) ==
    registerSubscription(IndexedName(target, index1), units)

registerSubscriptionIndexed2(target, index1, index2, units) ==
    registerSubscription(IndexedName2(target, index1, index2), units)

-----------------------------------------------------------------------------
(* Looking interfaces up.  A name is tried as a local key, then as a       *)
(* global key, then (for inputs) as a shortcut.                            *)

FirstValid(handles) ==
    IF \E i \in DOMAIN handles : handles[i] # InvalidHandle
    THEN handles[Min({i \in DOMAIN handles : handles[i] # InvalidHandle})]
    ELSE InvalidHandle

getInput(name) ==
    FirstValid(<<FindKey(inputs, LocalName(name)),
                 FindKey(inputs, name),
                 IF name \in DOMAIN shortcuts THEN shortcuts[name] ELSE InvalidHandle>>)

getInputIndexed(name, index1) == getInput(IndexedName(name, index1))

getInputIndexed2(name, index1, index2) == getInput(IndexedName2(name, index1, index2))

\* The input that listens to this target.
getSubscription(key) ==
    IF \E i \in DOMAIN inputs : key \in inputs[i].targets
    THEN Min({i \in DOMAIN inputs : key \in inputs[i].targets})
    ELSE InvalidHandle

getPublication(key) ==
    FirstValid(<<FindKey(publications, LocalName(key)), FindKey(publications, key)>>)

getPublicationIndexed(key, index1) == getPublication(IndexedName(key, index1))

getPublicationIndexed2(key, index1, index2) ==
    getPublication(IndexedName2(key, index1, index2))

\* The getters of one interface: the field, or nothing for an invalid handle.
Field(table, handle, field) ==
    IF Valid(table, handle) THEN table[handle][field] ELSE <<>>

getInputKey(inp) == Field(inputs, inp, "key")
getInputUnits(inp) == Field(inputs, inp, "units")
getInputType(inp) == Field(inputs, inp, "type")
getPublicationKey(pub) == Field(publications, pub, "key")
getPublicationUnits(pub) == Field(publications, pub, "units")
getPublicationType(pub) == Field(publications, pub, "type")
getTarget(inp) ==
    IF Valid(inputs, inp) /\ inputs[inp].targets # {}
    THEN CHOOSE target \in inputs[inp].targets : TRUE
    ELSE <<>>

getInputOption(inp, option) == Valid(inputs, inp) /\ option \in inputs[inp].options
getPublicationOption(pub, option) ==
    Valid(publications, pub) /\ option \in publications[pub].options

getPublicationCount == Len(publications)
getInputCount == Len(inputs)

isUpdated(inp) == Valid(inputs, inp) /\ inputs[inp].updated_flag

getLastUpdateTime(inp) ==
    IF Valid(inputs, inp) THEN inputs[inp].last_update_time ELSE NeverUpdated

queryUpdates == {inp \in DOMAIN inputs : inputs[inp].updated_flag}

-----------------------------------------------------------------------------
(* Settings of one interface.  A call with a handle that refers to no      *)
(* interface raises invalid_argument and changes nothing; interfaces live  *)
(* until disconnect (section 3 of spec.md), so that after it every handle  *)
(* refers to none.                                                         *)

InputCall(inp, changed) ==
    /\ phase # "DONE"
    /\ Valid(inputs, inp)
    /\ inputs' = [inputs EXCEPT ![inp] = changed]
    /\ UNCHANGED <<phase, publications, shortcuts, incoming, currentTime,
                   genericCallback, notified, outbound, returned>>

PublicationCall(pub, changed) ==
    /\ phase # "DONE"
    /\ Valid(publications, pub)
    /\ publications' = [publications EXCEPT ![pub] = changed]
    /\ UNCHANGED <<phase, inputs, shortcuts, incoming, currentTime,
                   genericCallback, notified, outbound, returned>>

\* The table's entry, or any record for a handle the call will reject.
Entry(table, handle) == IF Valid(table, handle) THEN table[handle] ELSE [options |-> {}]

WithOption(options, option, option_value) ==
    IF option_value THEN options \cup {option} ELSE options \ {option}

\* The default is what the input holds until a value arrives; it does not
\* count as an update.
setDefaultValue(inp, block) ==
    LET input == Entry(inputs, inp)
    IN InputCall(inp, [input EXCEPT
           !.default = block,
           !.last_value = IF input.last_value = EmptyBlock THEN block ELSE @])

setInputOption(inp, option, option_value) ==
    LET input == Entry(inputs, inp)
    IN InputCall(inp, [input EXCEPT !.options = WithOption(@, option, option_value)])

setPublicationOption(pub, option, option_value) ==
    LET publication == Entry(publications, pub)
    IN PublicationCall(pub, [publication EXCEPT
           !.options = WithOption(@, option, option_value)])

addTargetToInput(inp, target) ==
    LET input == Entry(inputs, inp)
    IN InputCall(inp, [input EXCEPT !.targets = @ \cup {target}])

addTargetToPublication(pub, target) ==
    LET publication == Entry(publications, pub)
    IN PublicationCall(pub, [publication EXCEPT !.targets = @ \cup {target}])

\* setInputNotificationCallback (inp, callback)
setInputNotificationCallbackFor(inp, callback) ==
    LET input == Entry(inputs, inp)
    IN InputCall(inp, [input EXCEPT !.callback = callback])

\* setInputNotificationCallback (callback): the callback of every input that
\* has none of its own.
setInputNotificationCallback(callback) ==
    /\ phase # "DONE"
    /\ genericCallback' = callback
    /\ UNCHANGED <<phase, publications, inputs, shortcuts, incoming,
                   currentTime, notified, outbound, returned>>

\* The name becomes an alias of the input, whatever the handle refers to.
\* Whether a name that is an alias already keeps its input or takes the new
\* one is not stated: both are possible.
addShortcut(inp, shortcutName) ==
    /\ phase # "DONE"
    /\ \/ shortcuts' = shortcuts @@ (shortcutName :> inp)
       \/ shortcuts' = (shortcutName :> inp) @@ shortcuts
    /\ UNCHANGED <<phase, publications, inputs, incoming, currentTime,
                   genericCallback, notified, outbound, returned>>

-----------------------------------------------------------------------------
(* Publishing. *)

\* publish (pub, data_view): the block goes out unless the publication only
\* transmits on change and the block is the one it sent last.
publish(pub, block) ==
    LET publication == Entry(publications, pub)
        suppressed == /\ ONLY_TRANSMIT_ON_CHANGE \in publication.options
                      /\ block = publication.lastSent
    IN /\ phase # "DONE"
       /\ Valid(publications, pub)
       /\ ~suppressed
       /\ publications' = [publications EXCEPT ![pub].lastSent = block]
       /\ outbound' = <<pub, block>>
       /\ UNCHANGED <<phase, inputs, shortcuts, incoming, currentTime,
                      genericCallback, notified, returned>>

\* strlen: the characters before the first '\0'.
UpToNul(data) ==
    IF Nul \in ToSet(data)
    THEN SubSeq(data, 1, SelectInSeq(data, LAMBDA c : c = Nul) - 1)
    ELSE data

\* publish (pub, const data_block &block): a view of the whole block.
publishBlock(pub, block) == publish(pub, SubSeq(block, 1, Len(block)))

\* publish (pub, const char *data)
publishString(pub, data) == publish(pub, UpToNul(data))

\* publish (pub, const char *data, size_t data_size)
publishBytes(pub, data, data_size) == publish(pub, SubSeq(data, 1, data_size))

\* template <typename X> publish (pub, const X &value)
publishValue(X, pub, value) == publish(pub, ValueConverter[X].convert[value])

\* The free function publish (fed, pubKey, ...): by the key of the publication.
publishByKey(pubKey, block) == publish(getPublication(pubKey), block)

-----------------------------------------------------------------------------
(* Receiving. *)

\* A value command reaches the federate.  Time coordination grants a time
\* only when every value up to it has arrived, so a command is for later.
Deliver(inp, time, source, block) ==
    /\ phase # "DONE"
    /\ Valid(inputs, inp)
    /\ time > currentTime
    /\ Cardinality(incoming) < MaxIncoming
    /\ ~\E c \in incoming : c.input = inp /\ c.time = time /\ c.source = source
    /\ incoming' = incoming \cup
           {[input |-> inp, time |-> time, source |-> source, block |-> block]}
    /\ UNCHANGED <<phase, publications, inputs, shortcuts, currentTime,
                   genericCallback, notified, outbound, returned>>

\* The order commands are applied in: by time, then by the id of the source.
Before(c, d) == c.time < d.time \/ (c.time = d.time /\ c.source < d.source)

\* One value command applied to the input table.
Receive(table, c) ==
    LET input == table[c.input]
        same == ONLY_UPDATE_ON_CHANGE \in input.options /\ c.block = input.last_value
    IN [table EXCEPT ![c.input] =
           [input EXCEPT !.last_value = c.block,
                         !.last_update_time = c.time,
                         !.updated_flag = @ \/ ~same]]

\* The callback an update of this input invokes: its own, else the generic.
Notifies(inp) ==
    IF inputs[inp].callback # NoCallback THEN inputs[inp].callback ELSE genericCallback

\* The commands updateTime drains.
Due(newTime, oldTime) == {c \in incoming : oldTime < c.time /\ c.time <= newTime}

\* The hook the step loop calls when the federate is granted newTime.
updateTime(newTime, oldTime) ==
    LET due == Due(newTime, oldTime)
    IN /\ phase = "EXECUTE"
       /\ newTime > oldTime
       /\ currentTime' = newTime
       /\ inputs' = FoldLeft(Receive, inputs, SetToSortSeq(due, Before))
       /\ incoming' = incoming \ due
       /\ notified' = {<<c.input, Notifies(c.input)>> : c \in due} \ (InputHandles \X {NoCallback})
       /\ UNCHANGED <<phase, publications, shortcuts, genericCallback,
                      outbound, returned>>

\* ValueConverter<X>::interpret: the value a block of this codec stands for.
interpret(X, block) ==
    IF \E v \in Values : ValueConverter[X].convert[v] = block
    THEN CHOOSE v \in Values : ValueConverter[X].convert[v] = block
    ELSE Garbage

\* A read of an input: gives its value, through view, and clears its flag.
Read(inp, view(_)) ==
    /\ phase # "DONE"
    /\ Valid(inputs, inp)
    /\ returned' = view(inputs[inp].last_value)
    /\ inputs' = [inputs EXCEPT ![inp].updated_flag = FALSE]
    /\ UNCHANGED <<phase, publications, shortcuts, incoming, currentTime,
                   genericCallback, notified, outbound>>

getValueRaw(inp) == Read(inp, LAMBDA block : block)

\* template <typename X> getValue (inp)
getValue(X, inp) == Read(inp, LAMBDA block : interpret(X, block))

\* The free function getValue<X> (fed, Key): by the name of the input.
getValueByKey(X, Key) == getValue(X, getInput(Key))

-----------------------------------------------------------------------------
(* The lifecycle. *)

startupToInitializeStateTransition ==
    /\ phase = "STARTUP"
    /\ phase' = "INITIALIZE"
    /\ UNCHANGED <<publications, inputs, shortcuts, incoming, currentTime,
                   genericCallback, notified, outbound, returned>>

\* An input that has only its default is not updated when execution starts.
initializeToExecuteStateTransition ==
    /\ phase = "INITIALIZE"
    /\ phase' = "EXECUTE"
    /\ inputs' = [i \in DOMAIN inputs |->
                     IF inputs[i].last_update_time = NeverUpdated
                     THEN [inputs[i] EXCEPT !.updated_flag = FALSE]
                     ELSE inputs[i]]
    /\ UNCHANGED <<publications, shortcuts, incoming, currentTime,
                   genericCallback, notified, outbound, returned>>

disconnect ==
    /\ phase # "DONE"
    /\ phase' = "DONE"
    /\ UNCHANGED <<publications, inputs, shortcuts, incoming, currentTime,
                   genericCallback, notified, outbound, returned>>

-----------------------------------------------------------------------------
(* The specification. *)

Register ==
    \E key \in Keys, units \in Units :
        \/ \E type \in Types :
               \/ registerPublication(key, type, units)
               \/ registerGlobalPublication(key, type, units)
               \/ registerInput(key, type, units)
               \/ registerGlobalInput(key, type, units)
        \/ \E X \in Codecs :
               \/ registerPublicationOf(X, key, units)
               \/ registerGlobalPublicationOf(X, key, units)
               \/ registerInputOf(X, key, units)
               \/ registerGlobalInputOf(X, key, units)
               \/ \E index1 \in Indices :
                      \/ registerPublicationIndexed(X, key, index1, units)
                      \/ registerInputIndexed(X, key, index1, units)
                      \/ \E index2 \in Indices :
                             \/ registerPublicationIndexed2(X, key, index1, index2, units)
                             \/ registerInputIndexed2(X, key, index1, index2, units)
        \/ registerSubscription(key, units)
        \/ \E index1 \in Indices :
               \/ registerSubscriptionIndexed(key, index1, units)
               \/ \E index2 \in Indices :
                      registerSubscriptionIndexed2(key, index1, index2, units)

Configure ==
    \/ \E inp \in InputHandles :
           \/ \E block \in Blocks : setDefaultValue(inp, block)
           \/ \E option \in InputOptions, option_value \in BOOLEAN :
                  setInputOption(inp, option, option_value)
           \/ \E target \in InputTargets : addTargetToInput(inp, target)
           \/ \E shortcutName \in ShortcutNames : addShortcut(inp, shortcutName)
           \/ \E callback \in Callbacks : setInputNotificationCallbackFor(inp, callback)
    \/ \E pub \in PublicationHandles :
           \/ \E option \in PublicationOptions, option_value \in BOOLEAN :
                  setPublicationOption(pub, option, option_value)
           \/ \E target \in PublicationTargets : addTargetToPublication(pub, target)
    \/ \E callback \in Callbacks : setInputNotificationCallback(callback)

Publish ==
    \/ \E pub \in PublicationHandles, block \in Published :
           \/ publish(pub, block)
           \/ publishBlock(pub, block)
           \/ publishString(pub, block)
           \/ \E data_size \in 0 .. Len(block) : publishBytes(pub, block, data_size)
    \/ \E pub \in PublicationHandles, X \in Codecs, value \in Values :
           publishValue(X, pub, value)
    \/ \E pubKey \in Keys, block \in Published : publishByKey(pubKey, block)

\* What reaches the tables from outside the user's calls: the arrival of a
\* value command and the grant of a time.
Dispatch ==
    \/ \E inp \in DOMAIN inputs, time \in 1 .. MaxTime,
          source \in Sources, block \in Blocks : Deliver(inp, time, source, block)
    \/ \E newTime \in 1 .. MaxTime : updateTime(newTime, currentTime)

Fetch ==
    \/ \E Key \in Keys, X \in Codecs : getValueByKey(X, Key)
    \/ \E inp \in InputHandles :
           \/ getValueRaw(inp)
           \/ \E X \in Codecs : getValue(X, inp)

Lifecycle ==
    \/ startupToInitializeStateTransition
    \/ initializeToExecuteStateTransition
    \/ disconnect

\* The calls of user code.
User == Register \/ Configure \/ Publish \/ Fetch \/ Lifecycle

Next == User \/ Dispatch

Spec == Init /\ [][Next]_fedVars

\* The federate while nothing reaches it from outside: the calls of user
\* code alone.
CallsSpec == Init /\ [][User]_fedVars

-----------------------------------------------------------------------------
(* Properties. *)

\* Every name a registration can give an interface.
Names ==
    LET indexed == Keys
                   \cup {IndexedName(k, i) : k \in Keys, i \in Indices}
                   \cup {IndexedName2(k[1], k[2], k[3]) : k \in Keys \X Indices \X Indices}
    IN indexed \cup {LocalName(k) : k \in Keys}

\* Every block a publish can send: a block, the part of one that an overload
\* cuts out, or a converted value.
Sendable ==
    UNION {Prefixes(b) : b \in Published}
    \cup {ValueConverter[X].convert[v] : X \in Codecs, v \in Values}

\* The type invariant.
TypeOK ==
    /\ phase \in Phases
    /\ Len(publications) <= MaxPublications
    /\ \A p \in DOMAIN publications :
           /\ publications[p].key \in Names
           /\ publications[p].type \in Types
           /\ publications[p].units \in Units
           /\ publications[p].targets \subseteq PublicationTargets
           /\ publications[p].options \subseteq PublicationOptions
           /\ publications[p].lastSent \in Sendable \cup {EmptyBlock}
    /\ Len(inputs) <= MaxInputs
    /\ \A i \in DOMAIN inputs :
           /\ inputs[i].key \in Names
           /\ inputs[i].type \in Types \cup {<<>>}
           /\ inputs[i].units \in Units
           /\ inputs[i].targets \subseteq Names \cup InputTargets
           /\ inputs[i].options \subseteq InputOptions
           /\ {inputs[i].default, inputs[i].last_value} \subseteq Blocks \cup {EmptyBlock}
           /\ inputs[i].last_update_time \in {NeverUpdated} \cup 1 .. MaxTime
           /\ inputs[i].updated_flag \in BOOLEAN
           /\ inputs[i].callback \in Callbacks \cup {NoCallback}
    /\ DOMAIN shortcuts \subseteq ShortcutNames
    /\ \A name \in DOMAIN shortcuts : shortcuts[name] \in InputHandles
    /\ incoming \subseteq [input : DOMAIN inputs, time : 1 .. MaxTime,
                           source : Sources, block : Blocks]
    /\ Cardinality(incoming) <= MaxIncoming
    /\ currentTime \in 0 .. MaxTime
    /\ genericCallback \in Callbacks \cup {NoCallback}
    /\ notified \subseteq (DOMAIN inputs) \X Callbacks
    /\ outbound \in {<<>>} \cup ((DOMAIN publications) \X Sendable)

\* The elements of the structure of a key: <<index1>> and <<index1, index2>>.
Elements == {<<i>> : i \in IndexRange} \cup (IndexRange \X IndexRange)

ElementName(key, e) ==
    IF Len(e) = 1 THEN IndexedName(key, e[1]) ELSE IndexedName2(key, e[1], e[2])

\* The names that two elements of the structure of one key share.
AmbiguousNames ==
    {ElementName(c[1], c[2]) :
        c \in {d \in Keys \X Elements :
                  \E e \in Elements \ {d[2]} : ElementName(d[1], e) = ElementName(d[1], d[2])}}

(***************************************************************************)
(* IndexedNamesDistinct: a name that registerPublicationIndexed,           *)
(* registerInputIndexed or registerSubscriptionIndexed has registered is   *)
(* the name of one element of the structure of a key only: no other index  *)
(* and no other pair of indices of that key, negative or of several        *)
(* digits, is put together to the same characters, so that getInput (key,  *)
(* index1) cannot return an element of another place.                      *)
(***************************************************************************)
IndexedNamesDistinct ==
    (RegisteredKeys(publications) \cup RegisteredKeys(inputs)) \cap AmbiguousNames = {}

=============================================================================
