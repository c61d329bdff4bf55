----------------------------- MODULE Cpp98Input -----------------------------
(***************************************************************************)
(* helicscpp::Input of src/helics/cpp98/Input.hpp: the C++98 object that   *)
(* wraps one helics_input of the C library, together with the federate     *)
(* the input belongs to (module ValueFederate).                            *)
(*                                                                         *)
(* The wrappers are translated from the header.  The C functions they      *)
(* call are not among the sources; they are modelled as reads and writes   *)
(* of the federate's input table.  Two things about them the header does   *)
(* not settle are left open, and the model takes every answer: whether    *)
(* the length of a string counts its terminating '\0', and whether the     *)
(* length of a vector counts doubles or bytes (the variable abi, chosen    *)
(* once).  A call with a NULL error argument for a handle of no input      *)
(* writes nothing and returns the length 0.                                *)
(*                                                                         *)
(* A wrapper that asks for a size and then for the data makes two C        *)
(* calls.  The tables belong to the dispatcher (section 5 of spec.md), so  *)
(* a value may arrive and a time may be granted between the two.           *)
(***************************************************************************)
EXTENDS ValueFederate

CONSTANTS
    BufferLength,    \* the length of the arrays `char str[255]`
    SizeofDouble,    \* sizeof (double)
    MaxLen,          \* bound: the maxlen user code passes to getVector
    Thrown,          \* a call that ended with the exception of hThrowOnError
    LengthError,     \* a resize to a length below 0: std::length_error
    Indeterminate    \* what a read of memory that was never written gives

VARIABLES
    inp,             \* the helics_input the object holds
    abi,             \* the conventions of the C library, see Conventions
    call             \* the wrapper between its two C calls: [op, size], or <<>>

inputVars == <<inp, abi, call>>
vars == <<fedVars, inputVars>>

\* What the header leaves open about the lengths of the C library:
\* terminator, whether the length of a string counts its '\0'; bytes,
\* whether the length of a vector counts bytes or doubles.
Conventions == [terminator : BOOLEAN, bytes : BOOLEAN]

NoCall == <<>>

helics_true == 1
helics_false == 0

-----------------------------------------------------------------------------
(* The C library, as far as the wrappers use it. *)

\* The data the input holds, and nothing for a handle of no input.
Held == IF Valid(inputs, inp) THEN inputs[inp].last_value ELSE EmptyBlock

Terminator == IF abi.terminator THEN 1 ELSE 0
\* The length that stands for one double.
Unit == IF abi.bytes THEN SizeofDouble ELSE 1

helicsInputGetRawValueSize == Len(Held)
helicsInputGetVectorSize == Len(Held) * Unit
helicsInputGetStringSize == IF Valid(inputs, inp) THEN Len(Held) + Terminator ELSE 0

\* helicsInputGetRawValue: as much of the data as the buffer takes, and how
\* much that was.
helicsInputGetRawValue(maxlen) ==
    LET n == Min({Len(Held), maxlen})
    IN [written |-> SubSeq(Held, 1, n), length |-> n]

\* helicsInputGetVector: the same, in the unit of the lengths of vectors.
helicsInputGetVector(maxlen) ==
    LET n == Min({Len(Held), maxlen \div Unit})
    IN [written |-> SubSeq(Held, 1, n), length |-> n * Unit]

\* helicsInputGetString, helicsInputGetNamedPoint: the characters the buffer
\* takes before a '\0', the '\0', and the length of what was written.
helicsInputGetString(maxlen) ==
    LET n == Min({Len(Held), maxlen - 1})
    IN IF Valid(inputs, inp)
       THEN [written |-> Append(SubSeq(Held, 1, n), Nul), length |-> n + Terminator]
       ELSE [written |-> <<>>, length |-> 0]

\* helicsInputGetKey, helicsInputGetUnits, helicsInputGetType: the name cut
\* to the buffer and terminated; nothing is written for no input.
helicsInputGetName(field, maxlen) ==
    IF Valid(inputs, inp)
    THEN Append(SubSeq(inputs[inp][field], 1, Min({Len(inputs[inp][field]), maxlen - 1})), Nul)
    ELSE <<>>

\* helicsInputSetDefaultVector: the doubles the library takes from an array
\* that is given with this length; past the end of the array it reads
\* whatever is there.
helicsInputSetDefaultVector(data, len) ==
    LET n == len \div Unit
    IN [i \in 1 .. n |-> IF i <= Len(data) THEN data[i] ELSE Indeterminate]

\* A C call that reads the input: its value goes to the caller and the
\* input is no longer updated.  The error argument is NULL: a call for no
\* input fails silently.
CRead(value) ==
    /\ phase # "DONE"
    /\ returned' = value
    /\ inputs' = IF Valid(inputs, inp)
                 THEN [inputs EXCEPT ![inp].updated_flag = FALSE]
                 ELSE inputs
    /\ UNCHANGED <<phase, publications, shortcuts, incoming, currentTime,
                   genericCallback, notified, outbound>>

-----------------------------------------------------------------------------
(* The containers of the wrappers. *)

\* A std::string or std::vector of this length, value-initialised, with
\* what a C call wrote at its start.
Buffer(length, written) ==
    [i \in 1 .. length |-> IF i <= Len(written) THEN written[i] ELSE Nul]

\* The first n elements of a container that is at least as long.
Resized(buffer, n) == SubSeq(buffer, 1, n)

-----------------------------------------------------------------------------
(* The object. *)

\* Input () leaves inp as it is found: any handle, of an input or of none.
InputInit ==
    /\ Init
    /\ inp \in InputHandles
    /\ abi \in Conventions
    /\ call = NoCall

\* Input (hsub), Input (const Input &), operator=
Wrap(hsub) ==
    /\ call = NoCall
    /\ inp' = hsub
    /\ UNCHANGED <<fedVars, abi, call>>

\* A call of the wrapper that is one call of the library.
Single(library) ==
    /\ call = NoCall
    /\ library
    /\ UNCHANGED inputVars

\* setDefaultValue (const char *data, int len)
setDefaultRaw(data, len) == Single(setDefaultValue(inp, SubSeq(data, 1, len)))

\* setDefaultValue (const std::string &str): c_str () ends at the first '\0'.
setDefaultString(str) == Single(setDefaultValue(inp, UpToNul(str)))

\* setDefaultValue (int64_t), (double), (const std::complex<double> &)
setDefaultTyped(X, val) == Single(setDefaultValue(inp, ValueConverter[X].convert[val]))

\* setDefaultValue (bool val)
setDefaultBoolean(val) ==
    setDefaultTyped("boolean", IF val THEN helics_true ELSE helics_false)

(* Mutant: the length is given in doubles.                                 *)
VectorGivenCounted(data) == helicsInputSetDefaultVector(data, Len(data))

\* What the library takes from data.data () and data.size () * sizeof
\* (double): the length is given in bytes.
VectorGiven(data) == helicsInputSetDefaultVector(data, Len(data) * SizeofDouble)

\* setDefaultValue (const std::vector<double> &data)
setDefaultVector(data) == Single(setDefaultValue(inp, VectorGiven(data)))

\* The first C call of a wrapper that asks for a size and then for the data.
Begin(op, size) ==
    /\ call = NoCall
    /\ phase # "DONE"
    /\ call' = [op |-> op, size |-> size]
    /\ UNCHANGED <<fedVars, inp, abi>>

\* Its second C call, and what the wrapper returns: one of the outcomes.
End(op, outcomes) ==
    /\ call # NoCall
    /\ call.op = op
    /\ call' = NoCall
    /\ \E value \in outcomes : CRead(value)
    /\ UNCHANGED <<inp, abi>>

(* Mutant: the length of the vector is taken before the vector is resized. *)
getRawValueUnsized ==
    \/ Begin("getRawValue", helicsInputGetRawValueSize)
    \/ End("getRawValue", {[data |-> Buffer(call.size, helicsInputGetRawValue(0).written),
                            count |-> helicsInputGetRawValue(0).length]})

\* int getRawValue (std::vector<char> &data)
getRawValue ==
    \/ Begin("getRawValue", helicsInputGetRawValueSize)
    \/ LET got == helicsInputGetRawValue(call.size)
       IN End("getRawValue", {[data |-> Buffer(call.size, got.written), count |-> got.length]})

getRawValueSize == helicsInputGetRawValueSize

\* What getString makes of the buffer and of the length the library gave.
\* With a length of 0 the character before the buffer is tested.
Trimmed(buffer, size) ==
    IF size = 0 THEN {LengthError, Resized(buffer, 0)}
    ELSE IF buffer[size] = Nul THEN {Resized(buffer, size - 1)}
    ELSE {Resized(buffer, size)}

(* Mutant: the terminator is not looked for, as in getNamedPoint.          *)
getStringUntrimmed ==
    \/ Begin("getString", helicsInputGetStringSize)
    \/ LET got == helicsInputGetString(call.size + 1)
       IN End("getString", {Resized(Buffer(call.size + 1, got.written), got.length)})

\* std::string getString ()
getString ==
    \/ Begin("getString", helicsInputGetStringSize)
    \/ LET got == helicsInputGetString(call.size + 1)
       IN End("getString", Trimmed(Buffer(call.size + 1, got.written), got.length))

\* void getNamedPoint (std::string &name, double *val): the name.
getNamedPoint ==
    \/ Begin("getNamedPoint", helicsInputGetStringSize)
    \/ LET got == helicsInputGetString(call.size + 1)
       IN End("getNamedPoint", {Resized(Buffer(call.size + 1, got.written), got.length)})

\* getInteger, getDouble, getComplex
getTyped(X) == Single(CRead(interpret(X, Held)))

getInteger == getTyped("integer")
getDouble == getTyped("double")
getComplex == getTyped("complex")

\* bool getBoolean ()
getBoolean == Single(CRead(interpret("boolean", Held) = helics_true))

\* int getVector (double *data, int maxlen): the only call that passes
\* hThrowOnError.
getVector(maxlen) ==
    LET got == helicsInputGetVector(maxlen)
    IN Single(CRead(IF Valid(inputs, inp)
                    THEN [data |-> got.written, count |-> got.length]
                    ELSE Thrown))

(* Mutant: the size is turned into bytes, as setDefaultValue does.         *)
getVectorIntoBytes ==
    \/ Begin("getVector", helicsInputGetVectorSize * SizeofDouble)
    \/ End("getVector", {Buffer(call.size, helicsInputGetVector(call.size).written)})

\* void getVector (std::vector<double> &data): what the library returns is
\* not looked at.
getVectorInto ==
    \/ Begin("getVector", helicsInputGetVectorSize)
    \/ End("getVector", {Buffer(call.size, helicsInputGetVector(call.size).written)})

inputIsUpdated == isUpdated(inp)

inputLastUpdateTime == getLastUpdateTime(inp)

\* Mutant: the string is built from the array, not from the C string in it.
StringOfArray(str) == str

\* getKey, getUnits, getType: std::string (str) ends at the first '\0' of an
\* array that only the library has written to.
StringOf(str) == IF Nul \in ToSet(str) THEN UpToNul(str) ELSE Indeterminate

getKey == StringOf(helicsInputGetName("key", BufferLength))
getUnits == StringOf(helicsInputGetName("units", BufferLength))
getType == StringOf(helicsInputGetName("type", BufferLength))

-----------------------------------------------------------------------------
(* The specification: the program that owns the federate and the object,  *)
(* and the dispatcher.  The program makes one call at a time; the          *)
(* dispatcher does not wait for it.                                        *)

Defaults ==
    \/ \E data \in Blocks :
           \/ \E len \in 0 .. Len(data) : setDefaultRaw(data, len)
           \/ setDefaultString(data)
           \/ setDefaultVector(data)
    \/ \E X \in {"integer", "double", "complex"}, val \in Values : setDefaultTyped(X, val)
    \/ \E val \in BOOLEAN : setDefaultBoolean(val)

Reads ==
    \/ getRawValue
    \/ getString
    \/ getNamedPoint
    \/ getVectorInto
    \/ \E maxlen \in 0 .. MaxLen : getVector(maxlen)
    \/ getInteger
    \/ getBoolean
    \/ getDouble
    \/ getComplex

Program ==
    \/ Single(User)
    \/ \E hsub \in InputHandles : Wrap(hsub)
    \/ Defaults
    \/ Reads

InputNext ==
    \/ Program
    \/ Dispatch /\ UNCHANGED inputVars

InputSpec == InputInit /\ [][InputNext]_vars

-----------------------------------------------------------------------------
(* Properties. *)

\* The longest data an input can hold: a block, or a default that was read
\* past the end of a vector.
MaxHeld == SizeofDouble * Max({Len(block) : block \in Blocks})

\* The type invariant of the object.  A size that a wrapper got from the
\* library is the length of data the input can hold, in the unit of the
\* call and with the terminator of a string.
InputTypeOK ==
    /\ inp \in InputHandles
    /\ abi \in Conventions
    /\ \/ call = NoCall
       \/ /\ call.op \in {"getRawValue", "getString", "getNamedPoint", "getVector"}
          /\ call.size \in 0 .. MaxHeld + 1

\* A step in which a wrapper of this name makes its second call.
Ends(op) == call # NoCall /\ call' = NoCall /\ call.op = op

(***************************************************************************)
(* SizedReadsWhole: getRawValue asks for the size of the value, resizes    *)
(* the vector and asks for the data, and a value may arrive between the    *)
(* two calls.  Whatever arrives, the count it returns is within the        *)
(* vector, and when the value at the second call is not longer than the    *)
(* size of the first, the count is its length and the vector starts with   *)
(* the whole of it.                                                        *)
(***************************************************************************)
SizedReadsWhole ==
    [][Ends("getRawValue") =>
          /\ returned'.count <= Len(returned'.data)
          /\ Len(Held) <= call.size =>
                 /\ returned'.count = Len(Held)
                 /\ Resized(returned'.data, returned'.count) = Held]_vars

(***************************************************************************)
(* VectorLengthsAgree: the unit of the lengths that the wrappers of a      *)
(* vector exchange with the library.  setDefaultValue (const               *)
(* std::vector<double> &) gives the length in bytes: under a library that  *)
(* counts bytes the default is the vector.  getVector                      *)
(* (std::vector<double> &) resizes the vector to the size it is given:     *)
(* under a library that counts doubles it gives the whole value, when the  *)
(* length of the value has not changed between its two calls.              *)
(***************************************************************************)
VectorLengthsAgree ==
    [][/\ abi.bytes => \A data \in Blocks : VectorGiven(data) = data
       /\ Ends("getVector") /\ ~abi.bytes /\ Len(Held) = call.size =>
              returned' = Held]_vars

\* The string the input holds is as long as the first call said, or shorter.
Fits == Valid(inputs, inp) /\ Len(Held) <= call.size

(***************************************************************************)
(* NamesReadWithinBuffer: getKey, getUnits and getType read a name         *)
(* through an array of fixed length that std::string (str) scans for a     *)
(* '\0'.  For the handle of an input the scan ends inside what the         *)
(* library wrote: the result is the start of the name, at most the array   *)
(* less its terminator, and the whole name when that is shorter than the   *)
(* array.  At the length of the array itself the name is cut.              *)
(***************************************************************************)
NamesReadWithinBuffer ==
    Valid(inputs, inp) =>
        \A got \in {<<getKey, inputs[inp].key>>, <<getUnits, inputs[inp].units>>,
                     <<getType, inputs[inp].type>>} :
            /\ IsPrefix(got[1], got[2])
            /\ Len(got[1]) = Min({Len(got[2]), BufferLength - 1})

\* A string that is not empty and does not end with a '\0'.
Plain == Held # <<>> /\ Last(Held) # Nul

(***************************************************************************)
(* StringReadsWhole: what getString and getNamedPoint make of the length   *)
(* the library returns.  When that length counts the terminator,           *)
(* getString returns the string the input holds.  When it does not,        *)
(* getNamedPoint returns it, and getString does when the string is not     *)
(* empty and does not end with a '\0'.  In each case the string is one     *)
(* that fits the size of the first call and the handle is the handle of    *)
(* an input.                                                               *)
(***************************************************************************)
StringReadsWhole ==
    [][/\ Ends("getString") /\ Fits /\ (abi.terminator \/ Plain) => returned' = Held
       /\ Ends("getNamedPoint") /\ Fits /\ ~abi.terminator => returned' = Held]_vars

=====
