--------------------------- MODULE NetworkAddress ---------------------------
(***************************************************************************)
(* The address functions of src/helics/network/NetworkBrokerData.hpp       *)
(* (lines 90-167).  The header declares them and says in their comments    *)
(* what they return; their bodies are in a file that is not among the      *)
(* sources, so the rules are those of section 4.1 of spec.md.              *)
(*                                                                         *)
(* An address is a sequence of tokens, not of characters: a scheme name,   *)
(* the mark "://", the brackets, ":" and the pieces between them.  That is *)
(* the grain at which the functions work: they look for the mark, for the  *)
(* last ":" outside brackets, and read what follows it as a number.        *)
(*   "tcp://127.0.0.1:5678"  is  <<"tcp", "://", "127.0.0.1", ":", "5678">>*)
(*   "[::1]:80"              is  <<"[", ":", ":", "1", "]", ":", "80">>    *)
(***************************************************************************)
EXTENDS Integers, SequencesExt

CONSTANTS
    Numeral,    \* text of a number -> the number std::stoi reads from it
    Loopback,   \* the host tokens that name this machine
    LocalV4,    \* the external IPv4 address the machine reports
    LocalV6     \* the external IPv6 address the machine reports

ASSUME IsInjective(Numeral) /\ Range(Numeral) \subseteq Nat

InterfaceNetworks == {"LOCAL", "IPV4", "IPV6", "ALL"}
InterfaceTypes == {"TCP", "UDP", "IP", "IPC", "INPROC"}

Colon == ":"
Open == "["
Close == "]"
Mark == "://"

\* The scheme of every interface type; IP connects over tcp.
Scheme == [TCP |-> "tcp", UDP |-> "udp", IP |-> "tcp", IPC |-> "ipc", INPROC |-> "inproc"]
Portless == {Scheme.IPC, Scheme.INPROC}

\* std::to_string of a port number.
PortText(port) == CHOOSE text \in DOMAIN Numeral : Numeral[text] = port

\* Where the scheme ends: the position of the mark, 0 without one.
ProtocolEnd(address) == SelectInSeq(address, LAMBDA token : token = Mark)

stripProtocol(networkAddress) ==
    SubSeq(networkAddress, ProtocolEnd(networkAddress) + 1, Len(networkAddress))

removeProtocol(networkAddress) == stripProtocol(networkAddress)

addProtocol(networkAddress, interfaceT) ==
    IF ProtocolEnd(networkAddress) # 0
    THEN networkAddress
    ELSE <<Scheme[interfaceT], Mark>> \o networkAddress

insertProtocol(networkAddress, interfaceT) == addProtocol(networkAddress, interfaceT)

Count(address, token) == Cardinality({i \in DOMAIN address : address[i] = token})

\* The last ":" that no bracket encloses, 0 when there is none.
PortSeparator(address) ==
    LET outside(i) == Count(SubSeq(address, 1, i), Open) = Count(SubSeq(address, 1, i), Close)
    IN  Max({0} \cup {i \in DOMAIN address : address[i] = Colon /\ outside(i)})

\* Mutant: the brackets of an IPv6 interface are left on it.
UnbracketedForgotten(host) == host

Unbracketed(host) ==
    IF host # <<>> /\ Head(host) = Open /\ Last(host) = Close
    THEN SubSeq(host, 2, Len(host) - 1)
    ELSE host

extractInterfaceandPortString(address) ==
    LET at == PortSeparator(address)
    IN  IF at = 0
        THEN <<address, <<>>>>
        ELSE <<Unbracketed(SubSeq(address, 1, at - 1)), SubSeq(address, at + 1, Len(address))>>

\* Without a number behind the separator nothing is split off.
extractInterfaceandPort(address) ==
    LET split == extractInterfaceandPortString(address)
    IN  IF split[2] \in {<<t>> : t \in DOMAIN Numeral}
        THEN <<split[1], Numeral[split[2][1]]>>
        ELSE <<address, -1>>

isipv6(address) == Contains(address, Open) \/ Count(address, Colon) > 1

\* An IPv6 literal as a user writes it: no scheme, no brackets, no port.
BareV6(address) == isipv6(address) /\ ~Contains(address, Open) /\ ProtocolEnd(address) = 0

\* An ipc or inproc location takes no port.
TakesPort(address) == address = <<>> \/ Head(address) \notin Portless

makePortAddress(networkInterface, portNumber) ==
    IF portNumber < 0 \/ ~TakesPort(networkInterface)
    THEN networkInterface
    ELSE LET at == PortSeparator(networkInterface)
             host == IF BareV6(networkInterface) THEN <<Open>> \o networkInterface \o <<Close>>
                     ELSE IF at = 0 THEN networkInterface
                     ELSE SubSeq(networkInterface, 1, at - 1)
         IN  host \o <<Colon, PortText(portNumber)>>

IsLoopback(address) == ToSet(address) \cap Loopback # {}

\* Mutant: loopback addresses stay where their list has them.
LoopbackLastForgotten(tier) == tier

\* Within a tier the loopback addresses go last, the others keep their order.
LoopbackLast(tier) ==
    SelectSeq(tier, LAMBDA a : ~IsLoopback(a)) \o SelectSeq(tier, IsLoopback)

\* A list without its repetitions, every address where it comes first.
Deduped(list) ==
    FoldLeft(LAMBDA seen, a : IF Contains(seen, a) THEN seen ELSE Append(seen, a), <<>>, list)

prioritizeExternalAddresses(high, low) ==
    LET h == Deduped(high)
        l == Deduped(low)
    IN  LoopbackLast(SelectSeq(h, LAMBDA a : Contains(l, a)))
            \o LoopbackLast(SelectSeq(h, LAMBDA a : ~Contains(l, a)))
            \o LoopbackLast(SelectSeq(l, LAMBDA a : ~Contains(h, a)))

getLocalExternalAddressV4(server) == LocalV4
getLocalExternalAddressV6(server) == LocalV6

getLocalExternalAddress(server) ==
    IF isipv6(server) THEN getLocalExternalAddressV6(server) ELSE getLocalExternalAddressV4(server)

generateMatchingInterfaceAddress(server, network) ==
    CASE network = "LOCAL" -> IF isipv6(server) THEN <<Colon, Colon, "1">> ELSE <<"127.0.0.1">>
      [] network = "IPV4"  -> getLocalExternalAddressV4(server)
      [] network = "IPV6"  -> getLocalExternalAddressV6(server)
      [] network = "ALL"   -> IF isipv6(server) THEN <<Colon, Colon>> ELSE <<"0.0.0.0">>

=============================================================================
