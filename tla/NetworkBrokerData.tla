-------------------------- MODULE NetworkBrokerData --------------------------
(***************************************************************************)
(* class NetworkBrokerData of src/helics/network/NetworkBrokerData.hpp     *)
(* (lines 34-89): what a networking broker or core knows about its own     *)
(* interface and its broker's.  The members, their defaults, the two       *)
(* constructors and setInterfaceType are the header's.  commandLineParser  *)
(* and checkAndUpdateBrokerAddress are declared there; what they do is     *)
(* section 4.2 of spec.md: the parser writes the options it was given into *)
(* the members and then checks and resolves the record.                    *)
(***************************************************************************)
EXTENDS NetworkAddress, TLC

CONSTANTS
    Options,         \* what a command line can give: records of member values
    LocalAddresses,  \* the local-only addresses a caller passes to the parser
    External,        \* the host tokens that are external IP addresses
    Servers,         \* inputs: the servers an interface is generated for
    PortNumbers,     \* inputs: the port numbers addresses are composed with
    Candidates,      \* inputs: the addresses of the lists that are prioritised
    MaxCandidates    \* bound: the length of a list that is prioritised

VARIABLES
    netInfo,      \* the members of the object
    allowedType,  \* the private member allowedType
    status        \* "constructed", or how the last parse ended

netVars == <<netInfo, allowedType, status>>

ServerModeOptions ==
    {"UNSPECIFIED", "SERVER_DEFAULT_ACTIVE", "SERVER_DEFAULT_DEACTIVATED",
     "SERVER_ACTIVE", "SERVER_DEACTIVATED"}

Errors == {"CONFIG_MISSING_BROKER", "CONFIG_INVALID_PORT"}

Defaults ==
    [brokerName |-> <<>>, brokerAddress |-> <<>>, localInterface |-> <<>>,
     brokerInitString |-> <<>>, connectionAddress |-> <<>>,
     portNumber |-> -1, brokerPort |-> -1, connectionPort |-> -1, portStart |-> -1,
     maxMessageSize |-> 16 * 256, maxMessageCount |-> 256, maxRetries |-> 5,
     interfaceNetwork |-> "LOCAL", reuse_address |-> FALSE, use_os_port |-> FALSE,
     autobroker |-> FALSE, appendNameToAddress |-> FALSE, noAckConnection |-> FALSE,
     useJsonSerialization |-> FALSE, server_mode |-> "UNSPECIFIED"]

Ports == {"portNumber", "brokerPort", "connectionPort", "portStart"}

\* NetworkBrokerData () leaves allowedType at IP, NetworkBrokerData (type) sets it.
Init ==
    /\ netInfo = Defaults
    /\ allowedType \in InterfaceTypes
    /\ status = "constructed"

setInterfaceType(type) ==
    /\ allowedType' = type
    /\ UNCHANGED <<netInfo, status>>

MissingBroker(info) == info.brokerAddress = <<>> /\ ~info.autobroker

\* A broker address without a port gets the broker port.
WithBrokerPort(info) ==
    IF extractInterfaceandPort(info.brokerAddress)[2] < 0 /\ info.brokerPort > 0
    THEN [info EXCEPT !.brokerAddress = makePortAddress(@, info.brokerPort)]
    ELSE info

\* Mutant: the local interface is kept whatever the network.
LocalOnlyForgotten(info, localAddress) == info

\* On the local network an external address gives way to the local one.
LocalOnly(info, localAddress) ==
    IF info.interfaceNetwork = "LOCAL"
    THEN [info EXCEPT !.localInterface =
             FlattenSeq([i \in DOMAIN @ |-> IF @[i] \in External THEN localAddress ELSE <<@[i]>>])]
    ELSE info

\* Interfaces without ports carry no port numbers.
PortsCleared(info, type) ==
    IF type \in {"IPC", "INPROC"}
    THEN [f \in Ports |-> -1] @@ info
    ELSE info

\* Mutant: the port numbers are taken as they come.
ValidPortsUnchecked(info) == TRUE

ValidPorts(info) ==
    /\ info.portStart >= 1024 \/ info.portStart = -1
    /\ \A f \in Ports \ {"portStart"} : info[f] >= 1 \/ info[f] = -1
    /\ info.maxRetries >= 0

checkAndUpdateBrokerAddress(info, type, localAddress) ==
    LET resolved == PortsCleared(LocalOnly(WithBrokerPort(info), localAddress), type)
    IN  CASE MissingBroker(info)   -> [info |-> info, error |-> "CONFIG_MISSING_BROKER"]
          [] ~ValidPorts(resolved) -> [info |-> info, error |-> "CONFIG_INVALID_PORT"]
          [] OTHER                 -> [info |-> resolved, error |-> "none"]

commandLineParser(localAddress, options) ==
    LET checked == checkAndUpdateBrokerAddress(options @@ netInfo, allowedType, localAddress)
    IN  /\ netInfo' = checked.info
        /\ status' = checked.error
        /\ UNCHANGED allowedType

Next ==
    \/ \E type \in InterfaceTypes : setInterfaceType(type)
    \/ \E localAddress \in LocalAddresses, options \in Options :
           commandLineParser(localAddress, options)

Spec == Init /\ [][Next]_netVars

-----------------------------------------------------------------------------
TypeOK ==
    /\ allowedType \in InterfaceTypes
    /\ status \in Errors \cup {"constructed", "none"}
    /\ DOMAIN netInfo = DOMAIN Defaults
    /\ netInfo.interfaceNetwork \in InterfaceNetworks
    /\ netInfo.server_mode \in ServerModeOptions
    /\ status = "none" => \A f \in Ports : netInfo[f] \in {-1} \cup (Nat \ {0})

(***************************************************************************)
(* What a successful parse leaves is resolved for the interface type it    *)
(* was parsed under, whatever was parsed before it: a type without ports   *)
(* has none, the local network has no external interface, there is a       *)
(* broker to connect to, and a broker port given apart from the address    *)
(* is found in the address.  This is what checkAndUpdateBrokerAddress,     *)
(* called at the end of commandLineParser, is for; the record a second     *)
(* commandLineParser starts from is the resolved one of the first.         *)
(* setInterfaceType resolves nothing, so a step that changes the type is   *)
(* not covered.                                                            *)
(***************************************************************************)
Resolved(info, type) ==
    /\ type \in {"IPC", "INPROC"} => \A f \in Ports : info[f] = -1
    /\ info.interfaceNetwork = "LOCAL" => ToSet(info.localInterface) \cap External = {}
    /\ ~MissingBroker(info)
    /\ info.brokerPort > 0 /\ TakesPort(info.brokerAddress)
           => extractInterfaceandPort(info.brokerAddress)[2] > 0

ParseResolves ==
    [][allowedType' = allowedType /\ status' = "none" => Resolved(netInfo', allowedType')]_netVars

(***************************************************************************)
(* The address round trip of makePortAddress and extractInterfaceandPort,  *)
(* for the interface a transport generates from the record: the interface  *)
(* generateMatchingInterfaceAddress gives for the record's network,        *)
(* composed with a port, given the scheme of the allowed type and stripped *)
(* of it again, splits into that interface and that port.  On the IPv6     *)
(* networks the interface is a literal full of ":", which is bracketed on  *)
(* the way in and unbracketed on the way out.                              *)
(***************************************************************************)
AddressRoundTrip ==
    \A server \in Servers, port \in PortNumbers :
        LET interface == generateMatchingInterfaceAddress(server, netInfo.interfaceNetwork)
            address == addProtocol(makePortAddress(interface, port), allowedType)
        IN  Scheme[allowedType] \notin Portless =>
                /\ extractInterfaceandPort(stripProtocol(address)) = <<interface, port>>
                /\ isipv6(stripProtocol(address)) = isipv6(interface)

(***************************************************************************)
(* prioritizeExternalAddresses against its definition as an order: the     *)
(* result holds every address of the two lists once, and of two addresses  *)
(* the one in both lists comes before the one in the high list only, that  *)
(* before the one in the low list only, within such a tier an address      *)
(* that is not loopback before one that is, and otherwise the one that     *)
(* comes first in its list.  The function has no state: the lists are      *)
(* those over Candidates, tried on the object as it is constructed.        *)
(***************************************************************************)
Position(list, a) == SelectInSeq(list, LAMBDA b : b = a)

Rank(high, low, a) ==
    <<CASE Contains(high, a) /\ Contains(low, a) -> 0
        [] Contains(high, a)                     -> 1
        [] OTHER                                 -> 2,
      IF IsLoopback(a) THEN 1 ELSE 0,
      IF Contains(high, a) THEN Position(high, a) ELSE Position(low, a)>>

Before(r, s) ==
    \E k \in 1..3 : r[k] < s[k] /\ \A j \in 1..(k - 1) : r[j] = s[j]

PrioritizeIsTieredOrder ==
    status = "constructed" =>
    \A high, low \in BoundedSeq(Candidates, MaxCandidates) :
        LET result == prioritizeExternalAddresses(high, low)
        IN  /\ ToSet(result) = ToSet(high) \cup ToSet(low)
            /\ IsSorted(result, LAMBDA a, b : Before(Rank(high, low, a), Rank(high, low, b)))

=============================================================================
