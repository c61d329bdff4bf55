------------------------- MODULE MCNetworkBrokerData -------------------------
(***************************************************************************)
(* NetworkBrokerData for TLC: command lines that give a broker address     *)
(* with and without scheme, port and brackets, a broker port, a local      *)
(* interface on and off this machine, and port numbers on both sides of    *)
(* what is valid.                                                          *)
(***************************************************************************)
EXTENDS NetworkBrokerData

MCNumeral == ("1" :> 1) @@ ("80" :> 80) @@ ("5678" :> 5678)
MCLoopback == {"127.0.0.1", "localhost"}
MCExternal == {"192.168.1.2"}
MCLocalV4 == <<"192.168.1.2">>
MCLocalV6 == <<"fe80", ":", ":", "2">>
MCLocalAddresses == {<<"127.0.0.1">>, <<"localhost">>}

BrokerAddresses ==
    {<<>>, <<"host">>, <<"tcp", "://", "192.168.1.2", ":", "5678">>,
     <<"ipc", "://", "path">>, <<"[", ":", ":", "1", "]">>}

LocalInterfaces ==
    {<<"192.168.1.2">>, <<"tcp", "://", "192.168.1.2", ":", "80">>, <<"localhost">>}

MCOptions ==
    [brokerAddress : BrokerAddresses, brokerPort : {-1, 80}, autobroker : BOOLEAN]
        \cup [localInterface : LocalInterfaces, interfaceNetwork : InterfaceNetworks]
        \cup [portNumber : {0, 80}, portStart : {-1, 80, 5678}]

MCServers == {<<"host">>, <<"[", ":", ":", "1", "]", ":", "80">>}
MCPortNumbers == {80, 5678}
MCCandidates == {<<"a">>, <<"b">>, <<"localhost">>}
=============================================================================
