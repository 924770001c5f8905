------------------------------ MODULE Schemas ------------------------------
(* The schemas under schema/, which every call of the library reads anew.   *)
EXTENDS AvroBinary

ProcessName == AvroRecord(<< <<"jobid", AvroInt>>, <<"vpid", AvroInt>> >>)

MsgTypeSymbols == <<"ALLOCATE", "LAUNCH", "REGISTER", "FINISH", "HEARTBEAT">>

HamsterHnpRequest ==
    AvroRecord(<< <<"request", AvroBytes>>, <<"msg_type", AvroEnum(MsgTypeSymbols)>> >>)

RegisterRequest == AvroRecord(<< <<"register_request", AvroNull>> >>)
RegisterResponse == AvroRecord(<< <<"register_response", AvroNull>> >>)
HeartBeatRequest == AvroRecord(<< <<"heartbeat_request", AvroNull>> >>)
FinishResponse == AvroRecord(<< <<"finish_response", AvroNull>> >>)

FinishRequest == AvroRecord(<< <<"succeed", AvroBoolean>>, <<"diagnostics", AvroString>> >>)

AllocateRequest == AvroRecord(<< <<"resource_count", AvroInt>> >>)

AllocateResponse ==
    AvroRecord(<< <<"node_resources",
        AvroArray(AvroRecord(<< <<"host_name", AvroString>>, <<"slot", AvroInt>> >>))>> >>)

LaunchRequest ==
    AvroRecord(<< <<"launchContexts",
        AvroArray(AvroRecord(<< <<"en_vars", AvroArray(AvroString)>>, <<"args", AvroString>>,
                                <<"host_name", AvroString>>, <<"name", ProcessName>> >>))>> >>)

LaunchResponse ==
    AvroRecord(<< <<"results",
        AvroArray(AvroRecord(<< <<"is_successful", AvroBoolean>>, <<"name", ProcessName>> >>))>> >>)

ProcessStateSymbols == <<"RUNNING", "COMPLETED">>

HeartBeatResponse ==
    AvroRecord(<< <<"completed_processes",
        AvroArray(AvroRecord(<< <<"name", ProcessName>>,
                                <<"state", AvroEnum(ProcessStateSymbols)>>,
                                <<"exit_value", AvroInt>> >>))>> >>)

\* The earlier versions the repository keeps as "Copy of" five of the files.
NoFields == AvroRecord(<<>>)

EarlierLaunchRequest ==
    AvroRecord(<< <<"launchContexts",
        AvroArray(AvroRecord(<< <<"en_vars", AvroString>>, <<"args", AvroString>>,
                                <<"host_name", AvroString>>, <<"name", ProcessName>> >>))>> >>)

Person ==
    AvroRecord(<< <<"height", AvroLong>>, <<"weight", AvroLong>>, <<"name", AvroString>> >>)
=============================================================================
