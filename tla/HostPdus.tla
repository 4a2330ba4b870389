----------------------------- MODULE HostPdus ------------------------------
(***************************************************************************)
(* The PDUs of the protocols next to L2CAP: ATT, SMP, the L2CAP signaling  *)
(* frames and the LMP packets of the emulated controller.  Of each: the    *)
(* fields of the enum's variants, their codes, the statements that write   *)
(* the payload (..Written) and the match arms that read it (..Read).       *)
(***************************************************************************)
EXTENDS Codec, TLC

AttFields == [
    ErrorResponse |-> <<U8, U16, U8>>,
    ExchangeMtuRequest |-> <<U16>>, ExchangeMtuResponse |-> <<U16>>,
    FindInformationRequest |-> <<U16, U16>>, FindInformationResponse |-> <<U8, Octets>>,
    FindByTypeValueRequest |-> <<U16, U16, Bytes(2), Octets>>,
    FindByTypeValueResponse |-> <<Octets>>,
    ReadRequest |-> <<U16>>, ReadResponse |-> <<Octets>>,
    ReadBlobRequest |-> <<U16, U16>>, ReadBlobResponse |-> <<Octets>>,
    ReadMultipleRequest |-> <<List(U16)>>, ReadMultipleResponse |-> <<Octets>>,
    ReadByTypeRequest |-> <<U16, U16, Uuid>>, ReadByTypeResponse |-> <<U8, Octets>>,
    ReadByGroupTypeRequest |-> <<U16, U16, Uuid>>, ReadByGroupTypeResponse |-> <<U8, Octets>>,
    ReadMultipleVariableRequest |-> <<List(U16)>>, ReadMultipleVariableResponse |-> <<Tuples>>,
    WriteRequest |-> <<U16, Octets>>, WriteResponse |-> <<>>, WriteCommand |-> <<U16, Octets>>,
    SignedWriteCommand |-> <<U16, Octets, U32, Bytes(8)>>,
    PrepareWriteRequest |-> <<U16, U16, Octets>>, PrepareWriteResponse |-> <<U16, U16, Octets>>,
    ExecuteWriteRequest |-> <<U8>>, ExecuteWriteResponse |-> <<>>,
    HandleValueNotification |-> <<U16, Octets>>, HandleValueIndication |-> <<U16, Octets>>,
    HandleValueConfirmation |-> <<>>]

AttCodes == [
    ErrorResponse |-> 1, ExchangeMtuRequest |-> 2, ExchangeMtuResponse |-> 3,
    FindInformationRequest |-> 4, FindInformationResponse |-> 5,
    FindByTypeValueRequest |-> 6, FindByTypeValueResponse |-> 7,
    ReadByTypeRequest |-> 8, ReadByTypeResponse |-> 9, ReadRequest |-> 10, ReadResponse |-> 11,
    ReadBlobRequest |-> 12, ReadBlobResponse |-> 13,
    ReadMultipleRequest |-> 14, ReadMultipleResponse |-> 15,
    ReadByGroupTypeRequest |-> 16, ReadByGroupTypeResponse |-> 17,
    WriteRequest |-> 18, WriteResponse |-> 19,
    PrepareWriteRequest |-> 22, PrepareWriteResponse |-> 23,
    ExecuteWriteRequest |-> 24, ExecuteWriteResponse |-> 25,
    HandleValueNotification |-> 27, HandleValueIndication |-> 29,
    HandleValueConfirmation |-> 30,
    ReadMultipleVariableRequest |-> 32, ReadMultipleVariableResponse |-> 33,
    WriteCommand |-> \h52, SignedWriteCommand |-> \hd2]

AttWritten == [
    ErrorResponse |-> <<U8, U16, U8>>,
    ExchangeMtuRequest |-> <<U16>>, ExchangeMtuResponse |-> <<U16>>,
    FindInformationRequest |-> <<U16, U16>>, FindInformationResponse |-> <<U8, Rest>>,
    FindByTypeValueRequest |-> <<U16, U16, Bytes(2), Rest>>,
    FindByTypeValueResponse |-> <<Rest>>,
    ReadRequest |-> <<U16>>, ReadResponse |-> <<Rest>>,
    ReadBlobRequest |-> <<U16, U16>>, ReadBlobResponse |-> <<Rest>>,
    ReadMultipleRequest |-> <<Until(<<U16>>)>>, ReadMultipleResponse |-> <<Rest>>,
    ReadByTypeRequest |-> <<U16, U16, Uuid>>, ReadByTypeResponse |-> <<U8, Rest>>,
    ReadByGroupTypeRequest |-> <<U16, U16, Uuid>>, ReadByGroupTypeResponse |-> <<U8, Rest>>,
    ReadMultipleVariableRequest |-> <<Until(<<U16>>)>>,
    ReadMultipleVariableResponse |-> <<Tuples>>,
    WriteRequest |-> <<U16, Rest>>, WriteResponse |-> <<>>, WriteCommand |-> <<U16, Rest>>,
    SignedWriteCommand |-> <<U16, Rest, U32, Bytes(8)>>,
    PrepareWriteRequest |-> <<U16, U16, Rest>>, PrepareWriteResponse |-> <<U16, U16, Rest>>,
    ExecuteWriteRequest |-> <<U8>>, ExecuteWriteResponse |-> <<>>,
    HandleValueNotification |-> <<U16, Rest>>, HandleValueIndication |-> <<U16, Rest>>,
    HandleValueConfirmation |-> <<>>]

AttRead == [
    ErrorResponse |-> By(1, <<U8, U16, U8>>),
    ExchangeMtuRequest |-> By(2, <<U16>>), ExchangeMtuResponse |-> By(3, <<U16>>),
    FindInformationRequest |-> By(4, <<U16, U16>>),
    FindInformationResponse |-> By(5, <<U8, Rest>>),
    FindByTypeValueRequest |-> By(6, <<U16, U16, Bytes(2), Rest>>),
    FindByTypeValueResponse |-> By(7, <<Rest>>),
    ReadRequest |-> By(10, <<U16>>), ReadResponse |-> By(11, <<Rest>>),
    ReadBlobRequest |-> By(12, <<U16, U16>>), ReadBlobResponse |-> By(13, <<Rest>>),
    ReadMultipleRequest |-> By(14, <<Until(<<U16>>)>>), ReadMultipleResponse |-> By(15, <<Rest>>),
    ReadByTypeRequest |-> By(8, <<U16, U16, Uuid>>), ReadByTypeResponse |-> By(9, <<U8, Rest>>),
    ReadByGroupTypeRequest |-> By(16, <<U16, U16, Uuid>>),
    ReadByGroupTypeResponse |-> By(17, <<U8, Rest>>),
    ReadMultipleVariableRequest |-> By(32, <<Until(<<U16>>)>>),
    ReadMultipleVariableResponse |-> By(33, <<Tuples>>),
    WriteRequest |-> By(18, <<U16, Rest>>), WriteResponse |-> By(19, <<>>),
    WriteCommand |-> By(\h52, <<U16, Rest>>),
    SignedWriteCommand |-> By(\hd2, <<U16, ButLast(12), U32, Bytes(8)>>),
    PrepareWriteRequest |-> By(22, <<U16, U16, Rest>>),
    PrepareWriteResponse |-> By(23, <<U16, U16, Rest>>),
    ExecuteWriteRequest |-> By(24, <<U8>>), ExecuteWriteResponse |-> By(25, <<>>),
    HandleValueNotification |-> By(27, <<U16, Rest>>),
    HandleValueIndication |-> By(29, <<U16, Rest>>), HandleValueConfirmation |-> By(30, <<>>)]

SmpFields == [
    PairingRequest |-> <<U8, U8, U8, U8, U8, U8>>, PairingResponse |-> <<U8, U8, U8, U8, U8, U8>>,
    PairingConfirm |-> <<Bytes(16)>>, PairingRandom |-> <<Bytes(16)>>, PairingFailed |-> <<U8>>,
    PairingPublicKey |-> <<Bytes(32), Bytes(32)>>, PairingDhKeyCheck |-> <<Bytes(16)>>,
    KeypressNotification |-> <<U8>>, EncryptionInformation |-> <<Bytes(16)>>,
    MasterIdentification |-> <<U16, Bytes(8)>>, IdentityInformation |-> <<Bytes(16)>>,
    IdentityAddressInformation |-> <<U8, Bytes(6)>>, SigningInformation |-> <<Bytes(16)>>,
    SecurityRequest |-> <<U8>>]

SmpCodes == [
    PairingRequest |-> 1, PairingResponse |-> 2, PairingConfirm |-> 3, PairingRandom |-> 4,
    PairingFailed |-> 5, EncryptionInformation |-> 6, MasterIdentification |-> 7,
    IdentityInformation |-> 8, IdentityAddressInformation |-> 9, SigningInformation |-> 10,
    SecurityRequest |-> 11, PairingPublicKey |-> 12, PairingDhKeyCheck |-> 13,
    KeypressNotification |-> 14]

SmpWritten == [
    PairingRequest |-> <<U8, U8, U8, U8, U8, U8>>, PairingResponse |-> <<U8, U8, U8, U8, U8, U8>>,
    PairingConfirm |-> <<Bytes(16)>>, PairingRandom |-> <<Bytes(16)>>, PairingFailed |-> <<U8>>,
    PairingPublicKey |-> <<Bytes(32), Bytes(32)>>, PairingDhKeyCheck |-> <<Bytes(16)>>,
    KeypressNotification |-> <<U8>>, EncryptionInformation |-> <<Bytes(16)>>,
    MasterIdentification |-> <<U16, Bytes(8)>>, IdentityInformation |-> <<Bytes(16)>>,
    IdentityAddressInformation |-> <<U8, Bytes(6)>>, SigningInformation |-> <<Bytes(16)>>,
    SecurityRequest |-> <<U8>>]

SmpRead == [
    PairingRequest |-> By(1, <<U8, U8, U8, U8, U8, U8>>),
    PairingResponse |-> By(2, <<U8, U8, U8, U8, U8, U8>>),
    PairingConfirm |-> By(3, <<Bytes(16), End>>), PairingRandom |-> By(4, <<Bytes(16), End>>),
    PairingFailed |-> By(5, <<U8>>), PairingPublicKey |-> By(12, <<Bytes(32), Bytes(32)>>),
    PairingDhKeyCheck |-> By(13, <<Bytes(16), End>>), KeypressNotification |-> By(14, <<U8>>),
    EncryptionInformation |-> By(6, <<Bytes(16), End>>),
    MasterIdentification |-> By(7, <<U16, Bytes(8)>>),
    IdentityInformation |-> By(8, <<Bytes(16), End>>),
    IdentityAddressInformation |-> By(9, <<U8, Bytes(6)>>),
    SigningInformation |-> By(10, <<Bytes(16), End>>), SecurityRequest |-> By(11, <<U8>>)]

\* L2CAP signaling frames; the identifier, in the frame's header, is left out.
SignalFields == [
    CommandReject |-> <<U16, Octets>>, ConnectionRequest |-> <<Psm, U16>>,
    ConnectionResponse |-> <<U16, U16, U16, U16>>, ConfigureRequest |-> <<U16, U16, Octets>>,
    ConfigureResponse |-> <<U16, U16, U16, Octets>>, DisconnectionRequest |-> <<U16, U16>>,
    DisconnectionResponse |-> <<U16, U16>>, EchoRequest |-> <<Octets>>,
    EchoResponse |-> <<Octets>>, InformationRequest |-> <<U16>>,
    InformationResponse |-> <<U16, U16, Octets>>,
    ConnectionParameterUpdateRequest |-> <<U16, U16, U16, U16>>,
    ConnectionParameterUpdateResponse |-> <<U16>>,
    LeCreditBasedConnectionRequest |-> <<U16, U16, U16, U16, U16>>,
    LeCreditBasedConnectionResponse |-> <<U16, U16, U16, U16, U16>>,
    LeFlowControlCredit |-> <<U16, U16>>,
    CreditBasedConnectionRequest |-> <<U16, U16, U16, U16, List(U16)>>,
    CreditBasedConnectionResponse |-> <<U16, U16, U16, U16, List(U16)>>,
    CreditBasedReconfigureRequest |-> <<U16, U16, List(U16)>>,
    CreditBasedReconfigureResponse |-> <<U16>>]

SignalCodes == [
    CommandReject |-> 1, ConnectionRequest |-> 2, ConnectionResponse |-> 3,
    ConfigureRequest |-> 4, ConfigureResponse |-> 5, DisconnectionRequest |-> 6,
    DisconnectionResponse |-> 7, EchoRequest |-> 8, EchoResponse |-> 9,
    InformationRequest |-> 10, InformationResponse |-> 11,
    ConnectionParameterUpdateRequest |-> 18, ConnectionParameterUpdateResponse |-> 19,
    LeCreditBasedConnectionRequest |-> 20, LeCreditBasedConnectionResponse |-> 21,
    LeFlowControlCredit |-> 22, CreditBasedConnectionRequest |-> 23,
    CreditBasedConnectionResponse |-> 24, CreditBasedReconfigureRequest |-> 25,
    CreditBasedReconfigureResponse |-> 26]

SignalWritten == [
    CommandReject |-> <<U16, Rest>>, ConnectionRequest |-> <<Psm, U16>>,
    ConnectionResponse |-> <<U16, U16, U16, U16>>, ConfigureRequest |-> <<U16, U16, Rest>>,
    ConfigureResponse |-> <<U16, U16, U16, Rest>>, DisconnectionRequest |-> <<U16, U16>>,
    DisconnectionResponse |-> <<U16, U16>>, EchoRequest |-> <<Rest>>, EchoResponse |-> <<Rest>>,
    InformationRequest |-> <<U16>>, InformationResponse |-> <<U16, U16, Rest>>,
    ConnectionParameterUpdateRequest |-> <<U16, U16, U16, U16>>,
    ConnectionParameterUpdateResponse |-> <<U16>>,
    LeCreditBasedConnectionRequest |-> <<U16, U16, U16, U16, U16>>,
    LeCreditBasedConnectionResponse |-> <<U16, U16, U16, U16, U16>>,
    LeFlowControlCredit |-> <<U16, U16>>,
    CreditBasedConnectionRequest |-> <<U16, U16, U16, U16, Until(<<U16>>)>>,
    CreditBasedConnectionResponse |-> <<U16, U16, U16, U16, Until(<<U16>>)>>,
    CreditBasedReconfigureRequest |-> <<U16, U16, Until(<<U16>>)>>,
    CreditBasedReconfigureResponse |-> <<U16>>]

SignalReadClassic == [
    CommandReject |-> By(1, <<U16, Rest>>), ConnectionRequest |-> By(2, <<Psm, U16>>),
    ConnectionResponse |-> By(3, <<U16, U16, U16, U16>>),
    ConfigureRequest |-> By(4, <<U16, U16, Rest>>),
    ConfigureResponse |-> By(5, <<U16, U16, U16, Rest>>),
    DisconnectionRequest |-> By(6, <<U16, U16>>), DisconnectionResponse |-> By(7, <<U16, U16>>),
    EchoRequest |-> By(8, <<Rest>>), EchoResponse |-> By(9, <<Rest>>),
    InformationRequest |-> By(10, <<U16>>), InformationResponse |-> By(11, <<U16, U16, Rest>>)]

SignalReadLe == [
    ConnectionParameterUpdateRequest |-> By(18, <<U16, U16, U16, U16>>),
    ConnectionParameterUpdateResponse |-> By(19, <<U16>>),
    LeCreditBasedConnectionRequest |-> By(20, <<U16, U16, U16, U16, U16>>),
    LeCreditBasedConnectionResponse |-> By(21, <<U16, U16, U16, U16, U16>>),
    LeFlowControlCredit |-> By(22, <<U16, U16>>),
    CreditBasedConnectionRequest |-> By(23, <<U16, U16, U16, U16, Until(<<U16>>)>>),
    CreditBasedConnectionResponse |-> By(24, <<U16, U16, U16, U16, Until(<<U16>>)>>),
    CreditBasedReconfigureRequest |-> By(25, <<U16, U16, Until(<<U16>>)>>),
    CreditBasedReconfigureResponse |-> By(26, <<U16>>)]

LmpFields == [
    Accepted |-> <<LmpCode>>, NotAccepted |-> <<LmpCode, U8>>, AcceptedExt |-> <<LmpCode>>,
    NotAcceptedExt |-> <<LmpCode, U8>>, AuRand |-> <<Bytes(16)>>, Detach |-> <<U8>>,
    EscoLinkReq |-> <<U8, U8, U8, U8, U8, U8, U8, U8, U16, U16, U8, U8>>,
    HostConnectionReq |-> <<>>, RemoveEscoLinkReq |-> <<U8, U8>>,
    RemoveScoLinkReq |-> <<U8, U8>>, ScoLinkReq |-> <<U8, U8, U8, U8, U8, U8>>,
    SwitchReq |-> <<U32>>, NameReq |-> <<U16>>, NameRes |-> <<U16, U32, Octets>>,
    FeaturesReq |-> <<Bytes(8)>>, FeaturesRes |-> <<Bytes(8)>>,
    FeaturesReqExt |-> <<U8, Bytes(8)>>, FeaturesResExt |-> <<U8, U8, Bytes(8)>>]

LmpCodes == [
    Accepted |-> 3, NotAccepted |-> 4, AcceptedExt |-> \h7f01, NotAcceptedExt |-> \h7f02,
    AuRand |-> 11, Detach |-> 7, EscoLinkReq |-> \h7f0c, HostConnectionReq |-> \h33,
    RemoveEscoLinkReq |-> \h7f0d, RemoveScoLinkReq |-> \h2c, ScoLinkReq |-> \h2b,
    SwitchReq |-> \h13, NameReq |-> 1, NameRes |-> 2, FeaturesReq |-> \h27,
    FeaturesRes |-> \h28, FeaturesReqExt |-> \h7f03, FeaturesResExt |-> \h7f04]

LmpWritten == [
    Accepted |-> <<LmpCode>>, NotAccepted |-> <<LmpCode, U8>>, AcceptedExt |-> <<LmpCode>>,
    NotAcceptedExt |-> <<LmpCode, U8>>, AuRand |-> <<Bytes(16)>>, Detach |-> <<U8>>,
    EscoLinkReq |-> <<U8, U8, U8, U8, U8, U8, U8, U8, U16, U16, U8, U8>>,
    HostConnectionReq |-> <<>>, RemoveEscoLinkReq |-> <<U8, U8>>,
    RemoveScoLinkReq |-> <<U8, U8>>, ScoLinkReq |-> <<U8, U8, U8, U8, U8, U8>>,
    SwitchReq |-> <<U32>>, NameReq |-> <<U16>>, NameRes |-> <<U16, U24, Rest>>,
    FeaturesReq |-> <<Bytes(8)>>, FeaturesRes |-> <<Bytes(8)>>,
    FeaturesReqExt |-> <<U8, Bytes(8)>>, FeaturesResExt |-> <<U8, U8, Bytes(8)>>]

LmpRead == [
    Accepted |-> By(3, <<LmpCode, End>>), NotAccepted |-> By(4, <<LmpCode, U8, End>>),
    AcceptedExt |-> By(\h7f01, <<LmpCode, End>>),
    NotAcceptedExt |-> By(\h7f02, <<LmpCode, U8, End>>),
    AuRand |-> By(11, <<Bytes(16), End>>), Detach |-> By(7, <<U8, End>>),
    EscoLinkReq |-> By(\h7f0c, <<U8, U8, U8, U8, U8, U8, U8, U8, U16, U16, U8, U8, End>>),
    HostConnectionReq |-> By(\h33, <<End>>),
    RemoveEscoLinkReq |-> By(\h7f0d, <<U8, U8, End>>),
    RemoveScoLinkReq |-> By(\h2c, <<U8, U8, End>>),
    ScoLinkReq |-> By(\h2b, <<U8, U8, U8, U8, U8, U8, End>>),
    SwitchReq |-> By(\h13, <<U32, End>>), NameReq |-> By(1, <<U16, End>>),
    NameRes |-> By(2, <<U16, U24, Rest>>), FeaturesReq |-> By(\h27, <<Bytes(8), End>>),
    FeaturesRes |-> By(\h28, <<Bytes(8), End>>),
    FeaturesReqExt |-> By(\h7f03, <<U8, Bytes(8), End>>),
    FeaturesResExt |-> By(\h7f04, <<U8, U8, Bytes(8), End>>)]


-----------------------------------------------------------------------------
(***************************************************************************)
(* What the GATT profiles write to and notify from their characteristics.  *)
(* Control points and the values with an opcode in front are families of   *)
(* their own; a characteristic whose value has one layout is a message of  *)
(* the family "value", its code the characteristic's handle.               *)
(***************************************************************************)

(***************************************************************************)
(* ASCS: the ASE control point, its responses, the state of an ASE.        *)
(***************************************************************************)
AseCodes == [
    ConfigCodec |-> 1, ConfigQos |-> 2, Enable |-> 3, ReceiverStartReady |-> 4, Disable |-> 5,
    ReceiverStopReady |-> 6, UpdateMetadata |-> 7, Release |-> 8]
AseIds == <<List(U8)>>
AseFields == [
    ConfigCodec |-> <<List(U8), List(U8), List(U8), List(Coding), List(Octets)>>,
    ConfigQos |-> <<List(U8), List(U8), List(U8), List(U32), List(U8), List(U8), List(U16),
                    List(U8), List(U16), List(U32)>>,
    Enable |-> <<List(U8), List(Octets)>>, UpdateMetadata |-> <<List(U8), List(Octets)>>,
    ReceiverStartReady |-> AseIds, Disable |-> AseIds, ReceiverStopReady |-> AseIds,
    Release |-> AseIds]
AseWritten == [
    ConfigCodec |-> <<Each(<<U8, U8, U8, Coding, Data>>)>>,
    ConfigQos |-> <<Each(<<U8, U8, U8, U24, U8, U8, U16, U8, U16, U24>>)>>,
    Enable |-> <<Each(<<U8, Data>>)>>, UpdateMetadata |-> <<Each(<<U8, Data>>)>>,
    ReceiverStartReady |-> <<Each(<<U8>>)>>, Disable |-> <<Each(<<U8>>)>>,
    ReceiverStopReady |-> <<Each(<<U8>>)>>, Release |-> <<Each(<<U8>>)>>]
AseRead == [
    ConfigCodec |-> By(1, <<Each(<<U8, U8, U8, Coding, Data>>), End>>),
    ConfigQos |-> By(2, <<Each(<<U8, U8, U8, U24, U8, U8, U16, U8, U16, U24>>), End>>),
    Enable |-> By(3, <<Each(<<U8, Data>>), End>>),
    UpdateMetadata |-> By(7, <<Each(<<U8, Data>>), End>>),
    ReceiverStartReady |-> By(4, <<Each(<<U8>>), End>>), Disable |-> By(5, <<Each(<<U8>>), End>>),
    ReceiverStopReady |-> By(6, <<Each(<<U8>>), End>>), Release |-> By(8, <<Each(<<U8>>), End>>)]

\* AseControlResponse repeats the opcode of the operation.
AseResponseFields == [n \in DOMAIN AseCodes |-> <<List(U8), List(U8), List(U8)>>]
AseResponseWritten == [n \in DOMAIN AseCodes |-> <<Each(<<U8, U8, U8>>)>>]
AseResponseRead == [n \in DOMAIN AseCodes |-> By(AseCodes[n], <<Each(<<U8, U8, U8>>), End>>)]

AseStatusCodes == [
    Idle |-> 0, CodecConfigured |-> 1, QosConfigured |-> 2, Enabling |-> 3, Streaming |-> 4,
    Disabling |-> 5, Releasing |-> 6]
InUse == <<U8, U8, Boxed("metadata")>>
AseStatusFields == [
    Idle |-> <<>>, Releasing |-> <<>>, Enabling |-> InUse, Streaming |-> InUse, Disabling |-> InUse,
    CodecConfigured |-> <<U8, U8, U8, U16, U32, U32, U32, U32, Coding, Octets>>,
    QosConfigured |-> <<U8, U8, U32, U8, U8, U16, U8, U16, U32>>]
AseStatusWritten == [
    Idle |-> <<>>, Releasing |-> <<>>, Enabling |-> InUse, Streaming |-> InUse, Disabling |-> InUse,
    CodecConfigured |-> <<U8, U8, U8, U16, U24, U24, U24, U24, Coding, Data>>,
    QosConfigured |-> <<U8, U8, U24, U8, U8, U16, U8, U16, U24>>]
AseStatusRead == [
    Idle |-> By(0, <<End>>), Releasing |-> By(6, <<End>>), Enabling |-> By(3, InUse \o <<End>>),
    Streaming |-> By(4, InUse \o <<End>>), Disabling |-> By(5, InUse \o <<End>>),
    CodecConfigured |-> By(1, <<U8, U8, U8, U16, U24, U24, U24, U24, Coding, Data, End>>),
    QosConfigured |-> By(2, <<U8, U8, U24, U8, U8, U16, U8, U16, U24, End>>)]

(***************************************************************************)
(* BASS: the control point.  An address travels behind its type.           *)
(***************************************************************************)
TypeAndAddress == Bytes(7)
BassCodes == [
    RemoteScanStopped |-> 0, RemoteScanStarted |-> 1, AddSource |-> 2, ModifySource |-> 3,
    SetBroadcastCode |-> 4, RemoveSource |-> 5]
BassFields == [
    RemoteScanStopped |-> <<>>, RemoteScanStarted |-> <<>>,
    AddSource |-> <<TypeAndAddress, U8, U32, U8, U16, List(U32), List(Octets)>>,
    ModifySource |-> <<U8, U8, U16, List(U32), List(Octets)>>,
    SetBroadcastCode |-> <<U8, Bytes(16)>>, RemoveSource |-> <<U8>>]
encode_subgroups == Each(<<U32, Data>>)
BassWritten == [
    RemoteScanStopped |-> <<>>, RemoteScanStarted |-> <<>>,
    AddSource |-> <<TypeAndAddress, U8, U24, U8, U16, encode_subgroups>>,
    ModifySource |-> <<U8, U8, U16, encode_subgroups>>,
    SetBroadcastCode |-> <<U8, Bytes(16)>>, RemoveSource |-> <<U8>>]
subgroups == Each(<<U32, Data>>)
BassRead == [
    RemoteScanStopped |-> By(0, <<End>>), RemoteScanStarted |-> By(1, <<End>>),
    AddSource |-> By(2, <<TypeAndAddress, U8, U24, U8, U16, subgroups, End>>),
    ModifySource |-> By(3, <<U8, U8, U16, subgroups, End>>),
    SetBroadcastCode |-> By(4, <<U8, Bytes(16), End>>), RemoveSource |-> By(5, <<U8, End>>)]

(***************************************************************************)
(* HAP: the preset control point and its events.  The change that a        *)
(* PresetChanged event reports is the low octet of its code.               *)
(***************************************************************************)
PresetCodes == [
    ReadPresets |-> 1, WritePresetName |-> 4, SetActivePreset |-> 5, SetNextPreset |-> 6,
    SetPreviousPreset |-> 7, SetActivePresetSynchronizedLocally |-> 8,
    SetNextPresetSynchronizedLocally |-> 9, SetPreviousPresetSynchronizedLocally |-> 10]
MAX_NAME == 40
ANY_NAME == 65535
PresetWritten == [
    ReadPresets |-> <<U8, U8>>, WritePresetName |-> <<U8, Name(MAX_NAME)>>,
    SetActivePreset |-> <<U8>>, SetNextPreset |-> <<>>, SetPreviousPreset |-> <<>>,
    SetActivePresetSynchronizedLocally |-> <<U8>>, SetNextPresetSynchronizedLocally |-> <<>>,
    SetPreviousPresetSynchronizedLocally |-> <<>>]
PresetRead == [
    ReadPresets |-> By(1, <<U8, U8, End>>), WritePresetName |-> By(4, <<U8, Name(ANY_NAME)>>),
    SetActivePreset |-> By(5, <<U8, End>>), SetNextPreset |-> By(6, <<End>>),
    SetPreviousPreset |-> By(7, <<End>>),
    SetActivePresetSynchronizedLocally |-> By(8, <<U8, End>>),
    SetNextPresetSynchronizedLocally |-> By(9, <<End>>),
    SetPreviousPresetSynchronizedLocally |-> By(10, <<End>>)]

PRESET_CHANGED == 256 * 3
PresetRecord == <<U8, U8, Name(MAX_NAME)>>
PresetEventCodes == [
    ReadPresetResponse |-> 2, GenericUpdate |-> PRESET_CHANGED,
    PresetRecordDeleted |-> PRESET_CHANGED + 1, PresetRecordAvailable |-> PRESET_CHANGED + 2,
    PresetRecordUnavailable |-> PRESET_CHANGED + 3]
\* Two bits of the properties are written, and read back.
Properties == Pick(<<1, 3>>)
PresetEventFields == [
    ReadPresetResponse |-> <<U8, Properties, Name(MAX_NAME)>>,
    GenericUpdate |-> <<U8, U8, Properties, Name(MAX_NAME)>>,
    PresetRecordDeleted |-> <<U8>>, PresetRecordAvailable |-> <<U8>>,
    PresetRecordUnavailable |-> <<U8>>]
PresetEventWritten == [
    ReadPresetResponse |-> PresetRecord, GenericUpdate |-> <<U8>> \o PresetRecord,
    PresetRecordDeleted |-> <<U8>>, PresetRecordAvailable |-> <<U8>>,
    PresetRecordUnavailable |-> <<U8>>]
PresetEventRead == [
    ReadPresetResponse |-> By(2, PresetRecord),
    GenericUpdate |-> By(PRESET_CHANGED, <<U8>> \o PresetRecord),
    PresetRecordDeleted |-> By(PRESET_CHANGED + 1, <<U8, End>>),
    PresetRecordAvailable |-> By(PRESET_CHANGED + 2, <<U8, End>>),
    PresetRecordUnavailable |-> By(PRESET_CHANGED + 3, <<U8, End>>)]

(***************************************************************************)
(* ANCS: the control point.                                                *)
(***************************************************************************)
AncsCodes == [
    GetNotificationAttributes |-> 0, GetAppAttributes |-> 1, PerformNotificationAction |-> 2]
AncsFields == [
    GetNotificationAttributes |-> <<U32, Whole("requests")>>,
    GetAppAttributes |-> <<Octets, List(U8)>>, PerformNotificationAction |-> <<U32, U8>>]
AncsWritten == [
    GetNotificationAttributes |-> <<U32, Whole("requests")>>,
    GetAppAttributes |-> <<NulEnded, Until(<<U8>>)>>, PerformNotificationAction |-> <<U32, U8>>]
AncsRead == [
    GetNotificationAttributes |-> By(0, <<U32, Whole("requests")>>),
    GetAppAttributes |-> By(1, <<NulEnded, Until(<<U8>>)>>),
    PerformNotificationAction |-> By(2, <<U32, U8, End>>)]

(***************************************************************************)
(* Characteristic values of one layout; the announcements are the service  *)
(* data of advertisements.                                                 *)
(***************************************************************************)
VolumeState == <<U8, U8, U8>>
VolumeOffsetState == <<U16, U8>>
AudioInputState == <<U8, U8, U8, U8>>
GainSettingsProperties == <<U8, U8, U8>>
ReceiveStateWritten == <<U8, TypeAndAddress, U8, U24, U8, U8, BadCode, encode_subgroups>>
ReceiveStateRead == <<U8, TypeAndAddress, U8, U24, U8, U8, BadCode, subgroups>>
EntityUpdate == <<U8, U8, U8, Rest>>
Notification == <<U8, U8, U8, U8, U32>>
AudioContexts == <<U16, U16>>
ObjectId == <<Bytes(6)>>
GroupObject == <<U8>> \o ObjectId
BasicAudioAnnouncement == <<U24, Whole("subgroups")>>
PublicBroadcastAnnouncement == <<U8, Boxed("metadata")>>

ValueCodes == [
    VolumeState |-> 1, VolumeOffsetState |-> 2, AudioInputState |-> 3, GainSettingsProperties |-> 4,
    ReceiveState |-> 5, EntityUpdate |-> 6, Notification |-> 7, AudioContexts |-> 8, PacList |-> 9,
    ObjectId |-> 10, GroupObject |-> 11, HeartRateMeasurement |-> 12,
    BroadcastAudioAnnouncement |-> 13, BasicAudioAnnouncement |-> 14,
    PublicBroadcastAnnouncement |-> 15]
ValueWritten == [
    VolumeState |-> VolumeState, VolumeOffsetState |-> VolumeOffsetState,
    AudioInputState |-> AudioInputState, GainSettingsProperties |-> GainSettingsProperties,
    ReceiveState |-> ReceiveStateWritten, EntityUpdate |-> EntityUpdate,
    Notification |-> Notification, AudioContexts |-> AudioContexts, PacList |-> <<Whole("pacs")>>,
    ObjectId |-> ObjectId, GroupObject |-> GroupObject,
    HeartRateMeasurement |-> <<Whole("measurement")>>, BroadcastAudioAnnouncement |-> <<U24>>,
    BasicAudioAnnouncement |-> BasicAudioAnnouncement,
    PublicBroadcastAnnouncement |-> PublicBroadcastAnnouncement]
ValueFields == [ValueWritten EXCEPT
    !.ReceiveState = <<U8, TypeAndAddress, U8, U32, U8, Pick(<<2, 3>>), BadCode, List(U32),
                       List(Octets)>>,
    !.EntityUpdate = <<U8, U8, Pick(<<0, 1>>), Octets>>,
    !.BroadcastAudioAnnouncement = <<U32>>, !.BasicAudioAnnouncement = <<U32, Whole("subgroups")>>]
Exactly(code, layout) == By(code, layout \o <<End>>)
ValueRead == [
    VolumeState |-> Exactly(1, VolumeState), VolumeOffsetState |-> Exactly(2, VolumeOffsetState),
    AudioInputState |-> Exactly(3, AudioInputState),
    GainSettingsProperties |-> Exactly(4, GainSettingsProperties),
    ReceiveState |-> Exactly(5, ReceiveStateRead), EntityUpdate |-> By(6, EntityUpdate),
    Notification |-> Exactly(7, Notification), AudioContexts |-> Exactly(8, AudioContexts),
    PacList |-> By(9, <<Whole("pacs")>>), ObjectId |-> Exactly(10, ObjectId),
    GroupObject |-> Exactly(11, GroupObject),
    HeartRateMeasurement |-> By(12, <<Whole("measurement")>>),
    BroadcastAudioAnnouncement |-> Exactly(13, <<U24>>),
    BasicAudioAnnouncement |-> By(14, BasicAudioAnnouncement),
    PublicBroadcastAnnouncement |-> Exactly(15, PublicBroadcastAnnouncement)]


-----------------------------------------------------------------------------
(***************************************************************************)
(* The messages of the protocols over Classic channels: SDP, RFCOMM frames *)
(* (with the multiplexer commands carried in frames for DLCI 0), HID,      *)
(* AVDTP, AV/C and AVRCP.  Four tables each, as in HostPdus.               *)
(***************************************************************************)

SdpFields == [
    ErrorResponse |-> <<U16>>, ServiceSearchRequest |-> <<Element, U16, Octets>>,
    ServiceSearchResponse |-> <<U16, List(U32), Octets>>,
    ServiceAttributeRequest |-> <<U32, U16, Element, Octets>>,
    ServiceAttributeResponse |-> <<Octets, Octets>>,
    ServiceSearchAttributeRequest |-> <<Element, U16, Element, Octets>>,
    ServiceSearchAttributeResponse |-> <<Octets, Octets>>]

SdpCodes == [
    ErrorResponse |-> 1, ServiceSearchRequest |-> 2, ServiceSearchResponse |-> 3,
    ServiceAttributeRequest |-> 4, ServiceAttributeResponse |-> 5,
    ServiceSearchAttributeRequest |-> 6, ServiceSearchAttributeResponse |-> 7]

SdpWritten == [
    ErrorResponse |-> <<U16>>, ServiceSearchRequest |-> <<Element, U16, Rest>>,
    ServiceSearchResponse |-> <<U16, Each16(<<U32>>), Rest>>,
    ServiceAttributeRequest |-> <<U32, U16, Element, Rest>>,
    ServiceAttributeResponse |-> <<Data16, Rest>>,
    ServiceSearchAttributeRequest |-> <<Element, U16, Element, Rest>>,
    ServiceSearchAttributeResponse |-> <<Data16, Rest>>]

SdpRead == [
    ErrorResponse |-> By(1, <<U16>>), ServiceSearchRequest |-> By(2, <<Element, U16, Rest>>),
    ServiceSearchResponse |-> By(3, <<U16, Each16(<<U32>>), Rest>>),
    ServiceAttributeRequest |-> By(4, <<U32, U16, Element, Rest>>),
    ServiceAttributeResponse |-> By(5, <<Data16, Rest>>),
    ServiceSearchAttributeRequest |-> By(6, <<Element, U16, Element, Rest>>),
    ServiceSearchAttributeResponse |-> By(7, <<Data16, Rest>>)]

(***************************************************************************)
(* RFCOMM.  The code of a frame is its control octet (with the poll/final  *)
(* bit); the code of a multiplexer command is 256 + its type.              *)
(***************************************************************************)
SABM == \h2f
UA == \h63
DM == \h0f
DISC == \h43
UIH == \hef
P_F == 16
PN == 256 + \h20
MSC == 256 + \h38

RfcommFields == [
    Sabm |-> <<>>, Ua |-> <<>>, Dm |-> <<>>, Disc |-> <<>>, Uih |-> <<Octets>>,
    UihCredits |-> <<U8, Octets>>, Pn |-> <<U8, U8, U8, U8, U16, U8, Pick(<<0, 7>>)>>,
    Msc |-> <<U8, U8>>]

RfcommCodes == [
    Sabm |-> SABM + P_F, Ua |-> UA + P_F, Dm |-> DM + P_F, Disc |-> DISC + P_F, Uih |-> UIH,
    UihCredits |-> UIH + P_F, Pn |-> PN, Msc |-> MSC]

RfcommWritten == [
    Sabm |-> <<>>, Ua |-> <<>>, Dm |-> <<>>, Disc |-> <<>>, Uih |-> <<Rest>>,
    UihCredits |-> <<U8, Rest>>, Pn |-> <<U8, U8, U8, U8, U16, U8, U8>>, Msc |-> <<U8, U8>>]

RfcommRead == [
    Sabm |-> By(SABM + P_F, <<>>), Ua |-> By(UA + P_F, <<>>),
    Dm |-> By(DM + P_F, <<>>), Disc |-> By(DISC + P_F, <<>>), Uih |-> By(UIH, <<Rest>>),
    UihCredits |-> By(UIH + P_F, <<U8, Rest>>), Pn |-> By(PN, <<U8, U8, U8, U8, U16, U8, U8>>),
    Msc |-> By(MSC, <<U8, U8>>)]

(***************************************************************************)
(* HID.  The code is the message type; the parameter nibble of the header  *)
(* is the message's label.  A report size is there when bit 8 of it is.    *)
(***************************************************************************)
HidFields == [
    Handshake |-> <<>>, Control |-> <<>>, GetReport |-> <<U8>>, GetSizedReport |-> <<U8, U16>>,
    SetReport |-> <<Octets>>, GetProtocol |-> <<>>, SetProtocol |-> <<>>, Data |-> <<Octets>>]

HidCodes == [
    Handshake |-> 0, Control |-> 1, GetReport |-> 4, GetSizedReport |-> 20, SetReport |-> 5,
    GetProtocol |-> 6, SetProtocol |-> 7, Data |-> 10]

HidWritten == [
    Handshake |-> <<>>, Control |-> <<>>, GetReport |-> <<U8>>, GetSizedReport |-> <<U8, U16>>,
    SetReport |-> <<Rest>>, GetProtocol |-> <<>>, SetProtocol |-> <<>>, Data |-> <<Rest>>]

HidRead == [
    Handshake |-> By(0, <<End>>), Control |-> By(1, <<End>>), GetReport |-> By(4, <<U8, End>>),
    GetSizedReport |-> By(20, <<U8, U16, End>>), SetReport |-> By(5, <<Rest>>),
    GetProtocol |-> By(6, <<End>>), SetProtocol |-> By(7, <<End>>), Data |-> By(10, <<Rest>>)]

-----------------------------------------------------------------------------
(***************************************************************************)
(* AVDTP.  A message is known by its signal and its type.                  *)
(***************************************************************************)
Command == 0
GeneralRejection == 1
Accept == 2
Reject == 3
Signal(identifier, type) == 4 * identifier + type

AvdtpFields == [
    DiscoverCommand |-> <<>>, DiscoverResponse |-> <<Endpoints>>,
    GetCapabilitiesCommand |-> <<Seid>>, GetCapabilitiesResponse |-> <<Tlvs>>,
    GetCapabilitiesReject |-> <<U8>>, GetAllCapabilitiesCommand |-> <<Seid>>,
    GetAllCapabilitiesResponse |-> <<Tlvs>>, GetAllCapabilitiesReject |-> <<U8>>,
    SetConfigurationCommand |-> <<Seid, Seid, Tlvs>>, SetConfigurationResponse |-> <<>>,
    SetConfigurationReject |-> <<U8, U8>>, GetConfigurationCommand |-> <<Seid>>,
    GetConfigurationResponse |-> <<Tlvs>>, GetConfigurationReject |-> <<U8>>,
    ReconfigureCommand |-> <<Seid, Tlvs>>, ReconfigureResponse |-> <<>>,
    ReconfigureReject |-> <<U8, U8>>, OpenCommand |-> <<Seid>>, OpenResponse |-> <<>>,
    OpenReject |-> <<U8>>, StartCommand |-> <<List(Seid)>>, StartResponse |-> <<>>,
    StartReject |-> <<Seid, U8>>, CloseCommand |-> <<Seid>>, CloseResponse |-> <<>>,
    CloseReject |-> <<U8>>, SuspendCommand |-> <<List(Seid)>>, SuspendResponse |-> <<>>,
    SuspendReject |-> <<Seid, U8>>, AbortCommand |-> <<Seid>>, AbortResponse |-> <<>>,
    SecurityControlCommand |-> <<Seid, Octets>>, SecurityControlResponse |-> <<>>,
    SecurityControlReject |-> <<U8>>, GeneralReject |-> <<>>,
    DelayReportCommand |-> <<Seid, U16>>, DelayReportResponse |-> <<>>,
    DelayReportReject |-> <<U8>>]

AvdtpSignals == [
    DiscoverCommand |-> 1, DiscoverResponse |-> 1, GetCapabilitiesCommand |-> 2,
    GetCapabilitiesResponse |-> 2, GetCapabilitiesReject |-> 2,
    GetAllCapabilitiesCommand |-> 12, GetAllCapabilitiesResponse |-> 12,
    GetAllCapabilitiesReject |-> 12, SetConfigurationCommand |-> 3,
    SetConfigurationResponse |-> 3, SetConfigurationReject |-> 3,
    GetConfigurationCommand |-> 4, GetConfigurationResponse |-> 4, GetConfigurationReject |-> 4,
    ReconfigureCommand |-> 5, ReconfigureResponse |-> 5, ReconfigureReject |-> 5,
    OpenCommand |-> 6, OpenResponse |-> 6, OpenReject |-> 6, StartCommand |-> 7,
    StartResponse |-> 7, StartReject |-> 7, CloseCommand |-> 8, CloseResponse |-> 8,
    CloseReject |-> 8, SuspendCommand |-> 9, SuspendResponse |-> 9, SuspendReject |-> 9,
    AbortCommand |-> 10, AbortResponse |-> 10, SecurityControlCommand |-> 11,
    SecurityControlResponse |-> 11, SecurityControlReject |-> 11, GeneralReject |-> 0,
    DelayReportCommand |-> 13, DelayReportResponse |-> 13, DelayReportReject |-> 13]

AvdtpCommands == {"DiscoverCommand", "GetCapabilitiesCommand", "GetAllCapabilitiesCommand",
    "SetConfigurationCommand", "GetConfigurationCommand", "ReconfigureCommand", "OpenCommand",
    "StartCommand", "CloseCommand", "SuspendCommand", "AbortCommand", "SecurityControlCommand",
    "DelayReportCommand"}
AvdtpRejects == {"GetCapabilitiesReject", "GetAllCapabilitiesReject", "SetConfigurationReject",
    "GetConfigurationReject", "ReconfigureReject", "OpenReject", "StartReject", "CloseReject",
    "SuspendReject", "SecurityControlReject", "DelayReportReject"}
AvdtpType(name) ==
    CASE name \in AvdtpCommands -> Command
      [] name = "GeneralReject" -> GeneralRejection
      [] name \in AvdtpRejects  -> Reject
      [] OTHER                  -> Accept
AvdtpCodes == [n \in DOMAIN AvdtpSignals |-> Signal(AvdtpSignals[n], AvdtpType(n))]

AvdtpWritten == [
    DiscoverCommand |-> <<>>, DiscoverResponse |-> <<Endpoints>>,
    GetCapabilitiesCommand |-> <<Seid>>, GetCapabilitiesResponse |-> <<Tlvs>>,
    GetCapabilitiesReject |-> <<U8>>, GetAllCapabilitiesCommand |-> <<Seid>>,
    GetAllCapabilitiesResponse |-> <<Tlvs>>, GetAllCapabilitiesReject |-> <<U8>>,
    SetConfigurationCommand |-> <<Seid, Seid, Tlvs>>, SetConfigurationResponse |-> <<>>,
    SetConfigurationReject |-> <<U8, U8>>, GetConfigurationCommand |-> <<Seid>>,
    GetConfigurationResponse |-> <<Tlvs>>, GetConfigurationReject |-> <<U8>>,
    ReconfigureCommand |-> <<Seid, Tlvs>>, ReconfigureResponse |-> <<>>,
    ReconfigureReject |-> <<U8, U8>>, OpenCommand |-> <<Seid>>, OpenResponse |-> <<>>,
    OpenReject |-> <<U8>>, StartCommand |-> <<Until(<<Seid>>)>>, StartResponse |-> <<>>,
    StartReject |-> <<Seid, U8>>, CloseCommand |-> <<Seid>>, CloseResponse |-> <<>>,
    CloseReject |-> <<U8>>, SuspendCommand |-> <<Until(<<Seid>>)>>, SuspendResponse |-> <<>>,
    SuspendReject |-> <<Seid, U8>>, AbortCommand |-> <<Seid>>, AbortResponse |-> <<>>,
    SecurityControlCommand |-> <<Seid, Rest>>, SecurityControlResponse |-> <<>>,
    SecurityControlReject |-> <<U8>>, GeneralReject |-> <<>>,
    DelayReportCommand |-> <<Seid, U16>>, DelayReportResponse |-> <<>>,
    DelayReportReject |-> <<U8>>]

\* The match arms of Message::parse before and after the Open signal.
AvdtpReadSetup == [
    DiscoverCommand |-> By(Signal(1, Command), <<>>),
    DiscoverResponse |-> By(Signal(1, Accept), <<Endpoints>>),
    GetCapabilitiesCommand |-> By(Signal(2, Command), <<Seid>>),
    GetCapabilitiesResponse |-> By(Signal(2, Accept), <<Tlvs>>),
    GetCapabilitiesReject |-> By(Signal(2, Reject), <<U8>>),
    GetAllCapabilitiesCommand |-> By(Signal(12, Command), <<Seid>>),
    GetAllCapabilitiesResponse |-> By(Signal(12, Accept), <<Tlvs>>),
    GetAllCapabilitiesReject |-> By(Signal(12, Reject), <<U8>>),
    SetConfigurationCommand |-> By(Signal(3, Command), <<Seid, Seid, Tlvs>>),
    SetConfigurationResponse |-> By(Signal(3, Accept), <<>>),
    SetConfigurationReject |-> By(Signal(3, Reject), <<U8, U8>>),
    GetConfigurationCommand |-> By(Signal(4, Command), <<Seid>>),
    GetConfigurationResponse |-> By(Signal(4, Accept), <<Tlvs>>),
    GetConfigurationReject |-> By(Signal(4, Reject), <<U8>>),
    ReconfigureCommand |-> By(Signal(5, Command), <<Seid, Tlvs>>),
    ReconfigureResponse |-> By(Signal(5, Accept), <<>>),
    ReconfigureReject |-> By(Signal(5, Reject), <<U8, U8>>)]

AvdtpReadStream == [
    OpenCommand |-> By(Signal(6, Command), <<Seid>>), OpenResponse |-> By(Signal(6, Accept), <<>>),
    OpenReject |-> By(Signal(6, Reject), <<U8>>),
    StartCommand |-> By(Signal(7, Command), <<Until(<<Seid>>)>>),
    StartResponse |-> By(Signal(7, Accept), <<>>),
    StartReject |-> By(Signal(7, Reject), <<Seid, U8>>),
    CloseCommand |-> By(Signal(8, Command), <<Seid>>),
    CloseResponse |-> By(Signal(8, Accept), <<>>), CloseReject |-> By(Signal(8, Reject), <<U8>>),
    SuspendCommand |-> By(Signal(9, Command), <<Until(<<Seid>>)>>),
    SuspendResponse |-> By(Signal(9, Accept), <<>>),
    SuspendReject |-> By(Signal(9, Reject), <<Seid, U8>>),
    AbortCommand |-> By(Signal(10, Command), <<Seid>>),
    AbortResponse |-> By(Signal(10, Accept), <<>>),
    SecurityControlCommand |-> By(Signal(11, Command), <<Seid, Rest>>),
    SecurityControlResponse |-> By(Signal(11, Accept), <<>>),
    SecurityControlReject |-> By(Signal(11, Reject), <<U8>>),
    DelayReportCommand |-> By(Signal(13, Command), <<Seid, U16>>),
    DelayReportResponse |-> By(Signal(13, Accept), <<>>),
    DelayReportReject |-> By(Signal(13, Reject), <<U8>>),
    GeneralReject |-> By(Signal(0, GeneralRejection), <<>>)]

(***************************************************************************)
(* AVRCP.  A message is known by its PDU id.  The response to              *)
(* RegisterNotification carries an event and the one to GetFolderItems a   *)
(* list of items; they have tables of their own.                           *)
(***************************************************************************)
AvrcpCommandFields == [
    GetCapabilities |-> <<U8>>, ListPlayerApplicationSettingAttributes |-> <<>>,
    ListPlayerApplicationSettingValues |-> <<U8>>,
    GetCurrentPlayerApplicationSettingValue |-> <<List(U8)>>,
    SetPlayerApplicationSettingValue |-> <<List(U8), List(U8)>>,
    GetPlayerApplicationSettingAttributeText |-> <<List(U8)>>,
    GetPlayerApplicationSettingValueText |-> <<U8, List(U8)>>,
    InformDisplayableCharacterSet |-> <<List(U16)>>, InformBatteryStatusOfCt |-> <<U8>>,
    GetElementAttributes |-> <<Bytes(8), List(U32)>>, GetPlayStatus |-> <<>>,
    RegisterNotification |-> <<U8, U32>>, SetAbsoluteVolume |-> <<U8>>,
    SetAddressedPlayer |-> <<U16>>, SetBrowsedPlayer |-> <<U16>>,
    GetFolderItems |-> <<U8, U32, U32, List(U32)>>, ChangePath |-> <<U16, U8, Bytes(8)>>,
    GetItemAttributes |-> <<U8, Bytes(8), U16, List(U32)>>, PlayItem |-> <<U8, Bytes(8), U16>>,
    GetTotalNumberOfItems |-> <<U8>>, Search |-> <<U16, Octets>>,
    AddToNowPlaying |-> <<U8, Bytes(8), U16>>]

AvrcpCommandCodes == [
    GetCapabilities |-> 16, ListPlayerApplicationSettingAttributes |-> 17,
    ListPlayerApplicationSettingValues |-> 18, GetCurrentPlayerApplicationSettingValue |-> 19,
    SetPlayerApplicationSettingValue |-> 20, GetPlayerApplicationSettingAttributeText |-> 21,
    GetPlayerApplicationSettingValueText |-> 22, InformDisplayableCharacterSet |-> 23,
    InformBatteryStatusOfCt |-> 24, GetElementAttributes |-> 32, GetPlayStatus |-> 48,
    RegisterNotification |-> 49, SetAbsoluteVolume |-> 80, SetAddressedPlayer |-> 96,
    SetBrowsedPlayer |-> 112, GetFolderItems |-> 113, ChangePath |-> 114,
    GetItemAttributes |-> 115, PlayItem |-> 116, GetTotalNumberOfItems |-> 117, Search |-> 128,
    AddToNowPlaying |-> 144]

AvrcpCommandWritten == [
    GetCapabilities |-> <<U8>>, ListPlayerApplicationSettingAttributes |-> <<>>,
    ListPlayerApplicationSettingValues |-> <<U8>>,
    GetCurrentPlayerApplicationSettingValue |-> <<Each(<<U8>>)>>,
    SetPlayerApplicationSettingValue |-> <<Each(<<U8, U8>>)>>,
    GetPlayerApplicationSettingAttributeText |-> <<Each(<<U8>>)>>,
    GetPlayerApplicationSettingValueText |-> <<U8, Each(<<U8>>)>>,
    InformDisplayableCharacterSet |-> <<Each(<<U16>>)>>, InformBatteryStatusOfCt |-> <<U8>>,
    GetElementAttributes |-> <<Bytes(8), Each(<<U32>>)>>, GetPlayStatus |-> <<>>,
    RegisterNotification |-> <<U8, U32>>, SetAbsoluteVolume |-> <<U8>>,
    SetAddressedPlayer |-> <<U16>>, SetBrowsedPlayer |-> <<U16>>,
    GetFolderItems |-> <<U8, U32, U32, Each(<<U32>>)>>, ChangePath |-> <<U16, U8, Bytes(8)>>,
    GetItemAttributes |-> <<U8, Bytes(8), U16, Each(<<U32>>)>>,
    PlayItem |-> <<U8, Bytes(8), U16>>, GetTotalNumberOfItems |-> <<U8>>,
    Search |-> <<U16, Data16>>, AddToNowPlaying |-> <<U8, Bytes(8), U16>>]

AvrcpCommandRead == [
    GetCapabilities |-> By(16, <<U8, End>>),
    ListPlayerApplicationSettingAttributes |-> By(17, <<End>>),
    ListPlayerApplicationSettingValues |-> By(18, <<U8, End>>),
    GetCurrentPlayerApplicationSettingValue |-> By(19, <<Each(<<U8>>), End>>),
    SetPlayerApplicationSettingValue |-> By(20, <<Each(<<U8, U8>>), End>>),
    GetPlayerApplicationSettingAttributeText |-> By(21, <<Each(<<U8>>), End>>),
    GetPlayerApplicationSettingValueText |-> By(22, <<U8, Each(<<U8>>), End>>),
    InformDisplayableCharacterSet |-> By(23, <<Each(<<U16>>), End>>),
    InformBatteryStatusOfCt |-> By(24, <<U8, End>>),
    GetElementAttributes |-> By(32, <<Bytes(8), Each(<<U32>>), End>>),
    GetPlayStatus |-> By(48, <<End>>), RegisterNotification |-> By(49, <<U8, U32, End>>),
    SetAbsoluteVolume |-> By(80, <<U8, End>>), SetAddressedPlayer |-> By(96, <<U16, End>>),
    SetBrowsedPlayer |-> By(112, <<U16, End>>),
    GetFolderItems |-> By(113, <<U8, U32, U32, Each(<<U32>>), End>>),
    ChangePath |-> By(114, <<U16, U8, Bytes(8), End>>),
    GetItemAttributes |-> By(115, <<U8, Bytes(8), U16, Each(<<U32>>), End>>),
    PlayItem |-> By(116, <<U8, Bytes(8), U16, End>>),
    GetTotalNumberOfItems |-> By(117, <<U8, End>>), Search |-> By(128, <<U16, Data16, End>>),
    AddToNowPlaying |-> By(144, <<U8, Bytes(8), U16, End>>)]

AvrcpResponseFields == [
    GetCapabilities |-> <<Pick(<<2, 3>>), Shares>>,
    ListPlayerApplicationSettingAttributes |-> <<List(U8)>>,
    ListPlayerApplicationSettingValues |-> <<List(U8)>>,
    GetCurrentPlayerApplicationSettingValue |-> <<List(U8), List(U8)>>,
    SetPlayerApplicationSettingValue |-> <<>>,
    GetPlayerApplicationSettingAttributeText |-> <<List(U8), List(U16), List(Octets)>>,
    GetPlayerApplicationSettingValueText |-> <<List(U8), List(U16), List(Octets)>>,
    InformDisplayableCharacterSet |-> <<>>, InformBatteryStatusOfCt |-> <<>>,
    GetPlayStatus |-> <<U32, U32, U8>>,
    GetElementAttributes |-> <<List(U32), List(U16), List(Octets)>>,
    SetAbsoluteVolume |-> <<U8>>, SetAddressedPlayer |-> <<U8>>,
    SetBrowsedPlayer |-> <<U8, U16, U32, U16, List(Octets)>>, ChangePath |-> <<U8, U32>>,
    GetItemAttributes |-> <<U8, List(U32), List(U16), List(Octets)>>, PlayItem |-> <<U8>>,
    GetTotalNumberOfItems |-> <<U8, U16, U32>>, Search |-> <<U8, U16, U32>>,
    AddToNowPlaying |-> <<U8>>]

AvrcpResponseCodes == [
    GetCapabilities |-> 16, ListPlayerApplicationSettingAttributes |-> 17,
    ListPlayerApplicationSettingValues |-> 18, GetCurrentPlayerApplicationSettingValue |-> 19,
    SetPlayerApplicationSettingValue |-> 20, GetPlayerApplicationSettingAttributeText |-> 21,
    GetPlayerApplicationSettingValueText |-> 22, InformDisplayableCharacterSet |-> 23,
    InformBatteryStatusOfCt |-> 24, GetPlayStatus |-> 48, GetElementAttributes |-> 32,
    SetAbsoluteVolume |-> 80, SetAddressedPlayer |-> 96, SetBrowsedPlayer |-> 112,
    ChangePath |-> 114, GetItemAttributes |-> 115, PlayItem |-> 116,
    GetTotalNumberOfItems |-> 117, Search |-> 128, AddToNowPlaying |-> 144]

AvrcpResponseWritten == [
    GetCapabilities |-> <<U8, Shares>>,
    ListPlayerApplicationSettingAttributes |-> <<Each(<<U8>>)>>,
    ListPlayerApplicationSettingValues |-> <<Each(<<U8>>)>>,
    GetCurrentPlayerApplicationSettingValue |-> <<Each(<<U8, U8>>)>>,
    SetPlayerApplicationSettingValue |-> <<>>,
    GetPlayerApplicationSettingAttributeText |-> <<Each(<<U8, U16, Data>>)>>,
    GetPlayerApplicationSettingValueText |-> <<Each(<<U8, U16, Data>>)>>,
    InformDisplayableCharacterSet |-> <<>>, InformBatteryStatusOfCt |-> <<>>,
    GetPlayStatus |-> <<U32, U32, U8>>, GetElementAttributes |-> <<Each(<<U32, U16, Data16>>)>>,
    SetAbsoluteVolume |-> <<U8>>, SetAddressedPlayer |-> <<U8>>,
    SetBrowsedPlayer |-> <<U8, U16, U32, U16, Each(<<Data16>>)>>, ChangePath |-> <<U8, U32>>,
    GetItemAttributes |-> <<U8, Each(<<U32, U16, Data16>>)>>, PlayItem |-> <<U8>>,
    GetTotalNumberOfItems |-> <<U8, U16, U32>>, Search |-> <<U8, U16, U32>>,
    AddToNowPlaying |-> <<U8>>]

AvrcpResponseRead == [
    GetCapabilities |-> By(16, <<U8, Shares, End>>),
    ListPlayerApplicationSettingAttributes |-> By(17, <<Each(<<U8>>), End>>),
    ListPlayerApplicationSettingValues |-> By(18, <<Each(<<U8>>), End>>),
    GetCurrentPlayerApplicationSettingValue |-> By(19, <<Each(<<U8, U8>>), End>>),
    SetPlayerApplicationSettingValue |-> By(20, <<End>>),
    GetPlayerApplicationSettingAttributeText |-> By(21, <<Each(<<U8, U16, Data>>), End>>),
    GetPlayerApplicationSettingValueText |-> By(22, <<Each(<<U8, U16, Data>>), End>>),
    InformDisplayableCharacterSet |-> By(23, <<End>>),
    InformBatteryStatusOfCt |-> By(24, <<End>>),
    GetPlayStatus |-> By(48, <<U32, U32, U8, End>>),
    GetElementAttributes |-> By(32, <<Each(<<U32, U16, Data16>>), End>>),
    SetAbsoluteVolume |-> By(80, <<U8, End>>), SetAddressedPlayer |-> By(96, <<U8, End>>),
    SetBrowsedPlayer |-> By(112, <<U8, U16, U32, U16, Each(<<Data16>>), End>>),
    ChangePath |-> By(114, <<U8, U32, End>>),
    GetItemAttributes |-> By(115, <<U8, Each(<<U32, U16, Data16>>), End>>),
    PlayItem |-> By(116, <<U8, End>>), GetTotalNumberOfItems |-> By(117, <<U8, U16, U32, End>>),
    Search |-> By(128, <<U8, U16, U32, End>>), AddToNowPlaying |-> By(144, <<U8, End>>)]

AvrcpEventFields == [
    PlaybackStatusChanged |-> <<U8>>, PlaybackPositionChanged |-> <<U32>>,
    TrackChanged |-> <<Bytes(8)>>, PlayerApplicationSettingChanged |-> <<List(U8), List(U8)>>,
    NowPlayingContentChanged |-> <<>>, AvailablePlayersChanged |-> <<>>,
    AddressedPlayerChanged |-> <<U16, U16>>, UidsChanged |-> <<U16>>, VolumeChanged |-> <<U8>>]

AvrcpEventCodes == [
    PlaybackStatusChanged |-> 1, PlaybackPositionChanged |-> 5, TrackChanged |-> 2,
    PlayerApplicationSettingChanged |-> 8, NowPlayingContentChanged |-> 9,
    AvailablePlayersChanged |-> 10, AddressedPlayerChanged |-> 11, UidsChanged |-> 12,
    VolumeChanged |-> 13]

AvrcpEventWritten == [
    PlaybackStatusChanged |-> <<U8>>, PlaybackPositionChanged |-> <<U32>>,
    TrackChanged |-> <<Bytes(8)>>, PlayerApplicationSettingChanged |-> <<Each(<<U8, U8>>)>>,
    NowPlayingContentChanged |-> <<>>, AvailablePlayersChanged |-> <<>>,
    AddressedPlayerChanged |-> <<U16, U16>>, UidsChanged |-> <<U16>>, VolumeChanged |-> <<U8>>]

AvrcpEventRead == [
    PlaybackStatusChanged |-> By(1, <<U8, End>>),
    PlaybackPositionChanged |-> By(5, <<U32, End>>), TrackChanged |-> By(2, <<Bytes(8), End>>),
    PlayerApplicationSettingChanged |-> By(8, <<Each(<<U8, U8>>), End>>),
    NowPlayingContentChanged |-> By(9, <<End>>), AvailablePlayersChanged |-> By(10, <<End>>),
    AddressedPlayerChanged |-> By(11, <<U16, U16, End>>), UidsChanged |-> By(12, <<U16, End>>),
    VolumeChanged |-> By(13, <<U8, End>>)]

AvrcpItemFields == [
    MediaPlayer |-> <<U16, U8, U32, U8, Bytes(16), U16, Octets>>,
    Folder |-> <<Bytes(8), U8, U8, U16, Octets>>,
    MediaElement |-> <<Bytes(8), U8, U16, Octets, List(U32), List(U16), List(Octets)>>]

AvrcpItemCodes == [
    MediaPlayer |-> 1, Folder |-> 2, MediaElement |-> 3]

AvrcpItemWritten == [
    MediaPlayer |-> <<U16, U8, U32, U8, Bytes(16), U16, Data16>>,
    Folder |-> <<Bytes(8), U8, U8, U16, Data16>>,
    MediaElement |-> <<Bytes(8), U8, U16, Data16, Each(<<U32, U16, Data16>>)>>]

AvrcpItemRead == [
    MediaPlayer |-> By(1, <<U16, U8, U32, U8, Bytes(16), U16, Data16, End>>),
    Folder |-> By(2, <<Bytes(8), U8, U8, U16, Data16, End>>),
    MediaElement |-> By(3, <<Bytes(8), U8, U16, Data16, Each(<<U32, U16, Data16>>), End>>)]

\* AV/C bodies; the state and the operation of a PassThrough share an octet.
AvcFields == [
    VendorDependent |-> <<Bytes(3), Octets>>, PassThrough |-> <<U8, Octets>>]

AvcCodes == [
    VendorDependent |-> 0, PassThrough |-> 124]

AvcWritten == [
    VendorDependent |-> <<Bytes(3), Rest>>, PassThrough |-> <<U8, Data>>]

AvcRead == [
    VendorDependent |-> By(0, <<Bytes(3), Rest>>), PassThrough |-> By(124, <<U8, Data>>)]

=============================================================================
