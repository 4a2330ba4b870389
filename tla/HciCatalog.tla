----------------------------- MODULE HciCatalog -----------------------------
(***************************************************************************)
(* The typed HCI packets: the fields of each variant of Command, Event and *)
(* LE meta event (..Fields..), the code it is sent under (..Codes), the    *)
(* statements that write its parameters (..Written) and the statements     *)
(* that read them back (..Read, with the code of the match arm).  The      *)
(* sides are transcribed from functions of the code that nothing but       *)
(* testing keeps together.                                                 *)
(***************************************************************************)
EXTENDS Codec, TLC

FieldsLinkControl == [
    Inquiry |-> <<U32, U8, U8>>, InquiryCancel |-> <<>>,
    CreateConnection |-> <<Addr, U16, U8, U8, U16, U8>>, Disconnect |-> <<U16, U8>>,
    CreateConnectionCancel |-> <<Addr>>, AcceptConnectionRequest |-> <<Addr, U8>>,
    RejectConnectionRequest |-> <<Addr, U8>>, LinkKeyRequestReply |-> <<Addr, Bytes(16)>>,
    LinkKeyRequestNegativeReply |-> <<Addr>>, PinCodeRequestReply |-> <<Addr, U8, Bytes(16)>>,
    PinCodeRequestNegativeReply |-> <<Addr>>, ChangeConnectionPacketType |-> <<U16, U16>>,
    AuthenticationRequested |-> <<U16>>, SetConnectionEncryption |-> <<U16, U8>>,
    RemoteNameRequest |-> <<Addr, U8, U8, U16>>, ReadRemoteSupportedFeatures |-> <<U16>>,
    ReadRemoteExtendedFeatures |-> <<U16, U8>>, ReadRemoteVersionInformation |-> <<U16>>,
    ReadClockOffset |-> <<U16>>,
    AcceptSynchronousConnectionRequest |-> <<Addr, U32, U32, U16, U16, U8, U16>>,
    RejectSynchronousConnectionRequest |-> <<Addr, U8>>,
    IoCapabilityRequestReply |-> <<Addr, U8, U8, U8>>,
    UserConfirmationRequestReply |-> <<Addr>>,
    UserConfirmationRequestNegativeReply |-> <<Addr>>,
    UserPasskeyRequestReply |-> <<Addr, U32>>, UserPasskeyRequestNegativeReply |-> <<Addr>>,
    RemoteOobDataRequestReply |-> <<Addr, Bytes(16), Bytes(16)>>,
    RemoteOobDataRequestNegativeReply |-> <<Addr>>,
    IoCapabilityRequestNegativeReply |-> <<Addr, U8>>,
    EnhancedSetupSynchronousConnection |-> <<U16, U32, U32, Coding, Coding, U16, U16, U32,
        U32, Coding, Coding, U16, U16, U8, U8, U8, U8, U8, U8, U8, U8, U16, U16, U8>>]

FieldsLinkPolicy == [
    EnhancedAcceptSynchronousConnectionRequest |-> <<Addr, U32, U32, Coding, Coding, U16,
        U16, U32, U32, Coding, Coding, U16, U16, U8, U8, U8, U8, U8, U8, U8, U8, U16, U16, U8>>,
    TruncatedPage |-> <<Addr, U8, U16>>, TruncatedPageCancel |-> <<Addr>>,
    SetConnectionlessPeripheralBroadcast |-> <<U8, U8, U8, U16, U16, U16, U16>>,
    SetConnectionlessPeripheralBroadcastReceive |-> <<U8, Addr, U8, U16, U32, U32, U16, U8,
        U8, U16, Bytes(10)>>,
    StartSynchronizationTrain |-> <<>>,
    ReceiveSynchronizationTrain |-> <<Addr, U16, U16, U16>>,
    RemoteOobExtendedDataRequestReply |-> <<Addr, Bytes(16), Bytes(16), Bytes(16), Bytes(16)>>,
    SniffMode |-> <<U16, U16, U16, U16, U16>>, ExitSniffMode |-> <<U16>>,
    SwitchRole |-> <<Addr, U8>>, WriteLinkPolicySettings |-> <<U16, U16>>,
    WriteDefaultLinkPolicySettings |-> <<U16>>, SniffSubrating |-> <<U16, U16, U16, U16>>,
    SetEventMask |-> <<Bytes(8)>>, Reset |-> <<>>, SetEventFilter |-> <<U8, Octets>>,
    ReadStoredLinkKey |-> <<Addr, U8>>, DeleteStoredLinkKey |-> <<Addr, U8>>,
    WriteLocalName |-> <<Bytes(248)>>, ReadLocalName |-> <<>>,
    WriteConnectionAcceptTimeout |-> <<U16>>, WritePageTimeout |-> <<U16>>,
    WriteScanEnable |-> <<U8>>, ReadPageScanActivity |-> <<>>,
    WritePageScanActivity |-> <<U16, U16>>, WriteInquiryScanActivity |-> <<U16, U16>>,
    ReadAuthenticationEnable |-> <<>>, WriteAuthenticationEnable |-> <<U8>>,
    ReadClassOfDevice |-> <<>>, WriteClassOfDevice |-> <<U32>>, ReadVoiceSetting |-> <<>>,
    WriteVoiceSetting |-> <<U16>>, ReadSynchronousFlowControlEnable |-> <<>>]

FieldsControllerBaseband == [
    WriteSynchronousFlowControlEnable |-> <<U8>>, SetControllerToHostFlowControl |-> <<U8>>,
    HostBufferSize |-> <<U16, U8, U16, U16>>, WriteLinkSupervisionTimeout |-> <<U16, U16>>,
    ReadNumberOfSupportedIac |-> <<>>, ReadCurrentIacLap |-> <<>>,
    WriteInquiryScanType |-> <<U8>>, WriteInquiryMode |-> <<U8>>, ReadPageScanType |-> <<>>,
    WritePageScanType |-> <<U8>>, WriteExtendedInquiryResponse |-> <<U8, Bytes(240)>>,
    WriteSimplePairingMode |-> <<U8>>, ReadLocalOobData |-> <<>>,
    ReadInquiryResponseTransmitPowerLevel |-> <<>>, ReadDefaultErroneousDataReporting |-> <<>>,
    SetEventMaskPage2 |-> <<Bytes(8)>>, ReadLeHostSupport |-> <<>>,
    WriteLeHostSupport |-> <<U8, U8>>, WriteSecureConnectionsHostSupport |-> <<U8>>,
    WriteAuthenticatedPayloadTimeout |-> <<U16, U16>>, ReadLocalOobExtendedData |-> <<>>,
    ConfigureDataPath |-> <<U8, U8, Octets>>, ReadLocalVersionInformation |-> <<>>,
    ReadLocalSupportedCommands |-> <<>>, ReadLocalSupportedFeatures |-> <<>>,
    ReadLocalExtendedFeatures |-> <<U8>>, ReadBufferSize |-> <<>>, ReadBdAddr |-> <<>>,
    ReadLocalSupportedCodecs |-> <<>>, ReadLocalSupportedCodecsV2 |-> <<>>,
    ReadRssi |-> <<U16>>, ReadEncryptionKeySize |-> <<U16>>, ReadLoopbackMode |-> <<>>,
    WriteLoopbackMode |-> <<U8>>, LeSetEventMask |-> <<Bytes(8)>>, LeReadBufferSize |-> <<>>,
    LeReadLocalSupportedFeatures |-> <<>>, LeSetRandomAddress |-> <<Addr>>,
    LeSetAdvertisingParameters |-> <<U16, U16, U8, U8, U8, Addr, U8, U8>>,
    LeReadAdvertisingPhysicalChannelTxPower |-> <<>>, LeSetAdvertisingData |-> <<Octets>>,
    LeSetScanResponseData |-> <<Octets>>, LeSetAdvertisingEnable |-> <<U8>>,
    LeSetScanParameters |-> <<U8, U16, U16, U8, U8>>, LeSetScanEnable |-> <<U8, U8>>,
    LeCreateConnection |-> <<U16, U16, U8, U8, Addr, U8, U16, U16, U16, U16, U16, U16>>,
    LeCreateConnectionCancel |-> <<>>, LeReadFilterAcceptListSize |-> <<>>,
    LeClearFilterAcceptList |-> <<>>, LeAddDeviceToFilterAcceptList |-> <<U8, Addr>>,
    LeRemoveDeviceFromFilterAcceptList |-> <<U8, Addr>>]

FieldsLeConnections == [
    LeConnectionUpdate |-> <<U16, U16, U16, U16, U16, U16, U16>>,
    LeReadRemoteFeatures |-> <<U16>>, LeRand |-> <<>>,
    LeEnableEncryption |-> <<U16, Bytes(8), U16, Bytes(16)>>,
    LeLongTermKeyRequestReply |-> <<U16, Bytes(16)>>,
    LeLongTermKeyRequestNegativeReply |-> <<U16>>, LeReadSupportedStates |-> <<>>,
    LeRemoteConnectionParameterRequestReply |-> <<U16, U16, U16, U16, U16, U16, U16>>,
    LeRemoteConnectionParameterRequestNegativeReply |-> <<U16, U8>>,
    LeSetDataLength |-> <<U16, U16, U16>>, LeReadSuggestedDefaultDataLength |-> <<>>,
    LeWriteSuggestedDefaultDataLength |-> <<U16, U16>>, LeReadLocalP256PublicKey |-> <<>>,
    LeAddDeviceToResolvingList |-> <<U8, Addr, Bytes(16), Bytes(16)>>,
    LeClearResolvingList |-> <<>>, LeReadResolvingListSize |-> <<>>,
    LeSetAddressResolutionEnable |-> <<U8>>, LeSetResolvablePrivateAddressTimeout |-> <<U16>>,
    LeReadMaximumDataLength |-> <<>>, LeReadPhy |-> <<U16>>,
    LeSetDefaultPhy |-> <<U8, U8, U8>>, LeSetPhy |-> <<U16, U8, U8, U8, U16>>,
    LeSetAdvertisingSetRandomAddress |-> <<U8, Addr>>,
    LeSetExtendedAdvertisingParameters |-> <<U8, U16, U32, U32, U8, U8, U8, Addr, U8, U8,
        U8, U8, U8, U8, U8>>,
    LeSetExtendedAdvertisingData |-> <<U8, U8, U8, Octets>>,
    LeSetExtendedScanResponseData |-> <<U8, U8, U8, Octets>>,
    LeSetExtendedAdvertisingEnable |-> <<U8, List(U8), List(U16), List(U8)>>,
    LeReadMaximumAdvertisingDataLength |-> <<>>,
    LeReadNumberOfSupportedAdvertisingSets |-> <<>>, LeRemoveAdvertisingSet |-> <<U8>>,
    LeClearAdvertisingSets |-> <<>>,
    LeSetPeriodicAdvertisingParameters |-> <<U8, U16, U16, U16>>,
    LeSetPeriodicAdvertisingData |-> <<U8, U8, Octets>>,
    LeSetPeriodicAdvertisingEnable |-> <<U8, U8>>,
    LeSetExtendedScanEnable |-> <<U8, U8, U16, U16>>]

FieldsLeIsochronous == [
    LePeriodicAdvertisingCreateSync |-> <<U8, U8, U8, Addr, U16, U16, U8>>,
    LePeriodicAdvertisingCreateSyncCancel |-> <<>>,
    LePeriodicAdvertisingTerminateSync |-> <<U16>>, LeReadTransmitPower |-> <<>>,
    LeSetPrivacyMode |-> <<U8, Addr, U8>>,
    LeSetPeriodicAdvertisingReceiveEnable |-> <<U16, U8>>,
    LePeriodicAdvertisingSyncTransfer |-> <<U16, U16, U16>>,
    LePeriodicAdvertisingSetInfoTransfer |-> <<U16, U16, U8>>,
    LeSetPeriodicAdvertisingSyncTransferParameters |-> <<U16, U8, U16, U16, U8>>,
    LeSetDefaultPeriodicAdvertisingSyncTransferParameters |-> <<U8, U16, U16, U8>>,
    LeReadBufferSizeV2 |-> <<>>, LeReadIsoTxSync |-> <<U16>>,
    LeSetCigParameters |-> <<U8, U32, U32, U8, U8, U8, U16, U16, List(U8), List(U16),
        List(U16), List(U8), List(U8), List(U8), List(U8)>>,
    LeCreateCis |-> <<List(U16), List(U16)>>, LeRemoveCig |-> <<U8>>,
    LeAcceptCisRequest |-> <<U16>>, LeRejectCisRequest |-> <<U16, U8>>,
    LeCreateBig |-> <<U8, U8, U8, U32, U16, U16, U8, U8, U8, U8, U8, Bytes(16)>>,
    LeTerminateBig |-> <<U8, U8>>,
    LeBigCreateSync |-> <<U8, U16, U8, Bytes(16), U8, U16, List(U8)>>,
    LeBigTerminateSync |-> <<U8>>, LeSetupIsoDataPath |-> <<U16, U8, U8, Coding, U32, Octets>>,
    LeRemoveIsoDataPath |-> <<U16, U8>>, LeSetHostFeature |-> <<U8, U8>>,
    LeSetDefaultSubrate |-> <<U16, U16, U16, U16, U16>>,
    LeSubrateRequest |-> <<U16, U16, U16, U16, U16, U16>>,
    LeReadAllLocalSupportedFeatures |-> <<>>, LeCsReadLocalSupportedCapabilities |-> <<>>,
    LeCsReadRemoteSupportedCapabilities |-> <<U16>>]

FieldsLeChannelSounding == [
    LeCsWriteCachedRemoteSupportedCapabilities |-> <<U16, U8, U16, U8, U8, U8, U8, U8, U8,
        U8, U8, U16, U16, U8, U16, U16, U16, U16, U16, U8, U8>>,
    LeCsSecurityEnable |-> <<U16>>, LeCsSetDefaultSettings |-> <<U16, U8, U8, U8>>,
    LeCsReadRemoteFaeTable |-> <<U16>>, LeCsWriteCachedRemoteFaeTable |-> <<U16, Bytes(72)>>,
    LeCsCreateConfig |-> <<U16, U8, U8, U8, U8, U8, U8, U8, U8, U8, U8, U8, Bytes(10), U8,
        U8, U8, U8, U8>>,
    LeCsRemoveConfig |-> <<U16, U8>>, LeCsSetChannelClassification |-> <<Bytes(10)>>,
    LeCsSetProcedureParameters |-> <<U16, U8, U16, U16, U16, U16, U32, U32, U8, U8, U8, U8,
        U8, U8>>,
    LeCsProcedureEnable |-> <<U16, U8, U8>>,
    LeCsTest |-> <<U8, U8, U8, U8, U8, U8, U8, U8, U32, U16, U8, U8, U8, U8, U8, U8, U8, U8,
        U8, U8, U8, U16, U8, U16, Octets>>,
    LeCsTestEnd |-> <<>>, LeFrameSpaceUpdate |-> <<U16, U16, U16, U8, U16>>,
    LeConnectionRateRequest |-> <<U16, U16, U16, U16, U16, U16, U16, U16, U16, U16>>,
    LeSetDefaultRateParameters |-> <<U16, U16, U16, U16, U16, U16, U16, U16, U16>>,
    LeReadMinimumSupportedConnectionInterval |-> <<>>]

FieldsLeExtendedScan == [
    LeSetExtendedScanParameters |-> <<U8, U8, Phys, List(U8), List(U16), List(U16)>>,
    LeExtendedCreateConnection |-> <<U8, U8, U8, Addr, Phys, List(U16), List(U16),
        List(U16), List(U16), List(U16), List(U16), List(U16), List(U16)>>]

OpCodesClassic == [
    Inquiry |-> \h0401, InquiryCancel |-> \h0402, CreateConnection |-> \h0405,
    Disconnect |-> \h0406, CreateConnectionCancel |-> \h0408,
    AcceptConnectionRequest |-> \h0409, RejectConnectionRequest |-> \h040a,
    LinkKeyRequestReply |-> \h040b, LinkKeyRequestNegativeReply |-> \h040c,
    PinCodeRequestReply |-> \h040d, PinCodeRequestNegativeReply |-> \h040e,
    ChangeConnectionPacketType |-> \h040f, AuthenticationRequested |-> \h0411,
    SetConnectionEncryption |-> \h0413, RemoteNameRequest |-> \h0419,
    ReadRemoteSupportedFeatures |-> \h041b, ReadRemoteExtendedFeatures |-> \h041c,
    ReadRemoteVersionInformation |-> \h041d, ReadClockOffset |-> \h041f,
    AcceptSynchronousConnectionRequest |-> \h0429,
    RejectSynchronousConnectionRequest |-> \h042a, IoCapabilityRequestReply |-> \h042b,
    UserConfirmationRequestReply |-> \h042c, UserConfirmationRequestNegativeReply |-> \h042d,
    UserPasskeyRequestReply |-> \h042e, UserPasskeyRequestNegativeReply |-> \h042f,
    RemoteOobDataRequestReply |-> \h0430, RemoteOobDataRequestNegativeReply |-> \h0433,
    IoCapabilityRequestNegativeReply |-> \h0434, EnhancedSetupSynchronousConnection |-> \h043d,
    EnhancedAcceptSynchronousConnectionRequest |-> \h043e, TruncatedPage |-> \h043f,
    TruncatedPageCancel |-> \h0440, SetConnectionlessPeripheralBroadcast |-> \h0441,
    SetConnectionlessPeripheralBroadcastReceive |-> \h0442,
    StartSynchronizationTrain |-> \h0443, ReceiveSynchronizationTrain |-> \h0444,
    RemoteOobExtendedDataRequestReply |-> \h0445, SniffMode |-> \h0803,
    ExitSniffMode |-> \h0804, SwitchRole |-> \h080b, WriteLinkPolicySettings |-> \h080d,
    WriteDefaultLinkPolicySettings |-> \h080f, SniffSubrating |-> \h0811,
    SetEventMask |-> \h0c01, Reset |-> \h0c03, SetEventFilter |-> \h0c05,
    ReadStoredLinkKey |-> \h0c0d, DeleteStoredLinkKey |-> \h0c12, WriteLocalName |-> \h0c13,
    ReadLocalName |-> \h0c14, WriteConnectionAcceptTimeout |-> \h0c16,
    WritePageTimeout |-> \h0c18, WriteScanEnable |-> \h0c1a, ReadPageScanActivity |-> \h0c1b,
    WritePageScanActivity |-> \h0c1c, WriteInquiryScanActivity |-> \h0c1e,
    ReadAuthenticationEnable |-> \h0c1f, WriteAuthenticationEnable |-> \h0c20,
    ReadClassOfDevice |-> \h0c23, WriteClassOfDevice |-> \h0c24, ReadVoiceSetting |-> \h0c25,
    WriteVoiceSetting |-> \h0c26, ReadSynchronousFlowControlEnable |-> \h0c2e,
    WriteSynchronousFlowControlEnable |-> \h0c2f, SetControllerToHostFlowControl |-> \h0c31,
    HostBufferSize |-> \h0c33, WriteLinkSupervisionTimeout |-> \h0c37,
    ReadNumberOfSupportedIac |-> \h0c38, ReadCurrentIacLap |-> \h0c39,
    WriteInquiryScanType |-> \h0c43, WriteInquiryMode |-> \h0c45, ReadPageScanType |-> \h0c46,
    WritePageScanType |-> \h0c47, WriteExtendedInquiryResponse |-> \h0c52,
    WriteSimplePairingMode |-> \h0c56, ReadLocalOobData |-> \h0c57,
    ReadInquiryResponseTransmitPowerLevel |-> \h0c58,
    ReadDefaultErroneousDataReporting |-> \h0c5a, SetEventMaskPage2 |-> \h0c63,
    ReadLeHostSupport |-> \h0c6c, WriteLeHostSupport |-> \h0c6d,
    WriteSecureConnectionsHostSupport |-> \h0c7a, WriteAuthenticatedPayloadTimeout |-> \h0c7c,
    ReadLocalOobExtendedData |-> \h0c7d, ConfigureDataPath |-> \h0c83,
    ReadLocalVersionInformation |-> \h1001, ReadLocalSupportedCommands |-> \h1002,
    ReadLocalSupportedFeatures |-> \h1003, ReadLocalExtendedFeatures |-> \h1004,
    ReadBufferSize |-> \h1005, ReadBdAddr |-> \h1009, ReadLocalSupportedCodecs |-> \h100b,
    ReadLocalSupportedCodecsV2 |-> \h100d]

OpCodesControllerAndLe == [
    ReadRssi |-> \h1405, ReadEncryptionKeySize |-> \h1408, ReadLoopbackMode |-> \h1801,
    WriteLoopbackMode |-> \h1802, LeSetEventMask |-> \h2001, LeReadBufferSize |-> \h2002,
    LeReadLocalSupportedFeatures |-> \h2003, LeSetRandomAddress |-> \h2005,
    LeSetAdvertisingParameters |-> \h2006, LeReadAdvertisingPhysicalChannelTxPower |-> \h2007,
    LeSetAdvertisingData |-> \h2008, LeSetScanResponseData |-> \h2009,
    LeSetAdvertisingEnable |-> \h200a, LeSetScanParameters |-> \h200b,
    LeSetScanEnable |-> \h200c, LeCreateConnection |-> \h200d,
    LeCreateConnectionCancel |-> \h200e, LeReadFilterAcceptListSize |-> \h200f,
    LeClearFilterAcceptList |-> \h2010, LeAddDeviceToFilterAcceptList |-> \h2011,
    LeRemoveDeviceFromFilterAcceptList |-> \h2012, LeConnectionUpdate |-> \h2013,
    LeReadRemoteFeatures |-> \h2016, LeRand |-> \h2018, LeEnableEncryption |-> \h2019,
    LeLongTermKeyRequestReply |-> \h201a, LeLongTermKeyRequestNegativeReply |-> \h201b,
    LeReadSupportedStates |-> \h201c, LeRemoteConnectionParameterRequestReply |-> \h2020,
    LeRemoteConnectionParameterRequestNegativeReply |-> \h2021, LeSetDataLength |-> \h2022,
    LeReadSuggestedDefaultDataLength |-> \h2023, LeWriteSuggestedDefaultDataLength |-> \h2024,
    LeReadLocalP256PublicKey |-> \h2025, LeAddDeviceToResolvingList |-> \h2027,
    LeClearResolvingList |-> \h2029, LeReadResolvingListSize |-> \h202a,
    LeSetAddressResolutionEnable |-> \h202d, LeSetResolvablePrivateAddressTimeout |-> \h202e,
    LeReadMaximumDataLength |-> \h202f, LeReadPhy |-> \h2030, LeSetDefaultPhy |-> \h2031,
    LeSetPhy |-> \h2032, LeSetAdvertisingSetRandomAddress |-> \h2035,
    LeSetExtendedAdvertisingParameters |-> \h2036, LeSetExtendedAdvertisingData |-> \h2037,
    LeSetExtendedScanResponseData |-> \h2038, LeSetExtendedAdvertisingEnable |-> \h2039,
    LeReadMaximumAdvertisingDataLength |-> \h203a,
    LeReadNumberOfSupportedAdvertisingSets |-> \h203b, LeRemoveAdvertisingSet |-> \h203c,
    LeClearAdvertisingSets |-> \h203d, LeSetPeriodicAdvertisingParameters |-> \h203e,
    LeSetPeriodicAdvertisingData |-> \h203f, LeSetPeriodicAdvertisingEnable |-> \h2040,
    LeSetExtendedScanEnable |-> \h2042, LePeriodicAdvertisingCreateSync |-> \h2044,
    LePeriodicAdvertisingCreateSyncCancel |-> \h2045,
    LePeriodicAdvertisingTerminateSync |-> \h2046, LeReadTransmitPower |-> \h204b,
    LeSetPrivacyMode |-> \h204e, LeSetPeriodicAdvertisingReceiveEnable |-> \h2059,
    LePeriodicAdvertisingSyncTransfer |-> \h205a,
    LePeriodicAdvertisingSetInfoTransfer |-> \h205b,
    LeSetPeriodicAdvertisingSyncTransferParameters |-> \h205c,
    LeSetDefaultPeriodicAdvertisingSyncTransferParameters |-> \h205d,
    LeReadBufferSizeV2 |-> \h2060, LeReadIsoTxSync |-> \h2061, LeSetCigParameters |-> \h2062,
    LeCreateCis |-> \h2064, LeRemoveCig |-> \h2065, LeAcceptCisRequest |-> \h2066,
    LeRejectCisRequest |-> \h2067, LeCreateBig |-> \h2068, LeTerminateBig |-> \h206a,
    LeBigCreateSync |-> \h206b, LeBigTerminateSync |-> \h206c, LeSetupIsoDataPath |-> \h206e,
    LeRemoveIsoDataPath |-> \h206f, LeSetHostFeature |-> \h2074,
    LeSetDefaultSubrate |-> \h207d, LeSubrateRequest |-> \h207e,
    LeReadAllLocalSupportedFeatures |-> \h2087, LeCsReadLocalSupportedCapabilities |-> \h2089,
    LeCsReadRemoteSupportedCapabilities |-> \h208a]

OpCodesLeExtended == [
    LeCsWriteCachedRemoteSupportedCapabilities |-> \h208b, LeCsSecurityEnable |-> \h208c,
    LeCsSetDefaultSettings |-> \h208d, LeCsReadRemoteFaeTable |-> \h208e,
    LeCsWriteCachedRemoteFaeTable |-> \h208f, LeCsCreateConfig |-> \h2090,
    LeCsRemoveConfig |-> \h2091, LeCsSetChannelClassification |-> \h2092,
    LeCsSetProcedureParameters |-> \h2093, LeCsProcedureEnable |-> \h2094, LeCsTest |-> \h2095,
    LeCsTestEnd |-> \h2096, LeFrameSpaceUpdate |-> \h209d, LeConnectionRateRequest |-> \h20a1,
    LeSetDefaultRateParameters |-> \h20a2, LeReadMinimumSupportedConnectionInterval |-> \h20a3,
    LeSetExtendedScanParameters |-> \h2041, LeExtendedCreateConnection |-> \h2043]

WrittenLinkControl == [
    Inquiry |-> <<U24, U8, U8>>, CreateConnection |-> <<Addr, U16, U8, U8, U16, U8>>,
    Disconnect |-> <<U16, U8>>, CreateConnectionCancel |-> <<Addr>>,
    AcceptConnectionRequest |-> <<Addr, U8>>, RejectConnectionRequest |-> <<Addr, U8>>,
    LinkKeyRequestReply |-> <<Addr, Bytes(16)>>, LinkKeyRequestNegativeReply |-> <<Addr>>,
    PinCodeRequestReply |-> <<Addr, U8, Bytes(16)>>, PinCodeRequestNegativeReply |-> <<Addr>>,
    ChangeConnectionPacketType |-> <<U16, U16>>, AuthenticationRequested |-> <<U16>>,
    SetConnectionEncryption |-> <<U16, U8>>, RemoteNameRequest |-> <<Addr, U8, U8, U16>>,
    ReadRemoteSupportedFeatures |-> <<U16>>, ReadRemoteExtendedFeatures |-> <<U16, U8>>,
    ReadRemoteVersionInformation |-> <<U16>>, ReadClockOffset |-> <<U16>>,
    AcceptSynchronousConnectionRequest |-> <<Addr, U32, U32, U16, U16, U8, U16>>,
    RejectSynchronousConnectionRequest |-> <<Addr, U8>>,
    IoCapabilityRequestReply |-> <<Addr, U8, U8, U8>>,
    UserConfirmationRequestReply |-> <<Addr>>,
    UserConfirmationRequestNegativeReply |-> <<Addr>>,
    UserPasskeyRequestReply |-> <<Addr, U32>>]

WrittenSynchronous == [
    UserPasskeyRequestNegativeReply |-> <<Addr>>,
    RemoteOobDataRequestReply |-> <<Addr, Bytes(16), Bytes(16)>>,
    RemoteOobDataRequestNegativeReply |-> <<Addr>>,
    IoCapabilityRequestNegativeReply |-> <<Addr, U8>>,
    EnhancedSetupSynchronousConnection |-> <<U16, U32, U32, Coding, Coding, U16, U16, U32,
        U32, Coding, Coding, U16, U16, U8, U8, U8, U8, U8, U8, U8, U8, U16, U16, U8>>,
    EnhancedAcceptSynchronousConnectionRequest |-> <<Addr, U32, U32, Coding, Coding, U16,
        U16, U32, U32, Coding, Coding, U16, U16, U8, U8, U8, U8, U8, U8, U8, U8, U16, U16, U8>>,
    TruncatedPage |-> <<Addr, U8, U16>>, TruncatedPageCancel |-> <<Addr>>,
    SetConnectionlessPeripheralBroadcast |-> <<U8, U8, U8, U16, U16, U16, U16>>]

WrittenLinkPolicy == [
    SetConnectionlessPeripheralBroadcastReceive |-> <<U8, Addr, U8, U16, U32, U32, U16, U8,
        U8, U16, Bytes(10)>>,
    ReceiveSynchronizationTrain |-> <<Addr, U16, U16, U16>>,
    RemoteOobExtendedDataRequestReply |-> <<Addr, Bytes(16), Bytes(16), Bytes(16), Bytes(16)>>,
    SniffMode |-> <<U16, U16, U16, U16, U16>>, ExitSniffMode |-> <<U16>>,
    SwitchRole |-> <<Addr, U8>>, WriteLinkPolicySettings |-> <<U16, U16>>,
    WriteDefaultLinkPolicySettings |-> <<U16>>, SniffSubrating |-> <<U16, U16, U16, U16>>,
    SetEventMask |-> <<Bytes(8)>>, SetEventFilter |-> <<U8, Rest>>,
    ReadStoredLinkKey |-> <<Addr, U8>>, DeleteStoredLinkKey |-> <<Addr, U8>>,
    WriteLocalName |-> <<Bytes(248)>>, WriteConnectionAcceptTimeout |-> <<U16>>,
    WritePageTimeout |-> <<U16>>, WriteScanEnable |-> <<U8>>,
    WritePageScanActivity |-> <<U16, U16>>, WriteInquiryScanActivity |-> <<U16, U16>>,
    WriteAuthenticationEnable |-> <<U8>>]

WrittenControllerBaseband == [
    WriteClassOfDevice |-> <<U24>>, WriteVoiceSetting |-> <<U16>>,
    WriteSynchronousFlowControlEnable |-> <<U8>>, SetControllerToHostFlowControl |-> <<U8>>,
    HostBufferSize |-> <<U16, U8, U16, U16>>, WriteLinkSupervisionTimeout |-> <<U16, U16>>,
    WriteInquiryScanType |-> <<U8>>, WriteInquiryMode |-> <<U8>>, WritePageScanType |-> <<U8>>,
    WriteExtendedInquiryResponse |-> <<U8, Bytes(240)>>, WriteSimplePairingMode |-> <<U8>>,
    SetEventMaskPage2 |-> <<Bytes(8)>>, WriteLeHostSupport |-> <<U8, U8>>,
    WriteSecureConnectionsHostSupport |-> <<U8>>,
    WriteAuthenticatedPayloadTimeout |-> <<U16, U16>>, ConfigureDataPath |-> <<U8, U8, Rest>>,
    ReadLocalExtendedFeatures |-> <<U8>>, ReadRssi |-> <<U16>>,
    ReadEncryptionKeySize |-> <<U16>>, WriteLoopbackMode |-> <<U8>>,
    LeSetEventMask |-> <<Bytes(8)>>, LeSetRandomAddress |-> <<Addr>>,
    LeSetAdvertisingParameters |-> <<U16, U16, U8, U8, U8, Addr, U8, U8>>,
    LeSetAdvertisingData |-> <<Padded(31)>>, LeSetScanResponseData |-> <<Padded(31)>>,
    LeSetAdvertisingEnable |-> <<U8>>, LeSetScanParameters |-> <<U8, U16, U16, U8, U8>>]

WrittenLeControl == [
    LeSetScanEnable |-> <<U8, U8>>,
    LeCreateConnection |-> <<U16, U16, U8, U8, Addr, U8, U16, U16, U16, U16, U16, U16>>,
    LeAddDeviceToFilterAcceptList |-> <<U8, Addr>>,
    LeRemoveDeviceFromFilterAcceptList |-> <<U8, Addr>>,
    LeConnectionUpdate |-> <<U16, U16, U16, U16, U16, U16, U16>>,
    LeReadRemoteFeatures |-> <<U16>>, LeEnableEncryption |-> <<U16, Bytes(8), U16, Bytes(16)>>,
    LeLongTermKeyRequestReply |-> <<U16, Bytes(16)>>,
    LeLongTermKeyRequestNegativeReply |-> <<U16>>,
    LeRemoteConnectionParameterRequestReply |-> <<U16, U16, U16, U16, U16, U16, U16>>,
    LeRemoteConnectionParameterRequestNegativeReply |-> <<U16, U8>>,
    LeSetDataLength |-> <<U16, U16, U16>>, LeWriteSuggestedDefaultDataLength |-> <<U16, U16>>,
    LeAddDeviceToResolvingList |-> <<U8, Addr, Bytes(16), Bytes(16)>>,
    LeSetAddressResolutionEnable |-> <<U8>>, LeSetResolvablePrivateAddressTimeout |-> <<U16>>]

WrittenLeExtendedAdvertising == [
    LeReadPhy |-> <<U16>>, LeSetDefaultPhy |-> <<U8, U8, U8>>,
    LeSetPhy |-> <<U16, U8, U8, U8, U16>>, LeSetAdvertisingSetRandomAddress |-> <<U8, Addr>>,
    LeSetExtendedAdvertisingParameters |-> <<U8, U16, U24, U24, U8, U8, U8, Addr, U8, U8,
        U8, U8, U8, U8, U8>>,
    LeSetExtendedAdvertisingData |-> <<U8, U8, U8, Data>>,
    LeSetExtendedScanResponseData |-> <<U8, U8, U8, Data>>,
    LeSetExtendedAdvertisingEnable |-> <<U8, Each(<<U8, U16, U8>>)>>,
    LeRemoveAdvertisingSet |-> <<U8>>,
    LeSetPeriodicAdvertisingParameters |-> <<U8, U16, U16, U16>>,
    LeSetPeriodicAdvertisingData |-> <<U8, U8, Data>>,
    LeSetPeriodicAdvertisingEnable |-> <<U8, U8>>,
    LeSetExtendedScanEnable |-> <<U8, U8, U16, U16>>]

WrittenLePeriodicAndCis == [
    LePeriodicAdvertisingCreateSync |-> <<U8, U8, U8, Addr, U16, U16, U8>>,
    LePeriodicAdvertisingTerminateSync |-> <<U16>>, LeSetPrivacyMode |-> <<U8, Addr, U8>>,
    LeSetPeriodicAdvertisingReceiveEnable |-> <<U16, U8>>,
    LePeriodicAdvertisingSyncTransfer |-> <<U16, U16, U16>>,
    LePeriodicAdvertisingSetInfoTransfer |-> <<U16, U16, U8>>,
    LeSetPeriodicAdvertisingSyncTransferParameters |-> <<U16, U8, U16, U16, U8>>,
    LeSetDefaultPeriodicAdvertisingSyncTransferParameters |-> <<U8, U16, U16, U8>>,
    LeReadIsoTxSync |-> <<U16>>,
    LeSetCigParameters |-> <<U8, U24, U24, U8, U8, U8, U16, U16, Each(<<U8, U16, U16, U8,
        U8, U8, U8>>)>>,
    LeCreateCis |-> <<Each(<<U16, U16>>)>>, LeRemoveCig |-> <<U8>>,
    LeAcceptCisRequest |-> <<U16>>, LeRejectCisRequest |-> <<U16, U8>>]

WrittenLeBigAndPower == [
    LeCreateBig |-> <<U8, U8, U8, U24, U16, U16, U8, U8, U8, U8, U8, Bytes(16)>>,
    LeTerminateBig |-> <<U8, U8>>,
    LeBigCreateSync |-> <<U8, U16, U8, Bytes(16), U8, U16, Each(<<U8>>)>>,
    LeBigTerminateSync |-> <<U8>>, LeSetupIsoDataPath |-> <<U16, U8, U8, Coding, U24, Data>>,
    LeRemoveIsoDataPath |-> <<U16, U8>>, LeSetHostFeature |-> <<U8, U8>>,
    LeSetDefaultSubrate |-> <<U16, U16, U16, U16, U16>>,
    LeSubrateRequest |-> <<U16, U16, U16, U16, U16, U16>>,
    LeCsReadRemoteSupportedCapabilities |-> <<U16>>]

WrittenLeChannelSounding == [
    LeCsWriteCachedRemoteSupportedCapabilities |-> <<U16, U8, U16, U8, U8, U8, U8, U8, U8,
        U8, U8, U16, U16, U8, U16, U16, U16, U16, U16, U8, U8>>,
    LeCsSecurityEnable |-> <<U16>>, LeCsSetDefaultSettings |-> <<U16, U8, U8, U8>>,
    LeCsReadRemoteFaeTable |-> <<U16>>, LeCsWriteCachedRemoteFaeTable |-> <<U16, Bytes(72)>>,
    LeCsCreateConfig |-> <<U16, U8, U8, U8, U8, U8, U8, U8, U8, U8, U8, U8, Bytes(10), U8,
        U8, U8, U8, U8>>,
    LeCsRemoveConfig |-> <<U16, U8>>, LeCsSetChannelClassification |-> <<Bytes(10)>>]

WrittenLeProcedure == [
    LeCsSetProcedureParameters |-> <<U16, U8, U16, U16, U16, U16, U24, U24, U8, U8, U8, U8,
        U8, U8>>,
    LeCsProcedureEnable |-> <<U16, U8, U8>>,
    LeCsTest |-> <<U8, U8, U8, U8, U8, U8, U8, U8, U24, U16, U8, U8, U8, U8, U8, U8, U8, U8,
        U8, U8, U8, U16, U8, U16, Data>>,
    LeFrameSpaceUpdate |-> <<U16, U16, U16, U8, U16>>,
    LeConnectionRateRequest |-> <<U16, U16, U16, U16, U16, U16, U16, U16, U16, U16>>]

WrittenLeExtendedScan == [
    LeSetDefaultRateParameters |-> <<U16, U16, U16, U16, U16, U16, U16, U16, U16>>,
    LeSetExtendedScanParameters |-> <<U8, U8, U8, PerPhy(<<U8, U16, U16>>)>>,
    LeExtendedCreateConnection |-> <<U8, U8, U8, Addr, U8, PerPhy(<<U16, U16, U16, U16, U16,
        U16, U16, U16>>)>>]

\* Variants whose arm writes nothing.
WrittenEmpty == {
    "InquiryCancel", "StartSynchronizationTrain", "Reset", "ReadLocalName",
    "ReadPageScanActivity", "ReadAuthenticationEnable", "ReadClassOfDevice", "ReadVoiceSetting",
    "ReadSynchronousFlowControlEnable", "ReadNumberOfSupportedIac", "ReadCurrentIacLap",
    "ReadPageScanType", "ReadLocalOobData", "ReadInquiryResponseTransmitPowerLevel",
    "ReadDefaultErroneousDataReporting", "ReadLeHostSupport", "ReadLocalOobExtendedData",
    "ReadLocalVersionInformation", "ReadLocalSupportedCommands", "ReadLocalSupportedFeatures",
    "ReadBufferSize", "ReadBdAddr", "ReadLocalSupportedCodecs", "ReadLocalSupportedCodecsV2",
    "ReadLoopbackMode", "LeReadBufferSize", "LeReadLocalSupportedFeatures",
    "LeReadAdvertisingPhysicalChannelTxPower", "LeCreateConnectionCancel",
    "LeReadFilterAcceptListSize", "LeClearFilterAcceptList", "LeRand", "LeReadSupportedStates",
    "LeReadSuggestedDefaultDataLength", "LeReadLocalP256PublicKey", "LeClearResolvingList",
    "LeReadResolvingListSize", "LeReadMaximumDataLength", "LeReadMaximumAdvertisingDataLength",
    "LeReadNumberOfSupportedAdvertisingSets", "LeClearAdvertisingSets",
    "LePeriodicAdvertisingCreateSyncCancel", "LeReadTransmitPower", "LeReadBufferSizeV2",
    "LeReadAllLocalSupportedFeatures", "LeCsReadLocalSupportedCapabilities", "LeCsTestEnd",
    "LeReadMinimumSupportedConnectionInterval"}

ReadLinkControl == [
    Inquiry |-> By(\h0401, <<U24, U8, U8>>), InquiryCancel |-> By(\h0402, <<>>),
    CreateConnection |-> By(\h0405, <<Addr, U16, U8, U8, U16, U8>>),
    Disconnect |-> By(\h0406, <<U16, U8>>), CreateConnectionCancel |-> By(\h0408, <<Addr>>),
    AcceptConnectionRequest |-> By(\h0409, <<Addr, U8>>),
    RejectConnectionRequest |-> By(\h040a, <<Addr, U8>>),
    LinkKeyRequestReply |-> By(\h040b, <<Addr, Bytes(16)>>),
    LinkKeyRequestNegativeReply |-> By(\h040c, <<Addr>>),
    PinCodeRequestReply |-> By(\h040d, <<Addr, U8, Bytes(16)>>),
    PinCodeRequestNegativeReply |-> By(\h040e, <<Addr>>),
    ChangeConnectionPacketType |-> By(\h040f, <<U16, U16>>),
    AuthenticationRequested |-> By(\h0411, <<U16>>),
    SetConnectionEncryption |-> By(\h0413, <<U16, U8>>),
    RemoteNameRequest |-> By(\h0419, <<Addr, U8, U8, U16>>),
    ReadRemoteSupportedFeatures |-> By(\h041b, <<U16>>),
    ReadRemoteExtendedFeatures |-> By(\h041c, <<U16, U8>>),
    ReadRemoteVersionInformation |-> By(\h041d, <<U16>>),
    ReadClockOffset |-> By(\h041f, <<U16>>),
    AcceptSynchronousConnectionRequest |-> By(\h0429, <<Addr, U32, U32, U16, U16, U8, U16>>),
    RejectSynchronousConnectionRequest |-> By(\h042a, <<Addr, U8>>)]

ReadPairing == [
    IoCapabilityRequestReply |-> By(\h042b, <<Addr, U8, U8, U8>>),
    UserConfirmationRequestReply |-> By(\h042c, <<Addr>>),
    UserConfirmationRequestNegativeReply |-> By(\h042d, <<Addr>>),
    UserPasskeyRequestReply |-> By(\h042e, <<Addr, U32>>),
    UserPasskeyRequestNegativeReply |-> By(\h042f, <<Addr>>),
    RemoteOobDataRequestReply |-> By(\h0430, <<Addr, Bytes(16), Bytes(16)>>),
    RemoteOobDataRequestNegativeReply |-> By(\h0433, <<Addr>>),
    IoCapabilityRequestNegativeReply |-> By(\h0434, <<Addr, U8>>),
    EnhancedSetupSynchronousConnection |-> By(\h043d, <<U16, U32, U32, Coding, Coding, U16,
        U16, U32, U32, Coding, Coding, U16, U16, U8, U8, U8, U8, U8, U8, U8, U8, U16, U16,
        U8>>)]

ReadSynchronous == [
    EnhancedAcceptSynchronousConnectionRequest |-> By(\h043e, <<Addr, U32, U32, Coding,
        Coding, U16, U16, U32, U32, Coding, Coding, U16, U16, U8, U8, U8, U8, U8, U8, U8, U8,
        U16, U16, U8>>),
    TruncatedPage |-> By(\h043f, <<Addr, U8, U16>>),
    TruncatedPageCancel |-> By(\h0440, <<Addr>>),
    SetConnectionlessPeripheralBroadcast |-> By(\h0441, <<U8, U8, U8, U16, U16, U16, U16>>),
    SetConnectionlessPeripheralBroadcastReceive |-> By(\h0442, <<U8, Addr, U8, U16, U32,
        U32, U16, U8, U8, U16, Bytes(10)>>),
    StartSynchronizationTrain |-> By(\h0443, <<>>),
    ReceiveSynchronizationTrain |-> By(\h0444, <<Addr, U16, U16, U16>>),
    RemoteOobExtendedDataRequestReply |-> By(\h0445, <<Addr, Bytes(16), Bytes(16),
        Bytes(16), Bytes(16)>>)]

ReadLinkPolicyAndBaseband == [
    SniffMode |-> By(\h0803, <<U16, U16, U16, U16, U16>>),
    ExitSniffMode |-> By(\h0804, <<U16>>), SwitchRole |-> By(\h080b, <<Addr, U8>>),
    WriteLinkPolicySettings |-> By(\h080d, <<U16, U16>>),
    WriteDefaultLinkPolicySettings |-> By(\h080f, <<U16>>),
    SniffSubrating |-> By(\h0811, <<U16, U16, U16, U16>>),
    SetEventMask |-> By(\h0c01, <<Bytes(8)>>), Reset |-> By(\h0c03, <<>>),
    SetEventFilter |-> By(\h0c05, <<U8, Rest>>),
    ReadStoredLinkKey |-> By(\h0c0d, <<Addr, U8>>),
    DeleteStoredLinkKey |-> By(\h0c12, <<Addr, U8>>),
    WriteLocalName |-> By(\h0c13, <<Bytes(248)>>), ReadLocalName |-> By(\h0c14, <<>>),
    WriteConnectionAcceptTimeout |-> By(\h0c16, <<U16>>),
    WritePageTimeout |-> By(\h0c18, <<U16>>), WriteScanEnable |-> By(\h0c1a, <<U8>>),
    ReadPageScanActivity |-> By(\h0c1b, <<>>),
    WritePageScanActivity |-> By(\h0c1c, <<U16, U16>>),
    WriteInquiryScanActivity |-> By(\h0c1e, <<U16, U16>>),
    ReadAuthenticationEnable |-> By(\h0c1f, <<>>),
    WriteAuthenticationEnable |-> By(\h0c20, <<U8>>), ReadClassOfDevice |-> By(\h0c23, <<>>),
    WriteClassOfDevice |-> By(\h0c24, <<U24>>), ReadVoiceSetting |-> By(\h0c25, <<>>),
    WriteVoiceSetting |-> By(\h0c26, <<U16>>),
    ReadSynchronousFlowControlEnable |-> By(\h0c2e, <<>>),
    WriteSynchronousFlowControlEnable |-> By(\h0c2f, <<U8>>),
    SetControllerToHostFlowControl |-> By(\h0c31, <<U8>>)]

ReadControllerAndInformation == [
    HostBufferSize |-> By(\h0c33, <<U16, U8, U16, U16>>),
    WriteLinkSupervisionTimeout |-> By(\h0c37, <<U16, U16>>),
    ReadNumberOfSupportedIac |-> By(\h0c38, <<>>), ReadCurrentIacLap |-> By(\h0c39, <<>>),
    WriteInquiryScanType |-> By(\h0c43, <<U8>>), WriteInquiryMode |-> By(\h0c45, <<U8>>),
    ReadPageScanType |-> By(\h0c46, <<>>), WritePageScanType |-> By(\h0c47, <<U8>>),
    WriteExtendedInquiryResponse |-> By(\h0c52, <<U8, Bytes(240)>>),
    WriteSimplePairingMode |-> By(\h0c56, <<U8>>), ReadLocalOobData |-> By(\h0c57, <<>>),
    ReadInquiryResponseTransmitPowerLevel |-> By(\h0c58, <<>>),
    ReadDefaultErroneousDataReporting |-> By(\h0c5a, <<>>),
    SetEventMaskPage2 |-> By(\h0c63, <<Bytes(8)>>), ReadLeHostSupport |-> By(\h0c6c, <<>>),
    WriteLeHostSupport |-> By(\h0c6d, <<U8, U8>>),
    WriteSecureConnectionsHostSupport |-> By(\h0c7a, <<U8>>),
    WriteAuthenticatedPayloadTimeout |-> By(\h0c7c, <<U16, U16>>),
    ReadLocalOobExtendedData |-> By(\h0c7d, <<>>),
    ConfigureDataPath |-> By(\h0c83, <<U8, U8, Rest>>),
    ReadLocalVersionInformation |-> By(\h1001, <<>>),
    ReadLocalSupportedCommands |-> By(\h1002, <<>>),
    ReadLocalSupportedFeatures |-> By(\h1003, <<>>),
    ReadLocalExtendedFeatures |-> By(\h1004, <<U8>>), ReadBufferSize |-> By(\h1005, <<>>),
    ReadBdAddr |-> By(\h1009, <<>>), ReadLocalSupportedCodecs |-> By(\h100b, <<>>),
    ReadLocalSupportedCodecsV2 |-> By(\h100d, <<>>), ReadRssi |-> By(\h1405, <<U16>>),
    ReadEncryptionKeySize |-> By(\h1408, <<U16>>), ReadLoopbackMode |-> By(\h1801, <<>>),
    WriteLoopbackMode |-> By(\h1802, <<U8>>), LeSetEventMask |-> By(\h2001, <<Bytes(8)>>),
    LeReadBufferSize |-> By(\h2002, <<>>), LeReadLocalSupportedFeatures |-> By(\h2003, <<>>),
    LeSetRandomAddress |-> By(\h2005, <<RandomAddr>>),
    LeSetAdvertisingParameters |-> By(\h2006, <<U16, U16, U8, U8, U8, RandomAddr, U8, U8>>)]

ReadLeControl == [
    LeReadAdvertisingPhysicalChannelTxPower |-> By(\h2007, <<>>),
    LeSetAdvertisingData |-> By(\h2008, <<Padded(31)>>),
    LeSetScanResponseData |-> By(\h2009, <<Padded(31)>>),
    LeSetAdvertisingEnable |-> By(\h200a, <<U8>>),
    LeSetScanParameters |-> By(\h200b, <<U8, U16, U16, U8, U8>>),
    LeSetScanEnable |-> By(\h200c, <<U8, U8>>),
    LeCreateConnection |-> By(\h200d, <<U16, U16, U8, U8, RandomAddr, U8, U16, U16, U16,
        U16, U16, U16>>),
    LeCreateConnectionCancel |-> By(\h200e, <<>>),
    LeReadFilterAcceptListSize |-> By(\h200f, <<>>),
    LeClearFilterAcceptList |-> By(\h2010, <<>>),
    LeAddDeviceToFilterAcceptList |-> By(\h2011, <<U8, RandomAddr>>),
    LeRemoveDeviceFromFilterAcceptList |-> By(\h2012, <<U8, RandomAddr>>),
    LeConnectionUpdate |-> By(\h2013, <<U16, U16, U16, U16, U16, U16, U16>>),
    LeReadRemoteFeatures |-> By(\h2016, <<U16>>), LeRand |-> By(\h2018, <<>>),
    LeEnableEncryption |-> By(\h2019, <<U16, Bytes(8), U16, Bytes(16)>>),
    LeLongTermKeyRequestReply |-> By(\h201a, <<U16, Bytes(16)>>),
    LeLongTermKeyRequestNegativeReply |-> By(\h201b, <<U16>>),
    LeReadSupportedStates |-> By(\h201c, <<>>)]

ReadLeKeysAndPhy == [
    LeRemoteConnectionParameterRequestReply |-> By(\h2020, <<U16, U16, U16, U16, U16, U16, U16>>),
    LeRemoteConnectionParameterRequestNegativeReply |-> By(\h2021, <<U16, U8>>),
    LeSetDataLength |-> By(\h2022, <<U16, U16, U16>>),
    LeReadSuggestedDefaultDataLength |-> By(\h2023, <<>>),
    LeWriteSuggestedDefaultDataLength |-> By(\h2024, <<U16, U16>>),
    LeReadLocalP256PublicKey |-> By(\h2025, <<>>),
    LeAddDeviceToResolvingList |-> By(\h2027, <<U8, RandomAddr, Bytes(16), Bytes(16)>>),
    LeClearResolvingList |-> By(\h2029, <<>>), LeReadResolvingListSize |-> By(\h202a, <<>>),
    LeSetAddressResolutionEnable |-> By(\h202d, <<U8>>),
    LeSetResolvablePrivateAddressTimeout |-> By(\h202e, <<U16>>),
    LeReadMaximumDataLength |-> By(\h202f, <<>>), LeReadPhy |-> By(\h2030, <<U16>>),
    LeSetDefaultPhy |-> By(\h2031, <<U8, U8, U8>>),
    LeSetPhy |-> By(\h2032, <<U16, U8, U8, U8, U16>>),
    LeSetAdvertisingSetRandomAddress |-> By(\h2035, <<U8, RandomAddr>>),
    LeSetExtendedAdvertisingParameters |-> By(\h2036, <<U8, U16, U24, U24, U8, U8, U8,
        RandomAddr, U8, U8, U8, U8, U8, U8, U8>>)]

ReadLeExtendedAdvertising == [
    LeSetExtendedAdvertisingData |-> By(\h2037, <<U8, U8, U8, Data>>),
    LeSetExtendedScanResponseData |-> By(\h2038, <<U8, U8, U8, Data>>),
    LeSetExtendedAdvertisingEnable |-> By(\h2039, <<U8, Each(<<U8, U16, U8>>)>>),
    LeReadMaximumAdvertisingDataLength |-> By(\h203a, <<>>),
    LeReadNumberOfSupportedAdvertisingSets |-> By(\h203b, <<>>),
    LeRemoveAdvertisingSet |-> By(\h203c, <<U8>>), LeClearAdvertisingSets |-> By(\h203d, <<>>),
    LeSetPeriodicAdvertisingParameters |-> By(\h203e, <<U8, U16, U16, U16>>),
    LeSetPeriodicAdvertisingData |-> By(\h203f, <<U8, U8, Data>>),
    LeSetPeriodicAdvertisingEnable |-> By(\h2040, <<U8, U8>>),
    LeSetExtendedScanEnable |-> By(\h2042, <<U8, U8, U16, U16>>),
    LePeriodicAdvertisingCreateSync |-> By(\h2044, <<U8, U8, U8, RandomAddr, U16, U16, U8>>),
    LePeriodicAdvertisingCreateSyncCancel |-> By(\h2045, <<>>),
    LePeriodicAdvertisingTerminateSync |-> By(\h2046, <<U16>>),
    LeReadTransmitPower |-> By(\h204b, <<>>),
    LeSetPrivacyMode |-> By(\h204e, <<U8, RandomAddr, U8>>),
    LeSetPeriodicAdvertisingReceiveEnable |-> By(\h2059, <<U16, U8>>)]

ReadLeTransferAndCis == [
    LePeriodicAdvertisingSyncTransfer |-> By(\h205a, <<U16, U16, U16>>),
    LePeriodicAdvertisingSetInfoTransfer |-> By(\h205b, <<U16, U16, U8>>),
    LeSetPeriodicAdvertisingSyncTransferParameters |-> By(\h205c, <<U16, U8, U16, U16, U8>>),
    LeSetDefaultPeriodicAdvertisingSyncTransferParameters |-> By(\h205d, <<U8, U16, U16, U8>>),
    LeReadBufferSizeV2 |-> By(\h2060, <<>>), LeReadIsoTxSync |-> By(\h2061, <<U16>>),
    LeSetCigParameters |-> By(\h2062, <<U8, U24, U24, U8, U8, U8, U16, U16, Each(<<U8, U16,
        U16, U8, U8, U8, U8>>)>>),
    LeCreateCis |-> By(\h2064, <<Each(<<U16, U16>>)>>), LeRemoveCig |-> By(\h2065, <<U8>>),
    LeAcceptCisRequest |-> By(\h2066, <<U16>>), LeRejectCisRequest |-> By(\h2067, <<U16, U8>>)]

ReadLeBigAndPower == [
    LeCreateBig |-> By(\h2068, <<U8, U8, U8, U24, U16, U16, U8, U8, U8, U8, U8, Bytes(16)>>),
    LeTerminateBig |-> By(\h206a, <<U8, U8>>),
    LeBigCreateSync |-> By(\h206b, <<U8, U16, U8, Bytes(16), U8, U16, Each(<<U8>>)>>),
    LeBigTerminateSync |-> By(\h206c, <<U8>>),
    LeSetupIsoDataPath |-> By(\h206e, <<U16, U8, U8, Coding, U24, Data>>),
    LeRemoveIsoDataPath |-> By(\h206f, <<U16, U8>>),
    LeSetHostFeature |-> By(\h2074, <<U8, U8>>),
    LeSetDefaultSubrate |-> By(\h207d, <<U16, U16, U16, U16, U16>>),
    LeSubrateRequest |-> By(\h207e, <<U16, U16, U16, U16, U16, U16>>),
    LeReadAllLocalSupportedFeatures |-> By(\h2087, <<>>),
    LeCsReadLocalSupportedCapabilities |-> By(\h2089, <<>>),
    LeCsReadRemoteSupportedCapabilities |-> By(\h208a, <<U16>>)]

ReadLeChannelSounding == [
    LeCsWriteCachedRemoteSupportedCapabilities |-> By(\h208b, <<U16, U8, U16, U8, U8, U8,
        U8, U8, U8, U8, U8, U16, U16, U8, U16, U16, U16, U16, U16, U8, U8>>),
    LeCsSecurityEnable |-> By(\h208c, <<U16>>),
    LeCsSetDefaultSettings |-> By(\h208d, <<U16, U8, U8, U8>>),
    LeCsReadRemoteFaeTable |-> By(\h208e, <<U16>>),
    LeCsWriteCachedRemoteFaeTable |-> By(\h208f, <<U16, Bytes(72)>>),
    LeCsCreateConfig |-> By(\h2090, <<U16, U8, U8, U8, U8, U8, U8, U8, U8, U8, U8, U8,
        Bytes(10), U8, U8, U8, U8, U8>>),
    LeCsRemoveConfig |-> By(\h2091, <<U16, U8>>),
    LeCsSetChannelClassification |-> By(\h2092, <<Bytes(10)>>)]

ReadLeProcedure == [
    LeCsSetProcedureParameters |-> By(\h2093, <<U16, U8, U16, U16, U16, U16, U24, U24, U8,
        U8, U8, U8, U8, U8>>),
    LeCsProcedureEnable |-> By(\h2094, <<U16, U8, U8>>),
    LeCsTest |-> By(\h2095, <<U8, U8, U8, U8, U8, U8, U8, U8, U24, U16, U8, U8, U8, U8, U8,
        U8, U8, U8, U8, U8, U8, U16, U8, U16, Data>>),
    LeCsTestEnd |-> By(\h2096, <<>>),
    LeFrameSpaceUpdate |-> By(\h209d, <<U16, U16, U16, U8, U16>>),
    LeConnectionRateRequest |-> By(\h20a1, <<U16, U16, U16, U16, U16, U16, U16, U16, U16, U16>>)]

ReadLeExtendedScan == [
    LeSetDefaultRateParameters |-> By(\h20a2, <<U16, U16, U16, U16, U16, U16, U16, U16, U16>>),
    LeReadMinimumSupportedConnectionInterval |-> By(\h20a3, <<>>),
    LeSetExtendedScanParameters |-> By(\h2041, <<U8, U8, U8, PerPhy(<<U8, U16, U16>>)>>),
    LeExtendedCreateConnection |-> By(\h2043, <<U8, U8, U8, RandomAddr, U8, PerPhy(<<U16,
        U16, U16, U16, U16, U16, U16, U16>>)>>)]

CommandFields ==
    FieldsLinkControl @@ FieldsLinkPolicy @@ FieldsControllerBaseband
    @@ FieldsLeConnections @@ FieldsLeIsochronous @@ FieldsLeChannelSounding
    @@ FieldsLeExtendedScan

CommandCode ==
    OpCodesClassic @@ OpCodesControllerAndLe @@ OpCodesLeExtended

CommandWritten ==
    WrittenLinkControl @@ WrittenSynchronous @@ WrittenLinkPolicy
    @@ WrittenControllerBaseband @@ WrittenLeControl @@ WrittenLeExtendedAdvertising
    @@ WrittenLePeriodicAndCis @@ WrittenLeBigAndPower @@ WrittenLeChannelSounding
    @@ WrittenLeProcedure @@ WrittenLeExtendedScan @@ [n \in WrittenEmpty |-> <<>>]

CommandRead ==
    ReadLinkControl @@ ReadPairing @@ ReadSynchronous
    @@ ReadLinkPolicyAndBaseband @@ ReadControllerAndInformation @@ ReadLeControl
    @@ ReadLeKeysAndPhy @@ ReadLeExtendedAdvertising @@ ReadLeTransferAndCis
    @@ ReadLeBigAndPower @@ ReadLeChannelSounding @@ ReadLeProcedure
    @@ ReadLeExtendedScan


-----------------------------------------------------------------------------
(* Events, LE meta sub-events and Command Complete return parameters.  A    *)
(* list of report structures is a list per member.                         *)

EventFieldsLinks == [
    InquiryComplete |-> <<U8>>,
    InquiryResult |-> <<List(Addr), List(U8), List(U8), List(U8), List(U32), List(U16)>>,
    ConnectionComplete |-> <<U8, U16, Addr, U8, U8>>, ConnectionRequest |-> <<Addr, U32, U8>>,
    DisconnectionComplete |-> <<U8, U16, U8>>, AuthenticationComplete |-> <<U8, U16>>,
    RemoteNameRequestComplete |-> <<U8, Addr, Bytes(248)>>,
    EncryptionChange |-> <<U8, U16, U8>>,
    ReadRemoteSupportedFeaturesComplete |-> <<U8, U16, Bytes(8)>>,
    ReadRemoteVersionInformationComplete |-> <<U8, U16, U8, U16, U16>>,
    QosSetupComplete |-> <<U8, U16, U8, U8>>, CommandStatus |-> <<U8, U8, U16>>,
    RoleChange |-> <<U8, Addr, U8>>, NumberOfCompletedPackets |-> <<List(U16), List(U16)>>,
    ModeChange |-> <<U8, U16, U8, U16>>, PinCodeRequest |-> <<Addr>>,
    LinkKeyRequest |-> <<Addr>>, LinkKeyNotification |-> <<Addr, Bytes(16), U8>>,
    MaxSlotsChange |-> <<U16, U8>>, ReadClockOffsetComplete |-> <<U8, U16, U16>>,
    ConnectionPacketTypeChanged |-> <<U8, U16, U16>>,
    PageScanRepetitionModeChange |-> <<Addr, U8>>,
    InquiryResultWithRssi |-> <<List(Addr), List(U8), List(U8), List(U32), List(U16), List(U8)>>,
    ReadRemoteExtendedFeaturesComplete |-> <<U8, U16, U8, U8, Bytes(8)>>,
    SynchronousConnectionComplete |-> <<U8, U16, Addr, U8, U8, U8, U16, U16, U8>>,
    SynchronousConnectionChanged |-> <<U8, U16, U8, U8, U16, U16>>]

EventFieldsPairing == [
    SniffSubrating |-> <<U8, U16, U16, U16, U16, U16>>,
    ExtendedInquiryResult |-> <<U8, Addr, U8, U8, U32, U16, U8, Bytes(240)>>,
    EncryptionKeyRefreshComplete |-> <<U8, U16>>, IoCapabilityRequest |-> <<Addr>>,
    IoCapabilityResponse |-> <<Addr, U8, U8, U8>>, UserConfirmationRequest |-> <<Addr, U32>>,
    UserPasskeyRequest |-> <<Addr>>, RemoteOobDataRequest |-> <<Addr>>,
    SimplePairingComplete |-> <<U8, Addr>>, LinkSupervisionTimeoutChanged |-> <<U16, U16>>,
    EnhancedFlushComplete |-> <<U16>>, UserPasskeyNotification |-> <<Addr, U32>>,
    KeypressNotification |-> <<Addr, U8>>,
    RemoteHostSupportedFeaturesNotification |-> <<Addr, Bytes(8)>>,
    EncryptionChangeV2 |-> <<U8, U16, U8, U8>>, Vendor |-> <<Octets>>,
    CommandComplete |-> <<U8, U16, Octets>>]

EventCodes == [
    InquiryComplete |-> \h01, InquiryResult |-> \h02, ConnectionComplete |-> \h03,
    ConnectionRequest |-> \h04, DisconnectionComplete |-> \h05,
    AuthenticationComplete |-> \h06, RemoteNameRequestComplete |-> \h07,
    EncryptionChange |-> \h08, ReadRemoteSupportedFeaturesComplete |-> \h0b,
    ReadRemoteVersionInformationComplete |-> \h0c, QosSetupComplete |-> \h0d,
    CommandStatus |-> \h0f, RoleChange |-> \h12, NumberOfCompletedPackets |-> \h13,
    ModeChange |-> \h14, PinCodeRequest |-> \h16, LinkKeyRequest |-> \h17,
    LinkKeyNotification |-> \h18, MaxSlotsChange |-> \h1b, ReadClockOffsetComplete |-> \h1c,
    ConnectionPacketTypeChanged |-> \h1d, PageScanRepetitionModeChange |-> \h20,
    InquiryResultWithRssi |-> \h22, ReadRemoteExtendedFeaturesComplete |-> \h23,
    SynchronousConnectionComplete |-> \h2c, SynchronousConnectionChanged |-> \h2d,
    SniffSubrating |-> \h2e, ExtendedInquiryResult |-> \h2f,
    EncryptionKeyRefreshComplete |-> \h30, IoCapabilityRequest |-> \h31,
    IoCapabilityResponse |-> \h32, UserConfirmationRequest |-> \h33,
    UserPasskeyRequest |-> \h34, RemoteOobDataRequest |-> \h35, SimplePairingComplete |-> \h36,
    LinkSupervisionTimeoutChanged |-> \h38, EnhancedFlushComplete |-> \h39,
    UserPasskeyNotification |-> \h3b, KeypressNotification |-> \h3c,
    RemoteHostSupportedFeaturesNotification |-> \h3d, EncryptionChangeV2 |-> \h59,
    Vendor |-> \hff, CommandComplete |-> \h0e]

EventWrittenLinks == [
    InquiryComplete |-> <<U8>>, InquiryResult |-> <<Each(<<Addr, U8, U8, U8, U24, U16>>)>>,
    ConnectionComplete |-> <<U8, U16, Addr, U8, U8>>, ConnectionRequest |-> <<Addr, U24, U8>>,
    DisconnectionComplete |-> <<U8, U16, U8>>, AuthenticationComplete |-> <<U8, U16>>,
    RemoteNameRequestComplete |-> <<U8, Addr, Bytes(248)>>,
    EncryptionChange |-> <<U8, U16, U8>>,
    ReadRemoteSupportedFeaturesComplete |-> <<U8, U16, Bytes(8)>>,
    ReadRemoteVersionInformationComplete |-> <<U8, U16, U8, U16, U16>>,
    QosSetupComplete |-> <<U8, U16, U8, U8>>, CommandStatus |-> <<U8, U8, U16>>,
    RoleChange |-> <<U8, Addr, U8>>, NumberOfCompletedPackets |-> <<Each(<<U16, U16>>)>>,
    ModeChange |-> <<U8, U16, U8, U16>>]

EventWrittenKeys == [
    PinCodeRequest |-> <<Addr>>, LinkKeyRequest |-> <<Addr>>,
    LinkKeyNotification |-> <<Addr, Bytes(16), U8>>, MaxSlotsChange |-> <<U16, U8>>,
    ReadClockOffsetComplete |-> <<U8, U16, U16>>,
    ConnectionPacketTypeChanged |-> <<U8, U16, U16>>,
    PageScanRepetitionModeChange |-> <<Addr, U8>>,
    InquiryResultWithRssi |-> <<Each(<<Addr, U8, U8, U24, U16, U8>>)>>,
    ReadRemoteExtendedFeaturesComplete |-> <<U8, U16, U8, U8, Bytes(8)>>,
    SynchronousConnectionComplete |-> <<U8, U16, Addr, U8, U8, U8, U16, U16, U8>>,
    SynchronousConnectionChanged |-> <<U8, U16, U8, U8, U16, U16>>,
    SniffSubrating |-> <<U8, U16, U16, U16, U16, U16>>,
    ExtendedInquiryResult |-> <<U8, Addr, U8, U8, U24, U16, U8, Bytes(240)>>]

EventWrittenPairing == [
    EncryptionKeyRefreshComplete |-> <<U8, U16>>, IoCapabilityRequest |-> <<Addr>>,
    IoCapabilityResponse |-> <<Addr, U8, U8, U8>>, UserConfirmationRequest |-> <<Addr, U32>>,
    UserPasskeyRequest |-> <<Addr>>, RemoteOobDataRequest |-> <<Addr>>,
    SimplePairingComplete |-> <<U8, Addr>>, LinkSupervisionTimeoutChanged |-> <<U16, U16>>,
    EnhancedFlushComplete |-> <<U16>>, UserPasskeyNotification |-> <<Addr, U32>>,
    KeypressNotification |-> <<Addr, U8>>,
    RemoteHostSupportedFeaturesNotification |-> <<Addr, Bytes(8)>>,
    EncryptionChangeV2 |-> <<U8, U16, U8, U8>>, Vendor |-> <<Rest>>,
    CommandComplete |-> <<U8, U16, Rest>>]

EventReadLinks == [
    InquiryComplete |-> By(\h01, <<U8>>),
    InquiryResult |-> By(\h02, <<Each(<<Addr, U8, U8, U8, U24, U16>>)>>),
    ConnectionComplete |-> By(\h03, <<U8, U16, Addr, U8, U8>>),
    ConnectionRequest |-> By(\h04, <<Addr, U24, U8>>),
    DisconnectionComplete |-> By(\h05, <<U8, U16, U8>>),
    AuthenticationComplete |-> By(\h06, <<U8, U16>>),
    RemoteNameRequestComplete |-> By(\h07, <<U8, Addr, Bytes(248)>>),
    EncryptionChange |-> By(\h08, <<U8, U16, U8>>),
    ReadRemoteSupportedFeaturesComplete |-> By(\h0b, <<U8, U16, Bytes(8)>>),
    ReadRemoteVersionInformationComplete |-> By(\h0c, <<U8, U16, U8, U16, U16>>),
    QosSetupComplete |-> By(\h0d, <<U8, U16, U8, U8>>),
    CommandStatus |-> By(\h0f, <<U8, U8, U16>>), RoleChange |-> By(\h12, <<U8, Addr, U8>>)]

EventReadResults == [
    NumberOfCompletedPackets |-> By(\h13, <<Each(<<U16, U16>>)>>),
    ModeChange |-> By(\h14, <<U8, U16, U8, U16>>), PinCodeRequest |-> By(\h16, <<Addr>>),
    LinkKeyRequest |-> By(\h17, <<Addr>>),
    LinkKeyNotification |-> By(\h18, <<Addr, Bytes(16), U8>>),
    MaxSlotsChange |-> By(\h1b, <<U16, U8>>),
    ReadClockOffsetComplete |-> By(\h1c, <<U8, U16, U16>>),
    ConnectionPacketTypeChanged |-> By(\h1d, <<U8, U16, U16>>),
    PageScanRepetitionModeChange |-> By(\h20, <<Addr, U8>>),
    InquiryResultWithRssi |-> By(\h22, <<Each(<<Addr, U8, U8, U24, U16, U8>>)>>),
    ReadRemoteExtendedFeaturesComplete |-> By(\h23, <<U8, U16, U8, U8, Bytes(8)>>),
    SynchronousConnectionComplete |-> By(\h2c, <<U8, U16, Addr, U8, U8, U8, U16, U16, U8>>)]

EventReadPairing == [
    SynchronousConnectionChanged |-> By(\h2d, <<U8, U16, U8, U8, U16, U16>>),
    SniffSubrating |-> By(\h2e, <<U8, U16, U16, U16, U16, U16>>),
    ExtendedInquiryResult |-> By(\h2f, <<U8, Addr, U8, U8, U24, U16, U8, Bytes(240)>>),
    EncryptionKeyRefreshComplete |-> By(\h30, <<U8, U16>>),
    IoCapabilityRequest |-> By(\h31, <<Addr>>),
    IoCapabilityResponse |-> By(\h32, <<Addr, U8, U8, U8>>),
    UserConfirmationRequest |-> By(\h33, <<Addr, U32>>),
    UserPasskeyRequest |-> By(\h34, <<Addr>>), RemoteOobDataRequest |-> By(\h35, <<Addr>>),
    SimplePairingComplete |-> By(\h36, <<U8, Addr>>),
    LinkSupervisionTimeoutChanged |-> By(\h38, <<U16, U16>>),
    EnhancedFlushComplete |-> By(\h39, <<U16>>),
    UserPasskeyNotification |-> By(\h3b, <<Addr, U32>>),
    KeypressNotification |-> By(\h3c, <<Addr, U8>>),
    RemoteHostSupportedFeaturesNotification |-> By(\h3d, <<Addr, Bytes(8)>>),
    EncryptionChangeV2 |-> By(\h59, <<U8, U16, U8, U8>>), Vendor |-> By(\hff, <<Rest>>)]

EventReadCompletion == [
    CommandComplete |-> By(\h0e, <<U8, U16, Rest>>)]

LeFieldsConnections == [
    ConnectionComplete |-> <<U8, U16, U8, U8, Addr, U16, U16, U16, U8>>,
    ConnectionUpdateComplete |-> <<U8, U16, U16, U16, U16>>,
    ReadRemoteFeaturesComplete |-> <<U8, U16, Bytes(8)>>,
    LongTermKeyRequest |-> <<U16, Bytes(8), U16>>,
    RemoteConnectionParameterRequest |-> <<U16, U16, U16, U16, U16>>,
    DataLengthChange |-> <<U16, U16, U16, U16, U16>>,
    EnhancedConnectionComplete |-> <<U8, U16, U8, U8, Addr, Addr, Addr, U16, U16, U16, U8>>,
    PhyUpdateComplete |-> <<U8, U16, U8, U8>>,
    PeriodicAdvertisingSyncEstablished |-> <<U8, U16, U8, U8, Addr, U8, U16, U8>>,
    PeriodicAdvertisingReport |-> <<U16, U8, U8, U8, U8, Octets>>,
    PeriodicAdvertisingSyncLost |-> <<U16>>, AdvertisingSetTerminated |-> <<U8, U8, U16, U8>>,
    ChannelSelectionAlgorithm |-> <<U16, U8>>,
    PeriodicAdvertisingSyncTransferReceived |-> <<U8, U16, U16, U16, U8, U8, Addr, U8, U16, U8>>,
    CisEstablished |-> <<U8, U16, U32, U32, U32, U32, U8, U8, U8, U8, U8, U8, U8, U16, U16, U16>>,
    CisRequest |-> <<U16, U16, U8, U8>>,
    CreateBigComplete |-> <<U8, U8, U32, U32, U8, U8, U8, U8, U8, U16, U16, List(U16)>>,
    TerminateBigComplete |-> <<U8, U8>>]

LeFieldsIsochronous == [
    BigSyncEstablished |-> <<U8, U8, U32, U8, U8, U8, U8, U16, U16, List(U16)>>,
    BigSyncLost |-> <<U8, U8>>,
    BiginfoAdvertisingReport |-> <<U16, U8, U8, U16, U8, U8, U8, U16, U32, U16, U8, U8, U8>>,
    SubrateChange |-> <<U8, U16, U16, U16, U16, U16>>,
    PeriodicAdvertisingSyncEstablishedV2 |-> <<U8, U16, U8, U8, Addr, U8, U16, U8, U8, U8,
        U8, U8>>,
    PeriodicAdvertisingReportV2 |-> <<U16, U8, U8, U8, U16, U8, U8, Octets>>,
    PeriodicAdvertisingSyncTransferReceivedV2 |-> <<U8, U16, U16, U16, U8, U8, Addr, U8,
        U16, U8, U8, U8, U8, U8>>,
    EnhancedConnectionCompleteV2 |-> <<U8, U16, U8, U8, Addr, Addr, Addr, U16, U16, U16, U8,
        U8, U16>>,
    CsReadRemoteSupportedCapabilitiesComplete |-> <<U8, U16, U8, U16, U8, U8, U8, U8, U8,
        U8, U8, U8, U16, U16, U8, U16, U16, U16, U16, U16, U8, U8>>,
    CsReadRemoteFaeTableComplete |-> <<U8, U16, Bytes(72)>>,
    CsSecurityEnableComplete |-> <<U8, U16>>]

LeFieldsChannelSounding == [
    CsConfigComplete |-> <<U8, U16, U8, U8, U8, U8, U8, U8, U8, U8, U8, U8, U8, Bytes(10),
        U8, U8, U8, U8, U8, U8, U8, U8, U8>>,
    CsProcedureEnableComplete |-> <<U8, U16, U8, U8, U8, U8, U32, U8, U16, U16, U16, U16, U16>>,
    CsSubeventResult |-> <<U16, U8, U16, U16, U16, U8, U8, U8, U8, U8, List(U8), List(U8),
        List(Octets)>>,
    CsSubeventResultContinue |-> <<U16, U8, U8, U8, U8, U8, List(U8), List(U8), List(Octets)>>,
    CsTestEndComplete |-> <<U16, U8>>,
    ConnectionRateChange |-> <<U8, U16, U16, U16, U16, U16, U16>>,
    AdvertisingReport |-> <<List(U8), List(U8), List(TypedAddr), List(Octets), List(U8)>>,
    ExtendedAdvertisingReport |-> <<List(U16), List(U8), List(TypedAddr), List(U8),
        List(U8), List(U8), List(U8), List(U8), List(U16), List(U8), List(TypedAddr),
        List(Octets)>>]

LeCodes == [
    ConnectionComplete |-> \h01, ConnectionUpdateComplete |-> \h03,
    ReadRemoteFeaturesComplete |-> \h04, LongTermKeyRequest |-> \h05,
    RemoteConnectionParameterRequest |-> \h06, DataLengthChange |-> \h07,
    EnhancedConnectionComplete |-> \h0a, PhyUpdateComplete |-> \h0c,
    PeriodicAdvertisingSyncEstablished |-> \h0e, PeriodicAdvertisingReport |-> \h0f,
    PeriodicAdvertisingSyncLost |-> \h10, AdvertisingSetTerminated |-> \h12,
    ChannelSelectionAlgorithm |-> \h14, PeriodicAdvertisingSyncTransferReceived |-> \h18,
    CisEstablished |-> \h19, CisRequest |-> \h1a, CreateBigComplete |-> \h1b,
    TerminateBigComplete |-> \h1c, BigSyncEstablished |-> \h1d, BigSyncLost |-> \h1e,
    BiginfoAdvertisingReport |-> \h22, SubrateChange |-> \h23,
    PeriodicAdvertisingSyncEstablishedV2 |-> \h24, PeriodicAdvertisingReportV2 |-> \h25,
    PeriodicAdvertisingSyncTransferReceivedV2 |-> \h26, EnhancedConnectionCompleteV2 |-> \h29,
    CsReadRemoteSupportedCapabilitiesComplete |-> \h2c, CsReadRemoteFaeTableComplete |-> \h2d,
    CsSecurityEnableComplete |-> \h2e, CsConfigComplete |-> \h2f,
    CsProcedureEnableComplete |-> \h30, CsSubeventResult |-> \h31,
    CsSubeventResultContinue |-> \h32, CsTestEndComplete |-> \h33,
    ConnectionRateChange |-> \h37, AdvertisingReport |-> \h02,
    ExtendedAdvertisingReport |-> \h0d]

LeWrittenConnections == [
    ConnectionComplete |-> <<U8, U16, U8, U8, Addr, U16, U16, U16, U8>>,
    ConnectionUpdateComplete |-> <<U8, U16, U16, U16, U16>>,
    ReadRemoteFeaturesComplete |-> <<U8, U16, Bytes(8)>>,
    LongTermKeyRequest |-> <<U16, Bytes(8), U16>>,
    RemoteConnectionParameterRequest |-> <<U16, U16, U16, U16, U16>>,
    DataLengthChange |-> <<U16, U16, U16, U16, U16>>,
    EnhancedConnectionComplete |-> <<U8, U16, U8, U8, Addr, Addr, Addr, U16, U16, U16, U8>>,
    PhyUpdateComplete |-> <<U8, U16, U8, U8>>,
    PeriodicAdvertisingSyncEstablished |-> <<U8, U16, U8, U8, Addr, U8, U16, U8>>,
    PeriodicAdvertisingReport |-> <<U16, U8, U8, U8, U8, Data>>]

LeWrittenIsochronous == [
    PeriodicAdvertisingSyncLost |-> <<U16>>, AdvertisingSetTerminated |-> <<U8, U8, U16, U8>>,
    ChannelSelectionAlgorithm |-> <<U16, U8>>,
    PeriodicAdvertisingSyncTransferReceived |-> <<U8, U16, U16, U16, U8, U8, Addr, U8, U16, U8>>,
    CisEstablished |-> <<U8, U16, U24, U24, U24, U24, U8, U8, U8, U8, U8, U8, U8, U16, U16, U16>>,
    CisRequest |-> <<U16, U16, U8, U8>>,
    CreateBigComplete |-> <<U8, U8, U24, U24, U8, U8, U8, U8, U8, U16, U16, Each(<<U16>>)>>,
    TerminateBigComplete |-> <<U8, U8>>,
    BigSyncEstablished |-> <<U8, U8, U24, U8, U8, U8, U8, U16, U16, Each(<<U16>>)>>]

LeWrittenPeriodic == [
    BigSyncLost |-> <<U8, U8>>,
    BiginfoAdvertisingReport |-> <<U16, U8, U8, U16, U8, U8, U8, U16, U24, U16, U8, U8, U8>>,
    SubrateChange |-> <<U8, U16, U16, U16, U16, U16>>,
    PeriodicAdvertisingSyncEstablishedV2 |-> <<U8, U16, U8, U8, Addr, U8, U16, U8, U8, U8,
        U8, U8>>,
    PeriodicAdvertisingReportV2 |-> <<U16, U8, U8, U8, U16, U8, U8, Data>>,
    PeriodicAdvertisingSyncTransferReceivedV2 |-> <<U8, U16, U16, U16, U8, U8, Addr, U8,
        U16, U8, U8, U8, U8, U8>>]

LeWrittenChannelSounding == [
    EnhancedConnectionCompleteV2 |-> <<U8, U16, U8, U8, Addr, Addr, Addr, U16, U16, U16, U8,
        U8, U16>>,
    CsReadRemoteSupportedCapabilitiesComplete |-> <<U8, U16, U8, U16, U8, U8, U8, U8, U8,
        U8, U8, U8, U16, U16, U8, U16, U16, U16, U16, U16, U8, U8>>,
    CsReadRemoteFaeTableComplete |-> <<U8, U16, Bytes(72)>>,
    CsSecurityEnableComplete |-> <<U8, U16>>,
    CsConfigComplete |-> <<U8, U16, U8, U8, U8, U8, U8, U8, U8, U8, U8, U8, U8, Bytes(10),
        U8, U8, U8, U8, U8, U8, U8, U8, U8>>]

LeWrittenReports == [
    CsProcedureEnableComplete |-> <<U8, U16, U8, U8, U8, U8, U24, U8, U16, U16, U16, U16, U16>>,
    CsSubeventResult |-> <<U16, U8, U16, U16, U16, U8, U8, U8, U8, U8, Each(<<U8, U8, Data>>)>>,
    CsSubeventResultContinue |-> <<U16, U8, U8, U8, U8, U8, Each(<<U8, U8, Data>>)>>,
    CsTestEndComplete |-> <<U16, U8>>,
    ConnectionRateChange |-> <<U8, U16, U16, U16, U16, U16, U16>>,
    AdvertisingReport |-> <<Each(<<U8, U8, Addr, Data, U8>>)>>,
    ExtendedAdvertisingReport |-> <<Each(<<U16, U8, Addr, U8, U8, U8, U8, U8, U16, U8, Addr,
        Data>>)>>]

LeReadConnections == [
    ConnectionComplete |-> By(\h01, <<U8, U16, U8, U8, RandomAddr, U16, U16, U16, U8>>),
    ConnectionUpdateComplete |-> By(\h03, <<U8, U16, U16, U16, U16>>),
    ReadRemoteFeaturesComplete |-> By(\h04, <<U8, U16, Bytes(8)>>),
    LongTermKeyRequest |-> By(\h05, <<U16, Bytes(8), U16>>),
    RemoteConnectionParameterRequest |-> By(\h06, <<U16, U16, U16, U16, U16>>),
    DataLengthChange |-> By(\h07, <<U16, U16, U16, U16, U16>>),
    EnhancedConnectionComplete |-> By(\h0a, <<U8, U16, U8, U8, RandomAddr, RandomAddr,
        RandomAddr, U16, U16, U16, U8>>),
    PhyUpdateComplete |-> By(\h0c, <<U8, U16, U8, U8>>),
    PeriodicAdvertisingSyncEstablished |-> By(\h0e, <<U8, U16, U8, U8, RandomAddr, U8, U16, U8>>)]

LeReadPeriodic == [
    PeriodicAdvertisingReport |-> By(\h0f, <<U16, U8, U8, U8, U8, Data>>),
    PeriodicAdvertisingSyncLost |-> By(\h10, <<U16>>),
    AdvertisingSetTerminated |-> By(\h12, <<U8, U8, U16, U8>>),
    ChannelSelectionAlgorithm |-> By(\h14, <<U16, U8>>),
    PeriodicAdvertisingSyncTransferReceived |-> By(\h18, <<U8, U16, U16, U16, U8, U8,
        RandomAddr, U8, U16, U8>>),
    CisEstablished |-> By(\h19, <<U8, U16, U24, U24, U24, U24, U8, U8, U8, U8, U8, U8, U8,
        U16, U16, U16>>),
    CisRequest |-> By(\h1a, <<U16, U16, U8, U8>>),
    CreateBigComplete |-> By(\h1b, <<U8, U8, U24, U24, U8, U8, U8, U8, U8, U16, U16,
        Each(<<U16>>)>>)]

LeReadIsochronous == [
    TerminateBigComplete |-> By(\h1c, <<U8, U8>>),
    BigSyncEstablished |-> By(\h1d, <<U8, U8, U24, U8, U8, U8, U8, U16, U16, Each(<<U16>>)>>),
    BigSyncLost |-> By(\h1e, <<U8, U8>>),
    BiginfoAdvertisingReport |-> By(\h22, <<U16, U8, U8, U16, U8, U8, U8, U16, U24, U16, U8,
        U8, U8>>),
    SubrateChange |-> By(\h23, <<U8, U16, U16, U16, U16, U16>>),
    PeriodicAdvertisingSyncEstablishedV2 |-> By(\h24, <<U8, U16, U8, U8, RandomAddr, U8,
        U16, U8, U8, U8, U8, U8>>),
    PeriodicAdvertisingReportV2 |-> By(\h25, <<U16, U8, U8, U8, U16, U8, U8, Data>>)]

LeReadTransfers == [
    PeriodicAdvertisingSyncTransferReceivedV2 |-> By(\h26, <<U8, U16, U16, U16, U8, U8,
        RandomAddr, U8, U16, U8, U8, U8, U8, U8>>),
    EnhancedConnectionCompleteV2 |-> By(\h29, <<U8, U16, U8, U8, RandomAddr, RandomAddr,
        RandomAddr, U16, U16, U16, U8, U8, U16>>),
    CsReadRemoteSupportedCapabilitiesComplete |-> By(\h2c, <<U8, U16, U8, U16, U8, U8, U8,
        U8, U8, U8, U8, U8, U16, U16, U8, U16, U16, U16, U16, U16, U8, U8>>),
    CsReadRemoteFaeTableComplete |-> By(\h2d, <<U8, U16, Bytes(72)>>),
    CsSecurityEnableComplete |-> By(\h2e, <<U8, U16>>)]

LeReadChannelSounding == [
    CsConfigComplete |-> By(\h2f, <<U8, U16, U8, U8, U8, U8, U8, U8, U8, U8, U8, U8, U8,
        Bytes(10), U8, U8, U8, U8, U8, U8, U8, U8, U8>>),
    CsProcedureEnableComplete |-> By(\h30, <<U8, U16, U8, U8, U8, U8, U24, U8, U16, U16,
        U16, U16, U16>>),
    CsSubeventResult |-> By(\h31, <<U16, U8, U16, U16, U16, U8, U8, U8, U8, U8, Each(<<U8,
        U8, Data>>)>>),
    CsSubeventResultContinue |-> By(\h32, <<U16, U8, U8, U8, U8, U8, Each(<<U8, U8, Data>>)>>)]

LeReadReports == [
    CsTestEndComplete |-> By(\h33, <<U16, U8>>),
    ConnectionRateChange |-> By(\h37, <<U8, U16, U16, U16, U16, U16, U16>>),
    AdvertisingReport |-> By(\h02, <<Each(<<U8, U8, TypedAddr, Data, U8>>)>>),
    ExtendedAdvertisingReport |-> By(\h0d, <<Each(<<U16, U8, TypedAddr, U8, U8, U8, U8, U8,
        U16, U8, TypedAddr, Data>>)>>)]

ReturnFieldsController == [
    Status |-> <<Status>>, StatusAndConnectionHandle |-> <<Status, U16>>,
    LeReadBufferSize |-> <<Status, U16, U8>>,
    LeReadBufferSizeV2 |-> <<Status, U16, U8, U16, U8>>,
    ReadLocalVersionInformation |-> <<Status, U8, U16, U8, U16, U16>>,
    ReadLocalSupportedCommands |-> <<Status, Bytes(64)>>,
    ReadLocalSupportedFeatures |-> <<Status, Bytes(8)>>,
    ReadLocalExtendedFeatures |-> <<Status, U8, U8, Bytes(8)>>,
    LeReadLocalSupportedFeatures |-> <<Status, Bytes(8)>>,
    LeReadAllLocalSupportedFeatures |-> <<Status, U8, Bytes(248)>>,
    LeCsReadLocalSupportedCapabilities |-> <<Status, U8, U16, U8, U8, U8, U8, U8, U8, U8,
        U8, U16, U16, U8, U16, U16, U16, U16, U16, U8, U8>>,
    ReadBufferSize |-> <<Status, U16, U8, U16, U16>>, ReadClassOfDevice |-> <<Status, U32>>,
    ReadSynchronousFlowControlEnable |-> <<Status, U8>>,
    ReadLeHostSupport |-> <<Status, U8, U8>>,
    WriteAuthenticatedPayloadTimeout |-> <<Status, U16>>, ReadVoiceSetting |-> <<Status, U16>>,
    ReadRssi |-> <<Status, U16, U8>>, ReadLoopbackMode |-> <<Status, U8>>,
    LeReadSuggestedDefaultDataLength |-> <<Status, U16, U16>>,
    LeReadMaximumDataLength |-> <<Status, U16, U16, U16, U16>>,
    LeReadMaximumAdvertisingDataLength |-> <<Status, U16>>,
    LeReadNumberOfSupportedAdvertisingSets |-> <<Status, U8>>,
    LeReadAdvertisingPhysicalChannelTxPower |-> <<Status, U8>>,
    LeReadFilterAcceptListSize |-> <<Status, U8>>,
    LeReadSupportedStates |-> <<Status, Bytes(8)>>, LeReadResolvingListSize |-> <<Status, U8>>]

ReturnFieldsLe == [
    LeReadPhy |-> <<Status, U16, U8, U8>>, LeReadIsoTxSync |-> <<Status, U16, U16, U32, U32>>,
    LeRemoveCig |-> <<Status, U8>>, LeReadTransmitPower |-> <<Status, U8, U8>>,
    LeReadMinimumSupportedConnectionInterval |-> <<Status, U8, List(U16), List(U16), List(U16)>>,
    ReadBdAddr |-> <<Status, Addr>>, ReadLocalName |-> <<Status, Octets>>,
    ReadLocalSupportedCodecs |-> <<Status, List(U8), List(U32)>>,
    ReadLocalSupportedCodecsV2 |-> <<Status, List(U8), List(U8), List(U32), List(U8)>>]

ReturnWrittenController == [
    Status |-> <<U8>>, StatusAndConnectionHandle |-> <<U8, U16>>,
    LeReadBufferSize |-> <<U8, U16, U8>>, LeReadBufferSizeV2 |-> <<U8, U16, U8, U16, U8>>,
    ReadLocalVersionInformation |-> <<U8, U8, U16, U8, U16, U16>>,
    ReadLocalSupportedCommands |-> <<U8, Bytes(64)>>,
    ReadLocalSupportedFeatures |-> <<U8, Bytes(8)>>,
    ReadLocalExtendedFeatures |-> <<U8, U8, U8, Bytes(8)>>,
    LeReadLocalSupportedFeatures |-> <<U8, Bytes(8)>>,
    LeReadAllLocalSupportedFeatures |-> <<U8, U8, Bytes(248)>>,
    LeCsReadLocalSupportedCapabilities |-> <<U8, U8, U16, U8, U8, U8, U8, U8, U8, U8, U8,
        U16, U16, U8, U16, U16, U16, U16, U16, U8, U8>>,
    ReadBufferSize |-> <<U8, U16, U8, U16, U16>>]

ReturnWrittenValues == [
    ReadClassOfDevice |-> <<U8, U24>>, ReadSynchronousFlowControlEnable |-> <<U8, U8>>,
    ReadLeHostSupport |-> <<U8, U8, U8>>, WriteAuthenticatedPayloadTimeout |-> <<U8, U16>>,
    ReadVoiceSetting |-> <<U8, U16>>, ReadRssi |-> <<U8, U16, U8>>,
    ReadLoopbackMode |-> <<U8, U8>>, LeReadSuggestedDefaultDataLength |-> <<U8, U16, U16>>,
    LeReadMaximumDataLength |-> <<U8, U16, U16, U16, U16>>,
    LeReadMaximumAdvertisingDataLength |-> <<U8, U16>>,
    LeReadNumberOfSupportedAdvertisingSets |-> <<U8, U8>>,
    LeReadAdvertisingPhysicalChannelTxPower |-> <<U8, U8>>,
    LeReadFilterAcceptListSize |-> <<U8, U8>>, LeReadSupportedStates |-> <<U8, Bytes(8)>>,
    LeReadResolvingListSize |-> <<U8, U8>>, LeReadPhy |-> <<U8, U16, U8, U8>>,
    LeReadIsoTxSync |-> <<U8, U16, U16, U32, U32>>, LeRemoveCig |-> <<U8, U8>>]

ReturnWrittenLists == [
    LeReadTransmitPower |-> <<U8, U8, U8>>,
    LeReadMinimumSupportedConnectionInterval |-> <<U8, U8, Each(<<U16, U16, U16>>)>>,
    ReadBdAddr |-> <<U8, Addr>>, ReadLocalName |-> <<U8, Rest>>,
    ReadLocalSupportedCodecs |-> <<U8, Each(<<U8>>), Each(<<U32>>)>>,
    ReadLocalSupportedCodecsV2 |-> <<U8, Each(<<U8, U8>>), Each(<<U32, U8>>)>>]

ReturnReadController == [
    LeReadBufferSize |-> ByAny({\h2002}, <<U8, U16, U8>>),
    LeReadBufferSizeV2 |-> ByAny({\h2060}, <<U8, U16, U8, U16, U8>>),
    ReadLocalVersionInformation |-> ByAny({\h1001}, <<U8, U8, U16, U8, U16, U16>>),
    ReadLocalSupportedCommands |-> ByAny({\h1002}, <<U8, Bytes(64)>>),
    ReadLocalSupportedFeatures |-> ByAny({\h1003}, <<U8, Bytes(8)>>),
    ReadLocalExtendedFeatures |-> ByAny({\h1004}, <<U8, U8, U8, Bytes(8)>>),
    LeReadLocalSupportedFeatures |-> ByAny({\h2003}, <<U8, Bytes(8)>>),
    LeReadAllLocalSupportedFeatures |-> ByAny({\h2087}, <<U8, U8, Bytes(248)>>),
    LeCsReadLocalSupportedCapabilities |-> ByAny({\h2089}, <<U8, U8, U16, U8, U8, U8, U8,
        U8, U8, U8, U8, U16, U16, U8, U16, U16, U16, U16, U16, U8, U8>>),
    ReadBufferSize |-> ByAny({\h1005}, <<U8, U16, U8, U16, U16>>),
    ReadClassOfDevice |-> ByAny({\h0c23}, <<U8, U24>>),
    ReadSynchronousFlowControlEnable |-> ByAny({\h0c2e}, <<U8, U8>>),
    ReadLeHostSupport |-> ByAny({\h0c6c}, <<U8, U8, U8>>),
    WriteAuthenticatedPayloadTimeout |-> ByAny({\h0c7c}, <<U8, U16>>),
    ReadVoiceSetting |-> ByAny({\h0c25}, <<U8, U16>>),
    ReadRssi |-> ByAny({\h1405}, <<U8, U16, U8>>),
    ReadLoopbackMode |-> ByAny({\h1801}, <<U8, U8>>),
    LeReadSuggestedDefaultDataLength |-> ByAny({\h2023}, <<U8, U16, U16>>),
    LeReadMaximumDataLength |-> ByAny({\h202f}, <<U8, U16, U16, U16, U16>>),
    LeReadMaximumAdvertisingDataLength |-> ByAny({\h203a}, <<U8, U16>>),
    LeReadNumberOfSupportedAdvertisingSets |-> ByAny({\h203b}, <<U8, U8>>)]

ReturnReadLe == [
    LeReadAdvertisingPhysicalChannelTxPower |-> ByAny({\h2007}, <<U8, U8>>),
    LeReadFilterAcceptListSize |-> ByAny({\h200f}, <<U8, U8>>),
    LeReadSupportedStates |-> ByAny({\h201c}, <<U8, Bytes(8)>>),
    LeReadResolvingListSize |-> ByAny({\h202a}, <<U8, U8>>),
    LeReadPhy |-> ByAny({\h2030}, <<U8, U16, U8, U8>>),
    LeReadIsoTxSync |-> ByAny({\h2061}, <<U8, U16, U16, U32, U32>>),
    StatusAndConnectionHandle |-> ByAny({\h206e, \h206f}, <<U8, U16>>),
    LeRemoveCig |-> ByAny({\h2065}, <<U8, U8>>),
    LeReadTransmitPower |-> ByAny({\h204b}, <<U8, U8, U8>>),
    LeReadMinimumSupportedConnectionInterval |-> ByAny({\h20a3}, <<U8, U8, Each(<<U16, U16,
        U16>>)>>),
    ReadBdAddr |-> ByAny({\h1009}, <<U8, Addr>>),
    ReadLocalName |-> ByAny({\h0c14}, <<U8, Vec(248)>>),
    ReadLocalSupportedCodecs |-> ByAny({\h100b}, <<U8, Each(<<U8>>), Each(<<U32>>)>>),
    ReadLocalSupportedCodecsV2 |-> ByAny({\h100d}, <<U8, Each(<<U8, U8>>), Each(<<U32, U8>>)>>)]

EventFields ==
    EventFieldsLinks @@ EventFieldsPairing

EventWritten ==
    EventWrittenLinks @@ EventWrittenKeys @@ EventWrittenPairing

EventRead ==
    EventReadLinks @@ EventReadResults @@ EventReadPairing
    @@ EventReadCompletion

LeFields ==
    LeFieldsConnections @@ LeFieldsIsochronous @@ LeFieldsChannelSounding

LeWritten ==
    LeWrittenConnections @@ LeWrittenIsochronous @@ LeWrittenPeriodic
    @@ LeWrittenChannelSounding @@ LeWrittenReports

LeRead ==
    LeReadConnections @@ LeReadPeriodic @@ LeReadIsochronous
    @@ LeReadTransfers @@ LeReadChannelSounding @@ LeReadReports

ReturnFields ==
    ReturnFieldsController @@ ReturnFieldsLe

ReturnWritten ==
    ReturnWrittenController @@ ReturnWrittenValues @@ ReturnWrittenLists

ReturnRead ==
    ReturnReadController @@ ReturnReadLe

=============================================================================
