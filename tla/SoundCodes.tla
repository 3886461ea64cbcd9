------------------------------ MODULE SoundCodes ------------------------------
(***************************************************************************)
(* The numbers of the VirtIO sound protocol.  The driver writes most of    *)
(* them down more than once: as commands and as request types, status      *)
(* codes and notifications, as flags of a capability mask and as codes of  *)
(* a request.  A mask is the set of the positions of its bits.             *)
(***************************************************************************)
EXTENDS Naturals, Sequences, TLC

CommandCode ==
    [RJackInfo |-> 1, RJackRemap |-> 2,
     RPcmInfo |-> 256, RPcmSetParams |-> 257, RPcmPrepare |-> 258,
     RPcmRelease |-> 259, RPcmStart |-> 260, RPcmStop |-> 261,
     RChmapInfo |-> 512,
     EvtJackConnected |-> 4096, EvtJackDisconnected |-> 4097,
     EvtPcmPeriodElapsed |-> 4352, EvtPcmXrun |-> 4353,
     SOk |-> 32768, SBadMsg |-> 32769, SNotSupp |-> 32770, SIoErr |-> 32771]

ItemInformationRequestType ==
    [RJackInfo |-> 1, RPcmInfo |-> 256, RChmapInfo |-> 512]

RequestStatusCode ==
    [Ok |-> 32768, BadMsg |-> 32769, NotSupp |-> 32770, IoErr |-> 32771]

\* NotificationType::n: no type for any other code.
NotificationOf ==
    (4352 :> "PcmPeriodElapsed") @@ (4353 :> "PcmXrun")
    @@ (4096 :> "JackConnected") @@ (4097 :> "JackDisconnected")

\* The lists agree with the one of all codes.
ASSUME CodesAgree ==
    /\ \A n \in DOMAIN ItemInformationRequestType :
          ItemInformationRequestType[n] = CommandCode[n]
    /\ RequestStatusCode =
          [Ok |-> CommandCode.SOk, BadMsg |-> CommandCode.SBadMsg,
           NotSupp |-> CommandCode.SNotSupp, IoErr |-> CommandCode.SIoErr]

\* The formats of a capability mask, first the one of bit 0.
PcmFormats ==
    <<"IMA_ADPCM", "MU_LAW", "A_LAW", "S8", "U8", "S16", "U16", "S18_3",
      "U18_3", "S20_3", "U20_3", "S24_3", "U24_3", "S20", "U20", "S24", "U24",
      "S32", "U32", "FLOAT", "FLOAT64", "DSD_U8", "DSD_U16", "DSD_U32",
      "IEC958_SUBFRAME">>

\* The formats of a request, first the one of code 0.
PcmFormat ==
    <<"ImaAdpcm", "MuLaw", "ALaw", "S8", "U8", "S16", "U16", "S18_3",
      "U18_3", "S20_3", "U20_3", "S24_3", "U24_3", "S20", "U20", "S24", "U24",
      "S32", "U32", "FLOAT", "FLOAT64", "DsdU8", "DsdU16", "DsdU32",
      "Iec958Subframe">>

\* From<PcmFormat> for PcmFormats: the names that differ in the two lists.
FormatFlagName(f) ==
    CASE f = "ImaAdpcm" -> "IMA_ADPCM" [] f = "MuLaw" -> "MU_LAW"
      [] f = "ALaw" -> "A_LAW" [] f = "DsdU8" -> "DSD_U8"
      [] f = "DsdU16" -> "DSD_U16" [] f = "DsdU32" -> "DSD_U32"
      [] f = "Iec958Subframe" -> "IEC958_SUBFRAME" [] OTHER -> f

\* The sample rates of a capability mask, in Hz, first the one of bit 0.
PcmRates ==
    <<5512, 8000, 11025, 16000, 22050, 32000, 44100, 48000, 64000, 88200,
      96000, 176400, 192000, 384000>>

\* The sample rates of a request, first the one of code 0.
PcmRate ==
    <<5512, 8000, 11025, 16000, 22050, 32000, 44100, 48000, 64000, 88200,
      96000, 176400, 192000, 384000>>

\* The bit of a name in a capability mask, its code in a request.
Position(table, name) == CHOOSE b \in 0..(Len(table) - 1) : table[b + 1] = name

\* A flag of the mask for a format and for a rate of a request: the From impls.
FormatFlag(f) == Position(PcmFormats, FormatFlagName(f))

RateFlag(r) == Position(PcmRates, r)

=============================================================================
