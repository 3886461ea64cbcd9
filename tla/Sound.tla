-------------------------------- MODULE Sound --------------------------------
(***************************************************************************)
(* VirtIOSound (device/sound.rs), the device the driver's tests simulate   *)
(* (device/sound/fake.rs) and two of its clients: one that calls the       *)
(* driver in any order, and play_pcm_file (virtio_demo/virtio_tests.rs),   *)
(* which keeps a window of transfers in flight.  The control queue is      *)
(* synchronous (add_notify_wait_pop), so a control request and its answer  *)
(* are one step; the transmit queue works while the driver goes on.        *)
(***************************************************************************)
EXTENDS SoundCodes, DriverQueue, FiniteSetsExt, TLC

CONSTANTS
    SndCfgs,     \* the devices and clients of the run
    Faulty       \* the device may report errors for transfers

VARIABLES
    sndCfg,      \* the device's configuration space and the client, fixed
    snd,         \* the driver: set_up, the numbers of known items, pcm_parameters
    sndCall,     \* the local variables of a running pcm_xfer
    tx,          \* the transmit queue
    txReq,       \* for every token in it: stream, frames, status
    tokenBuf,    \* token_buf and token_rsp: the buffers of pcm_xfer_nb
    sndDev,      \* the device: params, played frames, notified, draining
    sndSent,     \* every frame handed to the driver so far
    sndResult,   \* the result of the last call
    play         \* play_pcm_file: place, choice of parameters, offset, tokens

sndDrv == <<snd, sndCall, tokenBuf, sndSent, sndResult>>
sndVars == <<sndDrv, tx, txReq, sndDev, play>>

NotSet == 0

\* QUEUE_SIZE
TxSize == sndCfg.size
NoCall == [pc |-> "idle"]
Streams == 0..(sndCfg.streams - 1)

\* The period of a stream, NotSet until the device has accepted parameters.
PcmParameters == [Streams -> {NotSet} \cup (Nat \ {0})]

SndInit ==
    /\ sndCfg \in SndCfgs
    /\ snd = [set_up |-> FALSE, jack_infos |-> 0, pcm_infos |-> 0,
              chmap_infos |-> 0, params |-> [s \in Streams |-> NotSet]]
    /\ sndCall = NoCall
    /\ tx = NewQueue(TxSize)
    /\ txReq = <<>>
    /\ tokenBuf = <<>>
    /\ sndDev = [params |-> [s \in Streams |-> NotSet], played |-> <<>>,
                 notified |-> FALSE, draining |-> FALSE, events |-> <<>>, sent |-> 0]
    /\ sndSent = <<>>
    /\ sndResult = "none"
    /\ play = [pc |-> IF sndCfg.client = "pcm_file" THEN "query" ELSE "off"]

-----------------------------------------------------------------------------
(* Set-up and queries. *)

\* set_up: jack and channel map queries may fail, the stream query may not.
SetUp(s, ans) ==
    LET s1 == [s EXCEPT !.jack_infos = IF ans.jack THEN sndCfg.jacks ELSE 0]
    IN  IF ~ans.pcm THEN s1
        ELSE [s1 EXCEPT !.pcm_infos = sndCfg.streams,
                        !.chmap_infos = IF ans.chmap THEN sndCfg.chmaps ELSE 0,
                        !.set_up = TRUE]

\* The driver after the test every call begins with.
AfterSetUp ==
    IF snd.set_up THEN {snd}
    ELSE {SetUp(snd, a) : a \in [jack : BOOLEAN, pcm : BOOLEAN, chmap : BOOLEAN]}

\* A call that only asks: what it finds in the answers of set_up.
Ask(s) ==
    /\ snd' = s
    /\ sndResult' = IF s.set_up THEN "Ok" ELSE "IoError"
    /\ UNCHANGED <<sndCall, tokenBuf, sndSent, tx, txReq, sndDev>>

OutputStreams(s) == {i \in 0..(s.pcm_infos - 1) : sndCfg.output[i]}

RatesSupported(s, i) == IF i >= s.pcm_infos THEN {} ELSE sndCfg.rates

FormatsSupported(s, i) == IF i >= s.pcm_infos THEN {} ELSE sndCfg.formats

ChannelRangeSupported(s, i) == IF i >= s.pcm_infos THEN {} ELSE sndCfg.channels

-----------------------------------------------------------------------------
(* Control requests; the device answers each with a status. *)

\* jack_remap indexes jack_infos, which is empty when its query failed.
JackRemap(s, j) ==
    /\ snd' = s
    /\ sndResult' \in
         IF ~s.set_up THEN {"IoError"}
         ELSE IF j >= sndCfg.jacks THEN {"InvalidParam"}
         ELSE IF j >= s.jack_infos THEN {"panic"}
         ELSE IF ~sndCfg.remap THEN {"Unsupported"}
         ELSE {"Ok", "Unsupported"}
    /\ UNCHANGED <<sndCall, tokenBuf, sndSent, tx, txReq, sndDev>>

\* The device accepts the formats and rates of its masks.
DeviceAccepts(f, r) ==
    Position(PcmFormat, f) \in sndCfg.formats /\ Position(PcmRate, r) \in sndCfg.rates

SetParamsResult(s, buffer, period, f, r) ==
    IF ~s.set_up THEN "IoError"
    ELSE IF period = 0 \/ period > buffer \/ buffer % period # 0 THEN "InvalidParam"
    ELSE IF DeviceAccepts(f, r) THEN "Ok" ELSE "NotSupp"

KeepParams(result) == result = "Ok"

\* pcm_set_params: the driver keeps what the device has accepted.
PcmSetParams(s, st, buffer, period, f, r) ==
    /\ sndResult' = SetParamsResult(s, buffer, period, f, r)
    /\ snd' = IF KeepParams(sndResult') THEN [s EXCEPT !.params[st] = period] ELSE s
    /\ sndDev' = IF sndResult' = "Ok" THEN [sndDev EXCEPT !.params[st] = period] ELSE sndDev
    /\ UNCHANGED <<sndCall, tokenBuf, sndSent, tx, txReq>>

\* pcm_prepare, pcm_release, pcm_start, pcm_stop: one request each.
PcmCommand(s) ==
    /\ snd' = s
    /\ sndResult' \in IF s.set_up THEN {"Ok", "IoError"} ELSE {"IoError"}
    /\ UNCHANGED <<sndCall, tokenBuf, sndSent, tx, txReq, sndDev>>

-----------------------------------------------------------------------------
(* Transfers. *)

\* add, should_notify and notify on the transmit queue.
Submit(n, req) ==
    /\ tx' = AddTo(tx, n, sndCfg.indirect)
    /\ txReq' = (NextToken(tx) :> req) @@ txReq
    /\ sndDev' = [sndDev EXCEPT !.notified = TRUE]

\* pcm_xfer up to its loop: frames is cut into chunks of a period.
PcmXfer(s, st, frames) ==
    /\ snd' = s
    /\ IF ~s.set_up \/ s.params[st] = NotSet
       THEN sndResult' = "IoError" /\ UNCHANGED <<sndCall, sndSent>>
       ELSE /\ sndResult' = "running"
            /\ sndCall' = [pc |-> "add", stream |-> st, rest |-> frames,
                           head |-> 0, tail |-> 0,
                           tokens |-> [i \in 0..(TxSize - 1) |-> 0],
                           buffers |-> [i \in 0..(TxSize - 1) |-> <<>>]]
            /\ sndSent' = sndSent \o frames
    /\ UNCHANGED <<tokenBuf, tx, txReq, sndDev>>

Return(result) == sndCall' = NoCall /\ sndResult' = result

Chunk(st, frames) == SubSeq(frames, 1, Min({snd.params[st], Len(frames)}))

NextSlot(i) == IF i + 1 >= TxSize THEN 0 ELSE i + 1

HasRoom == AvailableDesc(tx, sndCfg.indirect) >= 3

\* Mutant: the end is tested without room for another chunk.
XferDoneEarly == sndCall.rest = <<>> /\ sndCall.head = sndCall.tail

\* The end of the loop: nothing left, and nothing between tail and head; with
\* a full ring the two are equal as well, but there is no room then.
XferDone == HasRoom /\ sndCall.rest = <<>> /\ sndCall.head = sndCall.tail

\* The first half of the loop of pcm_xfer: one more chunk if there is room for
\* its three descriptors.
XferAdd ==
    /\ sndCall.pc = "add"
    /\ IF XferDone
       THEN Return("Ok") /\ UNCHANGED <<tx, txReq, sndDev>>
       ELSE /\ UNCHANGED sndResult
            /\ IF HasRoom /\ sndCall.rest # <<>>
               THEN LET c == Chunk(sndCall.stream, sndCall.rest) IN
                    /\ Submit(3, [stream |-> sndCall.stream, frames |-> c, status |-> "none"])
                    /\ sndCall' = [sndCall EXCEPT !.pc = "pop",
                                     !.rest = SubSeq(@, Len(c) + 1, Len(@)),
                                     !.tokens[sndCall.head] = NextToken(tx),
                                     !.buffers[sndCall.head] = c,
                                     !.head = NextSlot(@)]
               ELSE sndCall' = [sndCall EXCEPT !.pc = "pop"] /\ UNCHANGED <<tx, txReq, sndDev>>
    /\ UNCHANGED <<snd, tokenBuf, sndSent, play>>

\* The second half: the chunk at tail, if the device has used one.
XferPop ==
    /\ sndCall.pc = "pop"
    /\ LET t == sndCall.tokens[sndCall.tail]
           result == IF ~CanPopFrom(tx) THEN "Ok"
                     ELSE IF sndCall.buffers[sndCall.tail] = <<>> THEN "panic"
                     ELSE IF PopResult(tx, t) # "Ok" THEN PopResult(tx, t)
                     ELSE IF txReq[t].status # "SOk" THEN "IoError" ELSE "Ok"
       IN  /\ IF CanPopFrom(tx) /\ result \in {"Ok", "IoError"}
              THEN tx' = PopFrom(tx, t) /\ txReq' = Restrict(txReq, DOMAIN txReq \ {t})
              ELSE UNCHANGED <<tx, txReq>>
           /\ IF result # "Ok" THEN Return(result)
              ELSE /\ sndCall' = [sndCall EXCEPT !.pc = "add",
                                    !.tail = IF CanPopFrom(tx) THEN NextSlot(@) ELSE @]
                   /\ UNCHANGED sndResult
    /\ UNCHANGED <<snd, tokenBuf, sndSent, sndDev, play>>

\* pcm_xfer_nb: the buffers stay in token_buf and token_rsp.
PcmXferNb(s, st, frames) ==
    /\ snd' = s
    /\ IF ~s.set_up \/ s.params[st] = NotSet \/ ~CanAddTo(tx, 2, sndCfg.indirect)
       THEN /\ sndResult' = IF s.set_up /\ s.params[st] # NotSet THEN "QueueFull" ELSE "IoError"
            /\ UNCHANGED <<tx, txReq, tokenBuf, sndSent, sndDev>>
       ELSE /\ Submit(2, [stream |-> st, frames |-> frames, status |-> "none"])
            /\ tokenBuf' = (NextToken(tx) :> frames) @@ tokenBuf
            /\ sndSent' = sndSent \o frames
            /\ sndResult' = "Ok"
    /\ UNCHANGED sndCall

\* pcm_xfer_ok: the token must be the next one the device has used.
PcmXferOk(t) ==
    /\ sndResult' = PopResult(tx, t)
    /\ IF PopResult(tx, t) = "Ok"
       THEN /\ tx' = PopFrom(tx, t)
            /\ txReq' = Restrict(txReq, DOMAIN txReq \ {t})
            /\ tokenBuf' = Restrict(tokenBuf, DOMAIN tokenBuf \ {t})
       ELSE UNCHANGED <<tx, txReq, tokenBuf>>
    /\ UNCHANGED <<snd, sndCall, sndSent, sndDev>>

-----------------------------------------------------------------------------
(* The device of the tests: run, handle_tx. *)

\* poll_queue_notified: the flag is taken, then the queue is emptied.
DevWake ==
    /\ sndDev.notified /\ ~sndDev.draining
    /\ sndDev' = [sndDev EXCEPT !.notified = FALSE, !.draining = TRUE]
    /\ UNCHANGED <<sndDrv, tx, txReq, play>>

\* read_write_queue with handle_tx; a faulty device reports an error.
DevPlay ==
    /\ sndDev.draining
    /\ IF tx.avail = <<>>
       THEN sndDev' = [sndDev EXCEPT !.draining = FALSE] /\ UNCHANGED <<tx, txReq>>
       ELSE LET t == Head(tx.avail) IN
            /\ tx' = UseNext(tx)
            /\ \E status \in {"SOk"} \cup (IF Faulty THEN {"SIoErr"} ELSE {}) :
                 /\ txReq' = [txReq EXCEPT ![t].status = status]
                 /\ sndDev' = [sndDev EXCEPT !.played =
                                 IF status = "SOk" THEN @ \o txReq[t].frames ELSE @]
    /\ UNCHANGED <<sndDrv, play>>

\* An event on the event queue.
DevEvent ==
    /\ sndDev.sent < sndCfg.events
    /\ \E code \in {CommandCode.EvtPcmXrun, CommandCode.SIoErr} :
         sndDev' = [sndDev EXCEPT !.events = Append(@, code), !.sent = @ + 1]
    /\ UNCHANGED <<sndDrv, tx, txReq, play>>

\* latest_notification: the oldest event; an unknown code is an error, and its
\* buffer goes back to the device all the same.
LatestNotification ==
    /\ sndDev' = [sndDev EXCEPT !.events = IF @ = <<>> THEN @ ELSE Tail(@)]
    /\ sndResult' = IF sndDev.events = <<>> THEN "None"
                    ELSE IF Head(sndDev.events) \in DOMAIN NotificationOf
                    THEN NotificationOf[Head(sndDev.events)] ELSE "IoError"
    /\ UNCHANGED <<snd, sndCall, tokenBuf, sndSent, tx, txReq>>

-----------------------------------------------------------------------------
(* Clients that make control requests, blocking transfers or transfers with   *)
(* tokens in any order.  No client mixes the two kinds of transfers.          *)

NextFrames(n) == [i \in 1..n |-> Len(sndSent) + i]

SetParamsCall ==
    \E s \in AfterSetUp, st \in Streams, period \in 0..2, f \in ToSet(PcmFormat), r \in ToSet(PcmRate) :
        /\ FormatFlag(f) \in sndCfg.formats /\ RateFlag(r) \in sndCfg.rates
        /\ PcmSetParams(s, st, 2, period, f, r)

ControlCall ==
    /\ sndCfg.client = "control"
    /\ \/ \E s \in AfterSetUp : Ask(s) \/ PcmCommand(s) \/ \E j \in 0..1 : JackRemap(s, j)
       \/ SetParamsCall
       \/ LatestNotification

BlockingCall ==
    /\ sndCfg.client = "blocking"
    /\ \/ SetParamsCall
       \/ \E s \in AfterSetUp, st \in Streams, n \in 0..(sndCfg.frames - Len(sndSent)) :
             PcmXfer(s, st, NextFrames(n))

TokenCall ==
    /\ sndCfg.client = "tokens"
    /\ \/ SetParamsCall
       \/ \E s \in AfterSetUp, st \in Streams :
            /\ Len(sndSent) + s.params[st] <= sndCfg.frames
            /\ PcmXferNb(s, st, NextFrames(s.params[st]))
       \/ \E t \in DOMAIN tokenBuf : PcmXferOk(t)

AnyCall ==
    /\ sndCall.pc = "idle" /\ sndResult # "panic"
    /\ ControlCall \/ BlockingCall \/ TokenCall
    /\ UNCHANGED play

-----------------------------------------------------------------------------
(* play_pcm_file. *)

IN_FLIGHT == TxSize \div 4

\* The first supported one of the client's formats and rates, or the last.
ChooseRate(rates) ==
    IF RateFlag(44100) \in rates THEN 44100
    ELSE IF RateFlag(48000) \in rates THEN 48000 ELSE 32000

ChooseFormat(formats) ==
    IF FormatFlag("S16") \in formats THEN "S16"
    ELSE IF FormatFlag("S24") \in formats THEN "S24" ELSE "S32"

ChooseChannels(range) == IF 2 \in range THEN 2 ELSE Min(range)

BytesPerSample(f) == CASE f = "S24" -> 3 [] f = "S32" -> 4 [] OTHER -> 2

\* 4096 bytes, rounded up to whole frames.
PeriodBytes(frame) ==
    IF 4096 % frame = 0 THEN 4096 ELSE ((4096 + frame - 1) \div frame) * frame

PlayQuery ==
    /\ play.pc = "query"
    /\ \E s \in AfterSetUp :
         /\ Ask(s)
         /\ LET i == Min(OutputStreams(s))
                f == ChooseFormat(FormatsSupported(s, i))
                c == ChooseChannels(ChannelRangeSupported(s, i))
            IN  play' = IF ~s.set_up \/ OutputStreams(s) = {} THEN [pc |-> "done"]
                        ELSE [pc |-> "set_params", stream |-> i, format |-> f,
                              rate |-> ChooseRate(RatesSupported(s, i)),
                              frame |-> BytesPerSample(f) * c,
                              period |-> PeriodBytes(BytesPerSample(f) * c),
                              offset |-> 0, tokens |-> <<>>]

\* Each step takes the driver's lock on its own; an error ends the playback.
PlaySetParams ==
    /\ play.pc = "set_params"
    /\ PcmSetParams(snd, play.stream, play.period * 8, play.period, play.format, play.rate)
    /\ play' = [play EXCEPT !.pc = IF sndResult' = "Ok" THEN "prepare" ELSE "done"]

PlayPrepare ==
    /\ play.pc \in {"prepare", "start"}
    /\ PcmCommand(snd)
    /\ play' = [play EXCEPT !.pc = IF sndResult' # "Ok" THEN "done"
                                   ELSE IF @ = "prepare" THEN "start" ELSE "feed"]

\* Fill the window; expect("xfer_nb") makes an error fatal.
PlayFeed ==
    /\ play.pc = "feed"
    /\ IF Len(play.tokens) < IN_FLIGHT /\ play.offset < sndCfg.frames
       THEN /\ PcmXferNb(snd, play.stream, NextFrames(1))
            /\ play' = IF sndResult' = "Ok"
                       THEN [play EXCEPT !.tokens = Append(@, NextToken(tx)), !.offset = @ + 1]
                       ELSE [play EXCEPT !.pc = "panic"]
       ELSE play' = [play EXCEPT !.pc = "events"] /\ UNCHANGED <<sndDrv, tx, txReq, sndDev>>

PlayEvents ==
    /\ play.pc = "events"
    /\ LatestNotification
    /\ play' = [play EXCEPT !.pc = IF sndResult' \in {"None", "IoError"} THEN "acks" ELSE @]

\* Pop completions in the order of the submissions, as many as there are.
PlayAcks ==
    /\ play.pc = "acks"
    /\ IF play.tokens = <<>>
       THEN /\ play' = [play EXCEPT !.pc = IF play.offset < sndCfg.frames THEN "feed" ELSE "stop"]
            /\ UNCHANGED <<sndDrv, tx, txReq, sndDev>>
       ELSE /\ PcmXferOk(Head(play.tokens))
            /\ play' = IF sndResult' = "Ok" THEN [play EXCEPT !.tokens = Tail(@)]
                       ELSE [play EXCEPT !.pc = "feed"]

PlayStop ==
    /\ play.pc \in {"stop", "release"}
    /\ PcmCommand(snd)
    /\ play' = [play EXCEPT !.pc = IF @ = "stop" THEN "release" ELSE "finished"]

PlayNext ==
    \/ PlayQuery \/ PlaySetParams \/ PlayPrepare \/ PlayFeed \/ PlayEvents
    \/ PlayAcks \/ PlayStop

SndDriver == XferAdd \/ XferPop

SndDevice == DevWake \/ DevPlay

SndNext ==
    /\ UNCHANGED sndCfg
    /\ SndDriver \/ SndDevice \/ DevEvent \/ AnyCall \/ PlayNext

\* The driver's and play_pcm_file's loops run on, and so does the device.
SndFairness ==
    /\ WF_sndVars(UNCHANGED sndCfg /\ SndDriver)
    /\ WF_sndVars(UNCHANGED sndCfg /\ SndDevice)
    /\ WF_sndVars(UNCHANGED sndCfg /\ PlayNext)

-----------------------------------------------------------------------------
(* Properties. *)

\* The device plays the frames in the order they were handed over, and when
\* pcm_xfer returns Ok it has played all of them (sound.rs: "will not return
\* until the audio playback is complete").
PlaybackComplete ==
    /\ Faulty \/ IsPrefix(sndDev.played, sndSent)
    /\ sndCall.pc = "idle" /\ tokenBuf = <<>> /\ sndResult # "panic"
          => sndDev.played = sndSent

\* Between calls the device holds no buffer but those kept in token_buf, so
\* pcm_xfer does not return while the device may still write to its statuses.
NothingLeftBehind ==
    sndCall.pc = "idle" => InQueue(tx) = DOMAIN tokenBuf

\* The slots of a running pcm_xfer from tail to head are the requests in the
\* queue, oldest first: no slot is reused while its request is out.
SlotsInStep ==
    sndCall.pc # "idle" =>
        LET out == tx.used \o tx.avail
        IN  /\ sndCall.head = (sndCall.tail + Len(out)) % TxSize
            /\ \A i \in 1..Len(out) :
                 sndCall.tokens[(sndCall.tail + i - 1) % TxSize] = out[i]

\* A format or rate that the capability masks offer is not refused: the flags
\* of the masks and the codes of the requests mean the same.
SupportedAccepted ==
    sndResult = "NotSupp" =>
        /\ sndCfg.client = "pcm_file"
        /\ {5, 15, 17} \cap sndCfg.formats = {} \/ {5, 6, 7} \cap sndCfg.rates = {}

\* Sound that is handed over is played: what the device offers is accepted, no slot of a
\* transfer is used twice, and nothing is skipped or left over.
PlaybackRight == SupportedAccepted /\ SlotsInStep /\ PlaybackComplete

\* A blocking transfer returns.
XferReturns == sndCall.pc # "idle" ~> sndCall.pc = "idle"

\* play_pcm_file comes to its end.
PlayEnds == play.pc = "query" ~> play.pc \in {"done", "finished"}
=============================================================================
