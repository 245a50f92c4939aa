----------------------------- MODULE Recording -----------------------------
(***************************************************************************)
(* Recording the remote picture.  A triple tap sends the other device a    *)
(* command; its MediaOutput starts or stops an AVAssetWriter and it answers *)
(* what it was told.  Either user may tap: isRecording is one flag for what *)
(* a device records and for what it has the other one record.              *)
(*                                                                         *)
(* Packets travel in a GameKit channel that neither loses nor reorders     *)
(* them.  One device, the recorder, is modelled in full: its main thread   *)
(* executes commands, the global queue runs the blocks stopRecord          *)
(* dispatches, and AVFoundation calls the completion handlers on a thread  *)
(* of its own: they interleave.  The audio unit's thread hands every buffer *)
(* it records to didReceiveAudioBuffer.  The camera's thread only reads the *)
(* state.  Of the other device, the viewer, whose MediaOutput works alike  *)
(* and changes nothing here, the flag and the answers are shown.           *)
(***************************************************************************)
EXTENDS Naturals, Sequences, FiniteSets

CONSTANT MaxTaps   \* bound: triple taps of both users

ASSUME MaxTapsAssumption == MaxTaps \in Nat

VARIABLES
    taps,                    \* triple taps so far
    crossed,                 \* history: a user tapped while what came of a tap
                             \* of the other was still on its way
    showing,                 \* the viewer's isRecording
    toRecorder, toViewer,    \* the packets on their way
    isRecording,             \* the recorder's isRecording
    ordered,                 \* history: the last command it has executed
    main,                    \* what the recorder's main thread is about to do
    state,                   \* _state of its MediaOutput
    refused,                 \* an input could not be added to the writer
    writer,                  \* mAssetWriter: nil, ready, writing or finishing
    mAudioInput,             \* there is one and the writer has it
    mAudioFormatDescription, \* there is one
    stopBlocks,              \* blocks of stopRecord not run yet
    finishing,               \* blocks that have set the state
    handlers,                \* completion handlers AVFoundation is to call
    resets,                  \* handlers within reset
    audio,                   \* the audio thread has passed the checks
    aborted                  \* an assertion or an exception has ended the app

viewer == <<taps, crossed, showing>>
underway == <<toRecorder, toViewer>>
flags == <<isRecording, ordered>>
media == <<state, refused, writer, mAudioInput, mAudioFormatDescription>>
blocks == <<stopBlocks, finishing, handlers, resets>>
recordingvars == <<viewer, underway, flags, main, media, blocks, audio, aborted>>

RecordingInit ==
    /\ taps = 0 /\ crossed = FALSE /\ showing = FALSE
    /\ toRecorder = << >> /\ toViewer = << >>
    /\ isRecording = FALSE /\ ordered = FALSE
    /\ main = "idle"
    /\ state = "Null" /\ refused = FALSE /\ writer = "nil"
    /\ mAudioInput = FALSE /\ mAudioFormatDescription = FALSE
    /\ stopBlocks = 0 /\ finishing = 0 /\ handlers = 0 /\ resets = 0
    /\ audio = FALSE
    /\ aborted = FALSE

Messages == [isResponse : BOOLEAN, value : BOOLEAN]
Command(value) == [isResponse |-> FALSE, value |-> value]
Response(value) == [isResponse |-> TRUE, value |-> value]

CommandsIn(messages) == {i \in 1 .. Len(messages) : ~messages[i].isResponse}
ResponsesIn(messages) == {i \in 1 .. Len(messages) : messages[i].isResponse}

\* What comes of a tap of the viewer's user, and of the recorder's.
ViewersTurn == CommandsIn(toRecorder) # {} \/ main # "idle" \/ ResponsesIn(toViewer) # {}
RecordersTurn == CommandsIn(toViewer) # {} \/ ResponsesIn(toRecorder) # {}

-----------------------------------------------------------------------------
(* The viewer.                                                              *)

\* onTripleTap of the viewer.
TripleTap ==
    /\ ~aborted
    /\ taps < MaxTaps
    /\ taps' = taps + 1
    /\ toRecorder' = Append(toRecorder, Command(~showing))
    /\ crossed' = (crossed \/ RecordersTurn)
    /\ UNCHANGED <<showing, toViewer, flags, main, media, blocks, audio, aborted>>

\* remoteRecordStarted of the viewer.
RemoteRecordStarted ==
    /\ ~aborted
    /\ toViewer # << >> /\ Head(toViewer).isResponse
    /\ showing' = Head(toViewer).value
    /\ toViewer' = Tail(toViewer)
    /\ UNCHANGED <<taps, crossed, toRecorder, flags, main, media, blocks, audio, aborted>>

\* startRecord of the viewer, but for its MediaOutput: the answer does not
\* depend on it.
ViewerCommanded ==
    /\ ~aborted
    /\ toViewer # << >> /\ ~Head(toViewer).isResponse
    /\ showing' = Head(toViewer).value
    /\ toViewer' = Tail(toViewer)
    /\ toRecorder' = Append(toRecorder, Response(showing'))
    /\ UNCHANGED <<taps, crossed, flags, main, media, blocks, audio, aborted>>

-----------------------------------------------------------------------------
(* The recorder's main thread.                                              *)

\* onTripleTap of the recorder.
RecorderTaps ==
    /\ ~aborted
    /\ main = "idle"
    /\ taps < MaxTaps
    /\ taps' = taps + 1
    /\ toViewer' = Append(toViewer, Command(~isRecording))
    /\ crossed' = (crossed \/ ViewersTurn)
    /\ UNCHANGED <<showing, toRecorder, flags, main, media, blocks, audio, aborted>>

\* remoteRecordStarted of the recorder: its MediaOutput is not asked.
ViewerRecordStarted ==
    /\ ~aborted
    /\ main = "idle"
    /\ toRecorder # << >> /\ Head(toRecorder).isResponse
    /\ isRecording' = Head(toRecorder).value
    /\ toRecorder' = Tail(toRecorder)
    /\ UNCHANGED <<viewer, toViewer, ordered, main, media, blocks, audio, aborted>>

\* startRecord of the VideoViewController.
CommandReceived ==
    /\ ~aborted
    /\ main = "idle"
    /\ toRecorder # << >> /\ ~Head(toRecorder).isResponse
    /\ isRecording' = Head(toRecorder).value
    /\ ordered' = Head(toRecorder).value
    /\ toRecorder' = Tail(toRecorder)
    /\ main' = IF Head(toRecorder).value THEN "setup" ELSE "stop"
    /\ UNCHANGED <<viewer, toViewer, media, blocks, audio, aborted>>

\* setupWithFilePath, refused while a recording is being finalized.
SetupRefused ==
    /\ ~aborted
    /\ main = "setup"
    /\ state = "Finalizing"
    /\ main' = "start"
    /\ UNCHANGED <<viewer, underway, flags, media, blocks, audio, aborted>>

\* The state is checked, and not again.
SetupAllowed ==
    /\ ~aborted
    /\ main = "setup"
    /\ state # "Finalizing"
    /\ main' = "replace"
    /\ UNCHANGED <<viewer, underway, flags, media, blocks, audio, aborted>>

\* setupWithFilePath up to the inputs: a new writer and new inputs take the
\* place of those there are.  The writer may refuse an input; where there can
\* be no writer, nil refuses both.
SetupWriter(inputs) ==
    /\ ~aborted
    /\ main = "replace"
    /\ writer' = IF inputs = "none" THEN "nil" ELSE "ready"
    /\ refused' = (inputs # "both")
    /\ state' = IF refused' THEN "Error" ELSE state
    /\ mAudioInput' = (inputs \in {"both", "audio"})
    /\ mAudioFormatDescription' = (mAudioFormatDescription \/ mAudioInput')
    /\ main' = "loaded"
    /\ UNCHANGED <<viewer, underway, flags, blocks, audio, aborted>>

\* The end of setupWithFilePath.
SetupLoaded ==
    /\ ~aborted
    /\ main = "loaded"
    /\ state' = "Loaded"
    /\ main' = "start"
    /\ UNCHANGED <<viewer, underway, flags, refused, writer, mAudioInput,
                   mAudioFormatDescription, blocks, audio, aborted>>

Respond ==
    /\ toViewer' = Append(toViewer, Response(isRecording))
    /\ main' = "idle"

\* startRecord of the MediaOutput; the answer does not depend on its result.
StartRecord ==
    /\ ~aborted
    /\ main = "start"
    /\ IF state = "Loaded"
       THEN /\ state' = "Running"
            /\ writer' = IF writer = "ready" THEN "writing" ELSE writer
       ELSE UNCHANGED <<state, writer>>
    /\ Respond
    /\ UNCHANGED <<viewer, toRecorder, flags, refused, mAudioInput,
                   mAudioFormatDescription, blocks, audio, aborted>>

\* Mutant of StopRecord: nothing is answered when there is nothing to stop.
StopRecordQuiet ==
    /\ ~aborted
    /\ main = "stop"
    /\ IF state = "Running"
       THEN stopBlocks' = stopBlocks + 1 /\ Respond
       ELSE main' = "idle" /\ UNCHANGED <<stopBlocks, toViewer>>
    /\ UNCHANGED <<viewer, toRecorder, flags, media, finishing, handlers,
                   resets, audio, aborted>>

\* stopRecord of the MediaOutput; the answer does not depend on its result.
StopRecord ==
    /\ ~aborted
    /\ main = "stop"
    /\ stopBlocks' = IF state = "Running" THEN stopBlocks + 1 ELSE stopBlocks
    /\ Respond
    /\ UNCHANGED <<viewer, toRecorder, flags, media, finishing, handlers,
                   resets, audio, aborted>>

-----------------------------------------------------------------------------
(* The other threads of the recorder.                                       *)

\* Mutant of StopBlockBegins: a block that finds no writer returns.
StopBlockBeginsChecked ==
    /\ ~aborted
    /\ stopBlocks > 0
    /\ stopBlocks' = stopBlocks - 1
    /\ IF writer = "nil"
       THEN UNCHANGED <<state, finishing>>
       ELSE state' = "Finalizing" /\ finishing' = finishing + 1
    /\ UNCHANGED <<viewer, underway, flags, main, refused, writer,
                   mAudioInput, mAudioFormatDescription, handlers, resets,
                   audio, aborted>>

\* The block of stopRecord: it is only here that the state changes.
StopBlockBegins ==
    /\ ~aborted
    /\ stopBlocks > 0
    /\ stopBlocks' = stopBlocks - 1
    /\ state' = "Finalizing"
    /\ finishing' = finishing + 1
    /\ UNCHANGED <<viewer, underway, flags, main, refused, writer,
                   mAudioInput, mAudioFormatDescription, handlers, resets,
                   audio, aborted>>

\* finishWritingWithCompletionHandler.  Sent to nil it does nothing; a writer
\* that is not writing, or no more, raises an exception.
FinishWriting ==
    /\ ~aborted
    /\ finishing > 0
    /\ finishing' = finishing - 1
    /\ \/ /\ writer = "writing"
          /\ writer' = "finishing"
          /\ handlers' = handlers + 1
          /\ UNCHANGED aborted
       \/ /\ writer = "nil"
          /\ UNCHANGED <<writer, handlers, aborted>>
       \/ /\ writer \in {"ready", "finishing"}
          /\ aborted' = TRUE
          /\ UNCHANGED <<writer, handlers>>
    /\ UNCHANGED <<viewer, underway, flags, main, state, refused,
                   mAudioInput, mAudioFormatDescription, stopBlocks, resets,
                   audio>>

\* The completion handler saves the file and begins to reset.
CompletionHandler ==
    /\ ~aborted
    /\ handlers > 0
    /\ handlers' = handlers - 1
    /\ state' = "Null"
    /\ resets' = resets + 1
    /\ UNCHANGED <<viewer, underway, flags, main, refused, writer,
                   mAudioInput, mAudioFormatDescription, stopBlocks, finishing,
                   audio, aborted>>

\* The rest of reset.
ResetRest ==
    /\ ~aborted
    /\ resets > 0
    /\ resets' = resets - 1
    /\ writer' = "nil"
    /\ mAudioInput' = FALSE
    /\ mAudioFormatDescription' = FALSE
    /\ UNCHANGED <<viewer, underway, flags, main, state, refused,
                   stopBlocks, finishing, handlers, audio, aborted>>

\* didReceiveAudioBuffer, the two conditions under which it returns.
AudioBufferReceived ==
    /\ ~aborted
    /\ ~audio
    /\ state = "Running" /\ mAudioInput /\ writer = "writing"
    /\ audio' = TRUE
    /\ UNCHANGED <<viewer, underway, flags, main, media, blocks, aborted>>

\* didReceiveAudioBuffer, the assertion and what follows it.
AudioBufferAppended ==
    /\ ~aborted
    /\ audio
    /\ audio' = FALSE
    /\ aborted' = ~mAudioFormatDescription
    /\ UNCHANGED <<viewer, underway, flags, main, media, blocks>>

ViewerNext == RemoteRecordStarted \/ ViewerCommanded

MainNext ==
    \/ ViewerRecordStarted
    \/ CommandReceived
    \/ SetupRefused
    \/ SetupAllowed
    \/ \E inputs \in {"both", "video", "audio", "none"} : SetupWriter(inputs)
    \/ SetupLoaded
    \/ StartRecord
    \/ StopRecord

StopNext == StopBlockBegins \/ FinishWriting

RecordingNext ==
    \/ TripleTap
    \/ RecorderTaps
    \/ ViewerNext
    \/ MainNext
    \/ StopNext
    \/ CompletionHandler
    \/ ResetRest
    \/ AudioBufferReceived
    \/ AudioBufferAppended

\* The run loops of both devices, the global queue and AVFoundation go on;
\* nobody has to tap.
RecordingFairness ==
    /\ WF_recordingvars(ViewerNext)
    /\ WF_recordingvars(MainNext)
    /\ WF_recordingvars(StopNext)
    /\ WF_recordingvars(CompletionHandler)
    /\ WF_recordingvars(ResetRest)
    /\ WF_recordingvars(AudioBufferAppended)

RecordingSpec == RecordingInit /\ [][RecordingNext]_recordingvars /\ RecordingFairness

-----------------------------------------------------------------------------
Flags ==
    /\ showing \in BOOLEAN /\ isRecording \in BOOLEAN /\ refused \in BOOLEAN
    /\ crossed \in BOOLEAN /\ ordered \in BOOLEAN
    /\ mAudioInput \in BOOLEAN /\ mAudioFormatDescription \in BOOLEAN
    /\ audio \in BOOLEAN /\ aborted \in BOOLEAN
    /\ toRecorder \in Seq(Messages) /\ toViewer \in Seq(Messages)
    /\ main \in {"idle", "setup", "replace", "loaded", "start", "stop"}
    /\ state \in {"Null", "Loaded", "Running", "Finalizing", "Error"}
    /\ writer \in {"nil", "ready", "writing", "finishing"}

\* What is under way on account of a tap, from its command to the reset it
\* leads to: blocks and handlers do not multiply.
Executing == IF main = "idle" THEN 0 ELSE 1
Stopping == stopBlocks + finishing + handlers + resets

Counters ==
    /\ taps \in 0 .. MaxTaps
    /\ stopBlocks \in Nat /\ finishing \in Nat /\ handlers \in Nat /\ resets \in Nat
    /\ Cardinality(CommandsIn(toRecorder)) + Executing + Stopping <= taps

RecordingTypeOK == Flags /\ Counters

\* However fast either user taps, and the users by turns, whether or not
\* MediaOutput does what it is told: when all packets have arrived, both devices
\* say the same of the recording, as long as no user has tapped before all had
\* come of the other's taps.
DevicesAgree ==
    toRecorder = << >> /\ toViewer = << >> /\ main = "idle" /\ ~crossed
        => showing = isRecording

\* Once the last command was to stop, recording ends, whoever else taps for
\* whatever: whichever blocks and handlers of earlier recordings are still under
\* way, none of them lets a stop get lost.
StopsInTheEnd ==
    <>[]~ordered => <>[](aborted \/ state # "Running")

\* Does not hold: taps of both users may cross, and each device ends with what
\* the other had (VideoViewController.mm:199 sends the opposite of what is shown,
\* :330 and :346 show what comes).
AgreeWhenCrossed ==
    toRecorder = << >> /\ toViewer = << >> /\ main = "idle" => showing = isRecording

\* Does not hold: the recorder's flag turns false with the viewer's answer to a
\* tap of the recorder's user, and its own recording goes on ("Remote record
\* STOPPED", VideoViewController.mm:331).
StopsWhenShown == <>[]~isRecording => <>[](aborted \/ state # "Running")

\* Does not hold: the second of two stop blocks finds no writer, so that no
\* handler resets the state ("Happy end!", MediaOutput.mm:99), and every set-up
\* is refused from then on (:52).
FinalizingEnds == <>[](taps = MaxTaps) => <>[](aborted \/ state # "Finalizing")

\* Does not hold: reset runs on another thread than the audio callback.
\* MediaOutput.mm:265, assert(mAudioFormatDescription): a buffer that has
\* passed the checks finds the description of its format.
AudioFormatAsserted == audio => mAudioFormatDescription

\* Does not hold: the end of the set-up overwrites MS_Error.
\* MediaOutput.h:13, "MS_Error, // can't load/play": a writer that could not be
\* loaded does not run.
ErrorNeverRuns == state = "Running" => ~refused
=============================================================================
