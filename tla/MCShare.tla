------------------------------ MODULE MCShare ------------------------------
(* Small instances, for TLC, of the parts a share consists of.  They share *)
(* no state: in each behaviour one of them runs and the others rest.       *)
EXTENDS Pictures, Steer, Annexb, Packer, Pacer, Capture, Engine, Native

CONSTANTS kim, lee

VARIABLE part

MCSeconds == {<<9, 1>>, <<49, 1>>, <<1, 1>>}

\* The end of one start code may be the beginning of another.
MCPieces == {<<0, 0, 1>>, <<0>>, <<1>>, <<5>>, <<7>>}

\* A keyframe's slice, two of others, one with what would be a start code but
\* for the three, and a message.
MCNals == {<<101, 0>>, <<65, 0, 0, 3, 1, 5>>, <<65>>, <<6, 0, 3>>}
MCParameterSets == <<<<103, 1>>, <<104>>>>

Parted == {"pictures", "steer", "annexb", "packer", "pacer", "capture", "engine", "native"}

MCInit ==
    /\ PicturesInit /\ SteerInit /\ AnnexbInit /\ PackerInit
    /\ PacerInit /\ CaptureInit /\ EngineInit /\ NativeInit
    /\ part \in Parted
    /\ part # "steer" => kbps = 1000
    /\ part # "native" => encoded.units = <<>>
    /\ part # "pacer" => perByte = PerByte(1000)

MCNext ==
    \/ /\ part = "pictures" /\ PicturesNext
       /\ UNCHANGED <<part, steerVars, annexbVars, packerVars, pacerVars, captureVars, engineVars, nativeVars>>
    \/ /\ part = "steer" /\ SteerNext
       /\ UNCHANGED <<part, pictureVars, annexbVars, packerVars, pacerVars, captureVars, engineVars, nativeVars>>
    \/ /\ part = "annexb" /\ AnnexbNext
       /\ UNCHANGED <<part, pictureVars, steerVars, packerVars, pacerVars, captureVars, engineVars, nativeVars>>
    \/ /\ part = "packer" /\ PackerNext
       /\ UNCHANGED <<part, pictureVars, steerVars, annexbVars, pacerVars, captureVars, engineVars, nativeVars>>
    \/ /\ part = "pacer" /\ PacerNext
       /\ UNCHANGED <<part, pictureVars, steerVars, annexbVars, packerVars, captureVars, engineVars, nativeVars>>
    \/ /\ part = "capture" /\ CaptureNext
       /\ UNCHANGED <<part, pictureVars, steerVars, annexbVars, packerVars, pacerVars, engineVars, nativeVars>>
    \/ /\ part = "engine" /\ EngineNext
       /\ UNCHANGED <<part, pictureVars, steerVars, annexbVars, packerVars, pacerVars, captureVars, nativeVars>>
    \/ /\ part = "native" /\ NativeNext
       /\ UNCHANGED <<part, pictureVars, steerVars, annexbVars, packerVars, pacerVars, captureVars, engineVars>>

allVars == <<part, pictureVars, steerVars, annexbVars, packerVars, pacerVars, captureVars, engineVars, nativeVars>>

\* The fairness of the parts that state one, for the part that runs.
MCFairness ==
    /\ WF_steerVars(part = "steer" /\ Decide) /\ WF_steerVars(part = "steer" /\ Keyframe)
    /\ \A u \in Viewers : /\ WF_steerVars(part = "steer" /\ ReportQuality(u))
                         /\ WF_steerVars(part = "steer" /\ Forward(u))
    /\ WF_captureVars(part = "capture" /\ FeedOutput) /\ WF_captureVars(part = "capture" /\ StoreOutput)
    /\ WF_captureVars(part = "capture" /\ Beat) /\ WF_captureVars(part = "capture" /\ FeedAgain)
    /\ WF_captureVars(part = "capture" /\ OnEncoded) /\ WF_captureVars(part = "capture" /\ SendPicture)
    /\ WF_captureVars(part = "capture" /\ Tick)
    /\ WF_engineVars(part = "engine" /\ Starting) /\ WF_engineVars(part = "engine" /\ Ending)
    /\ \A p \in Parts : /\ WF_engineVars(part = "engine" /\ Receive(p))
                       /\ WF_engineVars(part = "engine" /\ Work(p))

MCSpec == MCInit /\ [][MCNext]_allVars /\ MCFairness

(* However a pipe cuts its bytes up, the same pictures and samples come    *)
(* out of it, all once and in order, as they do from the native engine's   *)
(* buffers; however the pictures come, no burst of them goes out; what a   *)
(* watcher decodes is whole and what it never sees is accounted for; the   *)
(* rate follows the governor; and nothing of a share outlives it.          *)
(* (Annexb::feed, audio.rs pump, did_hear, Pacer::take, Tap::feed,         *)
(* steer_share, Drop for Share)                                            *)
ShareSound ==
    /\ SamePictures /\ NoSplice /\ HandedOver /\ NoBurst
    /\ Accounted /\ RateFollows /\ NothingRunsOn

=============================================================================
