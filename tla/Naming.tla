------------------------------- MODULE Naming -------------------------------
(***************************************************************************)
(* The element names of src/stream/naming.rs and what the bus watch makes  *)
(* of them: src/stream/bus.rs walks from the source of an error to the     *)
(* top of the pipeline, and the names it meets decide between reaping one  *)
(* viewer and quitting the run of all of them.                             *)
(*                                                                         *)
(* A name is the sequence of what it is put together from: a core name is  *)
(* its stem alone, a branch name is a stem, the dash and the id.           *)
(***************************************************************************)
EXTENDS Integers, Sequences

CONSTANTS Ids, NoId

ASSUME IdAssumption == NoId \notin Ids

DEMUX == "demux"
VIDEO_QUEUE == "video-queue"
AUDIO_QUEUE == "audio-queue"
OUTPUT_TEE_VIDEO == "output_tee_video"
OUTPUT_TEE_AUDIO == "output_tee_audio"
SRT_SOURCE == "srt_source"
WHIP_SINK_STEM == "whip-sink"
VIDEO_DECODER_STEM == "avdec-h264"

CoreStems == {DEMUX, VIDEO_QUEUE, AUDIO_QUEUE, OUTPUT_TEE_VIDEO, OUTPUT_TEE_AUDIO, SRT_SOURCE}
BranchStems == {WHIP_SINK_STEM, VIDEO_QUEUE, AUDIO_QUEUE, VIDEO_DECODER_STEM}

\* What a branch adds to the pipeline, by the stem it is named after.
Stem == [sink |-> WHIP_SINK_STEM, vqueue |-> VIDEO_QUEUE,
         aqueue |-> AUDIO_QUEUE, decoder |-> VIDEO_DECODER_STEM]
Parts == {"sink", "vqueue", "aqueue", "decoder"}

\* video_queue_name(id) and its like.
BranchName(part, id) == <<Stem[part], "-", id>>
\* A core element, and anything GStreamer names by itself.
CoreName(stem) == <<stem>>

\* A mutant: the dash is optional, as if stripping the stem were enough.
Mutant_DashOptional(name) ==
    {id \in Ids : \E stem \in BranchStems : name \in {<<stem>>, <<stem, "-", id>>}}

\* branch_id_from_name: at most one id, none for a core element.
BranchIdFromName(name) ==
    {id \in Ids : \E stem \in BranchStems : name = <<stem, "-", id>>}

Quit == [action |-> "quit", id |-> NoId]
ReapBranch(id) == [action |-> "reap", id |-> id]

\* A mutant: only the source's own name is looked at.
Mutant_ClassifySourceOnly(chain) ==
    LET ids == BranchIdFromName(chain[1])
    IN  IF ids = {} THEN Quit ELSE ReapBranch(CHOOSE id \in ids : TRUE)

\* classify_bus_message for an error: `chain` holds the names of the source
\* and of its ancestors, the first branch name among them decides.
Classify(chain) ==
    LET Named(i) == BranchIdFromName(chain[i]) # {}
        first == CHOOSE i \in 1..Len(chain) : Named(i) /\ \A j \in 1..(i - 1) : ~Named(j)
    IN  IF \A i \in 1..Len(chain) : ~Named(i) THEN Quit
        ELSE ReapBranch(CHOOSE id \in BranchIdFromName(chain[first]) : TRUE)
=============================================================================
