--------------------------- MODULE DanmuPipeline ---------------------------
(***************************************************************************)
(* The pipeline of commands from the frame to the tables.  What the codec  *)
(* finds in a frame does not depend on what the pipeline holds, nor does   *)
(* the codec look at it: frames are unpacked in behaviours of their own,   *)
(* in which no room sends a command the pipeline handles.                  *)
(***************************************************************************)
EXTENDS ViewerPipeline, Codec

PipelineInit == ViewerPipelineInit /\ CodecInit
PipelineNext ==
  \/ sent = {} /\ CodecNext /\ UNCHANGED <<vars, viewerVars>>
  \/ ViewerPipelineNext /\ UNCHANGED calls
PipelineSpec ==
  /\ PipelineInit /\ [][PipelineNext]_<<vars, viewerVars, calls>>
  /\ WF_<<vars, viewerVars>>(ViewerWorkerStep)
=============================================================================
