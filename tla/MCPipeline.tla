------------------------------ MODULE MCPipeline ------------------------------
(***************************************************************************)
(* Instances of StreamPipeline for TLC.                                    *)
(***************************************************************************)
EXTENDS StreamPipeline

VideoFile == <<"video", "video">>
BothFile  == <<"video", "audio">>
LongFile  == <<"audio", "video", "video", "video">>
================================================================================
