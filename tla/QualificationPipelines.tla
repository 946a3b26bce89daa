---- MODULE QualificationPipelines ----
(***************************************************************************)
(* The two video qualification programs, the Host's capture-and-encode     *)
(* pipeline and the Client's decode-and-present pipeline: separate         *)
(* processes, each with its own threads.  They share no state.             *)
(***************************************************************************)
EXTENDS VideoPipeline, ClientPipeline

\* FramesInOrder and PresentedInOrder: no slot, stamp or sample of either pipeline is
\* overwritten, lost or taken twice between its threads.
FramesKeepOrder == FramesInOrder /\ PresentedInOrder

\* ResourcesNest and ClientReleases: whatever fails, and on whichever thread, each pipeline
\* releases what its Resources or State holds, nothing before what was made from it.  The
\* objects that four failing calls leave in locals (the self test's source; a shader, an
\* image and a texture) are the exception, and the exit status tells of each.
ProbesRelease == ResourcesNest /\ ClientReleases
====
