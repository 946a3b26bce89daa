---- MODULE SharedBuffers ----
(***************************************************************************)
(* The three pieces of memory a real-time thread of the Host's devices     *)
(* reads while another thread or process overwrites them: the virtual      *)
(* microphone's history, the audio tap's ring and the virtual camera's     *)
(* slots.  They share no state and run side by side.                       *)
(***************************************************************************)
EXTENDS MicBuffer, TapBuffer, CameraLink

\* MicReadCurrent, TapContiguous and CameraRecordsWhole: what a real-time thread reads
\* from memory another thread or process overwrites is whole, in order and current,
\* however far the writer gets while it reads.
SharedBuffersSound == MicReadCurrent /\ TapContiguous /\ CameraRecordsWhole
====
