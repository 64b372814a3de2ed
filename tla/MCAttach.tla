------------------------------ MODULE MCAttach ------------------------------
(* Instances of Attach for TLC. *)
EXTENDS Attach, TLC

CONSTANTS note, video

\* A note rides inline; the ciphertext of a video is two chunks.
MCFiles == {note, video}
MCChunks == note :> <<>> @@ video :> <<2, 1>>
=============================================================================
