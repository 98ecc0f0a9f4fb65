----------------------------- MODULE MCGpuSlot -----------------------------
(* A small instance of GpuSlot: a 16 GB card, the default requirements, a   *)
(* TTS job that runs in its worker's process, and a transcription on CUDA.  *)
EXTENDS GpuSlot

CONSTANTS lipsync, tts

Two == {lipsync, tts}
Latents == Jobs \cap {lipsync}
NeedOf == [j \in Jobs |-> IF j = lipsync THEN 14 ELSE 6]
OnlyTts == Jobs \cap {tts}
SizeOf == [m \in Models |-> IF m = "asr" THEN 3 ELSE 5]
OnlyAsr == {"asr"}
=============================================================================
