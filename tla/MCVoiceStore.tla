---------------------------- MODULE MCVoiceStore ----------------------------
(* Small instances of VoiceStore. The first block of the .onnx file is its *)
(* first 5 MB and that of the .json file its first 100 bytes: the worker's *)
(* check asks for 5 MB and for more than 100 bytes, its download for 5 MB  *)
(* and for 100 bytes, the script for nearly the whole model and for 100    *)
(* bytes.                                                                  *)
EXTENDS VoiceStore, TLC

WorkerMinima   == <<1, 2>>
DownloadMinima == <<1, 1>>
ScriptMinima   == <<2, 1>>

WorkerSymmetry == Permutations(Workers)
=============================================================================
