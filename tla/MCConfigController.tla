-------------------------- MODULE MCConfigController ---------------------------
(* Values of the constants of ConfigController for TLC. *)
EXTENDS ConfigController

CONSTANTS plain, files, broken, s1

\* A Spec without SecretFiles, one with a file from s1, one that is not valid.
ThreeContents == {plain, files, broken}
TwoValid == {plain, files}
FilesUseSource == [c \in Content |-> IF c = files THEN {s1} ELSE {}]

================================================================================
