------------------------------ MODULE MCSdCard ------------------------------
(***************************************************************************)
(* The cards of the model-checking run: one of each kind.                  *)
(***************************************************************************)
EXTENDS SdCard

CONSTANTS hc, sc, v1

OneOfEach == [c \in {hc, sc, v1} |-> IF c = hc THEN "SDHC" ELSE IF c = sc THEN "SDSC" ELSE "V1"]

\* Sector 1 is of the FAT.
OneCopy == [s \in {1} |-> 3]

\* A command is killed anywhere but while it initializes the card or fills the
\* window.
Killable == PCs \ (Initializing \cup {"idle", "rdData"})
=============================================================================
