---------------------------- MODULE MCAssetFlags ----------------------------
(* An address with the qualifiers #TAG and #TAG/#SUB, and a restricted     *)
(* asset that may be frozen there.                                         *)
EXTENDS AssetFlags

MCFlags == {"#TAG", "#TAG/#SUB", "$FROZEN"}

MCQualifiers == {"#TAG", "#TAG/#SUB"}

MCSubs == {"#TAG/#SUB"}

MCRoot == [s \in MCSubs |-> "#TAG"]
=============================================================================
