------------------------------- MODULE GopMode -------------------------------
(***************************************************************************)
(* The picture-group policy shared by the AV2 and the VVC encoder          *)
(* (codecs/settings.rs, GopMode).  Gop is the value of the "gop" setting:  *)
(*    0   IntraOnly: every frame is coded without temporal prediction,     *)
(*   -1   Infinite:  frame 0 is intra, every later frame is predictive,    *)
(*    n   Fixed(n):  an intra frame every n frames.                        *)
(***************************************************************************)
EXTENDS Integers

CONSTANT Gop

GopAssumption == Gop \in Int /\ Gop >= -1
ASSUME GopAssumption

IsPredictive == Gop # 0

IsIntraFrame(index) ==
    \/ Gop = 0
    \/ Gop = -1 /\ index = 0
    \/ Gop > 0 /\ index % Gop = 0

IsPredictiveFrame(index) == IsPredictive /\ ~IsIntraFrame(index)

ResetsReferencesBefore(index) == index = 0 \/ IsIntraFrame(index)
=============================================================================
