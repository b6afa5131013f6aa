------------------------------ MODULE MCBitmap ------------------------------
(* Bitmaps of elements of two words of two bits. *)
EXTENDS Bitmap

TwelveBits == 0..11
SomeSets == {{}, {0}, {1, 2}, {3, 4}, {0, 5, 10}, {6, 7, 8}, {11}}
=============================================================================
