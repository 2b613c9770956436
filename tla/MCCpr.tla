------------------------------- MODULE MCCpr -------------------------------
(* Eight latitude zones and up to seven of longitude.  The edges are what  *)
(* the closed form of nl gives for NZ = 2 (67.50, 63.78, 57.23, 49.38,     *)
(* 40.06 and 28.12 degrees) in units of 360/1792 degrees.  Of the legs, 8  *)
(* of latitude, and 95, 437 and 3045 of longitude in 7, 4 and 2 zones, are *)
(* as far as the decoder's zone index bears; the last leg is too far.      *)
(* A slip of 3 is the most: an odd bin is 8 units of latitude, an even one *)
(* 7, and no bin of longitude less than 60.                                *)
(* Flights begin beside the edges of longitude zones of every width.       *)
EXTENDS Cpr, TLC

SmallEdge == 2 :> 337 @@ 3 :> 318 @@ 4 :> 285 @@ 5 :> 246 @@ 6 :> 200 @@ 7 :> 140
SmallLegs == {<<8, 0>>, <<-8, 95>>, <<1, -95>>, <<-1, 437>>, <<8, -3045>>, <<10, 110>>}
SmallSlips == {-3, 0, 3}
SmallLons == {0, 29, 30, 31, 1919, 2239, 2688, 3360, 4479, 6719, 6720, 13439}
SmallXz == {0, 1, 15, 16, 31}
=============================================================================
