--------------------------- MODULE MCConversions ---------------------------
(***************************************************************************)
(* Readings on both sides of every boundary of the conversions: the hours, *)
(* the sizes, the halves, the ends of the 16-bit range, and the first      *)
(* readings that the floats of a sensor round the wrong way.               *)
(***************************************************************************)
EXTENDS Conversions

Boundaries ==
    {3600 * h : h \in {0, 1, 2, 3, 24, 32766, 32767, 32768}}
      \cup {1024 * s : s \in Sizes}
      \cup {1536, 5 * 1024, 60000, 131072, 5000 * 1024}
      \cup {1000 * x + 500 : x \in {-32769, -32768, -3, -1, 0, 1, 44, 32766, 32767}}
      \cup {-32768, 32767, 65535}
      \cup {10774500, -10774500, 16383500, 16384500, -16384500, 21546500,
            16777217, 16777219, 32768000, -32768000}

MCSamples == {b + d : b \in Boundaries, d \in -2 .. 2}
=============================================================================
